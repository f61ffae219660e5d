---------------------------- MODULE ReputationSync ----------------------------
(***************************************************************************)
(* The reputation service as a write-behind cache: reputation/service.go.   *)
(*                                                                         *)
(* Each replica answers from a local cache.  A call that changes a score    *)
(* does so under the mutex, releases it, and only then offers the new score *)
(* to a bounded channel.  One goroutine, writeLoop, takes requests from the *)
(* channel, keeps one per key in pending, and writes pending to the shared  *)
(* storage; another, refreshLoop, reads the storage and overwrites the      *)
(* cache.  What a score contains is abstracted to its version and its       *)
(* archival flag; how signals change its value is the module               *)
(* ReputationScore.                                                         *)
(***************************************************************************)
EXTENDS Integers, Sequences, FiniteSets, SequencesExt

CONSTANTS
  Replicas,       \* PATH instances sharing the storage
  Keys,           \* endpoint keys
  NoScore,        \* no entry for the key
  BufferSize,     \* SyncConfig.WriteBufferSize, the capacity of writeCh
  MaxVersions,    \* bound: score changes in a behaviour
  MaxDisruptions  \* bound: storage calls that fail, and stops

ASSUME SyncAssumption ==
  /\ BufferSize \in Nat \ {0} /\ MaxVersions \in Nat /\ MaxDisruptions \in Nat
  /\ NoScore \notin [ver : Nat, archival : BOOLEAN]

VARIABLES
  cache,          \* service.cache
  archivalIndex,  \* service.archivalIndex
  sends,          \* score changes made, not yet offered to writeCh
  writeCh,        \* the channel
  pending,        \* writeLoop's map of requests to flush
  syncSets,       \* archival writes about to be made synchronously
  recovering,     \* keys a reader found eligible for recovery
  fetched,        \* scores IsArchivalCapable has read from storage
  snapshot,       \* the storage contents a refresh under way has read
  phase,          \* "running", "stopping" (stopCh closed), "flushing", "stopped"
  storage,        \* the shared store
  version,        \* score changes so far
  failures,       \* storage calls that failed so far
  received,       \* history: the requests writeLoop received since its last flush
  owed            \* history: the requests accepted before Stop and not yet flushed

service == <<cache, archivalIndex, sends, writeCh, pending, syncSets, recovering,
             fetched, snapshot, phase>>
history == <<received, owed>>
vars == <<service, storage, version, failures, history>>

Score == [ver : 1 .. MaxVersions, archival : BOOLEAN]
MaybeScore == Score \cup {NoScore}
Request == [key : Keys, score : Score, archivalCall : BOOLEAN]

TypeOK ==
  /\ cache \in [Replicas -> [Keys -> MaybeScore]]
  /\ archivalIndex \in [Replicas -> SUBSET Keys]
  /\ sends \in [Replicas -> SUBSET Request]
  /\ writeCh \in [Replicas -> Seq(Request)]
  /\ \A r \in Replicas : Len(writeCh[r]) <= BufferSize
  /\ pending \in [Replicas -> [Keys -> MaybeScore]]
  /\ syncSets \in [Replicas -> SUBSET Request]
  /\ recovering \in [Replicas -> SUBSET Keys]
  /\ fetched \in [Replicas -> [Keys -> MaybeScore]]
  /\ snapshot \in [Replicas -> SUBSET [Keys -> MaybeScore]]
  /\ phase \in [Replicas -> {"running", "stopping", "flushing", "stopped"}]
  /\ storage \in [Keys -> MaybeScore]
  /\ version \in 0 .. MaxVersions /\ failures \in 0 .. MaxDisruptions

Empty == [k \in Keys |-> NoScore]

Init ==
  /\ cache = [r \in Replicas |-> Empty]
  /\ archivalIndex = [r \in Replicas |-> {}]
  /\ sends = [r \in Replicas |-> {}]
  /\ writeCh = [r \in Replicas |-> << >>]
  /\ pending = [r \in Replicas |-> Empty]
  /\ syncSets = [r \in Replicas |-> {}]
  /\ recovering = [r \in Replicas |-> {}]
  /\ fetched = [r \in Replicas |-> Empty]
  /\ snapshot = [r \in Replicas |-> {}]
  /\ phase = [r \in Replicas |-> "running"]
  /\ storage = Empty /\ version = 0 /\ failures = 0
  /\ received = [r \in Replicas |-> << >>] /\ owed = [r \in Replicas |-> {}]

Stops == Cardinality({r \in Replicas : phase[r] # "running"})
MayDisrupt == failures + Stops < MaxDisruptions
Fail == failures < MaxDisruptions /\ MayDisrupt /\ failures' = failures + 1

-----------------------------------------------------------------------------
(* Calls that change a score                                                *)

\* Mutation: the index only ever gains keys.
setScoreLockedNoDelete(r, k, score) ==
  /\ cache' = [cache EXCEPT ![r][k] = score]
  /\ archivalIndex' = IF score.archival
                      THEN [archivalIndex EXCEPT ![r] = @ \cup {k}]
                      ELSE archivalIndex

\* setScoreLocked: the cache entry and the index of archival keys together.
setScoreLocked(r, k, score) ==
  /\ cache' = [cache EXCEPT ![r][k] = score]
  /\ archivalIndex' = [archivalIndex EXCEPT ![r] =
                         IF score.archival THEN @ \cup {k} ELSE @ \ {k}]

\* A new score is stored under the mutex; the caller still has to offer it to
\* writeCh.
Change(r, k, archival, archivalCall) ==
  LET score == [ver |-> version + 1, archival |-> archival]
  IN /\ version < MaxVersions /\ version' = version + 1
     /\ setScoreLocked(r, k, score)
     /\ sends' = [sends EXCEPT ![r] = @ \cup
                    {[key |-> k, score |-> score, archivalCall |-> archivalCall]}]

\* RecordSignal: builds on the cached score, so the archival flag survives.
RecordSignal(r, k) ==
  /\ Change(r, k, cache[r][k] # NoScore /\ cache[r][k].archival, FALSE)
  /\ UNCHANGED <<writeCh, pending, syncSets, recovering, fetched, snapshot, phase,
                 storage, failures, history>>

\* ResetScore: a fresh score, whatever the cache holds.
ResetScore(r, k) ==
  /\ Change(r, k, FALSE, FALSE)
  /\ UNCHANGED <<writeCh, pending, syncSets, recovering, fetched, snapshot, phase,
                 storage, failures, history>>

\* GetScore, GetScores and FilterByScore read the cache, release the lock and
\* evaluate shouldRecover on the copy ...
ShouldRecover(r, k) ==
  /\ cache[r][k] # NoScore /\ k \notin recovering[r] /\ version < MaxVersions
  /\ recovering' = [recovering EXCEPT ![r] = @ \cup {k}]
  /\ UNCHANGED <<cache, archivalIndex, sends, writeCh, pending, syncSets, fetched,
                 snapshot, phase, storage, version, failures, history>>

\* ... and recoverScore later replaces whatever the cache holds by then.
RecoverScore(r, k) ==
  /\ k \in recovering[r]
  /\ Change(r, k, FALSE, FALSE)
  /\ recovering' = [recovering EXCEPT ![r] = @ \ {k}]
  /\ UNCHANGED <<writeCh, pending, syncSets, fetched, snapshot, phase, storage,
                 failures, history>>

\* SetArchivalStatus, called by health checks.
SetArchivalStatus(r, k, isArchival) ==
  /\ Change(r, k, isArchival, TRUE)
  /\ UNCHANGED <<writeCh, pending, syncSets, recovering, fetched, snapshot, phase,
                 storage, failures, history>>

\* The select that ends each of these calls: send if the buffer has room;
\* otherwise an archival call goes on to write synchronously and any other
\* call drops the request.
OfferWrite(r, req) ==
  /\ req \in sends[r]
  /\ sends' = [sends EXCEPT ![r] = @ \ {req}]
  /\ IF Len(writeCh[r]) < BufferSize
     THEN /\ writeCh' = [writeCh EXCEPT ![r] = Append(@, req)]
          /\ UNCHANGED syncSets
     ELSE /\ syncSets' = IF req.archivalCall
                         THEN [syncSets EXCEPT ![r] = @ \cup {req}] ELSE syncSets
          /\ UNCHANGED writeCh
  /\ UNCHANGED <<cache, archivalIndex, pending, recovering, fetched, snapshot, phase,
                 storage, version, failures, history>>

\* storage.Set of an archival call that found the buffer full.
SyncSet(r, req) ==
  /\ req \in syncSets[r]
  /\ syncSets' = [syncSets EXCEPT ![r] = @ \ {req}]
  /\ \/ storage' = [storage EXCEPT ![req.key] = req.score] /\ UNCHANGED failures
     \/ Fail /\ UNCHANGED storage
  /\ UNCHANGED <<cache, archivalIndex, sends, writeCh, pending, recovering, fetched,
                 snapshot, phase, version, history>>

-----------------------------------------------------------------------------
(* writeLoop                                                                *)

\* Mutation: the first request received for a key is kept.
TakeFirst(r) ==
  /\ phase[r] \in {"running", "stopping"} /\ writeCh[r] # << >>
  /\ LET req == Head(writeCh[r])
     IN pending' = [pending EXCEPT ![r][req.key] = IF @ = NoScore THEN req.score ELSE @]
  /\ writeCh' = [writeCh EXCEPT ![r] = Tail(@)]
  /\ received' = [received EXCEPT ![r] = Append(@, Head(writeCh[r]))]
  /\ UNCHANGED <<cache, archivalIndex, sends, syncSets, recovering, fetched, snapshot,
                 phase, storage, version, failures, owed>>

\* Coalesce: the last request received for a key replaces an earlier one.
Take(r) ==
  /\ phase[r] \in {"running", "stopping"} /\ writeCh[r] # << >>
  /\ LET req == Head(writeCh[r])
     IN pending' = [pending EXCEPT ![r][req.key] = req.score]
  /\ writeCh' = [writeCh EXCEPT ![r] = Tail(@)]
  /\ received' = [received EXCEPT ![r] = Append(@, Head(writeCh[r]))]
  /\ UNCHANGED <<cache, archivalIndex, sends, syncSets, recovering, fetched, snapshot,
                 phase, storage, version, failures, owed>>

\* What is left in storage and in pending when a flush writes the keys of S.
\* pending is cleared whether or not SetMultiple succeeds.
FlushKeys(r, S) ==
  /\ storage' = [k \in Keys |-> IF k \in S THEN pending[r][k] ELSE storage[k]]
  /\ pending' = [pending EXCEPT ![r] = Empty]
  /\ received' = [received EXCEPT ![r] = << >>]
  /\ owed' = [owed EXCEPT ![r] = @ \ Range(received[r])]

\* SetMultiple is a pipeline, not a transaction: a failed one may have written
\* some of the keys.
FlushPending(r) ==
  LET PendingKeys == {k \in Keys : pending[r][k] # NoScore}
  IN \/ FlushKeys(r, PendingKeys) /\ UNCHANGED failures
     \/ PendingKeys # {} /\ Fail /\ \E S \in SUBSET PendingKeys : FlushKeys(r, S)

\* The flush ticker.
Flush(r) ==
  /\ phase[r] \in {"running", "stopping"} /\ pending[r] # Empty
  /\ FlushPending(r)
  /\ UNCHANGED <<cache, archivalIndex, sends, writeCh, syncSets, recovering, fetched,
                 snapshot, phase, version>>

\* Stop closes stopCh; writeLoop may still serve other cases of its select
\* first.
Stop(r) ==
  /\ MayDisrupt /\ phase[r] = "running"
  /\ phase' = [phase EXCEPT ![r] = "stopping"]
  /\ owed' = [owed EXCEPT ![r] = Range(received[r] \o writeCh[r])]
  /\ UNCHANGED <<cache, archivalIndex, sends, writeCh, pending, syncSets, recovering,
                 fetched, snapshot, storage, version, failures, received>>

\* Mutation: the final flush does not drain the channel first.
DrainedAnyhow(r) ==
  /\ phase[r] = "stopping"
  /\ phase' = [phase EXCEPT ![r] = "flushing"]
  /\ UNCHANGED <<cache, archivalIndex, sends, writeCh, pending, syncSets, recovering,
                 fetched, snapshot, storage, version, failures, history>>

\* The drain loop finds the channel empty and leaves for the final flush ...
Drained(r) ==
  /\ phase[r] = "stopping" /\ writeCh[r] = << >>
  /\ phase' = [phase EXCEPT ![r] = "flushing"]
  /\ UNCHANGED <<cache, archivalIndex, sends, writeCh, pending, syncSets, recovering,
                 fetched, snapshot, storage, version, failures, history>>

\* ... after which stoppedCh is closed and Stop returns.
FinalFlush(r) ==
  /\ phase[r] = "flushing"
  /\ FlushPending(r)
  /\ phase' = [phase EXCEPT ![r] = "stopped"]
  /\ UNCHANGED <<cache, archivalIndex, sends, writeCh, syncSets, recovering, fetched,
                 snapshot, version>>

-----------------------------------------------------------------------------
(* Reads of the storage                                                     *)

\* refreshFromStorage reads every stored score; with none stored, or on an
\* error, it returns at once.
RefreshRead(r) ==
  /\ phase[r] \in {"running", "stopping"} /\ snapshot[r] = {}
  /\ storage # Empty
  /\ snapshot' = [snapshot EXCEPT ![r] = {storage}]
  /\ UNCHANGED <<cache, archivalIndex, sends, writeCh, pending, syncSets, recovering,
                 fetched, phase, storage, version, failures, history>>

\* Mutation: entries the cache already holds are left alone.
RefreshMerge(r) ==
  /\ \E read \in snapshot[r] :
     LET Loaded == {k \in Keys : read[k] # NoScore /\ cache[r][k] = NoScore}
     IN /\ cache' = [cache EXCEPT ![r] = [k \in Keys |->
                       IF k \in Loaded THEN read[k] ELSE @[k]]]
        /\ archivalIndex' = [archivalIndex EXCEPT ![r] =
                               @ \cup {k \in Loaded : read[k].archival}]
  /\ snapshot' = [snapshot EXCEPT ![r] = {}]
  /\ UNCHANGED <<sends, writeCh, pending, syncSets, recovering, fetched, phase, storage,
                 version, failures, history>>

\* It then overwrites the cache under the mutex, key by key, with what it read.
RefreshApply(r) ==
  /\ \E read \in snapshot[r] :
     LET Loaded == {k \in Keys : read[k] # NoScore}
     IN /\ cache' = [cache EXCEPT ![r] = [k \in Keys |->
                       IF k \in Loaded THEN read[k] ELSE @[k]]]
        /\ archivalIndex' = [archivalIndex EXCEPT ![r] =
                               (@ \ Loaded) \cup {k \in Loaded : read[k].archival}]
  /\ snapshot' = [snapshot EXCEPT ![r] = {}]
  /\ UNCHANGED <<sends, writeCh, pending, syncSets, recovering, fetched, phase, storage,
                 version, failures, history>>

\* IsArchivalCapable on a key that is not cached reads the storage without the
\* lock ...
FetchArchival(r, k) ==
  /\ cache[r][k] = NoScore /\ fetched[r][k] = NoScore /\ storage[k] # NoScore
  /\ fetched' = [fetched EXCEPT ![r][k] = storage[k]]
  /\ UNCHANGED <<cache, archivalIndex, sends, writeCh, pending, syncSets, recovering,
                 snapshot, phase, storage, version, failures, history>>

\* ... and then stores what it read in the cache.
StoreFetched(r, k) ==
  /\ fetched[r][k] # NoScore
  /\ setScoreLocked(r, k, fetched[r][k])
  /\ fetched' = [fetched EXCEPT ![r][k] = NoScore]
  /\ UNCHANGED <<sends, writeCh, pending, syncSets, recovering, snapshot, phase,
                 storage, version, failures, history>>

\* An entry outlives its time to live.
Expire(k) ==
  /\ storage[k] # NoScore
  /\ storage' = [storage EXCEPT ![k] = NoScore]
  /\ UNCHANGED <<service, version, failures, history>>

-----------------------------------------------------------------------------
Caller(r, k) ==
  \/ RecordSignal(r, k) \/ ResetScore(r, k)
  \/ ShouldRecover(r, k) \/ RecoverScore(r, k)
  \/ \E isArchival \in BOOLEAN : SetArchivalStatus(r, k, isArchival)
  \/ FetchArchival(r, k) \/ StoreFetched(r, k)

WriteLoop(r) == Take(r) \/ Flush(r) \/ Drained(r) \/ FinalFlush(r)

Next ==
  \/ \E r \in Replicas :
       \/ \E k \in Keys : Caller(r, k)
       \/ \E req \in sends[r] : OfferWrite(r, req)
       \/ \E req \in syncSets[r] : SyncSet(r, req)
       \/ WriteLoop(r) \/ Stop(r)
       \/ RefreshRead(r) \/ RefreshApply(r)
  \/ \E k \in Keys : Expire(k)

Spec == Init /\ [][Next]_vars

\* What is left of calls that have released the mutex.
Unfinished(r) ==
  \/ \E req \in sends[r] : OfferWrite(r, req)
  \/ \E req \in syncSets[r] : SyncSet(r, req)
  \/ \E k \in Keys : StoreFetched(r, k) \/ RecoverScore(r, k)

RefreshLoop(r) == RefreshRead(r) \/ RefreshApply(r)

\* Every goroutine keeps running: callers finish, the tickers fire.
Fairness ==
  \A r \in Replicas :
    WF_vars(Unfinished(r)) /\ WF_vars(WriteLoop(r)) /\ WF_vars(RefreshLoop(r))

FairSpec == Spec /\ Fairness

-----------------------------------------------------------------------------
(* Properties                                                               *)

\* archivalIndex, which GetArchivalEndpoints iterates instead of the cache,
\* lists exactly the cached keys whose score carries the archival flag, however
\* signals, resets, recoveries, refreshes and late storage reads interleave.
ArchivalIndexInSync ==
  \A r \in Replicas :
    archivalIndex[r] = {k \in Keys : cache[r][k] # NoScore /\ cache[r][k].archival}

\* The last request for k in a sequence of requests is at i.
IsLastFor(k, reqs, i) ==
  /\ i \in DOMAIN reqs /\ reqs[i].key = k
  /\ \A j \in DOMAIN reqs : reqs[j].key = k => j <= i

\* The score of that request.
LastFor(k, reqs) ==
  IF \E i \in DOMAIN reqs : reqs[i].key = k
  THEN reqs[CHOOSE i \in DOMAIN reqs : IsLastFor(k, reqs, i)].score ELSE NoScore

\* Coalescing loses and reorders nothing of what writeCh accepted: a flush that
\* succeeds leaves in the storage, for every key, the score of the last request
\* received for it since the previous flush, and touches no other key.
CoalescingIsExact ==
  [][\A r \in Replicas :
       received[r] # << >> /\ received'[r] = << >> /\ failures' = failures =>
         \A k \in Keys : LET last == LastFor(k, received[r])
                        IN storage'[k] = IF last = NoScore THEN storage[k] ELSE last]_vars

\* "Stop gracefully shuts down background processes and flushes pending writes":
\* when writeLoop has exited, everything writeCh had accepted before Stop, or
\* writeLoop had received, has been part of a flush.
StopFlushes ==
  \A r \in Replicas : phase[r] = "stopped" => owed[r] = {}

\* "Background refresh keeps local cache in sync with shared backend": once
\* score changes cease, every running replica's cache agrees for good with the
\* stored scores, whatever stale reads were in flight.
CachesConverge ==
  <>[](\A r \in Replicas, k \in Keys :
         phase[r] = "running" /\ storage[k] # NoScore => cache[r][k] = storage[k])
=============================================================================
