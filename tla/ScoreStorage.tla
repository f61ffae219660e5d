----------------------------- MODULE ScoreStorage -----------------------------
(***************************************************************************)
(* The two storages of the reputation service: reputation/storage/redis.go  *)
(* and memory.go, under the calls reputation/service.go makes.              *)
(*                                                                         *)
(* A score is stored under the text of its key.  A refresh lists the texts, *)
(* parses them back into keys and reads each key's score; the writer of     *)
(* this or another replica, expiry and a shutdown come in between.  Redis   *)
(* keeps the chain state of the services under the same prefix, so a scan   *)
(* meets those names as well.                                               *)
(*                                                                         *)
(* A text is the sequence of its parts between colons.  Times are in ticks, *)
(* TicksPerSecond of them to a second; 0 is Go's zero time.                 *)
(***************************************************************************)
EXTENDS Integers, Sequences, FiniteSets, SequencesExt, TLC

CONSTANTS
    Key,             \* EndpointKeys: [service, addr, rpc], addr a sequence of parts
    Cooldowns,       \* lengths of cooldowns, 0 for none
    TTL, TicksPerSecond,
    MaxWrites, MaxTime   \* bounds

VARIABLES
    backend,    \* storage_type, "redis" or "memory"
    entries,    \* the keyspace: names to [kind, score, expires]
    closed,     \* MemoryStorage.closed
    now,
    writes,     \* writes so far
    refresh,    \* the refresh under way
    held        \* history: what each key has held since that refresh began
vars == <<backend, entries, closed, now, writes, refresh, held>>

Nothing == [value |-> 0, cooldown |-> -1]
Absent == "absent"
Done == {"idle", "failed", "applied"}

-----------------------------------------------------------------------------
(* Names                                                                   *)

\* EndpointKey.String, with the RPC type in lower case.
Lower(rpc) == IF rpc = "JSON_RPC" THEN "json_rpc" ELSE "unknown_rpc"
String(k) == <<k.service>> \o k.addr \o <<Lower(k.rpc)>>

perceivedBlockKey(s) == <<"chain_state", s, "perceived_block">>
endpointBlocksKey(s) == <<"chain_state", s, "endpoint_blocks">>

\* A text RPCType_value does not list is the zero value, UNKNOWN_RPC.
RpcTypeOf(upper) == IF upper = "JSON_RPC" THEN "JSON_RPC" ELSE "UNKNOWN_RPC"
ToUpper(text) == IF text = "json_rpc" THEN "JSON_RPC" ELSE text

Joined(parts) == IF Len(parts) = 1 THEN parts[1] ELSE "joined"

\* Mutation: the key is split at its first two colons, as MemoryStorage does.
parseKeyFromLeft(name) ==
    [service |-> name[1], addr |-> <<name[2]>>,
     rpc |-> RpcTypeOf(ToUpper(Joined(SubSeq(name, 3, Len(name)))))]

\* Redis: the service ends at the first colon, the RPC type starts after the
\* last one.
parseKey(name) ==
    [service |-> name[1], addr |-> SubSeq(name, 2, Len(name) - 1),
     rpc |-> RpcTypeOf(ToUpper(Last(name)))]
Parseable(name) == Len(name) >= 3

\* MemoryStorage.List: SplitN at the first two colons, and the lower-case text
\* is looked up as it is.
splitKey(name) ==
    [service |-> name[1], addr |-> <<name[2]>>,
     rpc |-> RpcTypeOf(Joined(SubSeq(name, 3, Len(name))))]

-----------------------------------------------------------------------------
(* Scores                                                                  *)

\* The fields of the hash hold Unix seconds; the zero time is long before 1970.
Unix(t) == IF t = 0 THEN -1 ELSE t \div TicksPerSecond
\* Mutation: the zero time is not told apart.
parseScoreLiterally(hash) ==
    [value |-> hash.value, cooldown |-> hash.cooldown * TicksPerSecond]
\* parseScore: only a positive number is a time.
parseScore(hash) ==
    [value |-> hash.value,
     cooldown |-> IF hash.cooldown > 0 THEN hash.cooldown * TicksPerSecond ELSE 0]

\* The fields RedisStorage writes for a score.
fields(score) == [value |-> score.value, cooldown |-> Unix(score.cooldown)]

Live(name) == name \in DOMAIN entries /\ now <= entries[name].expires
Stored(k) == IF Live(String(k)) THEN entries[String(k)].score ELSE Nothing

-----------------------------------------------------------------------------
Idle == [phase |-> "idle", unseen |-> {}, keys |-> {}, scores |-> << >>]

Init ==
    /\ backend \in {"redis", "memory"}
    /\ entries = << >> /\ closed = FALSE /\ now = TicksPerSecond /\ writes = 0
    /\ refresh = Idle /\ held = [k \in Key |-> {}]

Write == writes < MaxWrites /\ writes' = writes + 1
Entry(kind, score, expires) == [kind |-> kind, score |-> score, expires |-> expires]
Forever == MaxTime + TTL

\* Set, or SetMultiple for one of its keys: the score and its time to live.
RedisSet(k, score) ==
    /\ backend = "redis" /\ Write
    /\ entries' = String(k) :> Entry("hash", score, now + TTL) @@ entries
MemorySet(k, score) ==
    /\ backend = "memory" /\ ~closed /\ Write
    /\ entries' = String(k) :> Entry("hash", score, now + TTL) @@ entries

\* writeLoop's flush, one key at a time: a pipeline is no transaction.
SetMultiple(k, cooldown) ==
    LET score == [value |-> writes + 1, cooldown |-> IF cooldown = 0 THEN 0 ELSE now + cooldown]
    IN  /\ RedisSet(k, score) \/ MemorySet(k, score)
        /\ held' = [held EXCEPT ![k] = @ \cup {score}]
        /\ UNCHANGED <<backend, closed, now, refresh>>

\* The chain state: a string and a hash per service, neither of them a score.
SetPerceivedBlockNumber(s) ==
    /\ backend = "redis" /\ perceivedBlockKey(s) \notin DOMAIN entries
    /\ entries' = perceivedBlockKey(s) :> Entry("string", Nothing, Forever) @@ entries
    /\ UNCHANGED <<backend, closed, now, writes, refresh, held>>
SetEndpointBlockHeight(s) ==
    /\ backend = "redis" /\ endpointBlocksKey(s) \notin DOMAIN entries
    /\ entries' = endpointBlocksKey(s) :> Entry("hash", Nothing, Forever) @@ entries
    /\ UNCHANGED <<backend, closed, now, writes, refresh, held>>

Close ==
    /\ backend = "memory" /\ ~closed /\ closed' = TRUE /\ entries' = << >>
    /\ held' = [k \in Key |-> held[k] \cup {Nothing}]
    /\ UNCHANGED <<backend, now, writes, refresh>>

\* Redis drops an expired key; MemoryStorage skips it until Cleanup removes it.
Tick ==
    /\ now < MaxTime /\ now' = now + 1
    /\ held' = [k \in Key |-> IF Live(String(k)) /\ entries[String(k)].expires = now
                              THEN held[k] \cup {Nothing} ELSE held[k]]
    /\ UNCHANGED <<backend, entries, closed, writes, refresh>>
Cleanup ==
    /\ \E n \in DOMAIN entries : ~Live(n)
    /\ entries' = [n \in {x \in DOMAIN entries : Live(x)} |-> entries[n]]
    /\ UNCHANGED <<backend, closed, now, writes, refresh, held>>

-----------------------------------------------------------------------------
(* refreshFromStorage                                                      *)

Begin ==
    /\ refresh.phase \in Done
    /\ refresh' = [Idle EXCEPT !.phase = "listing",
                               !.unseen = {n \in DOMAIN entries : Live(n)}]
    /\ held' = [k \in Key |-> {Stored(k)}]
    /\ UNCHANGED <<backend, entries, closed, now, writes>>

\* List: SCAN returns every name that is there all along, in any number of
\* batches, and may or may not return one that comes or goes meanwhile.
RedisList ==
    /\ refresh.phase = "listing" /\ backend = "redis"
    /\ \/ \E batch \in SUBSET {n \in DOMAIN entries : Live(n)} :
            /\ batch \cap refresh.unseen # {}
            /\ refresh' = [refresh EXCEPT !.unseen = @ \ batch,
                 !.keys = @ \cup {parseKey(n) : n \in {x \in batch : Parseable(x)}}]
       \/ /\ ~\E n \in refresh.unseen : Live(n)
          /\ refresh' = [refresh EXCEPT !.phase = IF refresh.keys = {} THEN "applied" ELSE "reading",
                                        !.unseen = {}]
    /\ UNCHANGED <<backend, entries, closed, now, writes, held>>
MemoryList ==
    /\ refresh.phase = "listing" /\ backend = "memory"
    /\ LET keys == {splitKey(n) : n \in {x \in DOMAIN entries : Live(x)}}
       IN refresh' = [refresh EXCEPT !.unseen = {}, !.keys = keys,
                        !.phase = CASE closed -> "failed" [] keys = {} -> "applied" [] OTHER -> "reading"]
    /\ UNCHANGED <<backend, entries, closed, now, writes, held>>

\* GetMultiple.  Redis answers the pipeline's HGETALLs one after another; one
\* of a name that is no hash fails the whole call.
RedisGetMultiple ==
    /\ refresh.phase = "reading" /\ backend = "redis"
    /\ \E k \in refresh.keys :
         LET n == String(k)
         IN  refresh' =
               IF Live(n) /\ entries[n].kind # "hash" THEN [Idle EXCEPT !.phase = "failed"]
               ELSE [refresh EXCEPT !.keys = @ \ {k},
                       !.scores = IF Live(n) THEN k :> parseScore(fields(entries[n].score)) @@ @ ELSE @]
    /\ UNCHANGED <<backend, entries, closed, now, writes, held>>
MemoryGetMultiple ==
    /\ refresh.phase = "reading" /\ backend = "memory" /\ refresh.keys # {}
    /\ refresh' =
         IF closed THEN [Idle EXCEPT !.phase = "failed"]
         ELSE [refresh EXCEPT !.keys = {},
                 !.scores = [k \in {x \in refresh.keys : Live(String(x))} |-> entries[String(k)].score]]
    /\ UNCHANGED <<backend, entries, closed, now, writes, held>>

\* The cache is overwritten with what was read.
Apply ==
    /\ refresh.phase = "reading" /\ refresh.keys = {}
    /\ refresh' = [refresh EXCEPT !.phase = "applied"]
    /\ UNCHANGED <<backend, entries, closed, now, writes, held>>

Next ==
    \/ \E k \in Key, c \in Cooldowns : SetMultiple(k, c)
    \/ \E s \in {k.service : k \in Key} : SetPerceivedBlockNumber(s) \/ SetEndpointBlockHeight(s)
    \/ Close \/ Tick \/ Cleanup
    \/ Begin \/ RedisList \/ MemoryList \/ RedisGetMultiple \/ MemoryGetMultiple \/ Apply

Spec == Init /\ [][Next]_vars

-----------------------------------------------------------------------------
\* The score read stands for the one written, within the second that is kept.
ReadAs(written, read) ==
    /\ read.value = written.value
    /\ IF written.cooldown = 0 THEN read.cooldown = 0
       ELSE written.cooldown - TicksPerSecond < read.cooldown /\ read.cooldown <= written.cooldown

\* What refreshFromStorage overwrites a replica's cache with is what was stored:
\* each score read is one its key held since the refresh began, no key that was
\* never scored appears, a cooldown is no longer than the one written and at
\* most a second shorter; with Redis, no key that stayed stored is missed, and
\* the chain state under the same prefix does not make the refresh fail.
RefreshIsFaithful ==
    /\ refresh.phase = "applied" =>
         /\ \A k \in DOMAIN refresh.scores :
              k \in Key /\ \E s \in held[k] \ {Nothing} : ReadAs(s, refresh.scores[k])
         /\ backend = "redis" =>
              \A k \in Key : Nothing \in held[k] \/ k \in DOMAIN refresh.scores
    /\ backend = "redis" => refresh.phase # "failed"
=============================================================================
