------------------------- MODULE ReputationSyncProofs -------------------------
(***************************************************************************)
(* ReputationSync keeps its types, archivalIndex agrees with the cache, and  *)
(* a stopped replica has flushed what it had accepted, for any replicas,     *)
(* keys, buffer size and bounds.                                            *)
(***************************************************************************)
EXTENDS ReputationSync, TLAPS

\* A score of the model is never the absence of one.
LEMMA ScoreIsNotNoScore == NoScore \notin Score
BY SyncAssumption DEF Score, SyncAssumption

\* setScoreLocked, which every write to the cache goes through, keeps the types
\* of the cache and of the index, and the agreement between them.
LEMMA SetScoreLockedSafe ==
  ASSUME NEW r \in Replicas, NEW k \in Keys, NEW score \in Score, TypeOK,
         setScoreLocked(r, k, score)
  PROVE  /\ cache' \in [Replicas -> [Keys -> MaybeScore]]
         /\ archivalIndex' \in [Replicas -> SUBSET Keys]
         /\ ArchivalIndexInSync => ArchivalIndexInSync'
<1>1. cache' \in [Replicas -> [Keys -> MaybeScore]]
  BY Zenon DEF setScoreLocked, TypeOK, MaybeScore
<1>2. archivalIndex' \in [Replicas -> SUBSET Keys]
  BY DEF setScoreLocked, TypeOK
<1>3. ASSUME ArchivalIndexInSync, NEW q \in Replicas
      PROVE  archivalIndex'[q] = {x \in Keys : cache'[q][x] # NoScore /\ cache'[q][x].archival}
  <2>1. CASE q = r
    BY <1>3, <2>1, ScoreIsNotNoScore
    DEF setScoreLocked, TypeOK, ArchivalIndexInSync, Score, MaybeScore
  <2>2. CASE q # r
    BY <1>3, <2>2 DEF setScoreLocked, TypeOK, ArchivalIndexInSync
  <2>. QED BY <2>1, <2>2
<1>. QED BY <1>1, <1>2, <1>3, Zenon DEF ArchivalIndexInSync

\* The same for a refresh, which installs a whole read of the storage.
LEMMA RefreshApplySafe ==
  ASSUME NEW r \in Replicas, TypeOK, RefreshApply(r)
  PROVE  /\ cache' \in [Replicas -> [Keys -> MaybeScore]]
         /\ archivalIndex' \in [Replicas -> SUBSET Keys]
         /\ ArchivalIndexInSync => ArchivalIndexInSync'
<1>1. PICK read \in snapshot[r] :
        LET Loaded == {k \in Keys : read[k] # NoScore}
        IN /\ cache' = [cache EXCEPT ![r] = [k \in Keys |->
                          IF k \in Loaded THEN read[k] ELSE @[k]]]
           /\ archivalIndex' = [archivalIndex EXCEPT ![r] =
                                  (@ \ Loaded) \cup {k \in Loaded : read[k].archival}]
  BY Zenon DEF RefreshApply
<1>2. read \in [Keys -> MaybeScore]
  BY Zenon DEF TypeOK
<1>3. cache' \in [Replicas -> [Keys -> MaybeScore]]
  BY <1>1, <1>2 DEF TypeOK
<1>4. archivalIndex' \in [Replicas -> SUBSET Keys]
  BY <1>1, <1>2 DEF TypeOK
<1>5. ASSUME ArchivalIndexInSync, NEW q \in Replicas
      PROVE  archivalIndex'[q] = {x \in Keys : cache'[q][x] # NoScore /\ cache'[q][x].archival}
  <2>1. CASE q = r
    BY <1>1, <1>2, <1>5, <2>1, Zenon DEF TypeOK, ArchivalIndexInSync
  <2>2. CASE q # r
    BY <1>1, <1>5, <2>2, Zenon DEF TypeOK, ArchivalIndexInSync
  <2>. QED BY <2>1, <2>2
<1>. QED BY <1>3, <1>4, <1>5, Zenon DEF ArchivalIndexInSync

\* A call that changes a score leaves a well-formed request to offer.
LEMMA ChangeSafe ==
  ASSUME NEW r \in Replicas, NEW k \in Keys, NEW archival \in BOOLEAN,
         NEW archivalCall \in BOOLEAN, TypeOK, Change(r, k, archival, archivalCall)
  PROVE  /\ cache' \in [Replicas -> [Keys -> MaybeScore]]
         /\ archivalIndex' \in [Replicas -> SUBSET Keys]
         /\ ArchivalIndexInSync => ArchivalIndexInSync'
         /\ sends' \in [Replicas -> SUBSET Request]
         /\ version' \in 0 .. MaxVersions
<1>. DEFINE score == [ver |-> version + 1, archival |-> archival]
<1>1. score \in Score
  BY SyncAssumption DEF TypeOK, Change, Score, SyncAssumption
<1>2. setScoreLocked(r, k, score)
  BY DEF Change
<1>3. [key |-> k, score |-> score, archivalCall |-> archivalCall] \in Request
  BY <1>1, Zenon DEF Request
<1>4. sends' \in [Replicas -> SUBSET Request]
  <2>. HIDE DEF score
  <2>1. sends' = [sends EXCEPT ![r] = @ \cup
                    {[key |-> k, score |-> score, archivalCall |-> archivalCall]}]
    BY Zenon DEF Change, score
  <2>. QED BY <1>3, <2>1 DEF TypeOK
<1>5. version' \in 0 .. MaxVersions
  BY SyncAssumption DEF TypeOK, Change, SyncAssumption
<1>. QED BY <1>1, <1>2, <1>4, <1>5, SetScoreLockedSafe, Zenon

\* What a flush leaves in the storage and in pending is well-formed, whichever
\* keys a failed pipeline managed to write.
LEMMA FlushPendingSafe ==
  ASSUME NEW r \in Replicas, TypeOK, FlushPending(r)
  PROVE  /\ storage' \in [Keys -> MaybeScore]
         /\ pending' \in [Replicas -> [Keys -> MaybeScore]]
         /\ failures' \in 0 .. MaxDisruptions
<1>1. PICK S : FlushKeys(r, S)
  BY Zenon DEF FlushPending
<1>2. storage' \in [Keys -> MaybeScore]
  BY <1>1 DEF FlushKeys, TypeOK
<1>3. pending' \in [Replicas -> [Keys -> MaybeScore]]
  BY <1>1 DEF FlushKeys, TypeOK, Empty, MaybeScore
<1>4. failures' \in 0 .. MaxDisruptions
  BY SyncAssumption DEF FlushPending, Fail, TypeOK, SyncAssumption
<1>. QED BY <1>2, <1>3, <1>4, Zenon

\* The initial state is well-typed.
LEMMA TypeInit == Init => TypeOK
BY SyncAssumption DEF Init, TypeOK, Empty, MaybeScore, SyncAssumption

\* Every step keeps the types and the agreement of the index with the cache.
LEMMA StepSafe ==
  ASSUME TypeOK, ArchivalIndexInSync, [Next]_vars
  PROVE  TypeOK' /\ ArchivalIndexInSync'
<1>. USE DEF service, history
<1>1. CASE UNCHANGED vars
  BY <1>1, Zenon DEF vars, TypeOK, ArchivalIndexInSync
<1>2. ASSUME NEW r \in Replicas, NEW k \in Keys, RecordSignal(r, k)
      PROVE  TypeOK' /\ ArchivalIndexInSync'
  <2>1. (cache[r][k] # NoScore /\ cache[r][k].archival) \in BOOLEAN
    OBVIOUS
  <2>2. Change(r, k, cache[r][k] # NoScore /\ cache[r][k].archival, FALSE)
    BY <1>2 DEF RecordSignal
  <2>3. /\ cache' \in [Replicas -> [Keys -> MaybeScore]]
        /\ archivalIndex' \in [Replicas -> SUBSET Keys]
        /\ ArchivalIndexInSync'
        /\ sends' \in [Replicas -> SUBSET Request]
        /\ version' \in 0 .. MaxVersions
    BY <2>1, <2>2, ChangeSafe, Zenon
  <2>. QED BY <1>2, <2>3, Zenon DEF RecordSignal, TypeOK
<1>3. ASSUME NEW r \in Replicas, NEW k \in Keys, ResetScore(r, k)
      PROVE  TypeOK' /\ ArchivalIndexInSync'
  BY <1>3, ChangeSafe, Zenon DEF ResetScore, TypeOK
<1>4. ASSUME NEW r \in Replicas, NEW k \in Keys, ShouldRecover(r, k)
      PROVE  TypeOK' /\ ArchivalIndexInSync'
  BY <1>4 DEF ShouldRecover, TypeOK, ArchivalIndexInSync
<1>5. ASSUME NEW r \in Replicas, NEW k \in Keys, RecoverScore(r, k)
      PROVE  TypeOK' /\ ArchivalIndexInSync'
  BY <1>5, ChangeSafe DEF RecoverScore, TypeOK
<1>6. ASSUME NEW r \in Replicas, NEW k \in Keys, NEW a \in BOOLEAN, SetArchivalStatus(r, k, a)
      PROVE  TypeOK' /\ ArchivalIndexInSync'
  <2>1. Change(r, k, a, TRUE)
    BY <1>6 DEF SetArchivalStatus
  <2>2. TRUE \in BOOLEAN
    OBVIOUS
  <2>3. /\ cache' \in [Replicas -> [Keys -> MaybeScore]]
        /\ archivalIndex' \in [Replicas -> SUBSET Keys]
        /\ ArchivalIndexInSync'
        /\ sends' \in [Replicas -> SUBSET Request]
        /\ version' \in 0 .. MaxVersions
    BY <2>1, <2>2, ChangeSafe, Zenon
  <2>4. UNCHANGED <<writeCh, pending, syncSets, recovering, fetched, snapshot, phase,
                    storage, failures>>
    BY <1>6, Zenon DEF SetArchivalStatus
  <2>. QED BY <2>3, <2>4, Zenon DEF TypeOK
<1>7. ASSUME NEW r \in Replicas, NEW k \in Keys, FetchArchival(r, k)
      PROVE  TypeOK' /\ ArchivalIndexInSync'
  BY <1>7 DEF FetchArchival, TypeOK, ArchivalIndexInSync
<1>8. ASSUME NEW r \in Replicas, NEW k \in Keys, StoreFetched(r, k)
      PROVE  TypeOK' /\ ArchivalIndexInSync'
  <2>1. fetched[r][k] \in Score
    BY <1>8 DEF StoreFetched, TypeOK, MaybeScore
  <2>2. /\ cache' \in [Replicas -> [Keys -> MaybeScore]]
        /\ archivalIndex' \in [Replicas -> SUBSET Keys]
        /\ ArchivalIndexInSync'
    BY <1>8, <2>1, SetScoreLockedSafe DEF StoreFetched
  <2>3. fetched' \in [Replicas -> [Keys -> MaybeScore]]
    BY <1>8 DEF StoreFetched, TypeOK, MaybeScore
  <2>. QED BY <1>8, <2>2, <2>3, Zenon DEF StoreFetched, TypeOK
<1>9. ASSUME NEW r \in Replicas, NEW req \in sends[r], OfferWrite(r, req)
      PROVE  TypeOK' /\ ArchivalIndexInSync'
  <2>1. req \in Request
    BY DEF TypeOK
  <2>2. /\ writeCh' \in [Replicas -> Seq(Request)]
        /\ \A q \in Replicas : Len(writeCh'[q]) <= BufferSize
    <3>1. CASE Len(writeCh[r]) < BufferSize
      <4>1. /\ Append(writeCh[r], req) \in Seq(Request)
            /\ Len(Append(writeCh[r], req)) = Len(writeCh[r]) + 1
            /\ Len(writeCh[r]) \in Nat
        BY <2>1 DEF TypeOK
      <4>2. writeCh' = [writeCh EXCEPT ![r] = Append(writeCh[r], req)]
        BY <1>9, <3>1 DEF OfferWrite
      <4>3. Len(Append(writeCh[r], req)) <= BufferSize
        BY <3>1, <4>1, SyncAssumption DEF SyncAssumption
      <4>. QED BY <4>1, <4>2, <4>3 DEF TypeOK
    <3>2. CASE ~ (Len(writeCh[r]) < BufferSize)
      BY <1>9, <3>2 DEF OfferWrite, TypeOK
    <3>. QED BY <3>1, <3>2
  <2>3. sends' \in [Replicas -> SUBSET Request] /\ syncSets' \in [Replicas -> SUBSET Request]
    <3>1. /\ sends' = [sends EXCEPT ![r] = @ \ {req}]
          /\ syncSets' = syncSets \/ syncSets' = [syncSets EXCEPT ![r] = @ \cup {req}]
      BY <1>9 DEF OfferWrite
    <3>2. sends[r] \ {req} \in SUBSET Request /\ syncSets[r] \cup {req} \in SUBSET Request
      BY <2>1 DEF TypeOK
    <3>3. sends' \in [Replicas -> SUBSET Request]
      BY <3>1, <3>2 DEF TypeOK
    <3>4. syncSets' \in [Replicas -> SUBSET Request]
      <4>1. CASE syncSets' = syncSets
        BY <4>1, Zenon DEF TypeOK
      <4>2. CASE syncSets' = [syncSets EXCEPT ![r] = @ \cup {req}]
        BY <3>2, <4>2 DEF TypeOK
      <4>. QED BY <3>1, <4>1, <4>2, Zenon
    <3>. QED BY <3>3, <3>4
  <2>. QED BY <1>9, <2>2, <2>3 DEF OfferWrite, TypeOK, ArchivalIndexInSync
<1>10. ASSUME NEW r \in Replicas, NEW req \in syncSets[r], SyncSet(r, req)
       PROVE  TypeOK' /\ ArchivalIndexInSync'
  <2>1. req \in Request
    BY DEF TypeOK
  <2>2. storage' \in [Keys -> MaybeScore] /\ failures' \in 0 .. MaxDisruptions
    <3>1. req.key \in Keys /\ req.score \in MaybeScore
      BY <2>1 DEF Request, MaybeScore
    <3>2. \/ storage' = [storage EXCEPT ![req.key] = req.score] /\ failures' = failures
          \/ failures < MaxDisruptions /\ failures' = failures + 1 /\ storage' = storage
      BY <1>10, Zenon DEF SyncSet, Fail
    <3>3. storage' \in [Keys -> MaybeScore]
      BY <3>1, <3>2, Zenon DEF TypeOK
    <3>4. failures' \in 0 .. MaxDisruptions
      BY <3>2, SyncAssumption DEF TypeOK, SyncAssumption
    <3>. QED BY <3>3, <3>4
  <2>. QED BY <1>10, <2>2, Zenon DEF SyncSet, TypeOK, ArchivalIndexInSync
<1>11. ASSUME NEW r \in Replicas, Take(r)
       PROVE  TypeOK' /\ ArchivalIndexInSync'
  <2>1. /\ Head(writeCh[r]) \in Request /\ Tail(writeCh[r]) \in Seq(Request)
        /\ Len(Tail(writeCh[r])) <= BufferSize
    BY <1>11, SyncAssumption DEF Take, TypeOK, SyncAssumption
  <2>2. pending' \in [Replicas -> [Keys -> MaybeScore]]
    BY <1>11, <2>1 DEF Take, TypeOK, Request, MaybeScore
  <2>. QED BY <1>11, <2>1, <2>2 DEF Take, TypeOK, ArchivalIndexInSync
<1>12. ASSUME NEW r \in Replicas, Flush(r)
       PROVE  TypeOK' /\ ArchivalIndexInSync'
  BY <1>12, FlushPendingSafe DEF Flush, TypeOK, ArchivalIndexInSync
<1>13. ASSUME NEW r \in Replicas, Drained(r) \/ Stop(r)
       PROVE  TypeOK' /\ ArchivalIndexInSync'
  <2>1. phase' \in [Replicas -> {"running", "stopping", "flushing", "stopped"}]
    BY <1>13, ZenonT(30) DEF Drained, Stop, TypeOK
  <2>2. UNCHANGED <<cache, archivalIndex, sends, writeCh, pending, syncSets, recovering,
                    fetched, snapshot, storage, version, failures>>
    BY <1>13 DEF Drained, Stop
  <2>. QED BY <2>1, <2>2 DEF TypeOK, ArchivalIndexInSync
<1>14. ASSUME NEW r \in Replicas, FinalFlush(r)
       PROVE  TypeOK' /\ ArchivalIndexInSync'
  BY <1>14, FlushPendingSafe, Zenon DEF FinalFlush, TypeOK, ArchivalIndexInSync
<1>15. ASSUME NEW r \in Replicas, RefreshRead(r)
       PROVE  TypeOK' /\ ArchivalIndexInSync'
  BY <1>15, Zenon DEF RefreshRead, TypeOK, ArchivalIndexInSync
<1>16. ASSUME NEW r \in Replicas, RefreshApply(r)
       PROVE  TypeOK' /\ ArchivalIndexInSync'
  <2>1. snapshot' \in [Replicas -> SUBSET [Keys -> MaybeScore]]
    BY <1>16 DEF RefreshApply, TypeOK
  <2>2. UNCHANGED <<sends, writeCh, pending, syncSets, recovering, fetched, phase, storage,
                    version, failures>>
    BY <1>16, Zenon DEF RefreshApply
  <2>. QED BY <1>16, <2>1, <2>2, RefreshApplySafe, Zenon DEF TypeOK
<1>17. ASSUME NEW k \in Keys, Expire(k)
       PROVE  TypeOK' /\ ArchivalIndexInSync'
  BY <1>17 DEF Expire, TypeOK, ArchivalIndexInSync, MaybeScore
<1>. QED
  BY <1>1, <1>2, <1>3, <1>4, <1>5, <1>6, <1>7, <1>8, <1>9, <1>10, <1>11, <1>12, <1>13,
     <1>14, <1>15, <1>16, <1>17
  DEF Next, Caller, WriteLoop

\* Every value the service holds keeps its type; in particular writeCh never
\* exceeds WriteBufferSize.
THEOREM TypeCorrect == Spec => []TypeOK
<1>1. Init => TypeOK /\ ArchivalIndexInSync
  BY TypeInit, SMTT(30) DEF Init, ArchivalIndexInSync, Empty
<1>2. TypeOK /\ ArchivalIndexInSync /\ [Next]_vars => (TypeOK /\ ArchivalIndexInSync)'
  BY StepSafe, Zenon
<1>. QED BY <1>1, <1>2, PTL DEF Spec

\* GetArchivalEndpoints may iterate archivalIndex: it lists exactly the cached
\* archival keys after any interleaving of calls, flushes and refreshes.
THEOREM ArchivalIndexCorrect == Spec => []ArchivalIndexInSync
<1>1. Init => TypeOK /\ ArchivalIndexInSync
  BY TypeInit, SMTT(30) DEF Init, ArchivalIndexInSync, Empty
<1>2. TypeOK /\ ArchivalIndexInSync /\ [Next]_vars => (TypeOK /\ ArchivalIndexInSync)'
  BY StepSafe, Zenon
<1>. QED BY <1>1, <1>2, PTL DEF Spec

-----------------------------------------------------------------------------
(* Stop flushes. *)

\* Appending an element keeps what is in a sequence and adds the element.
LEMMA RangeAppend ==
  ASSUME NEW S, NEW s \in Seq(S), NEW e \in S
  PROVE  Range(s) \cup {e} \subseteq Range(Append(s, e))
<1>1. /\ DOMAIN s = 1 .. Len(s) /\ DOMAIN Append(s, e) = 1 .. Len(s) + 1
      /\ Len(s) \in Nat /\ Append(s, e)[Len(s) + 1] = e
      /\ \A i \in 1 .. Len(s) : Append(s, e)[i] = s[i]
  OBVIOUS
<1>2. Len(s) + 1 \in DOMAIN Append(s, e) /\ DOMAIN s \subseteq DOMAIN Append(s, e)
  BY <1>1
<1>3. e \in Range(Append(s, e))
  BY <1>1, <1>2, Zenon DEF Range
<1>4. ASSUME NEW i \in DOMAIN s PROVE s[i] \in Range(Append(s, e))
  BY <1>1, <1>2, Zenon DEF Range
<1>. QED BY <1>3, <1>4 DEF Range

\* What is in a sequence is its head or in its tail.
LEMMA RangeTail ==
  ASSUME NEW S, NEW s \in Seq(S), s # << >>
  PROVE  Range(s) \subseteq {Head(s)} \cup Range(Tail(s))
<1>1. ASSUME NEW i \in DOMAIN s PROVE s[i] \in {Head(s)} \cup Range(Tail(s))
  <2>1. CASE i = 1
    BY <2>1
  <2>2. CASE i # 1
    <3>1. i - 1 \in DOMAIN Tail(s) /\ Tail(s)[i - 1] = s[i]
      BY <2>2
    <3>. QED BY <3>1, Zenon DEF Range
  <2>. QED BY <2>1, <2>2, Zenon
<1>. QED BY <1>1, Zenon DEF Range

\* What is in a concatenation is in one of its parts.
LEMMA RangeConcat ==
  ASSUME NEW S, NEW s \in Seq(S), NEW t \in Seq(S)
  PROVE  Range(s \o t) \subseteq Range(s) \cup Range(t)
BY DEF Range

\* Nothing is in the empty sequence.
LEMMA RangeEmpty == Range(<< >>) = {}
BY DEF Range

\* The elements of a sequence over S are in S.
LEMMA RangeType ==
  ASSUME NEW S, NEW s \in Seq(S)
  PROVE  Range(s) \subseteq S
BY DEF Range

\* What Stop owes is still in the channel or in writeLoop's hands; once the
\* channel was found empty all of it is in writeLoop's hands.
OwedIsHeld ==
  /\ received \in [Replicas -> Seq(Request)]
  /\ owed \in [Replicas -> SUBSET Request]
  /\ \A r \in Replicas :
       /\ phase[r] \in {"running", "stopped"} => owed[r] = {}
       /\ phase[r] = "flushing" => owed[r] \subseteq Range(received[r])
       /\ owed[r] \subseteq Range(received[r]) \cup Range(writeCh[r])

\* A flush pays what writeLoop had received, and nothing of another replica.
LEMMA FlushPays ==
  ASSUME NEW r \in Replicas, OwedIsHeld, FlushPending(r)
  PROVE  /\ owed'[r] = owed[r] \ Range(received[r])
         /\ \A q \in Replicas : q # r => received'[q] = received[q] /\ owed'[q] = owed[q]
         /\ received' \in [Replicas -> Seq(Request)]
         /\ owed' \in [Replicas -> SUBSET Request]
<1>1. /\ received' = [received EXCEPT ![r] = << >>]
      /\ owed' = [owed EXCEPT ![r] = @ \ Range(received[r])]
  BY DEF FlushPending, FlushKeys
<1>2. << >> \in Seq(Request) /\ owed[r] \ Range(received[r]) \in SUBSET Request
  BY DEF OwedIsHeld
<1>3. received \in [Replicas -> Seq(Request)] /\ owed \in [Replicas -> SUBSET Request]
  BY DEF OwedIsHeld
<1>. QED BY <1>1, <1>2, <1>3, Zenon

\* Every step keeps what is owed in the channel or in writeLoop's hands.
LEMMA OwedStep ==
  ASSUME TypeOK, OwedIsHeld, [Next]_vars
  PROVE  OwedIsHeld'
<1>1. CASE UNCHANGED <<writeCh, phase, received, owed>>
  BY <1>1, Zenon DEF OwedIsHeld
<1>2. ASSUME NEW r \in Replicas, NEW req \in sends[r], OfferWrite(r, req)
      PROVE  OwedIsHeld'
  <2>1. CASE writeCh' = writeCh
    BY <1>2, <2>1, Zenon DEF OfferWrite, OwedIsHeld, history
  <2>2. CASE writeCh' = [writeCh EXCEPT ![r] = Append(@, req)]
    <3>1. writeCh[r] \in Seq(Request) /\ req \in Request
      BY Zenon DEF TypeOK
    <3>2. Range(writeCh[r]) \subseteq Range(writeCh'[r])
      BY <2>2, <3>1, RangeAppend, Zenon DEF TypeOK
    <3>3. \A q \in Replicas : Range(writeCh[q]) \subseteq Range(writeCh'[q])
      BY <2>2, <3>2, Zenon DEF TypeOK
    <3>4. UNCHANGED <<phase, received, owed>>
      BY <1>2, Zenon DEF OfferWrite, history
    <3>. QED BY <3>3, <3>4, Zenon DEF OwedIsHeld
  <2>. QED BY <1>2, <2>1, <2>2 DEF OfferWrite
<1>3. ASSUME NEW r \in Replicas, Take(r)
      PROVE  OwedIsHeld'
  <2>1. /\ writeCh[r] \in Seq(Request) /\ writeCh[r] # << >>
        /\ Head(writeCh[r]) \in Request /\ received[r] \in Seq(Request)
        /\ phase[r] \in {"running", "stopping"}
    BY <1>3, SMTT(30) DEF Take, TypeOK, OwedIsHeld
  <2>2. /\ writeCh' = [writeCh EXCEPT ![r] = Tail(@)]
        /\ received' = [received EXCEPT ![r] = Append(@, Head(writeCh[r]))]
        /\ UNCHANGED <<phase, owed>>
    BY <1>3, Zenon DEF Take
  <2>3. Append(received[r], Head(writeCh[r])) \in Seq(Request)
    BY <2>1
  <2>4. received' \in [Replicas -> Seq(Request)]
    BY <2>2, <2>3, Zenon DEF OwedIsHeld
  <2>5. Range(received[r]) \cup {Head(writeCh[r])} \subseteq Range(received'[r])
    BY <2>1, <2>2, RangeAppend DEF OwedIsHeld
  <2>6. Range(writeCh[r]) \subseteq {Head(writeCh[r])} \cup Range(writeCh'[r])
    BY <2>1, <2>2, RangeTail DEF TypeOK
  <2>7. owed[r] \subseteq Range(received'[r]) \cup Range(writeCh'[r])
    BY <2>5, <2>6, Zenon DEF OwedIsHeld
  <2>8. \A q \in Replicas : q # r => received'[q] = received[q] /\ writeCh'[q] = writeCh[q]
    BY <2>2, Zenon DEF OwedIsHeld, TypeOK
  <2>. QED BY <2>1, <2>2, <2>4, <2>7, <2>8, Zenon DEF OwedIsHeld
<1>4. ASSUME NEW r \in Replicas, Flush(r)
      PROVE  OwedIsHeld'
  <2>1. FlushPending(r) /\ phase[r] \in {"running", "stopping"} /\ UNCHANGED <<writeCh, phase>>
    BY <1>4, Zenon DEF Flush
  <2>2. /\ owed'[r] = owed[r] \ Range(received[r])
        /\ \A q \in Replicas : q # r => received'[q] = received[q] /\ owed'[q] = owed[q]
        /\ received' \in [Replicas -> Seq(Request)] /\ owed' \in [Replicas -> SUBSET Request]
    BY <2>1, FlushPays, Zenon
  <2>3. /\ owed'[r] \subseteq Range(writeCh[r])
        /\ phase[r] = "running" => owed'[r] = {}
    BY <2>2, Zenon DEF OwedIsHeld
  <2>. QED BY <2>1, <2>2, <2>3, Zenon DEF OwedIsHeld
<1>5. ASSUME NEW r \in Replicas, FinalFlush(r)
      PROVE  OwedIsHeld'
  <2>1. /\ FlushPending(r) /\ phase[r] = "flushing" /\ UNCHANGED writeCh
        /\ phase' = [phase EXCEPT ![r] = "stopped"]
    BY <1>5, Zenon DEF FinalFlush
  <2>2. owed'[r] = {}
    BY <2>1, FlushPays DEF OwedIsHeld
  <2>3. phase'[r] = "stopped"
    BY <2>1 DEF TypeOK
  <2>4. \A q \in Replicas : q # r => phase'[q] = phase[q]
    BY <2>1 DEF TypeOK
  <2>5. /\ \A q \in Replicas : q # r => received'[q] = received[q] /\ owed'[q] = owed[q]
        /\ received' \in [Replicas -> Seq(Request)] /\ owed' \in [Replicas -> SUBSET Request]
    BY <2>1, FlushPays, Zenon
  <2>. QED BY <2>1, <2>2, <2>3, <2>4, <2>5, Zenon DEF OwedIsHeld
<1>6. ASSUME NEW r \in Replicas, Stop(r)
      PROVE  OwedIsHeld'
  <2>1. /\ phase' = [phase EXCEPT ![r] = "stopping"]
        /\ owed' = [owed EXCEPT ![r] = Range(received[r] \o writeCh[r])]
        /\ UNCHANGED <<writeCh, received>>
    BY <1>6, Zenon DEF Stop
  <2>2. received[r] \in Seq(Request) /\ writeCh[r] \in Seq(Request)
    BY Zenon DEF OwedIsHeld, TypeOK
  <2>3. /\ Range(received[r] \o writeCh[r]) \subseteq Range(received[r]) \cup Range(writeCh[r])
        /\ Range(received[r]) \cup Range(writeCh[r]) \subseteq Request
    BY <2>2, RangeConcat, RangeType, Zenon
  <2>4. owed' \in [Replicas -> SUBSET Request]
    BY <2>1, <2>3, Zenon DEF OwedIsHeld
  <2>5. phase'[r] = "stopping" /\ owed'[r] \subseteq Range(received[r]) \cup Range(writeCh[r])
    BY <2>1, <2>3, Zenon DEF OwedIsHeld, TypeOK
  <2>6. \A q \in Replicas : q # r => phase'[q] = phase[q] /\ owed'[q] = owed[q]
    BY <2>1, Zenon DEF OwedIsHeld, TypeOK
  <2>. QED BY <2>1, <2>4, <2>5, <2>6, Zenon DEF OwedIsHeld
<1>7. ASSUME NEW r \in Replicas, Drained(r)
      PROVE  OwedIsHeld'
  <2>1. /\ phase' = [phase EXCEPT ![r] = "flushing"] /\ writeCh[r] = << >>
        /\ UNCHANGED <<writeCh, received, owed>>
    BY <1>7, Zenon DEF Drained, history
  <2>2. owed[r] \subseteq Range(received[r])
    BY <2>1, RangeEmpty, Zenon DEF OwedIsHeld
  <2>. QED BY <2>1, <2>2, Zenon DEF OwedIsHeld, TypeOK
<1>8. ASSUME NEW r \in Replicas, NEW k \in Keys, Caller(r, k)
      PROVE  UNCHANGED <<writeCh, phase, received, owed>>
  BY <1>8, Zenon DEF Caller, RecordSignal, ResetScore, ShouldRecover, RecoverScore,
              SetArchivalStatus, FetchArchival, StoreFetched, history
<1>9. ASSUME NEW r \in Replicas,
             \/ \E req \in syncSets[r] : SyncSet(r, req)
             \/ RefreshRead(r) \/ RefreshApply(r)
      PROVE  UNCHANGED <<writeCh, phase, received, owed>>
  BY <1>9, Zenon DEF SyncSet, RefreshRead, RefreshApply, history
<1>10. ASSUME NEW k \in Keys, Expire(k)
       PROVE  UNCHANGED <<writeCh, phase, received, owed>>
  BY <1>10, Zenon DEF Expire, service, history
<1>11. CASE UNCHANGED vars
  BY <1>1, <1>11, Zenon DEF vars, service, history
<1>. QED
  BY <1>1, <1>2, <1>3, <1>4, <1>5, <1>6, <1>7, <1>8, <1>9, <1>10, <1>11, Zenon DEF Next, WriteLoop

\* When writeLoop has exited, everything writeCh had accepted before Stop has
\* been part of a flush, whatever the other replicas and callers do meanwhile.
THEOREM StopFlushesAll == Spec => []StopFlushes
<1>1. Init => OwedIsHeld
  BY RangeEmpty DEF Init, OwedIsHeld
<1>2. TypeOK /\ OwedIsHeld /\ [Next]_vars => OwedIsHeld'
  BY OwedStep
<1>3. OwedIsHeld => StopFlushes
  BY Zenon DEF OwedIsHeld, StopFlushes
<1>. QED BY <1>1, <1>2, <1>3, TypeCorrect, PTL DEF Spec

-----------------------------------------------------------------------------
(* Coalescing                                                               *)

\* LastFor reads the score of the one request that is the last for its key.
LEMMA LastForIs ==
  ASSUME NEW s \in Seq(Request), NEW k, NEW i, IsLastFor(k, s, i)
  PROVE  LastFor(k, s) = s[i].score
<1>1. DOMAIN s \subseteq Nat
  OBVIOUS
<1>2. \A j \in DOMAIN s : IsLastFor(k, s, j) => j = i
  BY <1>1 DEF IsLastFor
<1>3. (CHOOSE j \in DOMAIN s : IsLastFor(k, s, j)) = i
  BY <1>2 DEF IsLastFor
<1>. QED BY <1>3 DEF LastFor, IsLastFor

\* With every key of a sequence of requests comes a last request, by induction on its
\* length through LastForAppend: the invariant below carries it along.
HasLast(k, s) == (\E i \in DOMAIN s : s[i].key = k) => \E i : IsLastFor(k, s, i)

\* A request appended is the last for its key and changes nothing for the others.
LEMMA LastForAppend ==
  ASSUME NEW s \in Seq(Request), NEW req \in Request, NEW k, HasLast(k, s)
  PROVE  /\ LastFor(k, Append(s, req)) = IF req.key = k THEN req.score ELSE LastFor(k, s)
         /\ HasLast(k, Append(s, req))
<1> DEFINE t == Append(s, req)
<1>1. /\ t \in Seq(Request) /\ Len(s) \in Nat /\ DOMAIN s = 1 .. Len(s) /\ DOMAIN t = 1 .. Len(s) + 1
      /\ \A i \in 1 .. Len(s) : t[i] = s[i]
      /\ t[Len(s) + 1] = req
  OBVIOUS
<1> HIDE DEF t
<1>2. CASE req.key = k
  <2>1. IsLastFor(k, t, Len(s) + 1)
    BY <1>1, <1>2 DEF IsLastFor
  <2>2. LastFor(k, t) = req.score
    BY <1>1, <2>1, LastForIs, Zenon
  <2>. QED BY <1>2, <2>1, <2>2, Zenon DEF HasLast, t
<1>3. CASE req.key # k /\ \E i \in DOMAIN s : s[i].key = k
  <2>1. PICK i : IsLastFor(k, s, i)
    BY <1>3, Zenon DEF HasLast
  <2>2. IsLastFor(k, t, i) /\ t[i] = s[i]
    BY <1>1, <1>3, <2>1 DEF IsLastFor
  <2>3. LastFor(k, t) = s[i].score /\ LastFor(k, s) = s[i].score
    BY <1>1, <2>1, <2>2, LastForIs
  <2>. QED BY <1>3, <2>2, <2>3, Zenon DEF HasLast, t
<1>4. CASE req.key # k /\ ~\E i \in DOMAIN s : s[i].key = k
  <2>1. ~\E i \in DOMAIN t : t[i].key = k
    BY <1>1, <1>4
  <2>. QED BY <1>4, <2>1 DEF HasLast, LastFor, t
<1>. QED BY <1>2, <1>3, <1>4, Zenon

\* Nothing received, no last request.
LEMMA LastForNone == \A k : LastFor(k, << >>) = NoScore /\ HasLast(k, << >>)
BY DEF LastFor, HasLast

\* writeLoop's map holds, for every key, the last request received for it.
PendingIsLast ==
  /\ received \in [Replicas -> Seq(Request)]
  /\ \A r \in Replicas, k \in Keys :
       pending[r][k] = LastFor(k, received[r]) /\ HasLast(k, received[r])

\* Every step keeps the map and the requests received together.
LEMMA PendingStep ==
  ASSUME TypeOK, PendingIsLast, [Next]_vars
  PROVE  PendingIsLast'
<1>1. CASE UNCHANGED <<pending, received>>
  BY <1>1, Zenon DEF PendingIsLast
<1>2. ASSUME NEW r \in Replicas, Take(r)
      PROVE  PendingIsLast'
  <2> DEFINE req == Head(writeCh[r])
  <2>1. /\ pending' = [pending EXCEPT ![r][req.key] = req.score]
        /\ received' = [received EXCEPT ![r] = Append(@, req)]
    BY <1>2, Zenon DEF Take
  <2>2. req \in Request /\ received[r] \in Seq(Request) /\ pending \in [Replicas -> [Keys -> MaybeScore]]
    BY <1>2 DEF Take, TypeOK, PendingIsLast
  <2> HIDE DEF req
  <2>3. req.key \in Keys
    BY <2>2, Zenon DEF Request
  <2>4. received' \in [Replicas -> Seq(Request)] /\ received'[r] = Append(received[r], req)
    BY <2>1, <2>2 DEF PendingIsLast
  <2>5. \A k \in Keys : pending'[r][k] = IF req.key = k THEN req.score ELSE pending[r][k]
    BY <2>1, <2>2, <2>3
  <2>6. \A q \in Replicas : q # r => pending'[q] = pending[q] /\ received'[q] = received[q]
    BY <2>1, <2>2, Zenon DEF PendingIsLast
  <2>7. ASSUME NEW k \in Keys
        PROVE  pending'[r][k] = LastFor(k, received'[r]) /\ HasLast(k, received'[r])
    <3>1. pending[r][k] = LastFor(k, received[r]) /\ HasLast(k, received[r])
      BY Zenon DEF PendingIsLast
    <3>2. /\ LastFor(k, received'[r]) = IF req.key = k THEN req.score ELSE LastFor(k, received[r])
          /\ HasLast(k, received'[r])
      BY <2>2, <2>4, <3>1, LastForAppend
    <3>. QED BY <2>5, <3>1, <3>2, Zenon
  <2>. QED BY <2>4, <2>6, <2>7, Zenon DEF PendingIsLast
<1>3. ASSUME NEW r \in Replicas, FlushPending(r)
      PROVE  PendingIsLast'
  <2>1. /\ pending' = [pending EXCEPT ![r] = Empty]
        /\ received' = [received EXCEPT ![r] = << >>]
    BY <1>3 DEF FlushPending, FlushKeys
  <2>2. received \in [Replicas -> Seq(Request)] /\ pending \in [Replicas -> [Keys -> MaybeScore]]
    BY Zenon DEF PendingIsLast, TypeOK
  <2>0. << >> \in Seq(Request)
    OBVIOUS
  <2>3. received' \in [Replicas -> Seq(Request)] /\ received'[r] = << >> /\ pending'[r] = Empty
    BY <2>0, <2>1, <2>2, Zenon
  <2>4. \A q \in Replicas : q # r => pending'[q] = pending[q] /\ received'[q] = received[q]
    BY <2>1, <2>2, Zenon
  <2>5. \A k \in Keys : pending'[r][k] = LastFor(k, received'[r]) /\ HasLast(k, received'[r])
    BY <2>3, LastForNone, Zenon DEF Empty
  <2>. QED BY <2>3, <2>4, <2>5, Zenon DEF PendingIsLast
<1>4. ASSUME NEW r \in Replicas, NEW k \in Keys, Caller(r, k)
      PROVE  UNCHANGED <<pending, received>>
  BY <1>4, Zenon DEF Caller, RecordSignal, ResetScore, ShouldRecover, RecoverScore,
              SetArchivalStatus, FetchArchival, StoreFetched, history
<1>5. ASSUME NEW r \in Replicas,
             \/ \E req \in sends[r] : OfferWrite(r, req)
             \/ \E req \in syncSets[r] : SyncSet(r, req)
             \/ Stop(r) \/ Drained(r) \/ RefreshRead(r) \/ RefreshApply(r)
      PROVE  UNCHANGED <<pending, received>>
  BY <1>5, Zenon DEF OfferWrite, SyncSet, Stop, Drained, RefreshRead, RefreshApply, history
<1>6. ASSUME NEW k \in Keys, Expire(k)
      PROVE  UNCHANGED <<pending, received>>
  BY <1>6 DEF Expire, service, history
<1>7. CASE UNCHANGED vars
  BY <1>1, <1>7, Zenon DEF vars, service, history
<1>8. ASSUME NEW r \in Replicas, Flush(r) \/ FinalFlush(r)
      PROVE  FlushPending(r)
  BY <1>8, Zenon DEF Flush, FinalFlush
<1>. QED
  BY <1>1, <1>2, <1>3, <1>4, <1>5, <1>6, <1>7, <1>8, Zenon DEF Next, WriteLoop

\* A flush of replica r that reports no error writes the last request of every key.
LEMMA FlushIsExact ==
  ASSUME TypeOK, PendingIsLast, NEW r \in Replicas, FlushPending(r), failures' = failures, NEW k \in Keys
  PROVE  storage'[k] = IF LastFor(k, received[r]) = NoScore THEN storage[k] ELSE LastFor(k, received[r])
<1>1. failures \in Nat
  BY SyncAssumption DEF TypeOK, SyncAssumption
<1>2. FlushKeys(r, {j \in Keys : pending[r][j] # NoScore})
  BY <1>1 DEF FlushPending, Fail
<1>3. storage'[k] = IF pending[r][k] # NoScore THEN pending[r][k] ELSE storage[k]
  BY <1>2, Zenon DEF FlushKeys
<1>. QED BY <1>3, Zenon DEF PendingIsLast

\* Coalescing loses and reorders nothing of what writeCh accepted, for any replicas, keys
\* and buffer: a flush that succeeds leaves in the storage the score of the last request
\* received for each key since the previous flush, and touches no other key.
THEOREM CoalescingExact == Spec => CoalescingIsExact
<1> DEFINE A == \A r \in Replicas :
                  received[r] # << >> /\ received'[r] = << >> /\ failures' = failures =>
                    \A k \in Keys : LET last == LastFor(k, received[r])
                                   IN storage'[k] = IF last = NoScore THEN storage[k] ELSE last
<1>1. ASSUME TypeOK, PendingIsLast, Next PROVE A
  <2>1. SUFFICES ASSUME NEW r \in Replicas, received[r] # << >>, received'[r] = << >>, failures' = failures,
                        NEW k \in Keys
                 PROVE  storage'[k] = IF LastFor(k, received[r]) = NoScore THEN storage[k]
                                                                    ELSE LastFor(k, received[r])
    OBVIOUS
  <2>2. CASE FlushPending(r)
    BY <1>1, <2>1, <2>2, FlushIsExact, Zenon
  <2>3. ASSUME NEW q \in Replicas, q # r, FlushPending(q) PROVE FALSE
    <3>1. received' = [received EXCEPT ![q] = << >>]
      BY <2>3, Zenon DEF FlushPending, FlushKeys
    <3>. QED BY <1>1, <2>1, <2>3, <3>1, Zenon DEF PendingIsLast
  <2>4. ASSUME NEW q \in Replicas, Take(q) PROVE FALSE
    <3>1. received' = [received EXCEPT ![q] = Append(@, Head(writeCh[q]))]
      BY <2>4, Zenon DEF Take
    <3>2. received[q] \in Seq(Request) /\ Head(writeCh[q]) \in Request
      BY <1>1, <2>4 DEF PendingIsLast, Take, TypeOK
    <3>3. Append(received[q], Head(writeCh[q])) # << >>
      BY <3>2
    <3>. QED BY <1>1, <2>1, <3>1, <3>3, Zenon DEF PendingIsLast
  <2>5. CASE UNCHANGED received
    BY <2>1, <2>5, Zenon
  <2>6. ASSUME NEW q \in Replicas, Flush(q) \/ FinalFlush(q)
        PROVE  FlushPending(q)
    BY <2>6 DEF Flush, FinalFlush
  <2>7. ASSUME NEW q \in Replicas, NEW j \in Keys, Caller(q, j)
        PROVE  UNCHANGED received
    BY <2>7 DEF Caller, RecordSignal, ResetScore, ShouldRecover, RecoverScore,
                SetArchivalStatus, FetchArchival, StoreFetched, history
  <2>8. ASSUME NEW q \in Replicas,
               \/ \E req \in sends[q] : OfferWrite(q, req)
               \/ \E req \in syncSets[q] : SyncSet(q, req)
               \/ Stop(q) \/ Drained(q) \/ RefreshRead(q) \/ RefreshApply(q)
        PROVE  UNCHANGED received
    BY <2>8, Zenon DEF OfferWrite, SyncSet, Stop, Drained, RefreshRead, RefreshApply, history
  <2>9. ASSUME NEW j \in Keys, Expire(j)
        PROVE  UNCHANGED received
    BY <2>9, Zenon DEF Expire, history
  <2>. QED
    BY <1>1, <2>2, <2>3, <2>4, <2>5, <2>6, <2>7, <2>8, <2>9 DEF Next, WriteLoop
<1>2. TypeOK /\ PendingIsLast /\ [Next]_vars => [A]_vars
  BY <1>1, Zenon
<1>3. Init => PendingIsLast
  BY LastForNone DEF Init, PendingIsLast, Empty
<1>4. TypeOK /\ PendingIsLast /\ [Next]_vars => PendingIsLast'
  BY PendingStep, Zenon
<1>. QED BY <1>2, <1>3, <1>4, TypeCorrect, PTL DEF Spec, CoalescingIsExact
=============================================================================
