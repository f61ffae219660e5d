---------------------- MODULE SubscriptionReplayProofs ----------------------
(***************************************************************************)
(* Rebinds are seamless to a client's subscriptions, for any request ids and *)
(* any number of calls and rebinds.                                         *)
(***************************************************************************)
EXTENDS SubscriptionReplay, TLAPS

-----------------------------------------------------------------------------
(* The registry                                                             *)

ID == Nat \X Nat
Subscription == [reqID : ReqIDs, clientSubID : ID, currentSubID : ID]
\* The supplier's id for call n on connection g.
IdAt(n, g) == <<n, g>>

\* rq has the request id of every call: an id of entry k belongs to a call under k's request id.
ForReq(rq, k, id) == id = NoId \/ (id[1] \in DOMAIN rq /\ rq[id[1]] = rq[k])

IsRegistry(r) == DOMAIN r = {"sub", "byReqID", "byClientSubID", "byCurrentSubID"}

\* What holds of one entry, and of the three indexes into them.
EntryOK(r, rq, k) ==
  /\ r.sub[k] \in Subscription /\ r.sub[k].reqID = rq[k]
  /\ rq[k] \in DOMAIN r.byReqID /\ r.byReqID[rq[k]] = k
  /\ r.sub[k].clientSubID = NoId <=> r.sub[k].currentSubID = NoId
  /\ ForReq(rq, k, r.sub[k].clientSubID) /\ ForReq(rq, k, r.sub[k].currentSubID)
  /\ r.sub[k].clientSubID # NoId => r.sub[k].clientSubID \in DOMAIN r.byClientSubID
  /\ r.sub[k].currentSubID # NoId => r.sub[k].currentSubID \in DOMAIN r.byCurrentSubID
IndexOK(r, rq) ==
  /\ \A q \in DOMAIN r.byReqID : r.byReqID[q] \in DOMAIN r.sub /\ rq[r.byReqID[q]] = q
  /\ \A id \in DOMAIN r.byClientSubID :
       id # NoId /\ r.byClientSubID[id] \in DOMAIN r.sub /\ r.sub[r.byClientSubID[id]].clientSubID = id
  /\ \A id \in DOMAIN r.byCurrentSubID :
       id # NoId /\ r.byCurrentSubID[id] \in DOMAIN r.sub /\ r.sub[r.byCurrentSubID[id]].currentSubID = id
RegistryOK(r, rq) ==
  /\ IsRegistry(r)
  /\ DOMAIN r.sub \subseteq DOMAIN rq
  /\ \A k \in DOMAIN r.sub : EntryOK(r, rq, k)
  /\ IndexOK(r, rq)

\* Entries have request ids and subscription ids of their own.
LEMMA EntriesDiffer ==
  ASSUME NEW r, NEW rq, RegistryOK(r, rq), NEW j \in DOMAIN r.sub, NEW k \in DOMAIN r.sub, j # k
  PROVE  /\ rq[j] # rq[k]
         /\ r.sub[j].clientSubID # NoId => r.sub[j].clientSubID # r.sub[k].clientSubID
         /\ r.sub[j].currentSubID # NoId => r.sub[j].currentSubID # r.sub[k].currentSubID
<1>1. EntryOK(r, rq, j) /\ EntryOK(r, rq, k)
  BY Zenon DEF RegistryOK
<1>2. rq[j] # rq[k]
  BY <1>1, Zenon DEF EntryOK
<1> QED
  BY <1>1, <1>2, Zenon DEF EntryOK, ForReq

\* An id of the client names one entry, and so does an id of the supplier.
LEMMA OneEntry ==
  ASSUME NEW r, NEW rq, RegistryOK(r, rq), NEW j \in DOMAIN r.sub, NEW k \in DOMAIN r.sub,
         r.sub[j].clientSubID # NoId, r.sub[j].clientSubID = r.sub[k].clientSubID
  PROVE  j = k
BY EntriesDiffer, Zenon

LEMMA OneCurrent ==
  ASSUME NEW r, NEW rq, RegistryOK(r, rq), NEW j \in DOMAIN r.sub, NEW k \in DOMAIN r.sub,
         r.sub[j].currentSubID # NoId, r.sub[j].currentSubID = r.sub[k].currentSubID
  PROVE  j = k
BY EntriesDiffer, Zenon

\* removeLocked takes out one entry and what points to it.
LEMMA Removed ==
  ASSUME NEW r, NEW rq, RegistryOK(r, rq), NEW k \in DOMAIN r.sub
  PROVE  LET t == removeLocked(r, k) IN
         /\ RegistryOK(t, rq) /\ DOMAIN t.sub = DOMAIN r.sub \ {k} /\ rq[k] \notin DOMAIN t.byReqID
         /\ \A j \in DOMAIN t.sub : t.sub[j] = r.sub[j]
<1> DEFINE t == removeLocked(r, k)
<1>1. /\ IsRegistry(t)
      /\ t.sub = Without(r.sub, k) /\ t.byReqID = Without(r.byReqID, r.sub[k].reqID)
      /\ t.byClientSubID = Without(r.byClientSubID, r.sub[k].clientSubID)
      /\ t.byCurrentSubID = Without(r.byCurrentSubID, r.sub[k].currentSubID)
  BY Zenon DEF removeLocked, IsRegistry
<1> HIDE DEF t
<1>2. r.sub[k].reqID = rq[k] /\ EntryOK(r, rq, k) /\ IndexOK(r, rq) /\ DOMAIN r.sub \subseteq DOMAIN rq
  BY Zenon DEF RegistryOK, EntryOK
<1>3. DOMAIN t.sub = DOMAIN r.sub \ {k} /\ \A j \in DOMAIN r.sub \ {k} : t.sub[j] = r.sub[j]
  BY <1>1, Zenon DEF Without, Restrict
<1>4. /\ DOMAIN t.byReqID = DOMAIN r.byReqID \ {rq[k]}
      /\ \A q \in DOMAIN r.byReqID \ {rq[k]} : t.byReqID[q] = r.byReqID[q]
  BY <1>1, <1>2, Zenon DEF Without, Restrict
<1>5. /\ DOMAIN t.byClientSubID = DOMAIN r.byClientSubID \ {r.sub[k].clientSubID}
      /\ \A id \in DOMAIN t.byClientSubID : t.byClientSubID[id] = r.byClientSubID[id]
  BY <1>1, Zenon DEF Without, Restrict
<1>6. /\ DOMAIN t.byCurrentSubID = DOMAIN r.byCurrentSubID \ {r.sub[k].currentSubID}
      /\ \A id \in DOMAIN t.byCurrentSubID : t.byCurrentSubID[id] = r.byCurrentSubID[id]
  BY <1>1, Zenon DEF Without, Restrict
<1>7. ASSUME NEW j \in DOMAIN t.sub PROVE EntryOK(t, rq, j)
  <2>1. j \in DOMAIN r.sub /\ j # k /\ t.sub[j] = r.sub[j] /\ EntryOK(r, rq, j)
    BY <1>3, Zenon DEF RegistryOK
  <2>2. /\ rq[j] # rq[k]
        /\ r.sub[j].clientSubID # NoId => r.sub[j].clientSubID # r.sub[k].clientSubID
        /\ r.sub[j].currentSubID # NoId => r.sub[j].currentSubID # r.sub[k].currentSubID
    BY <2>1, EntriesDiffer, Zenon
  <2> QED
    BY <1>4, <1>5, <1>6, <2>1, <2>2, Zenon DEF EntryOK
<1>8. IndexOK(t, rq)
  <2>1. ASSUME NEW q \in DOMAIN t.byReqID PROVE t.byReqID[q] \in DOMAIN t.sub /\ rq[t.byReqID[q]] = q
    BY <1>2, <1>3, <1>4 DEF IndexOK
  <2>2. ASSUME NEW id \in DOMAIN t.byClientSubID
        PROVE  id # NoId /\ t.byClientSubID[id] \in DOMAIN t.sub /\ t.sub[t.byClientSubID[id]].clientSubID = id
    BY <1>2, <1>3, <1>5 DEF IndexOK
  <2>3. ASSUME NEW id \in DOMAIN t.byCurrentSubID
        PROVE  id # NoId /\ t.byCurrentSubID[id] \in DOMAIN t.sub /\ t.sub[t.byCurrentSubID[id]].currentSubID = id
    BY <1>2, <1>3, <1>6 DEF IndexOK
  <2> QED
    BY <2>1, <2>2, <2>3, Zenon DEF IndexOK
<1>9. RegistryOK(t, rq)
  BY <1>1, <1>2, <1>3, <1>7, <1>8, Zenon DEF RegistryOK
<1> QED
  BY <1>3, <1>4, <1>9, Zenon DEF t

\* A call that is not in the registry is put there under a request id that is free.
LEMMA Added ==
  ASSUME NEW r, NEW rq, RegistryOK(r, rq), NEW n \in DOMAIN rq, n \notin DOMAIN r.sub,
         rq[n] \in ReqIDs, rq[n] \notin DOMAIN r.byReqID,
         NEW s \in Subscription, s.reqID = rq[n], s.clientSubID = NoId, s.currentSubID = NoId,
         NEW t, IsRegistry(t),
         t.sub = With(r.sub, n, s), t.byReqID = With(r.byReqID, rq[n], n),
         t.byClientSubID = r.byClientSubID, t.byCurrentSubID = r.byCurrentSubID
  PROVE  RegistryOK(t, rq)
<1>1. DOMAIN t.sub = DOMAIN r.sub \cup {n} /\ t.sub[n] = s /\ \A j \in DOMAIN r.sub : t.sub[j] = r.sub[j]
  BY Zenon DEF With
<1>2. /\ DOMAIN t.byReqID = DOMAIN r.byReqID \cup {rq[n]} /\ t.byReqID[rq[n]] = n
      /\ \A q \in DOMAIN r.byReqID : t.byReqID[q] = r.byReqID[q]
  BY Zenon DEF With
<1>3. ASSUME NEW j \in DOMAIN t.sub PROVE EntryOK(t, rq, j)
  <2>1. CASE j = n
    BY <1>1, <1>2, <2>1, Zenon DEF EntryOK, ForReq
  <2>2. CASE j # n
    <3>1. j \in DOMAIN r.sub /\ t.sub[j] = r.sub[j] /\ EntryOK(r, rq, j)
      BY <1>1, <2>2, Zenon DEF RegistryOK
    <3> QED
      BY <1>2, <3>1, Zenon DEF EntryOK
  <2> QED
    BY <2>1, <2>2, Zenon
<1>4. IndexOK(r, rq) /\ DOMAIN r.sub \subseteq DOMAIN rq
  BY Zenon DEF RegistryOK
<1>5. IndexOK(t, rq)
  <2>1. ASSUME NEW q \in DOMAIN t.byReqID PROVE t.byReqID[q] \in DOMAIN t.sub /\ rq[t.byReqID[q]] = q
    BY <1>1, <1>2, <1>4 DEF IndexOK
  <2>2. ASSUME NEW id \in DOMAIN t.byClientSubID
        PROVE  id # NoId /\ t.byClientSubID[id] \in DOMAIN t.sub /\ t.sub[t.byClientSubID[id]].clientSubID = id
    BY <1>1, <1>4 DEF IndexOK
  <2>3. ASSUME NEW id \in DOMAIN t.byCurrentSubID
        PROVE  id # NoId /\ t.byCurrentSubID[id] \in DOMAIN t.sub /\ t.sub[t.byCurrentSubID[id]].currentSubID = id
    BY <1>1, <1>4 DEF IndexOK
  <2> QED
    BY <2>1, <2>2, <2>3, Zenon DEF IndexOK
<1> QED
  BY <1>1, <1>3, <1>4, <1>5, Zenon DEF RegistryOK

\* TrackClientMessage of an eth_subscribe: the call takes the place of the one under its request id.
LEMMA Subscribed ==
  ASSUME NEW r, NEW rq, RegistryOK(r, rq), NEW n \in DOMAIN rq, n \notin DOMAIN r.sub, rq[n] \in ReqIDs
  PROVE  LET t == TrackSubscribe(r, n, rq[n]) IN
         /\ RegistryOK(t, rq) /\ n \in DOMAIN t.sub /\ t.sub[n].clientSubID = NoId
         /\ \A j \in DOMAIN t.sub : j = n \/ (j \in DOMAIN r.sub /\ rq[j] # rq[n])
         /\ \A j \in DOMAIN r.sub : rq[j] # rq[n] => j \in DOMAIN t.sub /\ t.sub[j] = r.sub[j]
<1> DEFINE kept == IF rq[n] \in DOMAIN r.byReqID THEN removeLocked(r, r.byReqID[rq[n]]) ELSE r
           s == [reqID |-> rq[n], clientSubID |-> NoId, currentSubID |-> NoId]
           t == [kept EXCEPT !.sub = With(@, n, s), !.byReqID = With(@, rq[n], n)]
<1>1. TrackSubscribe(r, n, rq[n]) = t
  BY Zenon DEF TrackSubscribe
<1>2. /\ RegistryOK(kept, rq) /\ rq[n] \notin DOMAIN kept.byReqID
      /\ DOMAIN kept.sub = {j \in DOMAIN r.sub : rq[j] # rq[n]}
      /\ \A j \in DOMAIN kept.sub : kept.sub[j] = r.sub[j]
  <2>1. CASE rq[n] \in DOMAIN r.byReqID
    <3> DEFINE k == r.byReqID[rq[n]]
    <3>1. k \in DOMAIN r.sub /\ rq[k] = rq[n]
      BY <2>1, Zenon DEF RegistryOK, IndexOK
    <3>2. kept = removeLocked(r, k)
      BY <2>1, Zenon
    <3>3. \A j \in DOMAIN r.sub : j # k => rq[j] # rq[k]
      BY <3>1, EntriesDiffer
    <3> HIDE DEF k, kept
    <3> QED
      BY <3>1, <3>2, <3>3, Removed
  <2>2. CASE rq[n] \notin DOMAIN r.byReqID
    <3>1. \A j \in DOMAIN r.sub : rq[j] \in DOMAIN r.byReqID
      BY Zenon DEF RegistryOK, EntryOK
    <3> QED
      BY <2>2, <3>1, Zenon
  <2> QED
    BY <2>1, <2>2, Zenon
<1> HIDE DEF kept
<1>3. n \notin DOMAIN kept.sub
  BY <1>2, Zenon
<1>4. s \in Subscription /\ s.reqID = rq[n] /\ s.clientSubID = NoId /\ s.currentSubID = NoId
  BY Zenon DEF Subscription, ID, NoId
<1>5. /\ IsRegistry(t)
      /\ t.sub = With(kept.sub, n, s) /\ t.byReqID = With(kept.byReqID, rq[n], n)
      /\ t.byClientSubID = kept.byClientSubID /\ t.byCurrentSubID = kept.byCurrentSubID
  <2>1. IsRegistry(kept)
    BY <1>2, Zenon DEF RegistryOK
  <2> HIDE DEF s
  <2> QED
    BY <2>1, Zenon DEF IsRegistry
<1> HIDE DEF t, s
<1>6. /\ RegistryOK(t, rq) /\ DOMAIN t.sub = DOMAIN kept.sub \cup {n} /\ t.sub[n] = s
      /\ \A j \in DOMAIN kept.sub : t.sub[j] = kept.sub[j]
  <2>1. RegistryOK(kept, rq) /\ rq[n] \notin DOMAIN kept.byReqID
    BY <1>2, Zenon
  <2> QED
    <3>1. RegistryOK(t, rq)
      BY ONLY n \in DOMAIN rq, rq[n] \in ReqIDs, <1>3, <1>4, <1>5, <2>1, Added, Zenon
    <3>2. /\ DOMAIN t.sub = DOMAIN kept.sub \cup {n} /\ t.sub[n] = s
          /\ \A j \in DOMAIN kept.sub : t.sub[j] = kept.sub[j]
      BY ONLY <1>3, <1>5, Zenon DEF With
    <3> QED BY ONLY <3>1, <3>2, Zenon
<1> QED
  BY <1>1, <1>2, <1>4, <1>6, Zenon

\* TrackClientMessage of an eth_unsubscribe touches only entries under the request id of the
\* subscription, and the id it sends on is one of that request id, too.
LEMMA Unsubscribed ==
  ASSUME NEW r, NEW rq, RegistryOK(r, rq), NEW id, id # NoId, id[1] \in DOMAIN rq
  PROVE  LET u == TrackUnsubscribe(r, id) IN
         /\ RegistryOK(u.registry, rq) /\ u.id # NoId /\ u.id[1] \in DOMAIN rq /\ rq[u.id[1]] = rq[id[1]]
         /\ \A j \in DOMAIN u.registry.sub : j \in DOMAIN r.sub /\ u.registry.sub[j] = r.sub[j]
         /\ \A j \in DOMAIN r.sub : rq[j] # rq[id[1]] \/ r.sub[j].clientSubID = NoId => j \in DOMAIN u.registry.sub
<1>1. CASE id \notin DOMAIN r.byClientSubID
  BY <1>1, Zenon DEF TrackUnsubscribe
<1>2. CASE id \in DOMAIN r.byClientSubID
  <2> DEFINE k == r.byClientSubID[id]
             t == removeLocked(r, k)
             u == TrackUnsubscribe(r, id)
  <2>1. u = [registry |-> t, id |-> r.sub[k].currentSubID]
    BY <1>2, Zenon DEF TrackUnsubscribe
  <2>2. k \in DOMAIN r.sub /\ r.sub[k].clientSubID = id
    BY <1>2, Zenon DEF RegistryOK, IndexOK
  <2> HIDE DEF k
  <2>3. EntryOK(r, rq, k)
    BY <2>2, Zenon DEF RegistryOK
  <2>4. /\ rq[id[1]] = rq[k] /\ r.sub[k].currentSubID # NoId
        /\ r.sub[k].currentSubID[1] \in DOMAIN rq /\ rq[r.sub[k].currentSubID[1]] = rq[k]
    BY <2>2, <2>3, Zenon DEF EntryOK, ForReq
  <2>5. RegistryOK(t, rq) /\ DOMAIN t.sub = DOMAIN r.sub \ {k} /\ \A j \in DOMAIN t.sub : t.sub[j] = r.sub[j]
    BY <2>2, Removed, Zenon
  <2> HIDE DEF t
  <2>6. \A j \in DOMAIN r.sub : rq[j] # rq[id[1]] \/ r.sub[j].clientSubID = NoId => j \in DOMAIN t.sub
    BY <2>2, <2>4, <2>5, Zenon
  <2> HIDE DEF u
  <2>7. u.registry = t /\ u.id = r.sub[k].currentSubID
    BY <2>1, Zenon
  <2> QED
    BY <2>4, <2>5, <2>6, <2>7, Zenon DEF u
<1> QED
  BY <1>1, <1>2, Zenon

\* An entry that is given a current id, and its client id unless it has one.
LEMMA Renamed ==
  ASSUME NEW r, NEW rq, RegistryOK(r, rq), NEW n \in DOMAIN r.sub,
         NEW id \in ID, id # NoId, ForReq(rq, n, id),
         NEW c \in ID, c # NoId, ForReq(rq, n, c), r.sub[n].clientSubID = NoId \/ r.sub[n].clientSubID = c,
         NEW t, IsRegistry(t),
         \A j : j \in DOMAIN t.sub <=> j \in DOMAIN r.sub, t.sub[n] \in Subscription, t.sub[n].reqID = rq[n],
         t.sub[n].clientSubID = c, t.sub[n].currentSubID = id,
         \A j \in DOMAIN r.sub : j # n => t.sub[j] = r.sub[j],
         t.byReqID = r.byReqID,
         \A i : i \in DOMAIN t.byClientSubID <=> (i = c \/ i \in DOMAIN r.byClientSubID),
         t.byClientSubID[c] = n,
         \A i \in DOMAIN r.byClientSubID : i # c => t.byClientSubID[i] = r.byClientSubID[i],
         \A i : i \in DOMAIN t.byCurrentSubID <=>
                  (i = id \/ (i \in DOMAIN r.byCurrentSubID /\ i # r.sub[n].currentSubID)),
         t.byCurrentSubID[id] = n,
         \A i \in DOMAIN r.byCurrentSubID :
            i # id /\ i # r.sub[n].currentSubID => t.byCurrentSubID[i] = r.byCurrentSubID[i]
  PROVE  RegistryOK(t, rq)
<1>1. IndexOK(r, rq) /\ DOMAIN r.sub \subseteq DOMAIN rq /\ EntryOK(r, rq, n)
  BY Zenon DEF RegistryOK
<1>2. EntryOK(t, rq, n)
  BY <1>1, Zenon DEF EntryOK
<1>3. ASSUME NEW j \in DOMAIN r.sub, j # n PROVE EntryOK(t, rq, j)
  <2>1. /\ rq[j] # rq[n] /\ t.sub[j] = r.sub[j]
        /\ r.sub[j].currentSubID # NoId => r.sub[j].currentSubID # r.sub[n].currentSubID
    BY <1>3, EntriesDiffer
  <2>2. EntryOK(r, rq, j)
    BY Zenon DEF RegistryOK
  <2> QED
    BY <1>3, <2>1, <2>2, SMTT(30) DEF EntryOK
<1>4. IndexOK(t, rq)
  <2>1. ASSUME NEW i \in DOMAIN t.byClientSubID
        PROVE  i # NoId /\ t.byClientSubID[i] \in DOMAIN t.sub /\ t.sub[t.byClientSubID[i]].clientSubID = i
    BY <1>1 DEF IndexOK
  <2>2. ASSUME NEW i \in DOMAIN t.byCurrentSubID
        PROVE  i # NoId /\ t.byCurrentSubID[i] \in DOMAIN t.sub /\ t.sub[t.byCurrentSubID[i]].currentSubID = i
    BY <1>1 DEF IndexOK
  <2>3. \A q \in DOMAIN t.byReqID : t.byReqID[q] \in DOMAIN t.sub /\ rq[t.byReqID[q]] = q
    BY <1>1 DEF IndexOK
  <2> QED
    BY <2>1, <2>2, <2>3, Zenon DEF IndexOK
<1> QED
  BY <1>1, <1>2, <1>3, <1>4, Zenon DEF RegistryOK

\* The first id of an entry is the client's and the supplier's (TranslateEndpointMessage).
LEMMA FirstId ==
  ASSUME NEW r, NEW rq, RegistryOK(r, rq), NEW k \in DOMAIN r.sub,
         NEW id \in ID, id # NoId, ForReq(rq, k, id), r.sub[k].clientSubID = NoId,
         NEW t, IsRegistry(t), t.byReqID = r.byReqID, t.byClientSubID = With(r.byClientSubID, id, k),
         t.byCurrentSubID = With(r.byCurrentSubID, id, k),
         t.sub = [r.sub EXCEPT ![k].clientSubID = id, ![k].currentSubID = id]
  PROVE  /\ RegistryOK(t, rq) /\ \A j : j \in DOMAIN t.sub <=> j \in DOMAIN r.sub
         /\ t.sub[k].clientSubID = id /\ t.sub[k].currentSubID = id
         /\ \A j \in DOMAIN r.sub : j # k => t.sub[j] = r.sub[j]
<1>1. EntryOK(r, rq, k) /\ IndexOK(r, rq)
  BY Zenon DEF RegistryOK
<1>2. r.sub[k] \in Subscription /\ r.sub[k].reqID = rq[k] /\ r.sub[k].currentSubID = NoId
  BY <1>1, Zenon DEF EntryOK
<1>3. /\ \A j : j \in DOMAIN t.sub <=> j \in DOMAIN r.sub
      /\ t.sub[k] \in Subscription /\ t.sub[k].reqID = rq[k]
      /\ t.sub[k].clientSubID = id /\ t.sub[k].currentSubID = id
      /\ \A j \in DOMAIN r.sub : j # k => t.sub[j] = r.sub[j]
  BY <1>2 DEF Subscription
<1>4. /\ \A i : i \in DOMAIN t.byClientSubID <=> (i = id \/ i \in DOMAIN r.byClientSubID)
      /\ t.byClientSubID[id] = k
      /\ \A i \in DOMAIN r.byClientSubID : i # id => t.byClientSubID[i] = r.byClientSubID[i]
  BY Zenon DEF With
<1>5. /\ \A i : i \in DOMAIN t.byCurrentSubID <=>
                  (i = id \/ (i \in DOMAIN r.byCurrentSubID /\ i # r.sub[k].currentSubID))
      /\ t.byCurrentSubID[id] = k
      /\ \A i \in DOMAIN r.byCurrentSubID :
            i # id /\ i # r.sub[k].currentSubID => t.byCurrentSubID[i] = r.byCurrentSubID[i]
  <2>1. \A i \in DOMAIN r.byCurrentSubID : i # NoId
    BY <1>1, Zenon DEF IndexOK
  <2> QED
    BY <1>2, <2>1, Zenon DEF With
<1>6. RegistryOK(t, rq)
  BY ONLY RegistryOK(r, rq), k \in DOMAIN r.sub, id \in ID, id # NoId, ForReq(rq, k, id),
          r.sub[k].clientSubID = NoId, IsRegistry(t), t.byReqID = r.byReqID, <1>3, <1>4, <1>5, Renamed, SMTT(30)
<1> QED
  BY <1>3, <1>6, Zenon

\* A later id is the supplier's alone.
LEMMA NextId ==
  ASSUME NEW r, NEW rq, RegistryOK(r, rq), NEW k \in DOMAIN r.sub,
         NEW id \in ID, id # NoId, ForReq(rq, k, id), r.sub[k].clientSubID # NoId,
         NEW t, IsRegistry(t), t.byReqID = r.byReqID, t.byClientSubID = r.byClientSubID,
         t.byCurrentSubID = With(Without(r.byCurrentSubID, r.sub[k].currentSubID), id, k),
         t.sub = [r.sub EXCEPT ![k].currentSubID = id]
  PROVE  /\ RegistryOK(t, rq) /\ \A j : j \in DOMAIN t.sub <=> j \in DOMAIN r.sub
         /\ t.sub[k].clientSubID = r.sub[k].clientSubID /\ t.sub[k].currentSubID = id
         /\ \A j \in DOMAIN r.sub : j # k => t.sub[j] = r.sub[j]
<1> DEFINE c == r.sub[k].clientSubID
<1>1. EntryOK(r, rq, k) /\ IndexOK(r, rq)
  BY Zenon DEF RegistryOK
<1>2. r.sub[k] \in Subscription /\ r.sub[k].reqID = rq[k] /\ c \in DOMAIN r.byClientSubID /\ ForReq(rq, k, c)
  BY <1>1, Zenon DEF EntryOK
<1>3. /\ \A j : j \in DOMAIN t.sub <=> j \in DOMAIN r.sub
      /\ t.sub[k] \in Subscription /\ t.sub[k].reqID = rq[k]
      /\ t.sub[k].clientSubID = c /\ t.sub[k].currentSubID = id /\ c \in ID
      /\ \A j \in DOMAIN r.sub : j # k => t.sub[j] = r.sub[j]
  BY <1>2 DEF Subscription
<1>4. /\ \A i : i \in DOMAIN t.byClientSubID <=> (i = c \/ i \in DOMAIN r.byClientSubID)
      /\ t.byClientSubID[c] = k
      /\ \A i \in DOMAIN r.byClientSubID : i # c => t.byClientSubID[i] = r.byClientSubID[i]
  <2>1. r.byClientSubID[c] \in DOMAIN r.sub /\ r.sub[r.byClientSubID[c]].clientSubID = c
    BY <1>1, <1>2, Zenon DEF IndexOK
  <2>2. r.byClientSubID[c] = k
    BY <2>1, OneEntry, Zenon
  <2> QED
    BY <1>2, <2>2, Zenon
<1>5. /\ \A i : i \in DOMAIN t.byCurrentSubID <=>
                  (i = id \/ (i \in DOMAIN r.byCurrentSubID /\ i # r.sub[k].currentSubID))
      /\ t.byCurrentSubID[id] = k
      /\ \A i \in DOMAIN r.byCurrentSubID :
            i # id /\ i # r.sub[k].currentSubID => t.byCurrentSubID[i] = r.byCurrentSubID[i]
  BY Zenon DEF With, Without, Restrict
<1>6. RegistryOK(t, rq)
  <2> HIDE DEF c
  <2>1. c # NoId /\ (r.sub[k].clientSubID = NoId \/ r.sub[k].clientSubID = c)
    BY Zenon DEF c
  <2> QED
    BY ONLY RegistryOK(r, rq), k \in DOMAIN r.sub, id \in ID, id # NoId, ForReq(rq, k, id),
            IsRegistry(t), t.byReqID = r.byReqID, <1>2, <1>3, <1>4, <1>5, <2>1, Renamed, SMTT(30)
<1> QED
  BY <1>3, <1>6, Zenon

\* What an answer a to request n does to the registry r.
Answers(r, rq, n, id, a) ==
  /\ RegistryOK(a.registry, rq) /\ a.forward \in BOOLEAN
  /\ \A j \in DOMAIN a.registry.sub : j \in DOMAIN r.sub
  /\ \A j \in DOMAIN r.sub : rq[j] # rq[n] => j \in DOMAIN a.registry.sub /\ a.registry.sub[j] = r.sub[j]
  /\ n \in DOMAIN r.sub /\ id = NoId => a.forward /\ n \notin DOMAIN a.registry.sub
  /\ n \in DOMAIN r.sub /\ id # NoId /\ r.sub[n].clientSubID = NoId =>
       /\ a.forward /\ n \in DOMAIN a.registry.sub
       /\ a.registry.sub[n].clientSubID = id /\ a.registry.sub[n].currentSubID = id
  /\ n \in DOMAIN r.sub /\ id # NoId /\ r.sub[n].clientSubID # NoId =>
       /\ ~a.forward /\ n \in DOMAIN a.registry.sub
       /\ a.registry.sub[n].clientSubID = r.sub[n].clientSubID /\ a.registry.sub[n].currentSubID = id

\* TranslateEndpointMessage of a response: entries under other request ids are left alone, and
\* an entry that waits for the answer, one that has an id and a refused one go their ways.
LEMMA Answered ==
  ASSUME NEW r, NEW rq, RegistryOK(r, rq), NEW n \in DOMAIN rq, NEW id \in ID, ForReq(rq, n, id)
  PROVE  Answers(r, rq, n, id, TranslateResponse(r, rq[n], id))
<1> SUFFICES LET a == TranslateResponse(r, rq[n], id)
                 t == a.registry IN
             /\ RegistryOK(t, rq) /\ a.forward \in BOOLEAN
             /\ \A j \in DOMAIN t.sub : j \in DOMAIN r.sub
             /\ \A j \in DOMAIN r.sub : rq[j] # rq[n] => j \in DOMAIN t.sub /\ t.sub[j] = r.sub[j]
             /\ n \in DOMAIN r.sub /\ id = NoId => a.forward /\ n \notin DOMAIN t.sub
             /\ n \in DOMAIN r.sub /\ id # NoId /\ r.sub[n].clientSubID = NoId =>
                  a.forward /\ n \in DOMAIN t.sub /\ t.sub[n].clientSubID = id /\ t.sub[n].currentSubID = id
             /\ n \in DOMAIN r.sub /\ id # NoId /\ r.sub[n].clientSubID # NoId =>
                  /\ ~a.forward /\ n \in DOMAIN t.sub
                  /\ t.sub[n].clientSubID = r.sub[n].clientSubID /\ t.sub[n].currentSubID = id
  BY Zenon DEF Answers
<1> DEFINE a == TranslateResponse(r, rq[n], id)
           k == r.byReqID[rq[n]]
<1>0. n \in DOMAIN r.sub => rq[n] \in DOMAIN r.byReqID /\ k = n
  BY Zenon DEF RegistryOK, EntryOK
<1>1. CASE rq[n] \notin DOMAIN r.byReqID
  <2>1. a = [registry |-> r, forward |-> TRUE]
    BY <1>1, Zenon DEF TranslateResponse
  <2> HIDE DEF a
  <2>2. a.registry = r /\ a.forward = TRUE
    BY <2>1, Zenon
  <2> QED
    BY <1>0, <1>1, <2>2, Zenon DEF a
<1>2. CASE rq[n] \in DOMAIN r.byReqID
  <2>0. IsRegistry(r)
    BY Zenon DEF RegistryOK
  <2>1. k \in DOMAIN r.sub /\ rq[k] = rq[n]
    BY <1>2, Zenon DEF RegistryOK, IndexOK
  <2>2. ForReq(rq, k, id) /\ \A j \in DOMAIN r.sub : rq[j] # rq[n] => j # k
    BY <2>1, Zenon DEF ForReq
  <2>3. CASE id = NoId
    <3> DEFINE t == removeLocked(r, k)
    <3>1. a = [registry |-> t, forward |-> TRUE]
      BY <1>2, <2>3, Zenon DEF TranslateResponse
    <3>2. RegistryOK(t, rq) /\ DOMAIN t.sub = DOMAIN r.sub \ {k} /\ \A j \in DOMAIN t.sub : t.sub[j] = r.sub[j]
      BY <2>1, Removed, Zenon
    <3> HIDE DEF t, a, k
    <3>3. a.registry = t /\ a.forward = TRUE
      BY <3>1, Zenon
    <3> QED
      BY <1>0, <2>2, <2>3, <3>2, <3>3, Zenon DEF a
  <2>4. CASE id # NoId /\ r.sub[k].clientSubID = NoId
    <3> DEFINE t == [r EXCEPT !.sub[k].clientSubID = id, !.sub[k].currentSubID = id,
                              !.byClientSubID = With(@, id, k), !.byCurrentSubID = With(@, id, k)]
    <3>1. a = [registry |-> t, forward |-> TRUE]
      BY <1>2, <2>4, Zenon DEF TranslateResponse
    <3> HIDE DEF k
    <3>2. /\ IsRegistry(t) /\ t.byReqID = r.byReqID /\ t.byClientSubID = With(r.byClientSubID, id, k)
          /\ t.byCurrentSubID = With(r.byCurrentSubID, id, k)
          /\ t.sub = [r.sub EXCEPT ![k].clientSubID = id, ![k].currentSubID = id]
      BY <2>0, Zenon DEF IsRegistry
    <3> HIDE DEF t
    <3>3. /\ RegistryOK(t, rq) /\ \A j : j \in DOMAIN t.sub <=> j \in DOMAIN r.sub
          /\ t.sub[k].clientSubID = id /\ t.sub[k].currentSubID = id
          /\ \A j \in DOMAIN r.sub : j # k => t.sub[j] = r.sub[j]
      BY ONLY RegistryOK(r, rq), id \in ID, <2>1, <2>2, <2>4, <3>2, FirstId, SMTT(30)
    <3> HIDE DEF a
    <3>4. a.registry = t /\ a.forward = TRUE
      BY <3>1, Zenon
    <3> QED
      BY <1>0, <2>2, <2>4, <3>3, <3>4, Zenon DEF a
  <2>5. CASE id # NoId /\ r.sub[k].clientSubID # NoId
    <3> DEFINE t == [r EXCEPT !.sub[k].currentSubID = id,
                              !.byCurrentSubID = With(Without(@, r.sub[k].currentSubID), id, k)]
    <3>1. a = [registry |-> t, forward |-> FALSE]
      BY <1>2, <2>5, Zenon DEF TranslateResponse
    <3> HIDE DEF k
    <3>2. /\ IsRegistry(t) /\ t.byReqID = r.byReqID /\ t.byClientSubID = r.byClientSubID
          /\ t.byCurrentSubID = With(Without(r.byCurrentSubID, r.sub[k].currentSubID), id, k)
          /\ t.sub = [r.sub EXCEPT ![k].currentSubID = id]
      BY <2>0, Zenon DEF IsRegistry
    <3> HIDE DEF t
    <3>3. /\ RegistryOK(t, rq) /\ \A j : j \in DOMAIN t.sub <=> j \in DOMAIN r.sub
          /\ t.sub[k].clientSubID = r.sub[k].clientSubID /\ t.sub[k].currentSubID = id
          /\ \A j \in DOMAIN r.sub : j # k => t.sub[j] = r.sub[j]
      BY ONLY RegistryOK(r, rq), id \in ID, <2>1, <2>2, <2>5, <3>2, NextId
    <3> HIDE DEF a
    <3>4. a.registry = t /\ a.forward = FALSE
      BY <3>1, Zenon
    <3> QED
      BY <1>0, <2>2, <2>5, <3>3, <3>4, Zenon DEF a
  <2> QED
    BY <2>3, <2>4, <2>5, Zenon
<1> QED
  BY <1>1, <1>2, Zenon

-----------------------------------------------------------------------------
(* The invariant                                                            *)

Known == DOMAIN calls
ReqOf == [n \in DOMAIN calls |-> calls[n].reqID]
SubscribeCall == [reqID : ReqIDs, state : {"waiting", "held", "over"}, id : ID]
AnyFrame == [kind : {"none", "subscribe", "unsubscribe", "response", "notification"}, n : Nat, id : ID]

ReplayTyped ==
  /\ calls \in Seq(SubscribeCall) /\ clientFrame \in AnyFrame /\ endpointFrame \in AnyFrame
  /\ connGen \in Nat /\ connected \in BOOLEAN /\ up \in BOOLEAN
  /\ owed \subseteq Known /\ live \subseteq Known

Same(m, n) == calls[m].reqID = calls[n].reqID
Subscribing(n) == clientFrame.kind = "subscribe" /\ clientFrame.n = n
Answer(n) == endpointFrame.kind = "response" /\ endpointFrame.n = n
Quiet(n) == n \notin owed /\ n \notin live /\ endpointFrame.n # n

\* No call under n's request id was ever given an id.
Fresh(n) == \A m \in Known : Same(m, n) => calls[m].id = NoId
\* A subscription the claims are about.
Kept(n) == calls[n].state = "held" /\ OwnRequestID(n) /\ calls[n].id[2] \notin Fallbacks

CallsOK ==
  \A n \in Known :
    /\ calls[n].state = "waiting" => calls[n].id = NoId /\ \A m \in Known : Same(m, n) => m <= n
    /\ calls[n].state = "held" => calls[n].id # NoId
    /\ calls[n].id # NoId => calls[n].id[1] \in Known /\ Same(calls[n].id[1], n)

ClientFrameOK ==
  /\ clientFrame = NoFrame \/ clientFrame.kind \in {"subscribe", "unsubscribe"}
  /\ clientFrame.kind = "subscribe" =>
       /\ clientFrame.n = Len(calls) /\ clientFrame.n \in Known
       /\ clientFrame.n \notin DOMAIN registry.sub /\ Quiet(clientFrame.n)
       /\ Fresh(clientFrame.n) => calls[clientFrame.n].state = "waiting"
  /\ clientFrame.kind = "unsubscribe" =>
       /\ clientFrame.n \in Known /\ calls[clientFrame.n].state = "over"
       /\ clientFrame.id = calls[clientFrame.n].id /\ clientFrame.id # NoId

EndpointFrameOK ==
  /\ endpointFrame = NoFrame \/ endpointFrame.kind \in {"response", "notification"}
  /\ endpointFrame.kind = "response" =>
       /\ endpointFrame.n \in Known /\ endpointFrame.n \notin owed
       /\ endpointFrame.id = IdAt(endpointFrame.n, connGen) \/ endpointFrame.id = NoId
  /\ endpointFrame.kind = "notification" =>
       endpointFrame.n \in Known /\ endpointFrame.id = IdAt(endpointFrame.n, connGen)
  /\ ~connected => owed = {} /\ live = {} /\ endpointFrame = NoFrame /\ ~up

\* Under a fresh request id only the last call is of any consequence.
FreshCall(n) ==
  /\ n \in DOMAIN registry.sub => registry.sub[n].clientSubID = NoId
  /\ calls[n].state = "over" => Quiet(n)
  /\ calls[n].state = "waiting" =>
       /\ Subscribing(n) \/ n \in DOMAIN registry.sub
       /\ n \in live => Answer(n) /\ endpointFrame.id # NoId
       /\ endpointFrame.n = n => Answer(n) /\ (endpointFrame.id # NoId => n \in live)

\* A tracked subscription is in the registry under the client's id, and runs at the supplier under
\* the current one as soon as the answer to its replay is taken, unless that is a fallback's.
KeptCall(n) ==
  /\ \A m \in Known : m # n /\ Same(m, n) => Quiet(m) /\ calls[m].state = "over"
  /\ n \in DOMAIN registry.sub /\ registry.sub[n].clientSubID = calls[n].id
  /\ n \in live /\ ~Answer(n) /\ connGen \notin Fallbacks => registry.sub[n].currentSubID = IdAt(n, connGen)
  /\ endpointFrame.kind = "notification" /\ endpointFrame.n = n => n \in live
  /\ Answer(n) /\ endpointFrame.id # NoId => n \in live
  /\ connected /\ up => n \in owed \/ n \in live \/ (Answer(n) /\ endpointFrame.id = NoId)

ReplayInv ==
  /\ ReplayTyped /\ RegistryOK(registry, ReqOf) /\ CallsOK /\ ClientFrameOK /\ EndpointFrameOK
  /\ \A n \in Known : Fresh(n) => FreshCall(n)
  /\ \A n \in Known : Kept(n) => KeptCall(n)
  /\ NotificationsKeepTheirId /\ ReplayIsInvisible

LEMMA NoFrameIs ==
  /\ NoFrame \in AnyFrame /\ NoFrame.kind = "none" /\ NoFrame.n = 0 /\ NoFrame.id = NoId
BY Zenon DEF NoFrame, Frame, AnyFrame, ID, NoId

LEMMA IdAtIs ==
  /\ \A n, g \in Nat : n # 0 => IdAt(n, g) # NoId /\ IdAt(n, g) \in ID
  /\ \A n, g : IdAt(n, g)[1] = n /\ IdAt(n, g)[2] = g /\ IdAt(n, g) = <<n, g>>
BY Zenon DEF NoId, ID, IdAt

\* The calls, as the steps see them.
LEMMA CallFacts ==
  ASSUME ReplayTyped
  PROVE  /\ Len(calls) \in Nat /\ Known = 1 .. Len(calls) /\ DOMAIN ReqOf = Known
         /\ \A n \in Known : /\ n \in Nat /\ n # 0 /\ calls[n] \in SubscribeCall
                             /\ calls[n].reqID \in ReqIDs /\ calls[n].id \in ID
                             /\ calls[n].state \in {"waiting", "held", "over"}
                             /\ ReqOf[n] = calls[n].reqID
<1>1. /\ Len(calls) \in Nat /\ Known = 1 .. Len(calls) /\ \A n \in Known : calls[n] \in SubscribeCall
  BY DEF ReplayTyped, Known
<1>2. DOMAIN ReqOf = Known /\ \A n \in Known : ReqOf[n] = calls[n].reqID
  BY Zenon DEF ReqOf, Known
<1>3. ASSUME NEW n \in Known
      PROVE  /\ n \in Nat /\ n # 0 /\ calls[n].reqID \in ReqIDs /\ calls[n].id \in ID
             /\ calls[n].state \in {"waiting", "held", "over"}
  <2>1. calls[n] \in SubscribeCall /\ n \in 1 .. Len(calls)
    BY <1>1, Zenon
  <2> QED
    BY <1>1, <2>1 DEF SubscribeCall
<1> QED
  BY <1>1, <1>2, <1>3, Zenon

LEMMA ReplayInitially == ReplayInit => ReplayInv
<1> SUFFICES ASSUME ReplayInit PROVE ReplayInv
  OBVIOUS
<1>1. calls = << >> /\ Known = {} /\ DOMAIN ReqOf = {}
  BY DEF ReplayInit, Known, ReqOf
<1>2. ReplayTyped
  BY <1>1, NoFrameIs DEF ReplayInit, ReplayTyped
<1>3. RegistryOK(registry, ReqOf)
  <2>1. registry = NewSubscriptionRegistry
    BY Zenon DEF ReplayInit
  <2>2. /\ IsRegistry(registry) /\ DOMAIN registry.sub = {} /\ DOMAIN registry.byReqID = {}
        /\ DOMAIN registry.byClientSubID = {} /\ DOMAIN registry.byCurrentSubID = {}
    BY <2>1, Zenon DEF NewSubscriptionRegistry, Nothing, IsRegistry
  <2> QED
    BY <2>2, Zenon DEF RegistryOK, IndexOK
<1>4. ClientFrameOK /\ EndpointFrameOK
  BY NoFrameIs, Zenon DEF ReplayInit, ClientFrameOK, EndpointFrameOK
<1>5. NotificationsKeepTheirId /\ ReplayIsInvisible
  BY NoFrameIs, Zenon DEF ReplayInit, NotificationsKeepTheirId, ReplayIsInvisible
<1> QED
  BY <1>1, <1>2, <1>3, <1>4, <1>5, Zenon DEF ReplayInv, CallsOK

\* Steps that leave the calls alone leave alone what is said of them only.
LEMMA SameCalls ==
  ASSUME UNCHANGED calls
  PROVE  /\ Known' = Known /\ ReqOf' = ReqOf /\ (CallsOK => CallsOK')
         /\ \A n : (Fresh(n)' <=> Fresh(n)) /\ (Kept(n)' <=> Kept(n))
         /\ \A m, n : Same(m, n)' <=> Same(m, n)
<1>1. Known' = Known /\ ReqOf' = ReqOf
  BY Zenon DEF Known, ReqOf
<1>2. \A m, n : Same(m, n)' <=> Same(m, n)
  BY Zenon DEF Same
<1>3. CallsOK => CallsOK'
  BY Zenon DEF CallsOK, Known, Same
<1>4. ASSUME NEW n PROVE (Fresh(n)' <=> Fresh(n)) /\ (Kept(n)' <=> Kept(n))
  BY Zenon DEF Fresh, Kept, OwnRequestID, Known, Same
<1> QED
  BY <1>1, <1>2, <1>3, <1>4, Zenon

LEMMA NothingWritten ==
  ASSUME toClient' = NoFrame
  PROVE  NotificationsKeepTheirId' /\ ReplayIsInvisible'
BY NoFrameIs, Zenon DEF NotificationsKeepTheirId, ReplayIsInvisible

\* What a step has to keep that changes neither the client's side nor the registry.
LEMMA SupplierStep ==
  ASSUME ReplayInv, UNCHANGED <<registry, calls, clientFrame>>,
         NotificationsKeepTheirId', ReplayIsInvisible',
         ReplayTyped', EndpointFrameOK', clientFrame.kind = "subscribe" => Quiet(clientFrame.n)',
         \A n \in Known : Fresh(n) => FreshCall(n)',
         \A n \in Known : Kept(n) => KeptCall(n)'
  PROVE  ReplayInv'
<1>1. RegistryOK(registry, ReqOf) /\ CallsOK /\ ClientFrameOK
  BY Zenon DEF ReplayInv
<1>2. /\ Known' = Known /\ ReqOf' = ReqOf /\ CallsOK'
      /\ \A n : (Fresh(n)' <=> Fresh(n)) /\ (Kept(n)' <=> Kept(n))
  BY <1>1, SameCalls, Zenon
<1>3. RegistryOK(registry, ReqOf)'
  BY <1>1, <1>2, Zenon
<1>4. ClientFrameOK'
  BY <1>1, <1>2, Zenon DEF ClientFrameOK
<1>5. (\A n \in Known : Fresh(n) => FreshCall(n))' /\ (\A n \in Known : Kept(n) => KeptCall(n))'
  BY <1>2, Zenon
<1> QED
  BY <1>2, <1>3, <1>4, <1>5, Zenon DEF ReplayInv

LEMMA SupplierDiesKeeps == ReplayInv /\ supplierDies => ReplayInv'
<1> SUFFICES ASSUME ReplayInv, supplierDies PROVE ReplayInv'
  OBVIOUS
<1>1. /\ up' = FALSE /\ toClient' = NoFrame
      /\ UNCHANGED <<registry, calls, clientFrame, endpointFrame, connGen, connected, owed, live>>
  BY Zenon DEF supplierDies
<1>2. ReplayTyped' /\ EndpointFrameOK' /\ (clientFrame.kind = "subscribe" => Quiet(clientFrame.n)')
  BY <1>1, Zenon DEF ReplayInv, ReplayTyped, Known, EndpointFrameOK, ClientFrameOK, Quiet
<1>3. ASSUME NEW n \in Known, Fresh(n) PROVE FreshCall(n)'
  <2>1. FreshCall(n)
    BY <1>3, Zenon DEF ReplayInv
  <2> QED
    BY <1>1, <2>1, Zenon DEF FreshCall, Quiet, Subscribing, Answer
<1>4. ASSUME NEW n \in Known, Kept(n) PROVE KeptCall(n)'
  <2>1. KeptCall(n)
    BY <1>4, Zenon DEF ReplayInv
  <2> QED
    BY <1>1, <2>1, Zenon DEF KeptCall, Quiet, Answer, Known, Same
<1> QED
  BY <1>1, <1>2, <1>3, <1>4, NothingWritten, SupplierStep, Zenon

LEMMA RebindSubscriptionsKeeps == ReplayInv /\ rebind => ReplayInv'
<1> SUFFICES ASSUME ReplayInv, rebind PROVE ReplayInv'
  OBVIOUS
<1>1. /\ connected' = FALSE /\ up' = FALSE /\ endpointFrame' = NoFrame /\ owed' = {} /\ live' = {}
      /\ toClient' = NoFrame /\ UNCHANGED <<registry, calls, clientFrame, connGen>>
  BY Zenon DEF rebind
<1>2. \A n \in Known : n # 0
  BY CallFacts, Zenon DEF ReplayInv
<1>3. \A n \in Known : Quiet(n)' /\ ~Answer(n)'
  BY <1>1, <1>2, NoFrameIs, Zenon DEF Quiet, Answer
<1>4. ReplayTyped' /\ EndpointFrameOK' /\ (clientFrame.kind = "subscribe" => Quiet(clientFrame.n)')
  BY <1>1, <1>3, NoFrameIs, Zenon DEF ReplayInv, ReplayTyped, Known, EndpointFrameOK, ClientFrameOK
<1>5. ASSUME NEW n \in Known, Fresh(n) PROVE FreshCall(n)'
  <2>1. FreshCall(n)
    BY <1>5, Zenon DEF ReplayInv
  <2> QED
    BY <1>1, <1>2, <1>3, <2>1, NoFrameIs, Zenon DEF FreshCall, Subscribing
<1>6. ASSUME NEW n \in Known, Kept(n) PROVE KeptCall(n)'
  <2>1. KeptCall(n)
    BY <1>6, Zenon DEF ReplayInv
  <2> QED
    BY <1>1, <1>2, <1>3, <2>1, NoFrameIs, Zenon DEF KeptCall, Known, Same
<1> QED
  BY <1>1, <1>4, <1>5, <1>6, NothingWritten, SupplierStep, Zenon

\* The replay asks for what the registry has a client id for, and so for nothing fresh.
LEMMA ReplayKeeps == ReplayInv /\ replay => ReplayInv'
<1> SUFFICES ASSUME ReplayInv, replay PROVE ReplayInv'
  OBVIOUS
<1>1. /\ ~connected /\ connGen' = connGen + 1 /\ connected' = TRUE /\ up' = TRUE
      /\ owed' = {n \in DOMAIN registry.sub : registry.sub[n].clientSubID # NoId}
      /\ toClient' = NoFrame /\ UNCHANGED <<registry, calls, clientFrame, endpointFrame, live>>
  BY Zenon DEF replay, ActiveSubscribeFrames
<1>2. live = {} /\ owed = {} /\ endpointFrame = NoFrame
  BY <1>1, Zenon DEF ReplayInv, EndpointFrameOK
<1>3. DOMAIN registry.sub \subseteq Known /\ \A n \in Known : n # 0
  BY CallFacts, Zenon DEF ReplayInv, RegistryOK
<1>4. \A n \in Known : n \notin owed' => Quiet(n)'
  BY <1>1, <1>2, <1>3, NoFrameIs, Zenon DEF Quiet
<1>5. ReplayTyped' /\ EndpointFrameOK'
  BY <1>1, <1>2, <1>3, NoFrameIs DEF ReplayInv, ReplayTyped, Known, EndpointFrameOK
<1>6. clientFrame.kind = "subscribe" => Quiet(clientFrame.n)'
  BY <1>1, <1>4, Zenon DEF ReplayInv, ClientFrameOK
<1>7. ASSUME NEW n \in Known, Fresh(n) PROVE FreshCall(n)'
  <2>1. FreshCall(n) /\ n \notin owed'
    BY <1>1, <1>7, Zenon DEF ReplayInv, FreshCall
  <2>2. Quiet(n)'
    BY <1>4, <2>1, Zenon
  <2> QED
    BY <1>1, <1>2, <1>3, <2>1, <2>2, NoFrameIs, Zenon DEF FreshCall, Subscribing, Quiet
<1>8. ASSUME NEW n \in Known, Kept(n) PROVE KeptCall(n)'
  <2>1. KeptCall(n) /\ calls[n].id # NoId
    BY <1>8, Zenon DEF ReplayInv, Kept, CallsOK
  <2>2. n \in owed'
    BY <1>1, <2>1, Zenon DEF KeptCall
  <2>3. ASSUME NEW m \in Known, m # n, Same(m, n) PROVE Quiet(m)'
    <3>1. m \notin DOMAIN registry.sub
      <4>1. RegistryOK(registry, ReqOf) /\ ReqOf[m] = ReqOf[n] /\ n \in DOMAIN registry.sub
        BY <2>1, <2>3, CallFacts, Zenon DEF ReplayInv, KeptCall, Same
      <4> QED
        BY <2>3, <4>1, EntriesDiffer, Zenon
    <3> QED
      BY <1>1, <1>4, <3>1, Zenon
  <2> QED
    BY <1>1, <1>2, <1>3, <2>1, <2>2, <2>3, NoFrameIs, Zenon DEF KeptCall, Known, Same, Answer
<1> QED
  BY <1>1, <1>5, <1>6, <1>7, <1>8, NothingWritten, SupplierStep, Zenon

\* The supplier answers what it owes, and notifies of what it runs.
LEMMA SupplierSendsKeeps == ReplayInv /\ supplierSends => ReplayInv'
<1> SUFFICES ASSUME ReplayInv, supplierSends PROVE ReplayInv'
  OBVIOUS
<1>0. /\ ReplayTyped /\ EndpointFrameOK /\ ClientFrameOK /\ connected /\ up /\ endpointFrame = NoFrame
      /\ toClient' = NoFrame /\ UNCHANGED <<registry, calls, clientFrame, connGen, connected, up>>
  BY Zenon DEF ReplayInv, supplierSends
<1>1. \A n \in Known : n \in Nat /\ n # 0 /\ IdAt(n, connGen) # NoId /\ IdAt(n, connGen) \in ID
  BY <1>0, CallFacts, IdAtIs, Zenon DEF ReplayTyped
<1>2. PICK n \in Known, id \in ID, kind \in {"response", "notification"} :
        /\ endpointFrame' = Frame(kind, n, id) /\ (id = IdAt(n, connGen) \/ id = NoId)
        /\ kind = "response" => /\ n \in owed /\ owed' = owed \ {n}
                                /\ live' = IF id = NoId THEN live ELSE live \cup {n}
        /\ kind = "notification" => n \in live /\ id = IdAt(n, connGen) /\ owed' = owed /\ live' = live
  <2>1. CASE \E n \in owed : \E id \in {<<n, connGen>>, NoId} :
               /\ endpointFrame' = Frame("response", n, id)
               /\ owed' = owed \ {n}
               /\ live' = IF id = NoId THEN live ELSE live \cup {n}
    <3>0. PICK n \in owed : \E id \in {<<n, connGen>>, NoId} :
               /\ endpointFrame' = Frame("response", n, id)
               /\ owed' = owed \ {n}
               /\ live' = IF id = NoId THEN live ELSE live \cup {n}
      BY <2>1, Zenon
    <3>1. PICK id \in {<<n, connGen>>, NoId} :
               /\ endpointFrame' = Frame("response", n, id)
               /\ owed' = owed \ {n}
               /\ live' = IF id = NoId THEN live ELSE live \cup {n}
      BY <3>0, Zenon
    <3>2. n \in Known /\ id \in ID /\ (id = IdAt(n, connGen) \/ id = NoId)
      <4>1. n \in Known /\ (id = <<n, connGen>> \/ id = NoId)
        BY <1>0, Zenon DEF ReplayTyped
      <4>2. id = IdAt(n, connGen) \/ id = NoId
        BY <4>1, IdAtIs, Zenon
      <4>3. NoId \in ID
        BY DEF NoId, ID
      <4> QED
        BY <1>1, <4>1, <4>2, <4>3, Zenon
    <3>3. "response" \in {"response", "notification"} /\ "response" # "notification"
      OBVIOUS
    <3> QED
      BY ONLY <3>1, <3>2, <3>3, Zenon
  <2>2. CASE \E n \in live : endpointFrame' = Frame("notification", n, <<n, connGen>>) /\ UNCHANGED <<owed, live>>
    <3>1. PICK n \in live : endpointFrame' = Frame("notification", n, <<n, connGen>>) /\ UNCHANGED <<owed, live>>
      BY <2>2, Zenon
    <3>2. n \in Known /\ IdAt(n, connGen) \in ID /\ IdAt(n, connGen) = <<n, connGen>>
      BY <1>0, <1>1, IdAtIs, Zenon DEF ReplayTyped
    <3> QED
      BY <3>1, <3>2, Zenon
  <2> QED
    BY <2>1, <2>2, Zenon DEF supplierSends
<1>3. endpointFrame' \in AnyFrame /\ endpointFrame'.kind = kind /\ endpointFrame'.n = n /\ endpointFrame'.id = id
  <2>1. n \in Nat /\ endpointFrame' = Frame(kind, n, id)
    BY <1>1, <1>2, Zenon
  <2> QED
    BY <2>1, Zenon DEF Frame, AnyFrame
<1>4. /\ \A m \in Known : Quiet(m) => Quiet(m)'
      /\ \A m \in Known : ~Answer(m) /\ endpointFrame.n # m
  BY <1>0, <1>1, <1>2, <1>3, NoFrameIs, Zenon DEF Quiet, Answer
<1>5. ReplayTyped' /\ EndpointFrameOK'
  <2>1. owed' \subseteq Known' /\ live' \subseteq Known' /\ Known' = Known
    BY <1>0, <1>2, Zenon DEF ReplayTyped, Known
  <2> QED
    BY <1>0, <1>1, <1>2, <1>3, <2>1, Zenon DEF ReplayTyped, EndpointFrameOK
<1>6. clientFrame.kind = "subscribe" => Quiet(clientFrame.n)'
  BY <1>0, <1>4, Zenon DEF ClientFrameOK
<1>7. ASSUME NEW j \in Known, Fresh(j) PROVE FreshCall(j)'
  <2>1. FreshCall(j)
    BY <1>7, Zenon DEF ReplayInv
  <2>2. calls[j].state = "waiting" => j \notin live
    BY <1>4, <2>1, Zenon DEF FreshCall
  <2>3. calls'[j].state = "waiting" =>
          /\ j \in live' => Answer(j)' /\ endpointFrame'.id # NoId
          /\ endpointFrame'.n = j => Answer(j)' /\ (endpointFrame'.id # NoId => j \in live')
    BY <1>0, <1>2, <1>3, <2>2, Zenon DEF Answer
  <2> QED
    BY <1>0, <1>4, <2>1, <2>3, Zenon DEF FreshCall, Subscribing
<1>8. ASSUME NEW j \in Known, Kept(j) PROVE KeptCall(j)'
  <2>1. KeptCall(j)
    BY <1>8, Zenon DEF ReplayInv
  <2>2. \A m \in Known' : m # j /\ Same(m, j)' => Quiet(m)' /\ calls'[m].state = "over"
    BY <1>0, <1>4, <2>1, Zenon DEF KeptCall, Known, Same
  <2>3. j \in live' /\ ~Answer(j)' /\ connGen' \notin Fallbacks =>
          registry'.sub[j].currentSubID = IdAt(j, connGen')
    BY <1>0, <1>2, <1>3, <1>4, <2>1, Zenon DEF KeptCall, Answer
  <2>4. /\ endpointFrame'.kind = "notification" /\ endpointFrame'.n = j => j \in live'
        /\ Answer(j)' /\ endpointFrame'.id # NoId => j \in live'
    BY <1>2, <1>3, Zenon DEF Answer
  <2>5. j \in owed' \/ j \in live' \/ (Answer(j)' /\ endpointFrame'.id = NoId)
    BY <1>0, <1>2, <1>3, <1>4, <2>1, Zenon DEF KeptCall, Answer
  <2>6. j \in DOMAIN registry'.sub /\ registry'.sub[j].clientSubID = calls'[j].id
    BY <1>0, <2>1, Zenon DEF KeptCall
  <2> QED
    BY <2>2, <2>3, <2>4, <2>5, <2>6, Zenon DEF KeptCall
<1> QED
  BY <1>0, <1>5, <1>6, <1>7, <1>8, NothingWritten, SupplierStep, Zenon

\* What a step has to keep that takes the client's frame.
LEMMA ClientFrameTaken ==
  ASSUME ReplayInv, UNCHANGED calls, clientFrame' = NoFrame, toClient' = NoFrame,
         ReplayTyped', RegistryOK(registry', ReqOf), EndpointFrameOK',
         \A n \in Known : Fresh(n) => FreshCall(n)',
         \A n \in Known : Kept(n) => KeptCall(n)'
  PROVE  ReplayInv'
<1>1. CallsOK
  BY Zenon DEF ReplayInv
<1>2. /\ Known' = Known /\ ReqOf' = ReqOf /\ CallsOK'
      /\ \A n : (Fresh(n)' <=> Fresh(n)) /\ (Kept(n)' <=> Kept(n))
  BY <1>1, SameCalls, Zenon
<1>3. RegistryOK(registry, ReqOf)'
  BY <1>2, Zenon
<1>4. ClientFrameOK'
  BY NoFrameIs, Zenon DEF ClientFrameOK
<1>5. (\A n \in Known : Fresh(n) => FreshCall(n))' /\ (\A n \in Known : Kept(n) => KeptCall(n))'
  BY <1>2, Zenon
<1> QED
  BY <1>2, <1>3, <1>4, <1>5, NothingWritten, Zenon DEF ReplayInv

\* The bridge takes an eth_subscribe: it replaces at most an entry nobody is promised anything of.
LEMMA SubscribeFrameKeeps ==
  ASSUME ReplayInv, handleClientFrame, clientFrame.kind = "subscribe"
  PROVE  ReplayInv'
<1> DEFINE n == clientFrame.n
<1>1. /\ connected /\ clientFrame' = NoFrame /\ toClient' = NoFrame
      /\ registry' = TrackSubscribe(registry, n, calls[n].reqID)
      /\ owed' = (IF up THEN owed \cup {n} ELSE owed) /\ live' = live
      /\ UNCHANGED <<calls, endpointFrame, connGen, connected, up>>
  BY Zenon DEF handleClientFrame
<1>2. /\ ReplayTyped /\ RegistryOK(registry, ReqOf) /\ CallsOK /\ EndpointFrameOK
      /\ n = Len(calls) /\ n \in Known /\ n \notin DOMAIN registry.sub /\ Quiet(n)
      /\ Fresh(n) => calls[n].state = "waiting"
  BY Zenon DEF ReplayInv, ClientFrameOK
<1> HIDE DEF n
<1>3. /\ DOMAIN ReqOf = Known /\ ReqOf[n] = calls[n].reqID /\ ReqOf[n] \in ReqIDs
      /\ \A j \in Known : j \in Nat /\ j <= n /\ ReqOf[j] = calls[j].reqID
  BY <1>2, CallFacts
<1>4. /\ RegistryOK(registry', ReqOf) /\ n \in DOMAIN registry'.sub /\ registry'.sub[n].clientSubID = NoId
      /\ \A j \in DOMAIN registry'.sub : j = n \/ (j \in DOMAIN registry.sub /\ ReqOf[j] # ReqOf[n])
      /\ \A j \in DOMAIN registry.sub : ReqOf[j] # ReqOf[n] =>
           j \in DOMAIN registry'.sub /\ registry'.sub[j] = registry.sub[j]
  <2>1. registry' = TrackSubscribe(registry, n, ReqOf[n])
    BY <1>1, <1>3, Zenon
  <2> QED
    BY <1>2, <1>3, <2>1, Subscribed, SMTT(30)
<1>5. ReplayTyped' /\ EndpointFrameOK'
  <2>1. owed' \subseteq Known' /\ live' \subseteq Known'
    BY <1>1, <1>2, Zenon DEF ReplayTyped, Known
  <2>2. endpointFrame.n # n
    BY <1>2, Zenon DEF Quiet
  <2> QED
    BY <1>1, <1>2, <2>1, <2>2, NoFrameIs, Zenon DEF ReplayTyped, EndpointFrameOK, Known
<1>6. \A j \in Known : j # n /\ Quiet(j) => Quiet(j)'
  BY <1>1, Zenon DEF Quiet
<1>7. ASSUME NEW j \in Known, Fresh(j) PROVE FreshCall(j)'
  <2>1. FreshCall(j)
    BY <1>7, Zenon DEF ReplayInv
  <2>2. CASE j = n
    BY <1>1, <1>2, <1>4, <1>7, <2>2, Zenon DEF FreshCall, Quiet
  <2>3. CASE j # n
    <3>1. j \in DOMAIN registry'.sub => registry'.sub[j].clientSubID = NoId
      BY <1>4, <2>1, <2>3, Zenon DEF FreshCall
    <3>2. calls[j].state = "waiting" => j \in DOMAIN registry'.sub
      <4> SUFFICES ASSUME calls[j].state = "waiting" PROVE j \in DOMAIN registry'.sub
        OBVIOUS
      <4>1. ReqOf[j] # ReqOf[n]
        BY <1>2, <1>3, <2>3 DEF CallsOK, Same
      <4>2. j \in DOMAIN registry.sub
        BY <2>1, <2>3, Zenon DEF FreshCall, Subscribing, n
      <4> QED
        BY <1>4, <4>1, <4>2, Zenon
    <3> QED
      BY <1>1, <1>6, <2>1, <2>3, <3>1, <3>2, Zenon DEF FreshCall, Answer
  <2> QED
    BY <2>2, <2>3, Zenon
<1>8. ASSUME NEW j \in Known, Kept(j) PROVE KeptCall(j)'
  <2>1. KeptCall(j)
    BY <1>8, Zenon DEF ReplayInv
  <2>2. j # n
    BY <1>2, <2>1, Zenon DEF KeptCall
  <2>3. ReqOf[j] # ReqOf[n] /\ ~Same(n, j)
    <3>1. OwnRequestID(j) /\ ~(n < j)
      BY <1>2, <1>3, <1>8 DEF Kept
    <3>2. ~Same(n, j)
      BY <1>2, <2>2, <3>1, Zenon DEF OwnRequestID, Same, Known
    <3> QED
      BY <1>3, <3>2, Zenon DEF Same
  <2>4. j \in DOMAIN registry'.sub /\ registry'.sub[j] = registry.sub[j]
    BY <1>4, <2>1, <2>3, Zenon DEF KeptCall
  <2>5. \A m \in Known' : m # j /\ Same(m, j)' => Quiet(m)' /\ calls'[m].state = "over"
    BY <1>1, <1>6, <2>1, <2>3, Zenon DEF KeptCall, Known, Same
  <2> QED
    BY <1>1, <2>1, <2>4, <2>5, Zenon DEF KeptCall, Answer
<1> QED
  BY <1>1, <1>4, <1>5, <1>7, <1>8, ClientFrameTaken, Zenon

\* The bridge takes an eth_unsubscribe: it ends subscriptions under one request id only.
LEMMA UnsubscribeFrameKeeps ==
  ASSUME ReplayInv, handleClientFrame, clientFrame.kind = "unsubscribe"
  PROVE  ReplayInv'
<1> DEFINE n == clientFrame.n
           id == clientFrame.id
           u == TrackUnsubscribe(registry, id)
<1>1. /\ connected /\ clientFrame' = NoFrame /\ toClient' = NoFrame /\ registry' = u.registry
      /\ live' = (IF up THEN {m \in live : <<m, connGen>> # u.id} ELSE live) /\ owed' = owed
      /\ UNCHANGED <<calls, endpointFrame, connGen, connected, up>>
  BY Zenon DEF handleClientFrame
<1>2. /\ ReplayTyped /\ RegistryOK(registry, ReqOf) /\ CallsOK /\ EndpointFrameOK
      /\ n \in Known /\ calls[n].state = "over" /\ id = calls[n].id /\ id # NoId
  BY Zenon DEF ReplayInv, ClientFrameOK
<1>3. /\ DOMAIN ReqOf = Known /\ \A j \in Known : ReqOf[j] = calls[j].reqID
      /\ id[1] \in Known /\ ReqOf[id[1]] = ReqOf[n]
  BY <1>2, CallFacts, SMTT(30) DEF CallsOK, Same
<1> HIDE DEF n, id
<1>4. /\ RegistryOK(u.registry, ReqOf) /\ u.id[1] \in Known /\ ReqOf[u.id[1]] = ReqOf[n]
      /\ \A j \in DOMAIN u.registry.sub : j \in DOMAIN registry.sub /\ u.registry.sub[j] = registry.sub[j]
      /\ \A j \in DOMAIN registry.sub : ReqOf[j] # ReqOf[n] => j \in DOMAIN u.registry.sub
  BY <1>2, <1>3, Unsubscribed, SMTT(30)
<1> HIDE DEF u
<1>5. ReplayTyped' /\ EndpointFrameOK'
  <2>1. owed' \subseteq Known' /\ live' \subseteq Known'
    BY <1>1, <1>2, Zenon DEF ReplayTyped, Known
  <2> QED
    BY <1>1, <1>2, <2>1, NoFrameIs, Zenon DEF ReplayTyped, EndpointFrameOK, Known
<1>6. \A j : Quiet(j) => Quiet(j)'
  BY <1>1, Zenon DEF Quiet
<1>7. ASSUME NEW j \in Known, ~Same(n, j)
      PROVE  (j \in live' <=> j \in live) /\ (j \in DOMAIN registry.sub => j \in DOMAIN registry'.sub)
  <2>1. ReqOf[j] # ReqOf[n]
    BY <1>2, <1>3, <1>7, Zenon DEF Same
  <2>2. <<j, connGen>> # u.id
    BY <1>4, <2>1
  <2> QED
    BY <1>1, <1>4, <2>1, <2>2, Zenon
<1>8. ASSUME NEW j \in Known, Fresh(j) PROVE FreshCall(j)'
  <2>1. FreshCall(j)
    BY <1>8, Zenon DEF ReplayInv
  <2>2. ~Same(n, j)
    BY <1>2, <1>8, Zenon DEF Fresh
  <2>3. ~Subscribing(j)
    BY Zenon DEF Subscribing
  <2> QED
    BY <1>1, <1>4, <1>6, <1>7, <2>1, <2>2, <2>3, Zenon DEF FreshCall, Answer
<1>9. ASSUME NEW j \in Known, Kept(j) PROVE KeptCall(j)'
  <2>1. KeptCall(j)
    BY <1>9, Zenon DEF ReplayInv
  <2>2. ~Same(n, j)
    <3>1. j # n
      BY <1>2, <1>9, Zenon DEF Kept
    <3> QED
      BY <1>2, <1>9, <3>1, Zenon DEF Kept, OwnRequestID, Same, Known
  <2>3. j \in DOMAIN registry'.sub /\ registry'.sub[j] = registry.sub[j] /\ (j \in live' <=> j \in live)
    BY <1>1, <1>4, <1>7, <2>1, <2>2, Zenon DEF KeptCall
  <2>4. \A m \in Known' : m # j /\ Same(m, j)' => Quiet(m)' /\ calls'[m].state = "over"
    BY <1>1, <1>6, <2>1, Zenon DEF KeptCall, Known, Same
  <2> QED
    BY <1>1, <2>1, <2>3, <2>4, Zenon DEF KeptCall, Answer
<1> QED
  BY <1>1, <1>4, <1>5, <1>8, <1>9, ClientFrameTaken, Zenon

\* Calls keep their request ids, and the ids they were given: what is claimed of fewer calls
\* later was claimed before.
LEMMA Earlier ==
  ASSUME NEW n \in Known,
         \A j \in Known : /\ j \in Known' /\ calls'[j].reqID = calls[j].reqID
                          /\ calls[j].id # NoId => calls'[j].id # NoId
  PROVE  (Fresh(n)' => Fresh(n)) /\ (OwnRequestID(n)' => OwnRequestID(n))
<1>1. Fresh(n)' => Fresh(n)
  BY Zenon DEF Fresh, Same
<1>2. OwnRequestID(n)' => OwnRequestID(n)
  BY Zenon DEF OwnRequestID, Known
<1> QED
  BY <1>1, <1>2, Zenon

\* The client gives a subscription up.
LEMMA UnsubscribeKeeps ==
  ASSUME ReplayInv, NEW n \in Serials, unsubscribe(n) PROVE ReplayInv'
<1>1. /\ clientFrame = NoFrame /\ n \in Known /\ calls[n].state = "held"
      /\ calls' = [calls EXCEPT ![n].state = "over"]
      /\ clientFrame' = Frame("unsubscribe", n, calls[n].id) /\ toClient' = NoFrame
      /\ UNCHANGED <<registry, endpointFrame, connGen, connected, up, owed, live>>
  BY Zenon DEF unsubscribe, Held, Known
<1>2. ReplayTyped /\ RegistryOK(registry, ReqOf) /\ CallsOK /\ EndpointFrameOK
  BY Zenon DEF ReplayInv
<1>3. /\ calls' \in Seq(SubscribeCall) /\ Known' = Known
      /\ calls'[n].state = "over" /\ calls'[n].id = calls[n].id /\ calls'[n].reqID = calls[n].reqID
      /\ \A j \in Known : j # n => calls'[j] = calls[j]
  <2>1. /\ calls \in Seq(SubscribeCall) /\ calls[n] \in SubscribeCall
        /\ calls' = [calls EXCEPT ![n] = [calls[n] EXCEPT !.state = "over"]]
    BY <1>1, <1>2, CallFacts, Zenon DEF ReplayTyped
  <2>2. [calls[n] EXCEPT !.state = "over"] \in SubscribeCall
    BY <2>1, Zenon DEF SubscribeCall
  <2> QED
    BY <1>1, <2>1, <2>2 DEF Known, SubscribeCall
<1>4. /\ \A j \in Known : calls'[j].reqID = calls[j].reqID /\ calls'[j].id = calls[j].id
      /\ calls[n].id # NoId /\ calls[n].id \in ID /\ n \in Nat
  BY <1>1, <1>2, <1>3, CallFacts, Zenon DEF CallsOK
<1>5. ReqOf' = ReqOf
  BY <1>3, <1>4, Zenon DEF ReqOf, Known
<1>6. clientFrame' \in AnyFrame /\ clientFrame'.kind = "unsubscribe" /\ clientFrame'.n = n /\ clientFrame'.id = calls[n].id
  BY <1>1, <1>4, Zenon DEF Frame, AnyFrame
<1>7. ReplayTyped' /\ EndpointFrameOK' /\ RegistryOK(registry, ReqOf)'
  BY <1>1, <1>2, <1>3, <1>5, <1>6, Zenon DEF ReplayTyped, EndpointFrameOK
<1>8. CallsOK'
  BY <1>1, <1>2, <1>3, <1>4, SMTT(30) DEF CallsOK, Same
<1>9. ClientFrameOK'
  BY <1>1, <1>3, <1>4, <1>6, Zenon DEF ClientFrameOK
<1>10. \A j \in Known : (Quiet(j)' <=> Quiet(j)) /\ (Answer(j)' <=> Answer(j)) /\ ~Subscribing(j)
  BY <1>1, NoFrameIs, Zenon DEF Quiet, Answer, Subscribing
<1>11. ASSUME NEW j \in Known, Fresh(j)' PROVE FreshCall(j)'
  <2>0. j # n
    BY <1>1, <1>3, <1>4, <1>11, Zenon DEF Fresh, Same
  <2>1. Fresh(j)
    BY <1>3, <1>4, <1>11, Earlier, Zenon
  <2>2. FreshCall(j)
    BY <2>1, Zenon DEF ReplayInv
  <2> QED
    BY <1>1, <1>3, <1>10, <2>0, <2>2, Zenon DEF FreshCall
<1>12. ASSUME NEW j \in Known, Kept(j)' PROVE KeptCall(j)'
  <2>1. Kept(j) /\ j # n
    BY <1>3, <1>4, <1>12, Earlier, Zenon DEF Kept
  <2>2. KeptCall(j)
    BY <2>1, Zenon DEF ReplayInv
  <2>3. \A m \in Known' : m # j /\ Same(m, j)' => Quiet(m)' /\ calls'[m].state = "over"
    BY <1>3, <1>4, <1>10, <2>2, Zenon DEF KeptCall, Same
  <2> QED
    BY <1>1, <1>3, <1>10, <2>1, <2>2, <2>3, Zenon DEF KeptCall
<1> QED
  BY <1>1, <1>3, <1>7, <1>8, <1>9, <1>11, <1>12, NothingWritten, Zenon DEF ReplayInv

\* A registry is in order whatever calls are made later.
LEMMA MoreCalls ==
  ASSUME NEW r, NEW rq, NEW rq2, RegistryOK(r, rq), \A k \in DOMAIN rq : k \in DOMAIN rq2 /\ rq2[k] = rq[k]
  PROVE  RegistryOK(r, rq2)
<1>1. IsRegistry(r) /\ DOMAIN r.sub \subseteq DOMAIN rq /\ DOMAIN r.sub \subseteq DOMAIN rq2
  BY Zenon DEF RegistryOK
<1>2. ASSUME NEW k \in DOMAIN r.sub PROVE EntryOK(r, rq2, k)
  <2>1. EntryOK(r, rq, k) /\ k \in DOMAIN rq
    BY Zenon DEF RegistryOK
  <2>2. \A id : ForReq(rq, k, id) => ForReq(rq2, k, id)
    BY <2>1, Zenon DEF ForReq
  <2> QED
    BY <2>1, <2>2, Zenon DEF EntryOK
<1>3. IndexOK(r, rq2)
  BY <1>1, Zenon DEF RegistryOK, IndexOK
<1> QED
  BY <1>1, <1>2, <1>3, Zenon DEF RegistryOK

\* The client makes another call: what it supersedes under the same request id has gone quiet.
LEMMA SubscribeKeeps == ReplayInv /\ subscribe => ReplayInv'
<1> SUFFICES ASSUME ReplayInv, subscribe PROVE ReplayInv'
  OBVIOUS
<1>0. PICK M : M = Len(calls) + 1
  OBVIOUS
<1>1. /\ clientFrame = NoFrame /\ clientFrame' = Frame("subscribe", M, NoId) /\ toClient' = NoFrame
      /\ UNCHANGED <<registry, endpointFrame, connGen, connected, up, owed, live>>
  BY <1>0, Zenon DEF subscribe
<1>2. PICK r \in ReqIDs :
        /\ \A n \in DOMAIN calls : Outstanding(n) => calls[n].reqID # r
        /\ calls' = Append([n \in DOMAIN calls |->
                             IF calls[n].state = "waiting" /\ calls[n].reqID = r
                             THEN [calls[n] EXCEPT !.state = "over"] ELSE calls[n]],
                          [reqID |-> r, state |-> "waiting", id |-> NoId])
  BY Zenon DEF subscribe
<1>3. ReplayTyped /\ RegistryOK(registry, ReqOf) /\ CallsOK /\ EndpointFrameOK
  BY Zenon DEF ReplayInv
<1>4. /\ Len(calls) \in Nat /\ Known = 1 .. Len(calls) /\ M \in Nat /\ M \notin Known
      /\ \A j \in Known : j \in Nat /\ j < M /\ calls[j] \in SubscribeCall
  BY <1>0, <1>3, CallFacts
<1> DEFINE before == [n \in DOMAIN calls |-> IF calls[n].state = "waiting" /\ calls[n].reqID = r
                                             THEN [calls[n] EXCEPT !.state = "over"] ELSE calls[n]]
           new == [reqID |-> r, state |-> "waiting", id |-> NoId]
<1>5. before \in Seq(SubscribeCall) /\ Len(before) = Len(calls) /\ new \in SubscribeCall
  <2>1. \A n \in Known : before[n] \in SubscribeCall
    BY <1>4, Zenon DEF SubscribeCall, Known
  <2>2. DOMAIN before = 1 .. Len(calls) /\ new \in SubscribeCall
    BY <1>4, Zenon DEF Known, SubscribeCall, ID, NoId
  <2> HIDE DEF before, new
  <2>3. before = [n \in 1 .. Len(calls) |-> before[n]]
    BY <2>2, Zenon DEF before
  <2> QED
    BY <1>4, <2>1, <2>2, <2>3
<1>6. /\ calls' \in Seq(SubscribeCall) /\ Len(calls') = M /\ Known' = Known \cup {M} /\ calls'[M] = new
      /\ \A j \in Known : calls'[j] = before[j]
  <2>1. calls' = Append(before, new)
    BY <1>2, Zenon
  <2> HIDE DEF before, new
  <2>2. calls' \in Seq(SubscribeCall) /\ Len(calls') = M /\ DOMAIN calls' = 1 .. M
    BY <1>0, <1>4, <1>5, <2>1
  <2>3. calls'[M] = new /\ \A j \in 1 .. Len(calls) : calls'[j] = before[j]
    BY <1>0, <1>4, <1>5, <2>1
  <2> QED
    BY <1>0, <1>4, <2>2, <2>3 DEF Known
<1>7. ASSUME NEW j \in Known
      PROVE  /\ calls'[j].reqID = calls[j].reqID /\ calls'[j].id = calls[j].id
             /\ calls'[j].state = IF calls[j].state = "waiting" /\ calls[j].reqID = r
                                  THEN "over" ELSE calls[j].state
  BY <1>4, <1>6, Zenon DEF Known, SubscribeCall
<1>8. calls'[M].reqID = r /\ calls'[M].state = "waiting" /\ calls'[M].id = NoId
  BY <1>6
<1> HIDE DEF before, new
<1>9. clientFrame' \in AnyFrame /\ clientFrame'.kind = "subscribe" /\ clientFrame'.n = M
  BY <1>1, <1>4, NoFrameIs, Zenon DEF Frame, AnyFrame, ID, NoId
<1>10. ReplayTyped' /\ EndpointFrameOK'
  BY <1>1, <1>3, <1>6, <1>9, Zenon DEF ReplayTyped, EndpointFrameOK
<1>11. RegistryOK(registry, ReqOf)'
  <2>1. \A k \in DOMAIN ReqOf : k \in DOMAIN ReqOf' /\ ReqOf'[k] = ReqOf[k]
    BY <1>6, <1>7, Zenon DEF ReqOf, Known
  <2> QED
    BY <1>1, <1>3, <2>1, MoreCalls, Zenon
<1>12. CallsOK'
  <2>1. ASSUME NEW j \in Known
        PROVE  /\ calls'[j].state = "waiting" =>
                    calls'[j].id = NoId /\ \A m \in Known' : Same(m, j)' => m <= j
               /\ calls'[j].state = "held" => calls'[j].id # NoId
               /\ calls'[j].id # NoId => calls'[j].id[1] \in Known' /\ calls'[calls'[j].id[1]].reqID = calls'[j].reqID
    BY <1>3, <1>6, <1>7, <1>8, SMTT(30) DEF CallsOK, Same
  <2>2. \A m \in Known' : m <= M
    BY <1>4, <1>6
  <2> QED
    BY <1>6, <1>8, <2>1, <2>2 DEF CallsOK, Same
<1>13. Quiet(M)' /\ M \notin DOMAIN registry.sub
  <2>1. endpointFrame.n # M
    BY <1>0, <1>3, <1>4, NoFrameIs DEF EndpointFrameOK
  <2> QED
    BY <1>1, <1>3, <1>4, <2>1, CallFacts, Zenon DEF Quiet, ReplayTyped, RegistryOK
<1>14. ClientFrameOK'
  BY <1>1, <1>6, <1>8, <1>9, <1>13, Zenon DEF ClientFrameOK
<1>15. \A j : (Quiet(j)' <=> Quiet(j)) /\ (Answer(j)' <=> Answer(j))
  BY <1>1, Zenon DEF Quiet, Answer
<1>16. ASSUME NEW j \in Known', Fresh(j)' PROVE FreshCall(j)'
  <2>1. CASE j = M
    BY <1>1, <1>8, <1>9, <1>13, <2>1, Zenon DEF FreshCall, Subscribing, Quiet
  <2>2. CASE j \in Known
    <3>1. FreshCall(j) /\ ~Subscribing(j)
      BY <1>1, <1>6, <1>7, <1>16, <2>2, Earlier, NoFrameIs, Zenon DEF ReplayInv, Subscribing
    <3>2. CASE calls[j].state = "waiting" /\ calls[j].reqID = r
      <4>1. j \notin owed /\ endpointFrame.n # j
        BY <1>2, <2>2, <3>2, Zenon DEF Outstanding, Known
      <4>2. Quiet(j)
        BY <3>1, <3>2, <4>1, Zenon DEF FreshCall, Quiet, Answer
      <4> QED
        BY <1>1, <1>7, <1>15, <2>2, <3>1, <3>2, <4>2, Zenon DEF FreshCall
    <3>3. CASE ~(calls[j].state = "waiting" /\ calls[j].reqID = r)
      BY <1>1, <1>7, <1>15, <2>2, <3>1, <3>3, Zenon DEF FreshCall
    <3> QED
      BY <3>2, <3>3, Zenon
  <2> QED
    BY <1>6, <2>1, <2>2, Zenon
<1>17. ASSUME NEW j \in Known', Kept(j)' PROVE KeptCall(j)'
  <2>1. j \in Known
    BY <1>6, <1>8, <1>17, Zenon DEF Kept
  <2>2. Kept(j)
    BY <1>6, <1>7, <1>17, <2>1, Earlier, Zenon DEF Kept
  <2>3. calls[j].reqID # r
    BY <1>4, <1>6, <1>7, <1>8, <1>17, <2>1 DEF Kept, OwnRequestID, Known
  <2>4. KeptCall(j)
    BY <2>1, <2>2, Zenon DEF ReplayInv
  <2>5. \A m \in Known' : m # j /\ Same(m, j)' => Quiet(m)' /\ calls'[m].state = "over"
    BY <1>6, <1>7, <1>8, <1>15, <2>1, <2>3, <2>4 DEF KeptCall, Same
  <2> QED
    BY <1>1, <1>7, <1>15, <2>1, <2>4, <2>5, Zenon DEF KeptCall
<1> QED
  BY <1>1, <1>10, <1>11, <1>12, <1>14, <1>16, <1>17, NothingWritten, Zenon DEF ReplayInv

\* A notification for a kept subscription carries the id the index has for it.
LEMMA NotificationKeeps ==
  ASSUME ReplayInv, handleEndpointFrame, endpointFrame.kind = "notification"
  PROVE  ReplayInv'
<1>0. PICK n, id : n = endpointFrame.n /\ id = endpointFrame.id
  OBVIOUS
<1>1. /\ connected /\ endpointFrame' = NoFrame
      /\ toClient' = [endpointFrame EXCEPT !.id = TranslatedId(endpointFrame)]
      /\ UNCHANGED <<registry, calls, clientFrame, connGen, connected, up, owed, live>>
  BY <1>0, Zenon DEF handleEndpointFrame
<1>2. /\ ReplayTyped /\ RegistryOK(registry, ReqOf) /\ ClientFrameOK
      /\ n \in Known /\ id = IdAt(n, connGen) /\ \A j \in Known : j \in Nat /\ j # 0 /\ ~Answer(j)
  BY <1>0, CallFacts, Zenon DEF ReplayInv, EndpointFrameOK, Answer
<1>3. ReplayTyped' /\ EndpointFrameOK'
  BY <1>1, <1>2, NoFrameIs, Zenon DEF ReplayTyped, EndpointFrameOK, Known
<1>4. \A j \in Known : (Quiet(j) => Quiet(j)') /\ ~Answer(j)' /\ endpointFrame'.n # j
  BY <1>1, <1>2, NoFrameIs, Zenon DEF Quiet, Answer
<1>5. clientFrame.kind = "subscribe" => Quiet(clientFrame.n)'
  BY <1>1, <1>2, <1>4, Zenon DEF ClientFrameOK
<1>6. ASSUME NEW j \in Known, Fresh(j) PROVE FreshCall(j)'
  <2>1. FreshCall(j)
    BY <1>6, Zenon DEF ReplayInv
  <2> QED
    BY <1>1, <1>2, <1>4, <2>1, Zenon DEF FreshCall, Subscribing
<1>7. ASSUME NEW j \in Known, Kept(j) PROVE KeptCall(j)'
  <2>1. KeptCall(j)
    BY <1>7, Zenon DEF ReplayInv
  <2>2. \A m \in Known' : m # j /\ Same(m, j)' => Quiet(m)' /\ calls'[m].state = "over"
    BY <1>1, <1>4, <2>1, Zenon DEF KeptCall, Known, Same
  <2> QED
    BY <1>1, <1>2, <1>4, <2>1, <2>2, NoFrameIs, Zenon DEF KeptCall
<1>8. /\ toClient'.kind = "notification" /\ toClient'.n = n
      /\ connGen \notin Fallbacks => toClient'.id = translateNotification(registry, id)
  BY <1>0, <1>1, <1>2, Zenon DEF ReplayTyped, AnyFrame, TranslatedId
<1>9. Kept(n) /\ connGen \notin Fallbacks => translateNotification(registry, id) = calls[n].id
  <2> SUFFICES ASSUME Kept(n), connGen \notin Fallbacks PROVE translateNotification(registry, id) = calls[n].id
    OBVIOUS
  <2>1. KeptCall(n)
    BY <1>2, Zenon DEF ReplayInv
  <2>5. n \in live /\ ~Answer(n)
    BY <1>0, <1>2, <2>1, Zenon DEF KeptCall
  <2>6. id # NoId
    <3>1. connGen \in Nat /\ n \in Nat /\ n # 0
      BY <1>2, Zenon DEF ReplayTyped
    <3> QED
      BY <1>2, <3>1, IdAtIs, Zenon
  <2>2. /\ n \in DOMAIN registry.sub /\ registry.sub[n].clientSubID = calls[n].id
        /\ registry.sub[n].currentSubID = id /\ id # NoId
    BY <1>2, <2>1, <2>5, <2>6, Zenon DEF KeptCall
  <2>3. id \in DOMAIN registry.byCurrentSubID /\ registry.byCurrentSubID[id] = n
    <3>1. id \in DOMAIN registry.byCurrentSubID
      BY <1>2, <2>2, Zenon DEF RegistryOK, EntryOK
    <3>2. /\ registry.byCurrentSubID[id] \in DOMAIN registry.sub
          /\ registry.sub[registry.byCurrentSubID[id]].currentSubID = id
      BY <1>2, <3>1, Zenon DEF RegistryOK, IndexOK
    <3> QED
      BY <1>2, <2>2, <3>1, <3>2, OneCurrent, Zenon
  <2> QED
    BY <2>2, <2>3, Zenon DEF translateNotification
<1>10. NotificationsKeepTheirId' /\ ReplayIsInvisible'
  <2>1. NotificationsKeepTheirId'
    BY <1>1, <1>8, <1>9, SameCalls, Zenon DEF NotificationsKeepTheirId, Tracked, Held, Kept, OwnRequestID
  <2>2. ReplayIsInvisible'
    BY <1>8, Zenon DEF ReplayIsInvisible
  <2> QED
    BY <2>1, <2>2, Zenon
<1> QED
  BY <1>1, <1>3, <1>5, <1>6, <1>7, <1>10, SupplierStep, Zenon

\* The calls cs are the calls of the client that has read the response f.
InformedBy(f, cs) ==
  /\ cs \in Seq(SubscribeCall) /\ DOMAIN cs = Known /\ Len(cs) = Len(calls)
  /\ \A j \in Known :
       /\ cs[j].reqID = calls[j].reqID
       /\ ~Same(f.n, j) \/ calls[j].state = "over" => cs[j] = calls[j]
       /\ Same(f.n, j) /\ f.id = NoId => cs[j].state = "over" /\ cs[j].id = calls[j].id
       /\ Same(f.n, j) /\ f.id # NoId /\ calls[j].state = "held" => cs[j] = calls[j]
       /\ Same(f.n, j) /\ f.id # NoId /\ calls[j].state = "waiting" =>
            cs[j].state = "held" /\ cs[j].id = f.id

\* What the client makes of a response, call by call.
LEMMA InformedIs ==
  ASSUME ReplayTyped, NEW f \in AnyFrame, f.n \in Known
  PROVE  InformedBy(f, Informed(f))
<1>1. /\ Len(calls) \in Nat /\ Known = 1 .. Len(calls) /\ f.id \in ID
      /\ \A j \in Known : calls[j] \in SubscribeCall
  BY CallFacts, Zenon DEF AnyFrame
<1>2. DOMAIN Informed(f) = Known
  BY Zenon DEF Informed, Known
<1>3. ASSUME NEW j \in Known
      PROVE  /\ Informed(f)[j] \in SubscribeCall /\ Informed(f)[j].reqID = calls[j].reqID
             /\ ~Same(f.n, j) \/ calls[j].state = "over" => Informed(f)[j] = calls[j]
             /\ Same(f.n, j) /\ f.id = NoId => Informed(f)[j].state = "over" /\ Informed(f)[j].id = calls[j].id
             /\ Same(f.n, j) /\ f.id # NoId /\ calls[j].state = "held" => Informed(f)[j] = calls[j]
             /\ Same(f.n, j) /\ f.id # NoId /\ calls[j].state = "waiting" =>
                  Informed(f)[j].state = "held" /\ Informed(f)[j].id = f.id
  <2>1. PICK c \in SubscribeCall : c = calls[j]
    BY <1>1, Zenon
  <2>2. Informed(f)[j] = IF ~Same(f.n, j) \/ c.state = "over" THEN c
                         ELSE IF f.id = NoId THEN [c EXCEPT !.state = "over"]
                         ELSE IF c.state = "waiting" THEN [c EXCEPT !.state = "held", !.id = f.id]
                         ELSE c
    BY <2>1, Zenon DEF Informed, Known, Same
  <2>3. /\ [c EXCEPT !.state = "over"] \in SubscribeCall
        /\ [c EXCEPT !.state = "over"].state = "over" /\ [c EXCEPT !.state = "over"].id = c.id
        /\ [c EXCEPT !.state = "over"].reqID = c.reqID
    BY Zenon DEF SubscribeCall
  <2>4. /\ [c EXCEPT !.state = "held", !.id = f.id] \in SubscribeCall
        /\ [c EXCEPT !.state = "held", !.id = f.id].state = "held"
        /\ [c EXCEPT !.state = "held", !.id = f.id].id = f.id
        /\ [c EXCEPT !.state = "held", !.id = f.id].reqID = c.reqID
    BY <1>1, Zenon DEF SubscribeCall
  <2>5. c.state \in {"waiting", "held", "over"}
    BY Zenon DEF SubscribeCall
  <2> HIDE DEF Same
  <2>6. CASE ~Same(f.n, j) \/ c.state = "over"
    <3>1. Informed(f)[j] = c
      BY <2>2, <2>6, Zenon
    <3> QED
      BY <2>1, <2>6, <3>1, Zenon
  <2>7. CASE Same(f.n, j) /\ c.state # "over" /\ f.id = NoId
    <3>1. Informed(f)[j] = [c EXCEPT !.state = "over"]
      BY <2>2, <2>7, Zenon
    <3> QED
      BY <2>1, <2>3, <2>7, <3>1, Zenon
  <2>8. CASE Same(f.n, j) /\ c.state = "waiting" /\ f.id # NoId
    <3>1. Informed(f)[j] = [c EXCEPT !.state = "held", !.id = f.id]
      BY <2>2, <2>8, Zenon
    <3> QED
      BY <2>1, <2>4, <2>8, <3>1, Zenon
  <2>9. CASE Same(f.n, j) /\ c.state = "held" /\ f.id # NoId
    <3>1. Informed(f)[j] = c
      BY <2>2, <2>9, Zenon
    <3> QED
      BY <2>1, <2>9, <3>1, Zenon
  <2> QED
    BY <2>5, <2>6, <2>7, <2>8, <2>9, Zenon
<1>4. Informed(f) \in Seq(SubscribeCall) /\ Len(Informed(f)) = Len(calls)
  <2>1. Informed(f) = [j \in 1 .. Len(calls) |-> Informed(f)[j]]
    BY <1>1, <1>2, Zenon DEF Informed
  <2> QED
    BY <1>1, <1>2, <1>3, <2>1
<1> QED
  BY <1>2, <1>3, <1>4, Zenon DEF InformedBy

\* A response is the first answer to a fresh call, or a replay's answer, or an error; a fallback's
\* leaves the registry as it was.
LEMMA ResponseKeeps ==
  ASSUME ReplayInv, handleEndpointFrame, endpointFrame.kind = "response"
  PROVE  ReplayInv'
<1>0. PICK n, id, fwd : /\ n = endpointFrame.n /\ id = endpointFrame.id
                        /\ fwd = Translated(endpointFrame).forward
  OBVIOUS
<1>1. /\ connected /\ endpointFrame' = NoFrame
      /\ registry' = Translated(endpointFrame).registry
      /\ toClient' = (IF fwd THEN endpointFrame ELSE NoFrame)
      /\ calls' = (IF fwd THEN Informed(endpointFrame) ELSE calls)
      /\ UNCHANGED <<clientFrame, connGen, connected, up, owed, live>>
  BY <1>0, Zenon DEF handleEndpointFrame
<1>2. /\ ReplayTyped /\ RegistryOK(registry, ReqOf) /\ CallsOK /\ ClientFrameOK
      /\ n \in Known /\ n \notin owed /\ (id = IdAt(n, connGen) \/ id = NoId) /\ id \in ID
      /\ endpointFrame \in AnyFrame
  BY <1>0, Zenon DEF ReplayInv, EndpointFrameOK, ReplayTyped, AnyFrame
<1>frame. n = endpointFrame.n /\ id = endpointFrame.id
  BY ONLY <1>0, Zenon
<1>same. endpointFrame' = NoFrame /\ clientFrame' = clientFrame /\ connGen' = connGen /\ owed' = owed /\ live' = live
  BY ONLY <1>1, Zenon
<1>bits. connected' = connected /\ up' = up
  BY ONLY <1>1, Zenon
<1>written. toClient' = IF fwd THEN endpointFrame ELSE NoFrame
  BY ONLY <1>1, Zenon
<1>n. n \in Known /\ n \notin owed
  BY ONLY <1>2, Zenon
<1>id. (id = IdAt(n, connGen) \/ id = NoId) /\ id \in ID
  BY ONLY <1>2, Zenon
<1>calls. CallsOK
  BY ONLY <1>2, Zenon
<1>client. ClientFrameOK
  BY ONLY <1>2, Zenon
<1>3. /\ Known = 1 .. Len(calls) /\ DOMAIN ReqOf = Known
      /\ \A j \in Known : /\ j \in Nat /\ j # 0 /\ ReqOf[j] = calls[j].reqID
                          /\ calls[j].state \in {"waiting", "held", "over"}
  BY <1>2, CallFacts, Zenon
\* The registry
<1>4. /\ RegistryOK(registry', ReqOf) /\ fwd \in BOOLEAN
      /\ \A j \in DOMAIN registry'.sub : j \in DOMAIN registry.sub
      /\ \A j \in DOMAIN registry.sub : ReqOf[j] # ReqOf[n] =>
           j \in DOMAIN registry'.sub /\ registry'.sub[j] = registry.sub[j]
      /\ n \in DOMAIN registry.sub /\ id = NoId =>
           fwd /\ (n \in DOMAIN registry'.sub => registry'.sub[n].clientSubID = registry.sub[n].clientSubID)
      /\ n \in DOMAIN registry.sub /\ id # NoId /\ registry.sub[n].clientSubID = NoId =>
           /\ fwd
           /\ connGen \notin Fallbacks => /\ n \in DOMAIN registry'.sub
                                         /\ registry'.sub[n].clientSubID = id /\ registry'.sub[n].currentSubID = id
      /\ n \in DOMAIN registry.sub /\ id # NoId /\ registry.sub[n].clientSubID # NoId =>
           /\ n \in DOMAIN registry'.sub
           /\ registry'.sub[n].clientSubID = registry.sub[n].clientSubID
           /\ connGen \notin Fallbacks => ~fwd /\ registry'.sub[n].currentSubID = id
  <2>f. CASE connGen \in Fallbacks
    <3>1. registry' = registry /\ fwd = TRUE
      BY <1>0, <1>1, <2>f, Zenon DEF Translated
    <3> QED
      BY <1>2, <2>f, <3>1, Zenon
  <2>p. CASE connGen \notin Fallbacks
    <3> DEFINE a == TranslateResponse(registry, ReqOf[n], id)
    <3>1. n \in DOMAIN ReqOf /\ calls[n].reqID = ReqOf[n] /\ ForReq(ReqOf, n, id)
      <4>1. id = NoId \/ id[1] = n
        BY <1>id, IdAtIs, Zenon
      <4> QED
        BY <1>n, <1>3, <4>1, Zenon DEF ForReq
    <3>2. registry' = a.registry /\ fwd = a.forward
      BY <1>0, <1>1, <2>p, <3>1, Zenon DEF Translated
    <3>3. Answers(registry, ReqOf, n, id, a)
      <4>1. RegistryOK(registry, ReqOf) /\ id \in ID
        BY <1>2, Zenon
      <4> QED
        BY <3>1, <4>1, Answered, Zenon
    <3> HIDE DEF a
    <3> QED
      BY ONLY <2>p, <3>2, <3>3, Zenon DEF Answers
  <2> QED
    BY <2>f, <2>p, Zenon
<1>registry. RegistryOK(registry', ReqOf) /\ fwd \in BOOLEAN
  BY ONLY <1>4, Zenon
<1>fewer. \A j \in DOMAIN registry'.sub : j \in DOMAIN registry.sub
  BY ONLY <1>4, Zenon
<1>others. \A j \in DOMAIN registry.sub : ReqOf[j] # ReqOf[n] =>
         j \in DOMAIN registry'.sub /\ registry'.sub[j] = registry.sub[j]
  BY ONLY <1>4, Zenon
<1>refused. n \in DOMAIN registry.sub /\ id = NoId =>
         fwd /\ (n \in DOMAIN registry'.sub => registry'.sub[n].clientSubID = registry.sub[n].clientSubID)
  BY ONLY <1>4, Zenon
<1>first. n \in DOMAIN registry.sub /\ id # NoId /\ registry.sub[n].clientSubID = NoId =>
         /\ fwd
         /\ connGen \notin Fallbacks => /\ n \in DOMAIN registry'.sub
                                       /\ registry'.sub[n].clientSubID = id /\ registry'.sub[n].currentSubID = id
  BY ONLY <1>4, Zenon
<1>moved. n \in DOMAIN registry.sub /\ id # NoId /\ registry.sub[n].clientSubID # NoId =>
         /\ n \in DOMAIN registry'.sub
         /\ registry'.sub[n].clientSubID = registry.sub[n].clientSubID
         /\ connGen \notin Fallbacks => ~fwd /\ registry'.sub[n].currentSubID = id
  BY ONLY <1>4, Zenon
\* The calls
<1>5. /\ calls' \in Seq(SubscribeCall) /\ Known' = Known /\ Len(calls') = Len(calls)
      /\ \A j \in Known :
           /\ calls'[j].reqID = calls[j].reqID
           /\ ~fwd \/ ~Same(n, j) \/ calls[j].state = "over" => calls'[j] = calls[j]
           /\ fwd /\ Same(n, j) /\ id = NoId => calls'[j].state = "over" /\ calls'[j].id = calls[j].id
           /\ fwd /\ Same(n, j) /\ id # NoId /\ calls[j].state = "held" => calls'[j] = calls[j]
           /\ fwd /\ Same(n, j) /\ id # NoId /\ calls[j].state = "waiting" =>
                calls'[j].state = "held" /\ calls'[j].id = id
  <2>1. CASE fwd
    <3>1. InformedBy(endpointFrame, Informed(endpointFrame)) /\ calls' = Informed(endpointFrame)
      BY <1>0, <1>1, <1>2, <2>1, InformedIs, Zenon
    <3>2. InformedBy(endpointFrame, calls') /\ Known' = DOMAIN calls'
      BY <3>1, Zenon DEF Known
    <3> QED
      BY ONLY <1>0, <2>1, <3>2, Zenon DEF InformedBy
  <2>2. CASE ~fwd
    BY <1>1, <1>2, <2>2, Zenon DEF Known, ReplayTyped
  <2> QED
    BY <2>1, <2>2, Zenon
<1>typed. calls' \in Seq(SubscribeCall) /\ Known' = Known /\ Len(calls') = Len(calls)
  BY ONLY <1>5, Zenon
<1>reqIDs. \A j \in Known : calls'[j].reqID = calls[j].reqID
  BY ONLY <1>5, Zenon
<1>kept. \A j \in Known : ~fwd \/ ~Same(n, j) \/ calls[j].state = "over" => calls'[j] = calls[j]
  BY ONLY <1>5, Zenon
<1>over. \A j \in Known : fwd /\ Same(n, j) /\ id = NoId => calls'[j].state = "over" /\ calls'[j].id = calls[j].id
  BY ONLY <1>5, Zenon
<1>held. \A j \in Known : fwd /\ Same(n, j) /\ id # NoId /\ calls[j].state = "held" => calls'[j] = calls[j]
  BY ONLY <1>5, Zenon
<1>waiting. \A j \in Known : fwd /\ Same(n, j) /\ id # NoId /\ calls[j].state = "waiting" =>
         calls'[j].state = "held" /\ calls'[j].id = id
  BY ONLY <1>5, Zenon
<1>6. ReqOf' = ReqOf /\ \A j, m \in Known : Same(j, m)' <=> Same(j, m)
  BY <1>typed, <1>reqIDs, Zenon DEF ReqOf, Known, Same
<1>7. \A j \in Known : calls[j].id # NoId => calls'[j].id # NoId
  <2> SUFFICES ASSUME NEW j \in Known, calls[j].id # NoId PROVE calls'[j].id # NoId
    OBVIOUS
  <2>1. calls[j].state # "waiting"
    BY <1>calls, Zenon DEF CallsOK
  <2> QED
    BY <1>3, <1>kept, <1>over, <1>held, <2>1, Zenon
<1>8. \A j \in Known : (Fresh(j)' => Fresh(j)) /\ (OwnRequestID(j)' => OwnRequestID(j))
  BY <1>typed, <1>reqIDs, <1>7, Earlier, Zenon
<1>9. /\ \A j \in Known : (Quiet(j) => Quiet(j)') /\ ~Answer(j)' /\ endpointFrame'.n # j
      /\ \A j \in Known : Answer(j) <=> j = n
      /\ ~Quiet(n)
  BY <1>frame, <1>same, <1>n, <1>3, NoFrameIs, Zenon DEF Quiet, Answer
<1>10. ReplayTyped' /\ EndpointFrameOK' /\ RegistryOK(registry, ReqOf)'
  <2>1. connected' /\ up' \in BOOLEAN
    BY <1>1, <1>2, Zenon DEF ReplayTyped
  <2>2. EndpointFrameOK'
    BY <1>same, <2>1, NoFrameIs, Zenon DEF EndpointFrameOK
  <2>3. ReplayTyped'
    BY <1>2, <1>same, <1>typed, <2>1, NoFrameIs, Zenon DEF ReplayTyped
  <2> QED
    BY <1>registry, <1>6, <2>2, <2>3, Zenon
<1>11. CallsOK'
  <2>1. ASSUME NEW j \in Known
        PROVE  /\ calls'[j].state = "waiting" => calls'[j].id = NoId /\ \A m \in Known : Same(m, j) => m <= j
               /\ calls'[j].state = "held" => calls'[j].id # NoId
               /\ calls'[j].id # NoId => calls'[j].id[1] \in Known /\ Same(calls'[j].id[1], j)
    <3>1. CASE calls'[j] = calls[j]
      BY <1>calls, <3>1, SMTT(30) DEF CallsOK
    <3>2. CASE fwd /\ Same(n, j) /\ id = NoId
      BY <1>calls, <1>over, <3>2, Zenon DEF CallsOK
    <3>3. CASE fwd /\ Same(n, j) /\ id # NoId /\ calls[j].state = "waiting"
      <4>1. id = IdAt(n, connGen) /\ id[1] = n /\ calls'[j].id = id /\ calls'[j].state = "held"
        BY <1>id, <1>waiting, <3>3, IdAtIs
      <4> QED
        BY <1>n, <1>id, <3>3, <4>1, Zenon
    <3> QED
      BY <1>3, <1>registry, <1>kept, <1>held, <3>1, <3>2, <3>3, Zenon
  <2> QED
    BY <1>typed, <1>reqIDs, <2>1, Zenon DEF CallsOK, Same
\* A response to a fresh call: the call waits, and the others under its request id are over.
<1>12. ASSUME Fresh(n)
       PROVE  /\ calls[n].state = "waiting" /\ n \in DOMAIN registry.sub /\ registry.sub[n].clientSubID = NoId
              /\ id = NoId => n \notin live
              /\ id # NoId => n \in live
              /\ \A m \in Known : m # n /\ Same(n, m) => calls[m].state = "over" /\ Quiet(m)
  <2>1. FreshCall(n)
    BY <1>n, <1>12, Zenon DEF ReplayInv
  <2>2. calls[n].state = "waiting"
    <3>1. calls[n].id = NoId
      BY <1>n, <1>12, Zenon DEF Fresh, Same
    <3> QED
      BY <1>n, <1>calls, <1>3, <1>9, <2>1, <3>1, Zenon DEF FreshCall, CallsOK
  <2>3. ~Subscribing(n)
    BY <1>client, <1>9, Zenon DEF Subscribing, ClientFrameOK
  <2>4. ASSUME NEW m \in Known, m # n, Same(n, m) PROVE calls[m].state = "over" /\ Quiet(m)
    <3>1. calls[m].id = NoId /\ Fresh(m)
      BY <1>n, <1>12, <2>4, Zenon DEF Fresh, Same
    <3>2. calls[m].state # "waiting"
      BY <1>n, <1>calls, <1>3, <2>2, <2>4 DEF CallsOK, Same
    <3>3. calls[m].state = "over"
      BY <1>calls, <1>3, <3>1, <3>2, Zenon DEF CallsOK
    <3> QED
      BY <3>1, <3>3, Zenon DEF ReplayInv, FreshCall
  <2> QED
    BY <1>frame, <1>n, <1>9, <2>1, <2>2, <2>3, <2>4, Zenon DEF FreshCall
<1>13. ClientFrameOK'
  <2>1. ASSUME clientFrame.kind = "subscribe", Fresh(clientFrame.n)'
        PROVE  calls'[clientFrame.n].state = "waiting"
    <3>1. PICK c \in Known : c = clientFrame.n /\ Fresh(c)' /\ Quiet(c)
      BY <1>same, <1>client, <2>1, Zenon DEF ClientFrameOK
    <3>2. Fresh(c) /\ calls[c].state = "waiting" /\ c # n
      BY <1>n, <1>client, <1>8, <1>9, <2>1, <3>1, Zenon DEF ClientFrameOK
    <3>3. ~Same(n, c)
      BY <1>n, <1>12, <3>2, Zenon DEF Fresh, Same
    <3> QED
      BY <1>kept, <3>1, <3>2, <3>3, Zenon
  <2> QED
    BY <1>same, <1>client, <1>fewer, <1>typed, <1>kept, <1>9, <2>1, Zenon DEF ClientFrameOK
<1>14. ASSUME NEW j \in Known, Fresh(j)' PROVE FreshCall(j)'
  <2>1. Fresh(j) /\ FreshCall(j)
    BY <1>8, <1>14, Zenon DEF ReplayInv
  <2>2. CASE ~Same(n, j)
    <3>1. calls'[j] = calls[j] /\ j # n /\ ReqOf[j] # ReqOf[n]
      BY <1>n, <1>3, <1>kept, <2>2, Zenon DEF Same
    <3>2. j \in DOMAIN registry'.sub <=> j \in DOMAIN registry.sub
      BY <1>fewer, <1>others, <3>1, Zenon
    <3>3. j \in DOMAIN registry'.sub => registry'.sub[j] = registry.sub[j]
      BY <1>fewer, <1>others, <3>1, Zenon
    <3>4. calls[j].state = "waiting" => j \notin live
      BY <1>9, <2>1, <3>1, Zenon DEF FreshCall
    <3> QED
      BY <1>same, <1>9, <2>1, <3>1, <3>2, <3>3, <3>4, Zenon DEF FreshCall, Subscribing
  <2>3. CASE Same(n, j)
    <3>1. Fresh(n)
      BY <1>n, <2>1, <2>3, Zenon DEF Fresh, Same
    <3>2. /\ id = NoId /\ fwd
          /\ n \in DOMAIN registry'.sub => registry'.sub[n].clientSubID = NoId
      <4>1. id # NoId => FALSE
        <5> SUFFICES ASSUME id # NoId PROVE FALSE
          OBVIOUS
        <5>1. calls'[n].id # NoId /\ Same(n, n)
          BY <1>n, <1>first, <1>waiting, <1>12, <3>1, Zenon DEF Same
        <5> QED
          BY <1>n, <1>typed, <1>6, <1>14, <2>3, <5>1, Zenon DEF Fresh
      <4> QED
        BY <1>refused, <1>12, <3>1, <4>1, Zenon
    <3>3. calls'[j].state = "over" /\ Quiet(j)'
      <4>1. Quiet(j)'
        BY <1>same, <1>n, <1>9, <1>12, <2>3, <3>1, <3>2, Zenon DEF Quiet
      <4> QED
        BY <1>over, <2>3, <3>2, <4>1, Zenon
    <3>4. j \in DOMAIN registry'.sub => registry'.sub[j].clientSubID = NoId
      <4>1. j \in DOMAIN registry.sub => j = n
        BY <1>2, <1>3, <1>12, <2>3, <3>1, EntriesDiffer, SMTT(30) DEF Same
      <4> QED
        BY <1>fewer, <3>2, <4>1, Zenon
    <3> QED
      BY <3>3, <3>4, Zenon DEF FreshCall
  <2> QED
    BY <2>2, <2>3, Zenon
<1>15. ASSUME NEW j \in Known, Kept(j)' PROVE KeptCall(j)'
  <2>0. calls'[j].state = "held" /\ OwnRequestID(j) /\ calls'[j].id[2] \notin Fallbacks
    BY <1>8, <1>15, Zenon DEF Kept
  <2>1. CASE ~Same(n, j)
    <3>1. calls'[j] = calls[j] /\ j # n /\ ReqOf[j] # ReqOf[n]
      BY <1>n, <1>3, <1>kept, <2>1, Zenon DEF Same
    <3>2. KeptCall(j)
      BY <2>0, <3>1, Zenon DEF ReplayInv, Kept
    <3>3. j \in DOMAIN registry'.sub /\ registry'.sub[j] = registry.sub[j]
      BY <1>others, <3>1, <3>2, Zenon DEF KeptCall
    <3>4. ASSUME NEW m \in Known, m # j, Same(m, j) PROVE Quiet(m)' /\ calls'[m].state = "over"
      BY <1>kept, <1>9, <3>2, <3>4, Zenon DEF KeptCall
    <3>5. ~Answer(j)
      BY <1>9, <3>1, Zenon
    <3> QED
      BY <1>same, <1>bits, <1>typed, <1>6, <1>9, <3>1, <3>2, <3>3, <3>4, <3>5, NoFrameIs, Zenon DEF KeptCall
  <2>2. CASE Same(n, j) /\ calls[j].state = "held"
    <3>0. calls'[j].id = calls[j].id
      BY <1>registry, <1>kept, <1>over, <1>held, <2>2, Zenon
    <3>1. KeptCall(j) /\ calls[j].id # NoId
      BY <1>calls, <2>0, <2>2, <3>0, Zenon DEF ReplayInv, Kept, CallsOK
    <3>2. j = n
      BY <1>n, <1>9, <2>2, <3>1, Zenon DEF KeptCall
    <3>3. id # NoId
      BY <1>refused, <1>over, <2>0, <2>2, <3>1, <3>2, Zenon DEF KeptCall
    <3>4. /\ j \in DOMAIN registry'.sub /\ registry'.sub[j].clientSubID = calls[j].id
          /\ connGen \notin Fallbacks => registry'.sub[j].currentSubID = IdAt(j, connGen)
      BY <1>id, <1>moved, <3>1, <3>2, <3>3, Zenon DEF KeptCall
    <3>5. calls'[j] = calls[j] /\ j \in live
      BY <1>0, <1>registry, <1>kept, <1>held, <1>9, <2>2, <3>1, <3>2, <3>3, Zenon DEF KeptCall
    <3>6. ASSUME NEW m \in Known, m # j, Same(m, j) PROVE Quiet(m)' /\ calls'[m].state = "over"
      BY <1>kept, <1>9, <3>1, <3>6, Zenon DEF KeptCall
    <3> QED
      BY <1>same, <1>typed, <1>6, <1>9, <3>4, <3>5, <3>6, NoFrameIs, Zenon DEF KeptCall
  <2>3. CASE Same(n, j) /\ calls[j].state = "waiting"
    <3>0. fwd /\ id # NoId /\ calls'[j].id = id
      BY <1>registry, <1>kept, <1>over, <1>waiting, <2>0, <2>3, Zenon
    <3>1. fwd /\ id # NoId /\ calls'[j].id = id /\ connGen \notin Fallbacks
      <4>1. id[2] = connGen
        BY <1>id, <3>0, IdAtIs
      <4>2. id[2] \notin Fallbacks
        BY <2>0, <3>0, Zenon
      <4> QED
        BY <3>0, <4>1, <4>2, Zenon
    <3>2. Fresh(n)
      <4>1. calls[j].id = NoId
        BY <1>calls, <2>3, Zenon DEF CallsOK
      <4> QED
        BY <1>n, <2>0, <2>3, <4>1, Zenon DEF Fresh, OwnRequestID, Same, Known
    <3>3. j = n
      BY <1>12, <2>3, <3>2, Zenon
    <3>4. /\ j \in DOMAIN registry'.sub /\ registry'.sub[j].clientSubID = id
          /\ registry'.sub[j].currentSubID = IdAt(j, connGen) /\ j \in live
      BY <1>id, <1>first, <1>12, <3>1, <3>2, <3>3, Zenon
    <3>5. ASSUME NEW m \in Known, m # j, Same(m, j) PROVE Quiet(m)' /\ calls'[m].state = "over"
      <4>1. calls[m].state = "over" /\ Quiet(m)
        BY <1>12, <3>2, <3>3, <3>5, Zenon DEF Same
      <4> QED
        BY <1>kept, <1>9, <4>1, Zenon
    <3> QED
      BY <1>same, <1>typed, <1>6, <1>9, <3>1, <3>4, <3>5, NoFrameIs, Zenon DEF KeptCall
  <2>4. CASE Same(n, j) /\ calls[j].state = "over"
    BY <1>kept, <2>0, <2>4, Zenon
  <2> QED
    BY <1>3, <2>1, <2>2, <2>3, <2>4, Zenon
<1>16. NotificationsKeepTheirId'
  BY <1>written, NoFrameIs, Zenon DEF NotificationsKeepTheirId
<1>17. ReplayIsInvisible'
  <2>1. CASE ~fwd
    BY <1>written, <2>1, NoFrameIs, Zenon DEF ReplayIsInvisible
  <2>2. CASE fwd
    <3>1. toClient'.n = n /\ toClient'.id = id
      BY <1>frame, <1>written, <2>2, Zenon
    <3> SUFFICES ASSUME id # NoId, Kept(n)', connGen \notin Fallbacks PROVE calls'[n].id = id
      BY <1>same, <3>1, Zenon DEF ReplayIsInvisible, Tracked, Held, Kept
    <3>2. calls'[n].state = "held" /\ OwnRequestID(n) /\ Same(n, n) /\ calls'[n].id[2] \notin Fallbacks
      BY <1>n, <1>8, Zenon DEF Kept, Same
    <3>3. calls[n].state # "held"
      <4> SUFFICES ASSUME calls[n].state = "held" PROVE FALSE
        OBVIOUS
      <4>0. calls'[n].id = calls[n].id
        BY <1>n, <1>held, <2>2, <3>2, Zenon
      <4>1. KeptCall(n) /\ calls[n].id # NoId
        BY <1>n, <1>calls, <3>2, <4>0, Zenon DEF ReplayInv, Kept, CallsOK
      <4> QED
        BY <1>moved, <2>2, <4>1, Zenon DEF KeptCall
    <3> QED
      BY <1>n, <1>3, <1>kept, <1>waiting, <2>2, <3>2, <3>3, Zenon
  <2> QED
    BY <1>registry, <2>1, <2>2, Zenon
<1> QED
  BY <1>typed, <1>10, <1>11, <1>13, <1>14, <1>15, <1>16, <1>17, Zenon DEF ReplayInv

LEMMA ReplayStutters == ReplayInv /\ UNCHANGED replayVars => ReplayInv'
<1> SUFFICES ASSUME ReplayInv, UNCHANGED replayVars PROVE ReplayInv'
  OBVIOUS
<1>1. UNCHANGED <<registry, calls, clientFrame, endpointFrame, connGen, connected, up, owed, live, toClient>>
  BY Zenon DEF replayVars
<1>2. ReplayTyped' /\ EndpointFrameOK' /\ (clientFrame.kind = "subscribe" => Quiet(clientFrame.n)')
  BY <1>1, Zenon DEF ReplayInv, ReplayTyped, Known, EndpointFrameOK, ClientFrameOK, Quiet
<1>3. NotificationsKeepTheirId' /\ ReplayIsInvisible'
  BY <1>1, Zenon DEF ReplayInv, NotificationsKeepTheirId, ReplayIsInvisible, Tracked, Held, OwnRequestID
<1>4. \A n \in Known : Fresh(n) => FreshCall(n)'
  BY <1>1, Zenon DEF ReplayInv, FreshCall, Quiet, Subscribing, Answer
<1>5. \A n \in Known : Kept(n) => KeptCall(n)'
  BY <1>1 DEF ReplayInv, KeptCall, Known, Same, Quiet, Answer
<1> QED
  BY <1>1, <1>2, <1>3, <1>4, <1>5, SupplierStep, Zenon

LEMMA ReplayStep == ReplayInv /\ [ReplayNext]_replayVars => ReplayInv'
<1> SUFFICES ASSUME ReplayInv, [ReplayNext]_replayVars PROVE ReplayInv'
  OBVIOUS
<1>1. CASE subscribe
  BY <1>1, SubscribeKeeps, Zenon
<1>2. CASE \E n \in Serials : unsubscribe(n)
  BY <1>2, UnsubscribeKeeps, Zenon
<1>3. CASE supplierSends
  BY <1>3, SupplierSendsKeeps, Zenon
<1>4. CASE supplierDies
  BY <1>4, SupplierDiesKeeps, Zenon
<1>5. CASE handleClientFrame
  <2>1. clientFrame.kind \in {"subscribe", "unsubscribe"}
    BY <1>5, Zenon DEF handleClientFrame
  <2> QED
    BY <1>5, <2>1, SubscribeFrameKeeps, UnsubscribeFrameKeeps, Zenon
<1>6. CASE handleEndpointFrame
  <2>1. endpointFrame.kind \in {"response", "notification"}
    BY <1>6, Zenon DEF handleEndpointFrame
  <2> QED
    BY <1>6, <2>1, ResponseKeeps, NotificationKeeps, Zenon
<1>7. CASE rebind
  BY <1>7, RebindSubscriptionsKeeps, Zenon
<1>8. CASE replay
  BY <1>8, ReplayKeeps, Zenon
<1>9. CASE UNCHANGED replayVars
  BY <1>9, ReplayStutters, Zenon
<1> QED
  BY <1>1, <1>2, <1>3, <1>4, <1>5, <1>6, <1>7, <1>8, <1>9, Zenon DEF ReplayNext

\* However often the bridge rebinds, and whichever of its connections go to fallbacks, a client
\* that uses its request ids once sees nothing of it over the others: notifications keep the id a
\* protocol endpoint gave it, no replay is answered twice, and every subscription so given runs at
\* the supplier of a live connection, a fallback's too, or is about to be answered there.
THEOREM SubscriptionsSeamless == ReplaySpec => []SubscriptionsAreSeamless
<1>1. ReplayInv => SubscriptionsAreSeamless
  <2> SUFFICES ASSUME ReplayInv PROVE HeldIsServed
    BY Zenon DEF ReplayInv, SubscriptionsAreSeamless
  <2>1. ASSUME NEW n \in Held, Tracked(n), connected, up PROVE n \in owed \cup live \/ endpointFrame.n = n
    <3>1. KeptCall(n)
      BY <2>1, Zenon DEF ReplayInv, Kept, Tracked, Held, Known
    <3> QED
      BY <2>1, <3>1, Zenon DEF KeptCall, Answer
  <2> QED
    BY <2>1, Zenon DEF HeldIsServed
<1> QED
  BY <1>1, ReplayInitially, ReplayStep, PTL DEF ReplaySpec
=============================================================================
