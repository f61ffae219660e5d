------------------------ MODULE SubscriptionRegistry ------------------------
(***************************************************************************)
(* websockets/subscription_registry.go: what a bridge remembers about its    *)
(* client's eth_subscribe calls, so that they can be replayed on another      *)
(* endpoint connection without the client noticing.                          *)
(*                                                                         *)
(* A subscribe call is a serial number n with a JSON-RPC request id.  The      *)
(* supplier's id for call n on connection g is <<n, g>>: suppliers draw their *)
(* ids at random, so ids of two connections differ.  The order of the replay   *)
(* is the order of the serials.                                             *)
(***************************************************************************)
EXTENDS Naturals, Functions

NoId == <<0, 0>>
Nothing == [k \in {} |-> 0]
NewSubscriptionRegistry ==
  [sub |-> Nothing, byReqID |-> Nothing, byClientSubID |-> Nothing, byCurrentSubID |-> Nothing]

Without(f, k) == Restrict(f, DOMAIN f \ {k})
With(f, k, v) == [x \in DOMAIN f \cup {k} |-> IF x = k THEN v ELSE f[x]]

removeLocked(r, n) ==
  [sub            |-> Without(r.sub, n),
   byReqID        |-> Without(r.byReqID, r.sub[n].reqID),
   byClientSubID  |-> Without(r.byClientSubID, r.sub[n].clientSubID),
   byCurrentSubID |-> Without(r.byCurrentSubID, r.sub[n].currentSubID)]

\* TrackClientMessage of an eth_subscribe: a reused request id drops the old subscription.
TrackSubscribe(r, n, reqID) ==
  LET kept == IF reqID \in DOMAIN r.byReqID THEN removeLocked(r, r.byReqID[reqID]) ELSE r
      sub == [reqID |-> reqID, clientSubID |-> NoId, currentSubID |-> NoId]
  IN  [kept EXCEPT !.sub = With(@, n, sub), !.byReqID = With(@, reqID, n)]

\* TrackClientMessage of an eth_unsubscribe: the registry, and the id the endpoint is sent.
TrackUnsubscribe(r, id) ==
  IF id \notin DOMAIN r.byClientSubID THEN [registry |-> r, id |-> id]
  ELSE LET n == r.byClientSubID[id]
       IN  [registry |-> removeLocked(r, n), id |-> r.sub[n].currentSubID]

\* Fault: the answer to a replayed call is forwarded.
TranslateResponseForwarding(r, reqID, subID) ==
  IF reqID \notin DOMAIN r.byReqID THEN [registry |-> r, forward |-> TRUE]
  ELSE LET n == r.byReqID[reqID]
       IN  [registry |-> [r EXCEPT !.sub[n].clientSubID = IF @ = NoId THEN subID ELSE @,
                                   !.sub[n].currentSubID = subID,
                                   !.byCurrentSubID = With(@, subID, n)],
            forward  |-> TRUE]

\* TranslateEndpointMessage of a response whose result is the string subID, or no string (NoId).
TranslateResponse(r, reqID, subID) ==
  IF reqID \notin DOMAIN r.byReqID THEN [registry |-> r, forward |-> TRUE]
  ELSE LET n == r.byReqID[reqID]
           sub == r.sub[n]
       IN  IF subID = NoId THEN [registry |-> removeLocked(r, n), forward |-> TRUE]
           ELSE IF sub.clientSubID = NoId
           THEN [registry |-> [r EXCEPT !.sub[n].clientSubID = subID, !.sub[n].currentSubID = subID,
                                        !.byClientSubID = With(@, subID, n),
                                        !.byCurrentSubID = With(@, subID, n)],
                 forward  |-> TRUE]
           ELSE [registry |-> [r EXCEPT !.sub[n].currentSubID = subID,
                                        !.byCurrentSubID = With(Without(@, sub.currentSubID), subID, n)],
                 forward  |-> FALSE]

\* Fault: the supplier's id is passed on.
translateNothing(r, id) == id

\* The subscription id a notification carries when it is forwarded.
translateNotification(r, id) ==
  IF id \notin DOMAIN r.byCurrentSubID THEN id ELSE r.sub[r.byCurrentSubID[id]].clientSubID

\* Fault: a subscription that moved before is not replayed again.
NeverMoved(r) == {n \in DOMAIN r.sub : r.sub[n].clientSubID # NoId /\ r.sub[n].currentSubID = r.sub[n].clientSubID}

ActiveSubscribeFrames(r) == {n \in DOMAIN r.sub : r.sub[n].clientSubID # NoId}
=============================================================================
