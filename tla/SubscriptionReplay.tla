------------------------- MODULE SubscriptionReplay -------------------------
(***************************************************************************)
(* The frames of one websocket connection: handleClientMessage and             *)
(* handleEndpointMessage of websockets/bridge.go with the subscription         *)
(* registry in between, while rebinds replace the endpoint connection           *)
(* (handleEndpointDown and SubscriptionReplayFrames).  How a rebind selects and *)
(* dials, and how the connection ends, is in WebsocketBridge.                  *)
(*                                                                         *)
(* msgChan has no buffer: each read loop holds one frame until the bridge's     *)
(* goroutine takes it.  That goroutine takes none while it rebinds, so the       *)
(* frame of the connection it replaces is dropped.                            *)
(***************************************************************************)
EXTENDS SubscriptionRegistry, Integers, Sequences

CONSTANTS
  ReqIDs,                 \* JSON-RPC request ids of the client
  MaxSubscribes, MaxRebinds,  \* eth_subscribe calls and rebinds that are explored
  Fallbacks               \* the connections, by number, whose endpoint is a fallback

VARIABLES
  registry,
  calls,                  \* the client's eth_subscribe calls, and the id it was given
  clientFrame, endpointFrame,    \* held by the read loops
  connGen, connected, up,     \* connection number; b.endpointConn is not nil; its supplier hears
  owed, live,             \* at that supplier: calls to answer, subscriptions that run
  toClient                \* the frame this step wrote to the client

replayVars == <<registry, calls, clientFrame, endpointFrame, connGen, connected, up, owed, live, toClient>>

Frame(kind, n, id) == [kind |-> kind, n |-> n, id |-> id]
NoFrame == Frame("none", 0, NoId)
Serials == 1 .. MaxSubscribes
Ids == {NoId} \cup (Serials \X (0 .. MaxRebinds))
Held == {n \in DOMAIN calls : calls[n].state = "held"}

ReplayTypeOK ==
  /\ calls \in Seq([reqID : ReqIDs, state : {"waiting", "held", "over"}, id : Ids])
  /\ {clientFrame, endpointFrame, toClient} \subseteq
       [kind : {"none", "subscribe", "unsubscribe", "response", "notification"}, n : Serials \cup {0}, id : Ids]
  /\ connGen \in 0 .. MaxRebinds /\ {connected, up} \subseteq BOOLEAN
  /\ owed \cup live \cup DOMAIN registry.sub \subseteq DOMAIN calls
  /\ \A n \in DOMAIN registry.sub : registry.byReqID[registry.sub[n].reqID] = n

ReplayInit ==
  /\ registry = NewSubscriptionRegistry /\ calls = << >>
  /\ clientFrame = NoFrame /\ endpointFrame = NoFrame
  /\ connGen = 0 /\ connected = TRUE /\ up = TRUE
  /\ owed = {} /\ live = {} /\ toClient = NoFrame

-----------------------------------------------------------------------------
(* The client                                                                *)

\* A call whose answer may still come.
Outstanding(n) == calls[n].state = "waiting" /\ (n \in owed \/ endpointFrame.n = n)

\* eth_subscribe under a request id that is not outstanding: one used before, perhaps, when the
\* client counts from one again or repeats a call that was lost.
subscribe ==
  /\ clientFrame = NoFrame /\ Len(calls) < MaxSubscribes
  /\ \E r \in ReqIDs :
       /\ \A n \in DOMAIN calls : Outstanding(n) => calls[n].reqID # r
       /\ calls' = Append([n \in DOMAIN calls |->
                             IF calls[n].state = "waiting" /\ calls[n].reqID = r
                             THEN [calls[n] EXCEPT !.state = "over"] ELSE calls[n]],
                          [reqID |-> r, state |-> "waiting", id |-> NoId])
  /\ clientFrame' = Frame("subscribe", Len(calls) + 1, NoId)
  /\ toClient' = NoFrame
  /\ UNCHANGED <<registry, endpointFrame, connGen, connected, up, owed, live>>

unsubscribe(n) ==
  /\ clientFrame = NoFrame /\ n \in Held
  /\ calls' = [calls EXCEPT ![n].state = "over"]
  /\ clientFrame' = Frame("unsubscribe", n, calls[n].id)
  /\ toClient' = NoFrame
  /\ UNCHANGED <<registry, endpointFrame, connGen, connected, up, owed, live>>

-----------------------------------------------------------------------------
(* The supplier                                                              *)

\* It answers a call with an id, or with an error, and notifies.
supplierSends ==
  /\ connected /\ up /\ endpointFrame = NoFrame
  /\ \/ \E n \in owed : \E id \in {<<n, connGen>>, NoId} :
          /\ endpointFrame' = Frame("response", n, id)
          /\ owed' = owed \ {n}
          /\ live' = IF id = NoId THEN live ELSE live \cup {n}
     \/ \E n \in live :
          endpointFrame' = Frame("notification", n, <<n, connGen>>) /\ UNCHANGED <<owed, live>>
  /\ toClient' = NoFrame
  /\ UNCHANGED <<registry, calls, clientFrame, connGen, connected, up>>

\* It stops without the gateway noticing yet.
supplierDies ==
  /\ up /\ up' = FALSE
  /\ toClient' = NoFrame
  /\ UNCHANGED <<registry, calls, clientFrame, endpointFrame, connGen, connected, owed, live>>

-----------------------------------------------------------------------------
(* The bridge                                                                *)

\* The frame goes through TrackClientMessage and is signed and written; a dead supplier does
\* not get it.
handleClientFrame ==
  /\ connected /\ clientFrame # NoFrame
  /\ clientFrame' = NoFrame
  /\ LET n == clientFrame.n
         unsub == TrackUnsubscribe(registry, clientFrame.id)
     IN  \/ /\ clientFrame.kind = "subscribe"
            /\ registry' = TrackSubscribe(registry, n, calls[n].reqID)
            /\ owed' = IF up THEN owed \cup {n} ELSE owed
            /\ UNCHANGED live
         \/ /\ clientFrame.kind = "unsubscribe"
            /\ registry' = unsub.registry
            /\ live' = IF up THEN {m \in live : <<m, connGen>> # unsub.id} ELSE live
            /\ UNCHANGED owed
  /\ toClient' = NoFrame
  /\ UNCHANGED <<calls, endpointFrame, connGen, connected, up>>

\* What the client makes of a response: an id for a call it waits for, or an error, also for a
\* call it was given an id for before.
Informed(f) ==
  [n \in DOMAIN calls |->
     IF calls[n].reqID # calls[f.n].reqID \/ calls[n].state = "over" THEN calls[n]
     ELSE IF f.id = NoId THEN [calls[n] EXCEPT !.state = "over"]
     ELSE IF calls[n].state = "waiting" THEN [calls[n] EXCEPT !.state = "held", !.id = f.id]
     ELSE calls[n]]

\* What becomes of a response and of a notification's id: the frame goes through
\* TranslateEndpointMessage, which may keep it, except that a fallback's is forwarded as it is.
Translated(f) ==
  IF connGen \in Fallbacks THEN [registry |-> registry, forward |-> TRUE]
  ELSE TranslateResponse(registry, calls[f.n].reqID, f.id)

TranslatedId(f) == IF connGen \in Fallbacks THEN f.id ELSE translateNotification(registry, f.id)

handleEndpointFrame ==
  /\ connected /\ endpointFrame # NoFrame
  /\ endpointFrame' = NoFrame
  /\ LET f == endpointFrame
         answer == Translated(f)
     IN  \/ /\ f.kind = "response"
            /\ registry' = answer.registry
            /\ toClient' = IF answer.forward THEN f ELSE NoFrame
            /\ calls' = IF answer.forward THEN Informed(f) ELSE calls
         \/ /\ f.kind = "notification"
            /\ toClient' = [f EXCEPT !.id = TranslatedId(f)]
            /\ UNCHANGED <<registry, calls>>
  /\ UNCHANGED <<clientFrame, connGen, connected, up, owed, live>>

\* handleEndpointDown, for whatever reason, up to the dial.
rebind ==
  /\ connected /\ connGen < MaxRebinds
  /\ connected' = FALSE /\ up' = FALSE
  /\ endpointFrame' = NoFrame /\ owed' = {} /\ live' = {}
  /\ toClient' = NoFrame
  /\ UNCHANGED <<registry, calls, clientFrame, connGen>>

\* SubscriptionReplayFrames, writeReplayFrames and the swap.
replay ==
  /\ ~connected
  /\ connGen' = connGen + 1 /\ connected' = TRUE /\ up' = TRUE
  /\ owed' = ActiveSubscribeFrames(registry)
  /\ toClient' = NoFrame
  /\ UNCHANGED <<registry, calls, clientFrame, endpointFrame, live>>

ReplayNext ==
  \/ subscribe \/ \E n \in Serials : unsubscribe(n)
  \/ supplierSends \/ supplierDies
  \/ handleClientFrame \/ handleEndpointFrame
  \/ rebind \/ replay

ReplaySpec == ReplayInit /\ [][ReplayNext]_replayVars

-----------------------------------------------------------------------------
(* Properties                                                               *)

\* The first call under its request id, but for calls that failed or were lost: the registry
\* knows a call by its request id, and the replay of one would be taken for another's answer.
OwnRequestID(n) ==
  \A m \in DOMAIN calls \ {n} : calls[m].reqID = calls[n].reqID => m < n /\ calls[m].id = NoId

\* The subscriptions the registry knows the client's id of: held, and granted over a connection
\* whose frames are translated.  One granted by a fallback is never replayed.
Tracked(n) == n \in Held /\ OwnRequestID(n) /\ calls[n].id[2] \notin Fallbacks

\* A notification for a tracked subscription reaches the client under the id it was given,
\* whichever protocol endpoint it comes from, also after a fallback served the connection
\* (translateNotification).
NotificationsKeepTheirId ==
  toClient.kind = "notification" /\ connGen \notin Fallbacks /\ Tracked(toClient.n)
    => toClient.id = calls[toClient.n].id

\* A protocol endpoint's answer to a replayed call stays in the gateway: a client that holds the
\* subscription is not answered again with an id (TranslateEndpointMessage).
ReplayIsInvisible ==
  toClient.kind = "response" /\ toClient.id # NoId /\ connGen \notin Fallbacks /\ Tracked(toClient.n)
    => toClient.id = calls[toClient.n].id

\* No rebind loses a tracked subscription, to a fallback, from one or between protocol endpoints:
\* the supplier of a live connection runs it, or is about to answer its replay
\* (ActiveSubscribeFrames).
HeldIsServed ==
  connected /\ up =>
    \A n \in Held : Tracked(n) => n \in owed \cup live \/ endpointFrame.n = n

\* Rebinds are seamless to the client where frames are translated: ids are kept, replays unseen,
\* and nothing the registry tracks is lost, whichever connections fallbacks serve.
SubscriptionsAreSeamless == NotificationsKeepTheirId /\ ReplayIsInvisible /\ HeldIsServed
=============================================================================
