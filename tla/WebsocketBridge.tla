--------------------------- MODULE WebsocketBridge ---------------------------
(***************************************************************************)
(* The life of one websocket connection through the gateway:                 *)
(* websockets/bridge.go, bridge_reconnect.go and connection.go, with the       *)
(* Shannon request context that selects, dials and registers                  *)
(* (protocol/shannon/websocket_context.go, websocket_registry.go) and the      *)
(* gauge of active connections (metrics/metrics.go).                          *)
(*                                                                         *)
(* One goroutine, start(), handles everything in a select: the frames of the    *)
(* read loops, disconnect signals, tumbles and the tickers of three watchdogs.  *)
(* The select takes any case that is ready, also when the context has ended.   *)
(* A rebind closes the endpoint connection, dials another endpoint and replays *)
(* the subscriptions, all on that goroutine.  The read and ping loops, an        *)
(* operator's Tumble, the gateway's Close and the goroutine that reports the     *)
(* connection's life run on meanwhile.  Endpoint connections are numbered by    *)
(* endpointGen.  What the frames say is in SubscriptionReplay; here a frame      *)
(* ends well or badly, and there are active subscriptions or not.             *)
(***************************************************************************)
EXTENDS RebindSelection, Integers

CONSTANTS
  SelectedEndpoint,               \* the endpoint the connection was opened on
  reconnectMaxAttempts, maxConsecutiveStallRebinds, maxConsecutiveSessionRebinds,
  MaxGen                          \* connections from this one on may stall but do not fail

ASSUME BridgeAssumption ==
  /\ SelectedEndpoint \in Endpoints
  /\ reconnectMaxAttempts \in Nat \ {0} /\ MaxGen \in Nat
  /\ {maxConsecutiveStallRebinds, maxConsecutiveSessionRebinds} \subseteq Nat

VARIABLES
  reconnector,               \* session rebind is enabled; fixed
  pc, attempt, avoid,        \* where the bridge goroutine is; its rebind, avoidCurrentSupplier
  ctxDone, shut, sent,       \* b.ctx, shutdownOnce, the close code this step sent to the client
  clientSock, clientLoop, clientCode,
  endpointGen, endpointConn, \* NoGen: b.endpointConn is nil
  sock, loop,                \* socket and read loop of each endpoint connection
  pinger,                    \* the ping loop of endpointConn runs
  endpointCode,              \* lastCloseCode of endpointConn
  endpointDown, tumble,      \* channels of capacity one
  consecutiveStallRebinds, consecutiveSessionRebinds,
  bound, adminTumbleRequested,
  entry,                     \* the domain in the pod's registry, NoDomain if deregistered
  gauge, lifecycle,          \* active connections per operator; what has been reported
  quietRebinds, cut
    \* history: stall rebinds since the client got data, and whether the gateway closed the bridge while it had no endpoint connection

connVars == <<sock, loop, pinger>>
channelVars == <<endpointDown, tumble>>
countVars == <<consecutiveStallRebinds, consecutiveSessionRebinds, quietRebinds>>
bindVars == <<bound, adminTumbleRequested, gauge>>
rebindVars == <<pc, attempt, avoid>>
shutdownVars == <<ctxDone, shut, entry, clientSock>>
vars == <<reconnector, rebindVars, shutdownVars, sent, clientLoop, clientCode, endpointGen, endpointConn,
          connVars, endpointCode, channelVars, countVars, bindVars, lifecycle, cut>>

Gens == 0 .. MaxGen + 2
NoGen == -1
NoDomain == "none"
Operators == {Operator[e] : e \in Endpoints}
LoopStates == {"reading", "holding", "stopped"}     \* holding a frame for the bridge goroutine

\* What a read that fails leaves in lastCloseCode: nothing (a timeout), the code the peer closed
\* with, or the library's 1005 and 1006 for a close frame without one and for a broken socket.
ClientCodes == {0, 1000, 1005, 1006}
EndpointCodes == {0, 4000, 1005, 1006}

TypeOK ==
  /\ {reconnector, avoid, ctxDone, shut, tumble, adminTumbleRequested, cut} \subseteq BOOLEAN
  /\ pc \in {"setup", "serve", "select", "dial", "replay", "ended"}
  /\ attempt \in 1 .. reconnectMaxAttempts
  /\ sent \in {0, 1000, 1011, 1012, 4000}
  /\ clientCode \in ClientCodes /\ endpointCode \in EndpointCodes
  /\ clientSock \in {"open", "gone", "closed"} /\ clientLoop \in LoopStates
  /\ endpointGen \in Gens /\ {endpointConn, endpointDown} \subseteq Gens \cup {NoGen}
  /\ sock \in [Gens -> {"none", "open", "dead", "reset", "closed"}]
  /\ loop \in [Gens -> LoopStates] /\ pinger \in BOOLEAN
  /\ consecutiveStallRebinds \in 0 .. maxConsecutiveStallRebinds
  /\ consecutiveSessionRebinds \in 0 .. maxConsecutiveSessionRebinds
  /\ bound \in Endpoints
  /\ entry \in Operators \cup {NoDomain}
  /\ gauge \in [Operators -> {-1, 0, 1}]
  /\ lifecycle \in {"starting", "established", "closed"}

\* StartBridge after both sockets are up and the bridge has been handed to the registry.
Init ==
  /\ reconnector \in BOOLEAN
  /\ pc = "setup" /\ attempt = 1 /\ avoid = FALSE
  /\ ctxDone = FALSE /\ shut = FALSE /\ sent = 0
  /\ clientSock = "open" /\ clientLoop = "stopped" /\ clientCode = 0
  /\ endpointGen = 0 /\ endpointConn = NoGen
  /\ sock = [g \in Gens |-> IF g = 0 THEN "open" ELSE "none"]
  /\ loop = [g \in Gens |-> "stopped"] /\ pinger = FALSE
  /\ endpointCode = 0 /\ endpointDown = NoGen /\ tumble = FALSE
  /\ consecutiveStallRebinds = 0 /\ consecutiveSessionRebinds = 0 /\ quietRebinds = 0
  /\ bound = SelectedEndpoint /\ adminTumbleRequested = FALSE
  /\ entry = IF reconnector THEN Operator[SelectedEndpoint] ELSE NoDomain
  /\ gauge = [o \in Operators |-> 0] /\ lifecycle = "starting"
  /\ cut = FALSE

-----------------------------------------------------------------------------
(* Shutdown                                                                  *)

\* Fault: only the code of a broken socket is replaced.
sanitizeAbnormalOnly(c) == IF c = 1006 THEN 1011 ELSE c

sanitizeCloseCode(c) == IF c \in {1005, 1006, 1015} THEN 1011 ELSE c

\* The code of a peer that closed wins; the client connection is nil until set-up is over.
determineCloseCode(cause) ==
  IF endpointConn # NoGen /\ endpointCode # 0 THEN endpointCode
  ELSE IF pc # "setup" /\ clientCode # 0 THEN clientCode
  ELSE CASE cause \in {"gateway", "context", "unavailable"} -> 1012
         [] cause = "idle" -> 1000
         [] OTHER -> 1011

\* shutdown(err), once; socks is sock as the handler leaves it.
shutdown(cause, socks) ==
  IF shut THEN sock' = socks /\ sent' = 0 /\ UNCHANGED shutdownVars
  ELSE /\ shut' = TRUE /\ ctxDone' = TRUE /\ entry' = NoDomain
       /\ sent' = IF pc = "setup" THEN 0 ELSE sanitizeCloseCode(determineCloseCode(cause))
       /\ clientSock' = IF pc = "setup" THEN clientSock ELSE "closed"
       /\ sock' = IF endpointConn = NoGen THEN socks ELSE [socks EXCEPT ![endpointConn] = "closed"]

NotShut(socks) == sock' = socks /\ sent' = 0 /\ UNCHANGED shutdownVars

\* BridgeController.Close, from websocketConnRegistry.shutdownAll, on another goroutine.
Close ==
  /\ entry # NoDomain
  /\ shutdown("gateway", sock)
  /\ cut' = (endpointConn = NoGen)
  /\ UNCHANGED <<reconnector, rebindVars, clientLoop, clientCode, endpointGen, endpointConn, loop, pinger,
                 endpointCode, channelVars, countVars, bindVars, lifecycle>>

-----------------------------------------------------------------------------
(* The connections' loops                                                    *)

\* newConnection for both peers, and the bridge goroutine.
StartBridge ==
  /\ pc = "setup"
  /\ pc' = "serve" /\ endpointConn' = 0
  /\ loop' = [loop EXCEPT ![0] = "reading"] /\ pinger' = TRUE
  /\ clientLoop' = "reading"
  /\ NotShut(sock)
  /\ UNCHANGED <<reconnector, attempt, avoid, clientCode, endpointGen, endpointCode,
                 channelVars, countVars, bindVars, lifecycle, cut>>

loopFrame == UNCHANGED <<reconnector, rebindVars, shut, entry, clientSock, sock, endpointGen, endpointConn,
                         tumble, countVars, bindVars, lifecycle, cut>>

\* connLoop reads a frame.
readFrame ==
  /\ \/ /\ clientSock = "open" /\ clientLoop = "reading" /\ clientLoop' = "holding"
        /\ UNCHANGED loop
     \/ /\ endpointConn # NoGen /\ sock[endpointConn] = "open" /\ loop[endpointConn] = "reading"
        /\ loop' = [loop EXCEPT ![endpointConn] = "holding"] /\ UNCHANGED clientLoop
  /\ sent' = 0
  /\ loopFrame /\ UNCHANGED <<ctxDone, clientCode, pinger, endpointCode, endpointDown>>

\* endpointDisconnectFunc, or cancelOnDisconnect without a reconnector.
onDisconnect(g) ==
  /\ endpointDown' = IF reconnector /\ endpointDown = NoGen THEN g ELSE endpointDown
  /\ ctxDone' = (ctxDone \/ ~reconnector)

\* connLoop's read fails, with a close code (4000 at the end of a session) or without, or
\* pingLoop's write does.
endpointFails(g) ==
  /\ sock[g] # "open"
  /\ \/ /\ loop[g] = "reading" /\ loop' = [loop EXCEPT ![g] = "stopped"]
        /\ endpointCode' \in IF g = endpointConn /\ sock[g] # "closed" THEN EndpointCodes ELSE {endpointCode}
        /\ UNCHANGED pinger
     \/ g = endpointConn /\ pinger /\ pinger' = FALSE /\ UNCHANGED <<loop, endpointCode>>
  /\ onDisconnect(g)
  /\ sent' = 0
  /\ loopFrame /\ UNCHANGED <<clientLoop, clientCode>>

\* The loops of a bridge that ends see their context end.
endpointLoopStops ==
  /\ ctxDone /\ endpointConn # NoGen
  /\ \/ /\ loop[endpointConn] = "holding" /\ loop' = [loop EXCEPT ![endpointConn] = "stopped"]
        /\ UNCHANGED pinger
     \/ pinger /\ pinger' = FALSE /\ UNCHANGED loop
  /\ sent' = 0
  /\ loopFrame /\ UNCHANGED <<ctxDone, clientLoop, clientCode, endpointCode, endpointDown>>

\* Fault: a client that leaves without a close frame is not noticed.
clientLoopEndsOnClose ==
  /\ clientLoop = "reading" /\ clientSock # "open" /\ clientLoop' = "stopped"
  /\ clientCode' \in IF clientSock = "gone" THEN ClientCodes ELSE {clientCode}
  /\ ctxDone' = (ctxDone \/ clientCode' # 0)
  /\ sent' = 0
  /\ loopFrame /\ UNCHANGED <<loop, pinger, endpointCode, endpointDown>>

\* The client is gone: its read loop fails, with its close code if it sent one, or its ping
\* fails.  A read loop that holds a frame stops when the bridge's context has ended.
clientLoopEnds ==
  /\ \/ /\ clientLoop = "reading" /\ clientSock # "open" /\ clientLoop' = "stopped"
        /\ clientCode' \in IF clientSock = "gone" THEN ClientCodes ELSE {clientCode}
     \/ pc # "setup" /\ ~ctxDone /\ clientSock = "gone" /\ UNCHANGED <<clientLoop, clientCode>>
     \/ ctxDone /\ clientLoop = "holding" /\ clientLoop' = "stopped" /\ UNCHANGED clientCode
  /\ ctxDone' = TRUE
  /\ sent' = 0
  /\ loopFrame /\ UNCHANGED <<loop, pinger, endpointCode, endpointDown>>

-----------------------------------------------------------------------------
(* Rebind                                                                    *)

\* Fault: endpointConn is not cleared before the rebind.
beginRebindKeepingConn(trigger) ==
  /\ ~ctxDone
  /\ pc' = "select" /\ attempt' = 1 /\ avoid' = (trigger \in {"stall", "tumble"})
  /\ adminTumbleRequested' = (adminTumbleRequested \/ trigger = "tumble")
  /\ NotShut([sock EXCEPT ![endpointConn] = "closed"])
  /\ loop' = [loop EXCEPT ![endpointConn] = IF @ = "holding" THEN "stopped" ELSE @]
  /\ UNCHANGED <<reconnector, clientLoop, clientCode, endpointGen, endpointConn, endpointCode, pinger,
                 bound, gauge, lifecycle, cut>>

\* handleEndpointDown after the generation check, on the goroutine of start().  A frame the old
\* read loop holds is dropped: nobody receives from msgChan until its context has ended it.
\* Its read still fails, and signals, at any later time.
beginRebind(trigger) ==
  /\ \/ /\ ctxDone
        /\ shutdown("context", sock)
        /\ UNCHANGED <<rebindVars, adminTumbleRequested, endpointConn, endpointCode, loop, pinger>>
     \/ /\ ~ctxDone
        /\ pc' = "select" /\ attempt' = 1 /\ avoid' = (trigger \in {"stall", "tumble"})
        /\ adminTumbleRequested' = (adminTumbleRequested \/ trigger = "tumble")
        /\ NotShut([sock EXCEPT ![endpointConn] = "closed"])
        /\ loop' = [loop EXCEPT ![endpointConn] = IF @ = "holding" THEN "stopped" ELSE @]
        /\ endpointConn' = NoGen /\ endpointCode' = 0 /\ pinger' = FALSE
  /\ UNCHANGED <<reconnector, clientLoop, clientCode, endpointGen, bound, gauge, lifecycle, cut>>

serveFrame == UNCHANGED <<reconnector, rebindVars, endpointGen, endpointConn, pinger, endpointCode, bindVars,
                          lifecycle, cut>>

\* A disconnect signal; one of a replaced connection is ignored.
handleEndpointDown ==
  /\ pc = "serve" /\ endpointDown # NoGen
  /\ endpointDown' = NoGen
  /\ \/ endpointDown = endpointGen /\ beginRebind("rollover")
     \/ /\ endpointDown # endpointGen
        /\ NotShut(sock) /\ serveFrame /\ UNCHANGED <<loop, clientLoop, clientCode>>
  /\ UNCHANGED <<tumble, countVars>>

handleAdminTumble ==
  /\ pc = "serve" /\ tumble
  /\ tumble' = FALSE
  /\ beginRebind("tumble")
  /\ UNCHANGED <<endpointDown, countVars>>

\* The ticker finds an active subscription and no data for the threshold.
checkEndpointStaleness ==
  /\ pc = "serve" /\ reconnector /\ endpointGen <= MaxGen
  /\ \/ /\ consecutiveStallRebinds >= maxConsecutiveStallRebinds
        /\ shutdown("unavailable", sock)
        /\ serveFrame /\ UNCHANGED <<loop, clientLoop, clientCode, countVars>>
     \/ /\ consecutiveStallRebinds < maxConsecutiveStallRebinds
        /\ consecutiveStallRebinds' = consecutiveStallRebinds + 1
        /\ quietRebinds' = quietRebinds + 1
        /\ beginRebind("stall")
        /\ UNCHANGED consecutiveSessionRebinds
  /\ UNCHANGED channelVars

checkBoundSessionExpiry ==
  /\ pc = "serve" /\ reconnector
  /\ \/ /\ consecutiveSessionRebinds' = 0                      \* not expired
        /\ NotShut(sock) /\ serveFrame /\ UNCHANGED <<loop, clientLoop, clientCode>>
     \/ /\ endpointGen < MaxGen /\ consecutiveSessionRebinds < maxConsecutiveSessionRebinds
        /\ consecutiveSessionRebinds' = consecutiveSessionRebinds + 1
        /\ beginRebind("expired")
  /\ UNCHANGED <<channelVars, consecutiveStallRebinds, quietRebinds>>

\* The ticker finds no active subscription and no client frame for the threshold.
checkIdleConnection ==
  /\ pc = "serve" /\ reconnector
  /\ shutdown("idle", sock)
  /\ serveFrame /\ UNCHANGED <<loop, clientLoop, clientCode, channelVars, countVars>>

rebindFrame == UNCHANGED <<reconnector, clientLoop, clientCode, channelVars, countVars, lifecycle, cut>>

\* The goroutine is back in its select.
toServe == pc' = "serve" /\ attempt' = 1 /\ avoid' = FALSE

\* An attempt ends without a connection: another one, or none after the last.
attemptFails ==
  \/ attempt = reconnectMaxAttempts /\ toServe /\ shutdown("unavailable", sock)
  \/ /\ attempt < reconnectMaxAttempts
     /\ attempt' = attempt + 1 /\ pc' = "select"
     /\ NotShut(sock) /\ UNCHANGED avoid

\* MoveWebsocketConnection
MoveCredit(from, to) ==
  IF from = to THEN gauge ELSE [gauge EXCEPT ![from] = @ - 1, ![to] = @ + 1]

avoidScope ==
  IF adminTumbleRequested THEN avoidBoundOperator
  ELSE IF avoid THEN avoidBoundBackend ELSE avoidNothing

\* reconnectWithBackoff looks at the context; ReconnectEndpoint selects from the endpoints of the
\* current session, if it finds the session.  The binding and the credit move before the dial.
selectEndpoint ==
  /\ pc = "select"
  /\ \/ /\ ctxDone /\ toServe /\ shutdown("unavailable", sock) /\ UNCHANGED bindVars
     \/ /\ ~ctxDone
        /\ adminTumbleRequested' = FALSE
        /\ \E candidates \in SUBSET Endpoints :
             LET choices == chooseRebindEndpoint(candidates, bound, avoidScope)
             IN  \/ choices = {} /\ attemptFails /\ UNCHANGED <<bound, gauge>>
                 \/ \E e \in choices :
                      /\ bound' = e /\ gauge' = MoveCredit(Operator[bound], Operator[e])
                      /\ pc' = "dial" /\ NotShut(sock) /\ UNCHANGED <<attempt, avoid>>
  /\ rebindFrame /\ UNCHANGED <<endpointGen, endpointConn, loop, pinger, endpointCode>>

\* ConnectWebsocketEndpoint
dialEndpoint ==
  /\ pc = "dial"
  /\ \/ /\ pc' = "replay" /\ NotShut([sock EXCEPT ![endpointGen + 1] = "open"])
        /\ UNCHANGED <<attempt, avoid>>
     \/ attemptFails
  /\ rebindFrame /\ UNCHANGED <<bindVars, endpointGen, endpointConn, loop, pinger, endpointCode>>

\* Fault: the new connection is forgotten when the replay fails.
replayWithoutClosing ==
  /\ pc = "replay" /\ toServe
  /\ shutdown("unavailable", sock)
  /\ rebindFrame /\ UNCHANGED <<bindVars, endpointCode, endpointGen, endpointConn, loop, pinger>>

\* Fault: the registry keeps the domain the connection was opened on.
replayWithoutUpdateBinding ==
  /\ pc = "replay" /\ toServe
  /\ LET g == endpointGen + 1
     IN  /\ endpointGen' = g /\ endpointConn' = g
         /\ loop' = [loop EXCEPT ![g] = "reading"] /\ pinger' = TRUE
         /\ NotShut(sock)
  /\ rebindFrame /\ UNCHANGED <<bindVars, endpointCode>>

\* The replay frames cannot be built or written, and the new connection is closed; or they are
\* written, the new connection is swapped in and OnReconnectOutcome updates the registry.
replaySubscriptions ==
  /\ pc = "replay" /\ toServe
  /\ LET g == endpointGen + 1
     IN  \/ /\ shutdown("unavailable", [sock EXCEPT ![g] = "closed"])
            /\ UNCHANGED <<endpointGen, endpointConn, loop, pinger>>
         \/ /\ endpointGen' = g /\ endpointConn' = g
            /\ loop' = [loop EXCEPT ![g] = "reading"] /\ pinger' = TRUE
            /\ entry' = IF entry = NoDomain THEN entry ELSE Operator[bound]
            /\ sent' = 0 /\ UNCHANGED <<sock, ctxDone, shut, clientSock>>
  /\ rebindFrame /\ UNCHANGED <<bindVars, endpointCode>>

-----------------------------------------------------------------------------
(* Messages                                                                  *)

\* A frame that cannot be signed ends the bridge, and so does a failed write.  The kernel takes
\* the first write to a peer that died.
handleClientMessage ==
  /\ pc = "serve" /\ clientLoop = "holding"
  /\ clientLoop' = "reading"
  /\ \/ shutdown("processing", sock) /\ UNCHANGED pc
     \/ /\ endpointConn = NoGen                         \* a nil dereference, recovered
        /\ shutdown("connection", sock) /\ pc' = "ended"
     \/ /\ endpointConn # NoGen /\ UNCHANGED pc
        /\ \/ sock[endpointConn] = "open" /\ NotShut(sock)
           \/ sock[endpointConn] = "dead" /\ NotShut([sock EXCEPT ![endpointConn] = "reset"])
           \/ sock[endpointConn] # "open" /\ shutdown("connection", sock)
  /\ UNCHANGED <<reconnector, attempt, avoid, clientCode, endpointGen, endpointConn, loop, pinger,
                 endpointCode, channelVars, countVars, bindVars, lifecycle, cut>>

\* Fault: any frame of the endpoint counts as data.
handleEndpointMessageAsData ==
  /\ pc = "serve" /\ endpointConn # NoGen /\ loop[endpointConn] = "holding"
  /\ loop' = [loop EXCEPT ![endpointConn] = "reading"]
  /\ consecutiveStallRebinds' = 0 /\ NotShut(sock)
  /\ quietRebinds' \in {0, quietRebinds}
  /\ serveFrame /\ UNCHANGED <<clientLoop, clientCode, channelVars, consecutiveSessionRebinds>>

\* A frame that does not verify ends the bridge; one the registry keeps for itself goes nowhere;
\* any other is data for the client.
handleEndpointMessage ==
  /\ pc = "serve" /\ endpointConn # NoGen /\ loop[endpointConn] = "holding"
  /\ loop' = [loop EXCEPT ![endpointConn] = "reading"]
  /\ \/ shutdown("processing", sock) /\ UNCHANGED <<consecutiveStallRebinds, quietRebinds>>
     \/ reconnector /\ NotShut(sock) /\ UNCHANGED <<consecutiveStallRebinds, quietRebinds>>
     \/ /\ consecutiveStallRebinds' = 0 /\ quietRebinds' = 0
        /\ \/ clientSock # "closed" /\ NotShut(sock)
           \/ clientSock # "open" /\ shutdown("connection", sock)
  /\ serveFrame /\ UNCHANGED <<clientLoop, clientCode, channelVars, consecutiveSessionRebinds>>

\* <-b.ctx.Done()
contextEnds ==
  /\ pc = "serve" /\ ctxDone
  /\ shutdown("context", sock)
  /\ pc' = "ended"
  /\ UNCHANGED <<reconnector, attempt, avoid, clientLoop, clientCode, endpointGen, endpointConn, loop,
                 pinger, endpointCode, channelVars, countVars, bindVars, lifecycle, cut>>

\* The goroutine of startWebSocketBridge, through listenForConnectionObservations: the credit is
\* given to the endpoint selected at first and taken back from the one bound at the end.
reportLifecycle ==
  /\ \/ /\ lifecycle = "starting" /\ pc # "setup"
        /\ lifecycle' = "established"
        /\ gauge' = [gauge EXCEPT ![Operator[SelectedEndpoint]] = @ + 1]
     \/ /\ lifecycle = "established" /\ pc = "ended"
        /\ lifecycle' = "closed"
        /\ gauge' = [gauge EXCEPT ![Operator[bound]] = @ - 1]
  /\ NotShut(sock)
  /\ UNCHANGED <<reconnector, rebindVars, clientLoop, clientCode, endpointGen, endpointConn, loop, pinger,
                 endpointCode, channelVars, countVars, bound, adminTumbleRequested, cut>>

-----------------------------------------------------------------------------
(* The surroundings                                                          *)

\* A peer leaves, or an operator tumbles the connection.
worldActs ==
  /\ \/ clientSock = "open" /\ clientSock' = "gone" /\ UNCHANGED <<sock, tumble>>
     \/ /\ endpointConn # NoGen /\ sock[endpointConn] = "open" /\ (reconnector => endpointGen < MaxGen)
        /\ sock' = [sock EXCEPT ![endpointConn] = "dead"] /\ UNCHANGED <<clientSock, tumble>>
     \/ /\ entry # NoDomain /\ ~tumble /\ endpointGen < MaxGen
        /\ tumble' = TRUE /\ UNCHANGED <<clientSock, sock>>
  /\ sent' = 0
  /\ UNCHANGED <<reconnector, rebindVars, ctxDone, shut, entry, clientLoop, clientCode, endpointGen,
                 endpointConn, loop, pinger, endpointCode, endpointDown, countVars, bindVars,
                 lifecycle, cut>>

ConnLoops == clientLoopEnds \/ endpointLoopStops \/ \E g \in Gens : endpointFails(g)
Course == StartBridge \/ selectEndpoint \/ dialEndpoint \/ replaySubscriptions \/ contextEnds \/ reportLifecycle

Next ==
  \/ ConnLoops \/ Course
  \/ readFrame \/ handleClientMessage \/ handleEndpointMessage
  \/ handleEndpointDown \/ handleAdminTumble
  \/ checkEndpointStaleness \/ checkBoundSessionExpiry \/ checkIdleConnection
  \/ Close \/ worldActs

\* A read or a ping on a connection that is gone fails in the end, dials time out, and the
\* select, which is fair among its ready cases, sees the end of the context.
Spec == Init /\ [][Next]_vars /\ WF_vars(clientLoopEnds) /\ WF_vars(Course)

-----------------------------------------------------------------------------
(* Properties                                                               *)

Rebinding == pc \in {"select", "dial", "replay"}

\* No socket is left behind: one endpoint connection at most is open at any time, and when the
\* bridge goroutine has returned both peers' sockets are closed (shutdown, handleEndpointDown),
\* unless the gateway's Close found the bridge without an endpoint connection.
SocketsAreClosed ==
  /\ \A g, h \in Gens : {sock[g], sock[h]} \cap {"none", "closed"} = {} => g = h
  /\ pc = "ended" /\ ~cut => clientSock = "closed" /\ \A g \in Gens : sock[g] \in {"none", "closed"}

\* A rebind that fails asks the client to reconnect (1012): the code of the connection that was
\* lost is never passed on in its place. A client that closed meanwhile gets its own code back,
\* and 1011 where it gave none or broke off, since 1005 and 1006 must not be sent.
FailedRebindAsksToReconnect ==
  [][Rebinding /\ ~shut /\ shut' =>
       \/ clientCode = 0 /\ sent' = 1012
       \/ clientCode \in {1005, 1006} /\ sent' = 1011
       \/ clientCode \notin {0, 1005, 1006} /\ sent' = clientCode]_vars

\* What the pod keeps about the connection follows its binding. While the bridge serves, the
\* registry has it under the operator it is bound to, so that a tumble by domain finds it
\* (AttachBridge, updateBinding). The gauge counts the connection once, for that operator, failed
\* dials included, and not at all once its end is reported (MoveWebsocketConnection). The count of
\* stall rebinds bounds the moves between silent suppliers: what a supplier sends without data for
\* the client does not start it again (handleEndpointMessage).
BooksFollowBinding ==
  /\ pc = "serve" /\ entry # NoDomain => entry = Operator[bound]
  /\ lifecycle = "established" => gauge = [o \in Operators |-> IF o = Operator[bound] THEN 1 ELSE 0]
  /\ lifecycle = "closed" => gauge = [o \in Operators |-> 0]
  /\ quietRebinds <= maxConsecutiveStallRebinds

\* Once the client is gone the bridge ends and its end is reported, also when the client leaves
\* during set-up or during a rebind (clientConn's onDisconnect, reconnectWithBackoff).
ConnectionEnds == []<>(clientSock = "open" \/ lifecycle = "closed")
=============================================================================
