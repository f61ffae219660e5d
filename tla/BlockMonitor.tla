--------------------------- MODULE BlockMonitor ---------------------------
(***************************************************************************)
(* The block-height monitor that feeds the session rollover window        *)
(* (protocol/shannon/fullnode_websocket_monitor.go): a listener on the     *)
(* full node's NewBlock events, a handler that falls back to polling when  *)
(* the listener fails, a goroutine that tries to reconnect, and polling    *)
(* loops told to stop through a channel of capacity one.                   *)
(***************************************************************************)
EXTENDS Integers

CONSTANTS
    MaxBreaks,          \* bound on how often the websocket breaks
    MaxHeight           \* bound on the chain's height

VARIABLES
    ws,         \* wsClient and its listener: none, connected, listening, failed
    handler,    \* the reconnection handler runs
    redial,     \* attemptReconnect: none, trying, stopping (sends the stop)
    usingPolling, \* the flag of the monitor
    loops,      \* polling loops: [starting, running]
    stop,       \* messages in the stopPolling channel
    height,     \* the chain's latest block
    queued,     \* the height in heightChan, 0 when it is empty
    known,      \* sessionRolloverState.currentBlockHeight
    breaks,
    clientFailed \* a polling loop could not make its client

vars == <<ws, handler, redial, usingPolling, loops, stop, height, queued, known, breaks, clientFailed>>
feed == <<height, queued, known>>

TypeOK ==
    /\ ws \in {"unstarted", "none", "connected", "listening", "failed"}
    /\ handler \in BOOLEAN /\ redial \in {"none", "trying", "stopping"}
    /\ usingPolling \in BOOLEAN
    /\ loops \in [starting: 0 .. MaxBreaks + 1, running: 0 .. MaxBreaks + 1]
    /\ stop \in 0 .. 1
    /\ {height, queued, known} \subseteq 0 .. MaxHeight /\ breaks \in 0 .. MaxBreaks
    /\ clientFailed \in BOOLEAN

Init ==
    /\ ws = "unstarted" /\ handler = FALSE /\ redial = "none" /\ usingPolling = FALSE
    /\ loops = [starting |-> 0, running |-> 0] /\ stop = 0
    /\ height = 1 /\ queued = 0 /\ known = 0 /\ breaks = 0
    /\ clientFailed = FALSE

-----------------------------------------------------------------------------
\* Nothing happens when the flag says a loop runs already.
startPolling ==
    /\ usingPolling' = TRUE
    /\ loops' = IF usingPolling THEN loops ELSE [loops EXCEPT !.starting = @ + 1]

\* Mutant: the flag is left to the polling loop.
ConnectKeepsFlag ==
    /\ ws' = "connected"
    /\ UNCHANGED usingPolling

\* A new client clears the polling flag before the loop is told to stop.
connectWebSocket ==
    /\ ws' = "connected"
    /\ usingPolling' = FALSE

\* The first connection; when it fails the monitor polls and no handler is
\* started, so the websocket is never tried again.
start ==
    /\ ws = "unstarted"
    /\ \/ connectWebSocket /\ handler' = TRUE /\ UNCHANGED loops
       \/ ws' = "none" /\ startPolling /\ UNCHANGED handler
    /\ UNCHANGED <<redial, stop, feed, breaks, clientFailed>>

\* The listener subscribes, or reports that it cannot.
listenWebSocketEvents ==
    /\ ws = "connected" /\ redial = "none"
    /\ \/ ws' = "listening" /\ UNCHANGED breaks
       \/ breaks < MaxBreaks /\ ws' = "failed" /\ breaks' = breaks + 1
    /\ UNCHANGED <<handler, redial, usingPolling, loops, stop, feed, clientFailed>>

\* The event channel is closed and the listener reports it.
eventChannelClosed ==
    /\ ws = "listening" /\ breaks < MaxBreaks
    /\ ws' = "failed" /\ breaks' = breaks + 1
    /\ UNCHANGED <<handler, redial, usingPolling, loops, stop, feed, clientFailed>>

\* A NewBlock event; it is dropped when the channel is full.
newBlockEvent ==
    /\ ws = "listening"
    /\ queued' = IF queued = 0 THEN height ELSE queued
    /\ UNCHANGED <<ws, handler, redial, usingPolling, loops, stop, height, known, breaks, clientFailed>>

handleReconnection ==
    /\ handler /\ ws = "failed"
    /\ ws' = "none"
    /\ startPolling
    /\ redial' = "trying"
    /\ UNCHANGED <<handler, stop, feed, breaks, clientFailed>>

\* A tick on which the dial fails changes nothing.
attemptReconnect ==
    /\ redial = "trying"
    /\ connectWebSocket
    /\ redial' = "stopping"
    /\ UNCHANGED <<handler, loops, stop, feed, breaks, clientFailed>>

\* The stop is sent, which blocks while the channel is full; only then does the
\* new listener start.
stopPolling ==
    /\ redial = "stopping" /\ stop = 0
    /\ stop' = 1 /\ redial' = "none"
    /\ UNCHANGED <<ws, handler, usingPolling, loops, feed, breaks, clientFailed>>

\* The loop makes its client, or ends without touching the flag.
pollingLoopStarts ==
    /\ loops.starting > 0
    /\ \/ /\ loops' = [starting |-> loops.starting - 1, running |-> loops.running + 1]
          /\ UNCHANGED clientFailed
       \/ /\ loops' = [loops EXCEPT !.starting = @ - 1]
          /\ clientFailed' = TRUE
    /\ UNCHANGED <<ws, handler, redial, usingPolling, stop, feed, breaks>>

pollingLoopStops ==
    /\ loops.running > 0 /\ stop = 1
    /\ stop' = 0 /\ usingPolling' = FALSE
    /\ loops' = [loops EXCEPT !.running = @ - 1]
    /\ UNCHANGED <<ws, handler, redial, feed, breaks, clientFailed>>

\* A tick of a polling loop: the latest height, unless the channel is full.
pollingLoopPolls ==
    /\ loops.running > 0
    /\ queued' = IF queued = 0 THEN height ELSE queued
    /\ UNCHANGED <<ws, handler, redial, usingPolling, loops, stop, height, known, breaks, clientFailed>>

\* sessionRolloverState takes the height: only a newer one is kept.
blockHeightMonitorLoop ==
    /\ queued # 0
    /\ known' = IF queued > known THEN queued ELSE known
    /\ queued' = 0
    /\ UNCHANGED <<ws, handler, redial, usingPolling, loops, stop, height, breaks, clientFailed>>

Block ==
    /\ height < MaxHeight
    /\ height' = height + 1
    /\ UNCHANGED <<ws, handler, redial, usingPolling, loops, stop, queued, known, breaks, clientFailed>>

Next ==
    \/ start \/ listenWebSocketEvents \/ eventChannelClosed \/ newBlockEvent
    \/ handleReconnection \/ attemptReconnect \/ stopPolling
    \/ pollingLoopStarts \/ pollingLoopStops \/ pollingLoopPolls
    \/ blockHeightMonitorLoop \/ Block

\* The goroutines that carry heights run.  The node may stay unreachable, so nothing
\* is assumed of reconnecting, nor of a stop being sent or read.
Listener == start \/ listenWebSocketEvents \/ newBlockEvent \/ handleReconnection
Fairness ==
    /\ WF_vars(Listener) /\ WF_vars(pollingLoopStarts) /\ WF_vars(pollingLoopPolls)
    /\ WF_vars(blockHeightMonitorLoop)

Spec == Init /\ [][Next]_vars /\ Fairness

-----------------------------------------------------------------------------
\* The rollover window catches up with the chain again and again, across any pattern of breaks and
\* reconnections ("If WebSocket fails or disconnects, it falls back to polling.",
\* blockHeightMonitor), unless a polling loop could not make its client: it ends with
\* the flag set, and no loop is started again.
HeightsKeepComing == []<>(known = height \/ clientFailed)
=============================================================================
