-------------------------- MODULE MCWebsocketBridge --------------------------
(***************************************************************************)
(* Websocket connections for TLC, in four parts that meet where they say: the  *)
(* life of one connection (WebsocketBridge), its frames (SubscriptionReplay,     *)
(* which a rebind replays), the connections of a pod from the upgrade to the     *)
(* last observation (WebsocketSetup), and the pod's own websocket to the full    *)
(* node (BlockMonitor).  part says which is explored; the others are idle.      *)
(*                                                                         *)
(* Operator o1 runs one machine under two supplier registrations (a and b),    *)
(* operator o2 another (c).                                                 *)
(***************************************************************************)
EXTENDS WebsocketBridge, SubscriptionReplay, WebsocketSetup

VARIABLES
  part,
  ws, handler, redial, usingPolling, loops, stop, height, queued, known, breaks, clientFailed

Monitor == INSTANCE BlockMonitor WITH MaxBreaks <- 3, MaxHeight <- 3

monitorVars == <<ws, handler, redial, usingPolling, loops, stop, height, queued, known, breaks,
                 clientFailed>>
mcVars == <<part, vars, replayVars, podVars, monitorVars>>

InBridge(A) == part = "bridge" /\ A /\ UNCHANGED <<part, replayVars, podVars, monitorVars>>
InReplay(A) == part = "replay" /\ A /\ UNCHANGED <<part, vars, podVars, monitorVars>>
InSetup(A) == part = "setup" /\ A /\ UNCHANGED <<part, vars, replayVars, monitorVars>>
InMonitor(A) == part = "monitor" /\ A /\ UNCHANGED <<part, vars, replayVars, podVars>>

\* No chain and no height.
IdleMonitor ==
  /\ ws = "none" /\ handler = FALSE /\ redial = "none" /\ usingPolling = FALSE
  /\ loops = [starting |-> 0, running |-> 0] /\ clientFailed = FALSE
  /\ stop = 0 /\ height = 0 /\ queued = 0 /\ known = 0 /\ breaks = 0

MCInit ==
  /\ part \in {"bridge", "replay", "setup", "monitor"}
  /\ Init /\ (part # "bridge" => reconnector)
  /\ ReplayInit /\ SetupInit
  /\ IF part = "monitor" THEN Monitor!Init ELSE IdleMonitor

MCNext ==
  \/ InBridge(Next)
  \/ InReplay(ReplayNext)
  \/ InSetup(SetupNext)
  \/ InMonitor(Monitor!Next)

\* The fairness of WebsocketBridge, WebsocketSetup and BlockMonitor, each in its part.
MCSpec ==
  /\ MCInit /\ [][MCNext]_mcVars
  /\ WF_vars(part = "bridge" /\ clientLoopEnds) /\ WF_vars(part = "bridge" /\ Course)
  /\ \A c \in Conns : /\ WF_podVars(part = "setup" /\ Handler(c))
                      /\ WF_podVars(part = "setup" /\ Background(c))
  /\ WF_monitorVars(part = "monitor" /\ Monitor!Listener)
  /\ WF_monitorVars(part = "monitor" /\ Monitor!pollingLoopStarts)
  /\ WF_monitorVars(part = "monitor" /\ Monitor!pollingLoopPolls)
  /\ WF_monitorVars(part = "monitor" /\ Monitor!blockHeightMonitorLoop)

\* A connection whose client is gone ends (reconnectWithBackoff), and the slot of the limiter
\* comes back for every connection that ends, in whatever order its handler, its observations
\* and a shutdown run (websocket_limiter.go, Release).
ConnectionsEnd == ConnectionEnds /\ SlotsAreReturned

\* Block heights keep reaching the session rollover window across every pattern of broken and
\* restored connections to the full node (blockHeightMonitor).
HeightsKeepComing == Monitor!HeightsKeepComing

MCEndpoints == {"a", "b", "c"}
MCBackend == [e \in MCEndpoints |-> IF e = "c" THEN "m2" ELSE "m1"]
MCOperator == [e \in MCEndpoints |-> IF e = "c" THEN "o2" ELSE "o1"]
=============================================================================
