-------------------------- MODULE WebsocketSetup --------------------------
(***************************************************************************)
(* The websocket connections of one pod, from the HTTP upgrade to the last *)
(* observation: gateway/gateway.go and websocket_limiter.go (admission),   *)
(* gateway/websocket_request_context.go (endpoint selection, the listeners *)
(* of observations), protocol/shannon/websocket_context.go (building the   *)
(* connection, its lifecycle goroutine), websocket_registry.go (tumbling   *)
(* and closing the live bridges) and the shutdown order of cmd/main.go.    *)
(* The life of one bridge is in WebsocketBridge; here it is live, moves to *)
(* another operator, and goes down.                                        *)
(***************************************************************************)
EXTENDS Integers, FiniteSets, Sequences

CONSTANTS
    Conns,          \* connection attempts
    Domain,         \* operators of websocket endpoints
    MaxConns,       \* capacity of the WebsocketConnectionLimiter
    Broken          \* domains the circuit breaker has open

Unbound == "none"

ASSUME SetupAssumption == IsFiniteSet(Conns) /\ Unbound \notin Domain /\ MaxConns \in Nat

VARIABLES
    stage,      \* of handleWebSocketRequest: idle, accepted, admitted, building,
                \* started, open, ended
    active,     \* WebsocketConnectionLimiter.active
    bridge,     \* none, live, down
    boundTo,      \* operator of the endpoint bound
    opened,     \* operator of selectedEndpoint
    said,       \* what the lifecycle goroutine has sent: none, established, closed
    obs,        \* connectionObservationChan
    gauges,      \* path_websocket_connections_active by operator
    connRegistry,   \* websocketConnRegistry: [conn -> operator], on registered conns
    rate,       \* frames per second of the registered connections, as sampled
    tumbling,   \* connections with a tumble queued
    pod         \* serving, swept (websockets closed), exited

podVars == <<stage, active, bridge, boundTo, opened, said, obs, gauges, connRegistry, rate,
          tumbling, pod>>

Registered == {c \in Conns : connRegistry[c] # Unbound}

SetupTypeOK ==
    /\ stage \in [Conns -> {"idle", "accepted", "admitted", "building", "started", "open", "ended"}]
    /\ active \in 0 .. MaxConns
    /\ bridge \in [Conns -> {"none", "live", "down", "cut"}]
    /\ boundTo \in [Conns -> Domain \union {Unbound}] /\ opened \in [Conns -> Domain \union {Unbound}]
    /\ said \in [Conns -> {"none", "established", "closed"}]
    /\ \A c \in Conns : Len(obs[c]) <= 2
    /\ gauges \in [Domain -> Int] /\ connRegistry \in [Conns -> Domain \union {Unbound}]
    /\ rate \in [Conns -> 0 .. 1] /\ tumbling \subseteq Conns
    /\ pod \in {"serving", "swept", "exited"}

SetupInit ==
    /\ stage = [c \in Conns |-> "idle"] /\ active = 0
    /\ bridge = [c \in Conns |-> "none"]
    /\ boundTo = [c \in Conns |-> Unbound] /\ opened = boundTo
    /\ said = [c \in Conns |-> "none"] /\ obs = [c \in Conns |-> <<>>]
    /\ gauges = [d \in Domain |-> 0]
    /\ connRegistry = [c \in Conns |-> Unbound] /\ rate = [c \in Conns |-> 0]
    /\ tumbling = {} /\ pod = "serving"

-----------------------------------------------------------------------------
(* Admission. *)

\* At the cap the request is answered 503 and nothing is reserved.
Acquire(c) ==
    /\ pod # "exited" /\ stage[c] = "idle" /\ bridge[c] # "cut" /\ active < MaxConns
    /\ active' = active + 1
    /\ stage' = [stage EXCEPT ![c] = "accepted"]
    /\ UNCHANGED <<bridge, boundTo, opened, said, obs, gauges, connRegistry, rate, tumbling, pod>>

\* The deferred Release of a request that does not end in a connection.
Release(c) ==
    /\ active' = active - 1
    /\ stage' = [stage EXCEPT ![c] = "idle"]
    /\ boundTo' = [boundTo EXCEPT ![c] = Unbound] /\ opened' = [opened EXCEPT ![c] = Unbound]

\* initFromHTTPRequest, ValidateRPCType and buildQoSContextFromHTTP: any of them
\* may reject the request.
initFromHTTPRequest(c) ==
    /\ stage[c] = "accepted"
    /\ \/ Release(c)
       \/ stage' = [stage EXCEPT ![c] = "admitted"] /\ UNCHANGED <<active, boundTo, opened>>
    /\ UNCHANGED <<bridge, said, obs, gauges, connRegistry, rate, tumbling, pod>>

\* Endpoints of broken domains are left out unless that leaves none; QoS selects
\* one of the rest.  Without endpoints the request fails.
buildProtocolContextAndStartBridge(c) ==
    /\ stage[c] = "admitted"
    /\ \/ Release(c)
       \/ \E avail \in SUBSET Domain \ {{}} :
            \E d \in IF avail \ Broken # {} THEN avail \ Broken ELSE avail :
              /\ boundTo' = [boundTo EXCEPT ![c] = d] /\ opened' = [opened EXCEPT ![c] = d]
              /\ stage' = [stage EXCEPT ![c] = "building"] /\ UNCHANGED active
    /\ UNCHANGED <<bridge, said, obs, gauges, connRegistry, rate, tumbling, pod>>

-----------------------------------------------------------------------------
(* Building the connection. *)

\* A failure costs the endpoint a reputation signal (module ReputationScore says
\* what that does) and ends the request; a bridge that starts is registered
\* before its goroutine runs.
startWebSocketBridge(c) ==
    /\ stage[c] = "building"
    /\ \/ /\ Release(c)
          /\ UNCHANGED <<bridge, said, connRegistry, rate>>
       \/ /\ bridge' = [bridge EXCEPT ![c] = "live"]
          /\ said' = [said EXCEPT ![c] = "none"]
          /\ connRegistry' = [connRegistry EXCEPT ![c] = boundTo[c]]
          /\ rate' = [rate EXCEPT ![c] = 0]
          /\ stage' = [stage EXCEPT ![c] = "started"]
          /\ UNCHANGED <<active, boundTo, opened>>
    /\ UNCHANGED <<obs, gauges, tumbling, pod>>

\* The protocol context is set, ready is closed, and the listener of the
\* connection's observations starts.
handleWebsocketRequest(c) ==
    /\ stage[c] = "started"
    /\ stage' = [stage EXCEPT ![c] = "open"]
    /\ UNCHANGED <<active, bridge, boundTo, opened, said, obs, gauges, connRegistry, rate, tumbling, pod>>

\* The goroutine that reports the connection's life: the operator it opened on,
\* then the operator it is bound to when it has ended, then it closes the channel.
lifecycleGoroutine(c) ==
    /\ \/ /\ bridge[c] \in {"live", "down"} /\ said[c] = "none"
          /\ said' = [said EXCEPT ![c] = "established"]
          /\ obs' = [obs EXCEPT ![c] = Append(@, [event |-> "established", domain |-> opened[c]])]
       \/ /\ bridge[c] = "down" /\ said[c] = "established"
          /\ said' = [said EXCEPT ![c] = "closed"]
          /\ obs' = [obs EXCEPT ![c] = Append(@, [event |-> "closed", domain |-> boundTo[c]])]
    /\ UNCHANGED <<stage, active, bridge, boundTo, opened, gauges, connRegistry, rate, tumbling, pod>>

\* handleConnectionObservation moves the gauge.
AfterObservation(o) ==
    [gauges EXCEPT ![o.domain] = IF o.event = "established" THEN @ + 1 ELSE @ - 1]

\* Mutant: the listener leaves with the context still alive.
ListenWithoutCancel(c) ==
    /\ stage[c] = "open" /\ obs[c] # <<>>
    /\ gauges' = AfterObservation(Head(obs[c]))
    /\ obs' = [obs EXCEPT ![c] = Tail(@)]
    /\ UNCHANGED <<stage, active, bridge, boundTo, opened, said, connRegistry, rate, tumbling, pod>>

\* The listener: an observation, or the closed channel, which cancels the
\* connection's context.
listenForConnectionObservations(c) ==
    /\ stage[c] = "open"
    /\ \/ /\ obs[c] # <<>>
          /\ gauges' = AfterObservation(Head(obs[c]))
          /\ obs' = [obs EXCEPT ![c] = Tail(@)]
          /\ UNCHANGED stage
       \/ /\ obs[c] = <<>> /\ said[c] = "closed"
          /\ stage' = [stage EXCEPT ![c] = "ended"]
          /\ UNCHANGED <<gauges, obs>>
    /\ UNCHANGED <<active, bridge, boundTo, opened, said, connRegistry, rate, tumbling, pod>>

\* The goroutine waiting for the context gives the slot back.
releaseOnDone(c) ==
    /\ stage[c] = "ended"
    /\ Release(c)
    /\ bridge' = [bridge EXCEPT ![c] = "none"] /\ said' = [said EXCEPT ![c] = "none"]
    /\ UNCHANGED <<obs, gauges, connRegistry, rate, tumbling, pod>>

-----------------------------------------------------------------------------
(* The bridge, the registry and the operator. *)

\* A bridge goes down and leaves the registry.
BridgeEnds(c) ==
    /\ bridge[c] = "live"
    /\ bridge' = [bridge EXCEPT ![c] = "down"]
    /\ connRegistry' = [connRegistry EXCEPT ![c] = Unbound] /\ rate' = [rate EXCEPT ![c] = 0]
    /\ tumbling' = tumbling \ {c}
    /\ UNCHANGED <<stage, active, boundTo, opened, said, obs, gauges, pod>>

\* Mutant: the old operator keeps the credit.
MoveWithoutDebit(from, to) ==
    IF from = to THEN gauges ELSE [gauges EXCEPT ![to] = @ + 1]

\* A rebind: the credit in the gauge moves with the connection, and the registry
\* follows it (updateBinding).
MoveWebsocketConnection(from, to) ==
    IF from = to THEN gauges
    ELSE [gauges EXCEPT ![from] = @ - 1, ![to] = @ + 1]

Rebind(c, d) ==
    /\ bridge[c] = "live" /\ (c \in tumbling => d # boundTo[c])
    /\ gauges' = MoveWebsocketConnection(boundTo[c], d)
    /\ boundTo' = [boundTo EXCEPT ![c] = d]
    /\ connRegistry' = [connRegistry EXCEPT ![c] = d]
    /\ tumbling' = tumbling \ {c}
    /\ UNCHANGED <<stage, active, bridge, opened, said, obs, rate, pod>>

\* The sampler refreshes the frame rate of every registered connection.
sampleRates(busy) ==
    /\ busy \subseteq Registered
    /\ rate' = [c \in Conns |-> IF c \in busy THEN 1 ELSE 0]
    /\ UNCHANGED <<stage, active, bridge, boundTo, opened, said, obs, gauges, connRegistry, tumbling, pod>>

Throughput(d) == Cardinality({c \in Registered : connRegistry[c] = d /\ rate[c] = 1})
\* The ranking of a capped tumble: the busiest operator first, and within it the
\* busiest connection.
Ranks(a, b) ==
    LET ta == Throughput(connRegistry[a])
        tb == Throughput(connRegistry[b])
    IN  ta > tb \/ (ta = tb /\ rate[a] >= rate[b])

\* An operator's tumble of at most max connections (of one domain, or of all).
tumbleBusiest(d, max) ==
    LET matched == {c \in Registered : d \in {Unbound, connRegistry[c]}} IN
    \E moved \in SUBSET matched :
      /\ moved # {}
      /\ Cardinality(moved) = IF Cardinality(matched) < max THEN Cardinality(matched) ELSE max
      /\ \A a \in moved, b \in matched \ moved : Ranks(a, b)
      /\ tumbling' = tumbling \union moved
      /\ UNCHANGED <<stage, active, bridge, boundTo, opened, said, obs, gauges, connRegistry, rate, pod>>

\* The sweep of a shutdown closes the bridges registered when it starts
\* (shutdownAll); the server goes on accepting until it is shut down itself.
shutdownAll ==
    /\ pod = "serving"
    /\ pod' = "swept"
    /\ bridge' = [c \in Conns |-> IF c \in Registered THEN "down" ELSE bridge[c]]
    /\ connRegistry' = [c \in Conns |-> Unbound] /\ rate' = [c \in Conns |-> 0]
    /\ tumbling' = {}
    /\ UNCHANGED <<stage, active, boundTo, opened, said, obs, gauges>>

\* The process exits and its state is gone; a bridge that still ran is cut
\* without a close frame.
exit ==
    /\ pod = "swept"
    /\ pod' = "exited"
    /\ bridge' = [c \in Conns |-> IF bridge[c] = "live" THEN "cut" ELSE "none"]
    /\ stage' = [c \in Conns |-> "idle"] /\ active' = 0
    /\ said' = [c \in Conns |-> "none"] /\ obs' = [c \in Conns |-> <<>>]
    /\ gauges' = [d \in Domain |-> 0]
    /\ connRegistry' = [c \in Conns |-> Unbound] /\ rate' = [c \in Conns |-> 0] /\ tumbling' = {}
    /\ boundTo' = connRegistry' /\ opened' = connRegistry'

-----------------------------------------------------------------------------
Handler(c) ==
    \/ initFromHTTPRequest(c) \/ buildProtocolContextAndStartBridge(c)
    \/ startWebSocketBridge(c) \/ handleWebsocketRequest(c)
Background(c) == lifecycleGoroutine(c) \/ listenForConnectionObservations(c) \/ releaseOnDone(c)

SetupNext ==
    \/ \E c \in Conns : Acquire(c) \/ Handler(c) \/ Background(c) \/ BridgeEnds(c)
    \/ \E c \in Conns, d \in Domain : Rebind(c, d)
    \/ \E busy \in SUBSET Conns : sampleRates(busy)
    \/ \E d \in Domain \union {Unbound}, max \in 1 .. Cardinality(Conns) : tumbleBusiest(d, max)
    \/ shutdownAll \/ exit

\* The handlers and the goroutines of the gateway run; clients do as they like.
SetupFairness == \A c \in Conns : WF_podVars(Handler(c)) /\ WF_podVars(Background(c))

SetupSpec == SetupInit /\ [][SetupNext]_podVars /\ SetupFairness

-----------------------------------------------------------------------------
\* The limiter's count is the connections in the gateway, and within its capacity:
\* whatever order a connection's handler, its observations and a shutdown run in, its
\* slot is given back once (websocket_limiter.go: Release "must be called exactly once per successful Acquire").
SlotsAreCounted == active = Cardinality({c \in Conns : stage[c] # "idle"}) /\ active <= MaxConns

\* A connection that ended does not keep its slot for ever; otherwise the pod refuses
\* clients for good.
SlotsAreReturned == \A c \in Conns : []<>(bridge[c] # "down")

\* Once the reports of all connections are taken, the gauge counts the live
\* bridges of every operator, however often they moved and however late the
\* establishment was reported (MoveWebsocketConnection: "the Dec always cancels
\* whichever Inc is outstanding").
GaugeCountsBridges ==
    (\A c \in Conns : obs[c] = <<>> /\ (bridge[c] \in {"live", "down"} => said[c] # "none")
                        /\ ~(bridge[c] = "down" /\ said[c] = "established"))
      => \A d \in Domain : gauges[d] = Cardinality({c \in Conns : bridge[c] = "live" /\ boundTo[c] = d})

\* The limiter counts the connections, and the gauges count the live bridges.
ConnectionsAreCounted == SlotsAreCounted /\ GaugeCountsBridges
=============================================================================
