--------------------------- MODULE WebsocketPodProofs ---------------------------
(***************************************************************************)
(* The websocket connections of a pod are counted (WebsocketSetup), for any *)
(* connections, operators and capacity.                                    *)
(***************************************************************************)
EXTENDS WebsocketSetup, FiniteSetTheorems, SequenceTheorems, TLAPS

-----------------------------------------------------------------------------
(* Connections of a pod (WebsocketSetup)                                     *)

SetupTyped ==
    /\ stage \in [Conns -> {"idle", "accepted", "admitted", "building", "started", "open", "ended"}]
    /\ active \in Int
    /\ bridge \in [Conns -> {"none", "live", "down", "cut"}]
    /\ boundTo \in [Conns -> Domain \cup {Unbound}] /\ opened \in [Conns -> Domain \cup {Unbound}]
    /\ said \in [Conns -> {"none", "established", "closed"}]
    /\ DOMAIN obs = Conns /\ gauges \in [Domain -> Int]
    /\ connRegistry \in [Conns -> Domain \cup {Unbound}]

Up(c) == bridge[c] \in {"live", "down"}
Report(event, d) == [event |-> event, domain |-> d]

\* What a connection's stage says of its bridge, and what its channel may hold.
ConnOK(c) ==
    /\ stage[c] \in {"idle", "accepted", "admitted", "building"} => ~Up(c)
    /\ stage[c] \in {"accepted", "admitted", "building"} => bridge[c] = "none"
    /\ stage[c] = "building" => boundTo[c] \in Domain /\ opened[c] = boundTo[c]
    /\ stage[c] \in {"started", "open", "ended"} => Up(c) /\ boundTo[c] \in Domain /\ opened[c] \in Domain
    /\ stage[c] = "ended" => said[c] = "closed" /\ obs[c] = <<>>
    /\ connRegistry[c] # Unbound => bridge[c] = "live"
    /\ ~Up(c) => said[c] = "none"
    /\ said[c] = "none" => obs[c] = <<>>
    /\ said[c] = "established" => obs[c] \in {<<>>, <<Report("established", opened[c])>>}
    /\ said[c] = "closed" =>
         /\ bridge[c] = "down"
         /\ obs[c] \in {<<>>, <<Report("closed", boundTo[c])>>,
                        <<Report("established", opened[c]), Report("closed", boundTo[c])>>}

\* The gauge owes operator d a credit for c from its binding to its observed end, and has not
\* had the one for its opening until that is observed.
Owned(c, d) == Up(c) /\ boundTo[c] = d /\ ~(said[c] = "closed" /\ obs[c] = <<>>)
Heard(c) == said[c] # "none" /\ (obs[c] = <<>> \/ Head(obs[c]).event = "closed")
Awaited(c, d) == Up(c) /\ opened[c] = d /\ ~Heard(c)

GaugesOK ==
    \A d \in Domain :
       gauges[d] = Cardinality({c \in Conns : Owned(c, d)}) - Cardinality({c \in Conns : Awaited(c, d)})

SetupInv == SetupTyped /\ (\A c \in Conns : ConnOK(c)) /\ SlotsAreCounted /\ GaugesOK

Bit(p) == IF p THEN 1 ELSE 0

\* Sets that differ at most in c.
LEMMA CardMoves ==
    ASSUME NEW S, NEW T, NEW c, IsFiniteSet(S), S \ {c} = T \ {c}
    PROVE  /\ IsFiniteSet(T) /\ Cardinality(S) \in Nat /\ Cardinality(T) \in Nat
           /\ Cardinality(T) = Cardinality(S) + Bit(c \in T) - Bit(c \in S)
<1> DEFINE R == S \ {c}
<1>1. IsFiniteSet(R) /\ Cardinality(R) \in Nat /\ c \notin R
  BY FS_RemoveElement, FS_CardinalityType, Zenon
<1>2. /\ IsFiniteSet(R \cup {c}) /\ Cardinality(R \cup {c}) = Cardinality(R) + 1
  BY <1>1, FS_AddElement, Zenon
<1>3. (c \in S => S = R \cup {c}) /\ (c \notin S => S = R)
  OBVIOUS
<1>4. (c \in T => T = R \cup {c}) /\ (c \notin T => T = R)
  OBVIOUS
<1> HIDE DEF R
<1>5. Cardinality(S) = Cardinality(R) + Bit(c \in S) /\ Cardinality(S) \in Nat
  BY <1>1, <1>2, <1>3 DEF Bit
<1>6. IsFiniteSet(T) /\ Cardinality(T) = Cardinality(R) + Bit(c \in T) /\ Cardinality(T) \in Nat
  <2>1. CASE c \in T
    <3>1. T = R \cup {c} /\ Bit(c \in T) = 1
      BY <1>4, <2>1, Zenon DEF Bit
    <3> QED
      BY <1>1, <1>2, <3>1
  <2>2. CASE c \notin T
    <3>1. T = R /\ Bit(c \in T) = 0
      BY <1>4, <2>2, Zenon DEF Bit
    <3> QED
      BY <1>1, <3>1
  <2> QED
    BY <2>1, <2>2, Zenon
<1>7. Bit(c \in S) \in Int /\ Bit(c \in T) \in Int
  BY DEF Bit
<1> QED
  BY <1>1, <1>5, <1>6, <1>7, SMTT(30)

\* A step of one connection's goroutines leaves the others alone.
Others(c) ==
    \A q \in Conns \ {c} :
       /\ stage'[q] = stage[q] /\ bridge'[q] = bridge[q] /\ boundTo'[q] = boundTo[q]
       /\ opened'[q] = opened[q] /\ said'[q] = said[q] /\ obs'[q] = obs[q]
       /\ connRegistry'[q] = connRegistry[q]

LEMMA OneConnActs ==
    ASSUME SetupInv, NEW c \in Conns, SetupTyped', Others(c), ConnOK(c)', active' <= MaxConns,
           active' = active + Bit(stage'[c] # "idle") - Bit(stage[c] # "idle"),
           \A d \in Domain : gauges'[d] = gauges[d] + Bit(Owned(c, d)') - Bit(Owned(c, d))
                                                    - Bit(Awaited(c, d)') + Bit(Awaited(c, d))
    PROVE  SetupInv'
<1>1. \A q \in Conns \ {c} : /\ ConnOK(q)' <=> ConnOK(q)
                             /\ \A d \in Domain : (Owned(q, d)' <=> Owned(q, d)) /\ (Awaited(q, d)' <=> Awaited(q, d))
  <2> TAKE q \in Conns \ {c}
  <2>1. /\ stage'[q] = stage[q] /\ bridge'[q] = bridge[q] /\ boundTo'[q] = boundTo[q]
        /\ opened'[q] = opened[q] /\ said'[q] = said[q] /\ obs'[q] = obs[q]
        /\ connRegistry'[q] = connRegistry[q]
    BY Zenon DEF Others
  <2>2. ConnOK(q)' <=> ConnOK(q)
    BY <2>1, ZenonT(30) DEF ConnOK, Up
  <2>3. \A d \in Domain : (Owned(q, d)' <=> Owned(q, d)) /\ (Awaited(q, d)' <=> Awaited(q, d))
    BY <2>1 DEF Owned, Awaited, Heard, Up
  <2> QED
    BY <2>2, <2>3, Zenon
<1>2. \A q \in Conns : ConnOK(q)'
  BY <1>1, Zenon DEF SetupInv
<1>3. SlotsAreCounted'
  <2> DEFINE S == {q \in Conns : stage[q] # "idle"}
             T == {q \in Conns : stage'[q] # "idle"}
  <2>1. S \ {c} = T \ {c} /\ (c \in S <=> stage[c] # "idle") /\ (c \in T <=> stage'[c] # "idle")
    BY Zenon DEF Others
  <2>2. IsFiniteSet(S)
    BY SetupAssumption, FS_Subset, Zenon
  <2>3. active = Cardinality(S)
    BY Zenon DEF SetupInv, SlotsAreCounted
  <2> HIDE DEF S, T
  <2>4. Cardinality(T) = Cardinality(S) + Bit(c \in T) - Bit(c \in S)
    BY <2>1, <2>2, CardMoves
  <2>5. active' = Cardinality(T)
    BY <2>1, <2>3, <2>4, Zenon DEF Bit
  <2> QED
    BY <2>5, Zenon DEF SlotsAreCounted, T
<1>4. GaugesOK'
  <2> SUFFICES ASSUME NEW d \in Domain
               PROVE  gauges'[d] = Cardinality({q \in Conns : Owned(q, d)'}) - Cardinality({q \in Conns : Awaited(q, d)'})
    BY Zenon DEF GaugesOK
  <2> DEFINE S == {q \in Conns : Owned(q, d)}
             T == {q \in Conns : Owned(q, d)'}
             A == {q \in Conns : Awaited(q, d)}
             B == {q \in Conns : Awaited(q, d)'}
  <2>1. /\ S \ {c} = T \ {c} /\ (c \in S <=> Owned(c, d)) /\ (c \in T <=> Owned(c, d)')
        /\ A \ {c} = B \ {c} /\ (c \in A <=> Awaited(c, d)) /\ (c \in B <=> Awaited(c, d)')
    BY <1>1, Zenon
  <2>2. IsFiniteSet(S) /\ IsFiniteSet(A)
    BY SetupAssumption, FS_Subset, Zenon
  <2>3. gauges[d] = Cardinality(S) - Cardinality(A)
    BY Zenon DEF SetupInv, GaugesOK
  <2>4. gauges'[d] = gauges[d] + Bit(c \in T) - Bit(c \in S) - Bit(c \in B) + Bit(c \in A)
    BY <2>1, Zenon DEF Bit
  <2> HIDE DEF S, T, A, B
  <2>5. /\ Cardinality(T) = Cardinality(S) + Bit(c \in T) - Bit(c \in S)
        /\ Cardinality(S) \in Nat /\ Cardinality(T) \in Nat
    BY <2>1, <2>2, CardMoves
  <2>6. /\ Cardinality(B) = Cardinality(A) + Bit(c \in B) - Bit(c \in A)
        /\ Cardinality(A) \in Nat /\ Cardinality(B) \in Nat
    BY <2>1, <2>2, CardMoves
  <2>7. Bit(c \in T) \in Int /\ Bit(c \in S) \in Int /\ Bit(c \in A) \in Int /\ Bit(c \in B) \in Int
    BY DEF Bit
  <2>8. gauges'[d] = Cardinality(T) - Cardinality(B)
    BY <2>3, <2>4, <2>5, <2>6, <2>7
  <2> QED
    BY <2>8, Zenon DEF T, B
<1> QED
  BY <1>2, <1>3, <1>4, Zenon DEF SetupInv

\* Most steps change neither what the gauge owes nor what it awaits.
LEMMA OneConnActsQuietly ==
    ASSUME SetupInv, NEW c \in Conns, SetupTyped', Others(c), ConnOK(c)', active' <= MaxConns,
           active' = active + Bit(stage'[c] # "idle") - Bit(stage[c] # "idle"), UNCHANGED gauges,
           \A d \in Domain : (Owned(c, d)' <=> Owned(c, d)) /\ (Awaited(c, d)' <=> Awaited(c, d))
    PROVE  SetupInv'
<1>1. \A d \in Domain : gauges'[d] = gauges[d] + Bit(Owned(c, d)') - Bit(Owned(c, d))
                                               - Bit(Awaited(c, d)') + Bit(Awaited(c, d))
  <2> TAKE d \in Domain
  <2>1. gauges[d] \in Int /\ gauges'[d] = gauges[d]
    BY Zenon DEF SetupInv, SetupTyped
  <2> QED
    BY <2>1 DEF Bit
<1> QED
  BY <1>1, OneConnActs, Zenon

\* The stage of a request moves on before there is a bridge.
LEMMA RequestMoves ==
    ASSUME SetupInv, NEW c \in Conns, ~Up(c), UNCHANGED <<bridge, said, obs, gauges, connRegistry>>,
           NEW s \in {"idle", "accepted", "admitted", "building"}, NEW b \in Domain \cup {Unbound},
           stage' = [stage EXCEPT ![c] = s], boundTo' = [boundTo EXCEPT ![c] = b], opened' = [opened EXCEPT ![c] = b],
           s # "idle" => bridge[c] = "none", s = "building" => b \in Domain,
           active' = active + Bit(s # "idle") - Bit(stage[c] # "idle"), active' <= MaxConns
    PROVE  SetupInv'
<1>1. SetupTyped /\ ConnOK(c)
  BY Zenon DEF SetupInv
<1>2. /\ stage'[c] = s /\ boundTo'[c] = b /\ opened'[c] = b
      /\ \A q \in Conns \ {c} : stage'[q] = stage[q] /\ boundTo'[q] = boundTo[q] /\ opened'[q] = opened[q]
  BY <1>1, Zenon DEF SetupTyped
<1>3. SetupTyped'
  <2>1. active' \in Int
    BY <1>1 DEF SetupTyped, Bit
  <2> QED
    BY <1>1, <2>1, Zenon DEF SetupTyped
<1>4. Others(c)
  BY <1>2, Zenon DEF Others
<1>5. ConnOK(c)'
  <2>1. connRegistry[c] = Unbound /\ said[c] = "none" /\ obs[c] = <<>>
    BY <1>1, Zenon DEF ConnOK, Up
  <2> QED
    BY <1>2, <2>1, Zenon DEF ConnOK, Up
<1>6. \A d \in Domain : (Owned(c, d)' <=> Owned(c, d)) /\ (Awaited(c, d)' <=> Awaited(c, d))
  BY Zenon DEF Owned, Awaited, Up
<1>7. active' = active + Bit(stage'[c] # "idle") - Bit(stage[c] # "idle")
  BY <1>2, Zenon
<1> QED
  BY <1>3, <1>4, <1>5, <1>6, <1>7, OneConnActsQuietly, Zenon

LEMMA ReleaseKeeps ==
    ASSUME SetupInv, NEW c \in Conns, stage[c] \in {"accepted", "admitted", "building"}, Release(c),
           UNCHANGED <<bridge, said, obs, gauges, connRegistry>>
    PROVE  SetupInv'
<1>1. SetupTyped /\ ConnOK(c) /\ active <= MaxConns
  BY Zenon DEF SetupInv, SlotsAreCounted
<1>2. ~Up(c)
  BY <1>1, Zenon DEF ConnOK
<1>3. /\ active' = active - 1 /\ stage' = [stage EXCEPT ![c] = "idle"]
      /\ boundTo' = [boundTo EXCEPT ![c] = Unbound] /\ opened' = [opened EXCEPT ![c] = Unbound]
  BY Zenon DEF Release
<1>4. active' = active + Bit("idle" # "idle") - Bit(stage[c] # "idle") /\ active' <= MaxConns
  BY <1>1, <1>3, SetupAssumption DEF Bit, SetupTyped
<1> QED
  BY <1>2, <1>3, <1>4, RequestMoves, Zenon

LEMMA AcquireKeeps ==
    ASSUME SetupInv, NEW c \in Conns, Acquire(c)
    PROVE  SetupInv'
<1>1. SetupTyped /\ ConnOK(c)
  BY Zenon DEF SetupInv
<1>2. /\ stage[c] = "idle" /\ bridge[c] # "cut" /\ active < MaxConns /\ active' = active + 1
      /\ stage' = [stage EXCEPT ![c] = "accepted"]
      /\ UNCHANGED <<bridge, boundTo, opened, said, obs, gauges, connRegistry>>
  BY Zenon DEF Acquire
<1>3. ~Up(c) /\ bridge[c] = "none"
  <2>1. bridge[c] \in {"none", "live", "down", "cut"}
    BY <1>1, Zenon DEF SetupTyped
  <2> QED
    BY <1>1, <1>2, <2>1, Zenon DEF ConnOK, Up
<1>4. stage'[c] = "accepted" /\ \A q \in Conns \ {c} : stage'[q] = stage[q]
  BY <1>1, <1>2, Zenon DEF SetupTyped
<1>5. SetupTyped' /\ active' <= MaxConns /\ active' = active + Bit(stage'[c] # "idle") - Bit(stage[c] # "idle")
  <2>1. active' \in Int /\ active' <= MaxConns
    BY <1>1, <1>2, SetupAssumption DEF SetupTyped
  <2>2. active' = active + Bit(stage'[c] # "idle") - Bit(stage[c] # "idle")
    BY <1>1, <1>2, <1>4 DEF SetupTyped, Bit
  <2> QED
    BY <1>1, <1>2, <2>1, <2>2, Zenon DEF SetupTyped
<1>6. Others(c)
  BY <1>2, <1>4, Zenon DEF Others
<1>7. ConnOK(c)'
  BY <1>1, <1>2, <1>3, <1>4, Zenon DEF ConnOK, Up
<1>8. \A d \in Domain : (Owned(c, d)' <=> Owned(c, d)) /\ (Awaited(c, d)' <=> Awaited(c, d))
  BY <1>2, Zenon DEF Owned, Awaited, Heard, Up
<1> QED
  BY <1>2, <1>5, <1>6, <1>7, <1>8, OneConnActsQuietly, Zenon

LEMMA InitFromKeeps ==
    ASSUME SetupInv, NEW c \in Conns, initFromHTTPRequest(c)
    PROVE  SetupInv'
<1>1. SetupTyped /\ ConnOK(c) /\ active <= MaxConns
  BY Zenon DEF SetupInv, SlotsAreCounted
<1>2. stage[c] = "accepted" /\ UNCHANGED <<bridge, said, obs, gauges, connRegistry>>
  BY Zenon DEF initFromHTTPRequest
<1>3. CASE Release(c)
  BY <1>2, <1>3, ReleaseKeeps, Zenon
<1>4. CASE stage' = [stage EXCEPT ![c] = "admitted"] /\ UNCHANGED <<active, boundTo, opened>>
  <2>1. ~Up(c) /\ bridge[c] = "none"
    BY <1>1, <1>2, Zenon DEF ConnOK
  <2>2. stage'[c] = "admitted" /\ \A q \in Conns \ {c} : stage'[q] = stage[q]
    BY <1>1, <1>4, Zenon DEF SetupTyped
  <2>3. SetupTyped' /\ active' <= MaxConns /\ active' = active + Bit(stage'[c] # "idle") - Bit(stage[c] # "idle")
    <3>1. active' = active + Bit(stage'[c] # "idle") - Bit(stage[c] # "idle")
      BY <1>1, <1>2, <1>4, <2>2 DEF SetupTyped, Bit
    <3> QED
      BY <1>1, <1>2, <1>4, <3>1, Zenon DEF SetupTyped
  <2>4. Others(c)
    BY <1>2, <1>4, <2>2, Zenon DEF Others
  <2>5. ConnOK(c)'
    BY <1>1, <1>2, <1>4, <2>1, <2>2, Zenon DEF ConnOK, Up
  <2>6. \A d \in Domain : (Owned(c, d)' <=> Owned(c, d)) /\ (Awaited(c, d)' <=> Awaited(c, d))
    BY <1>2, <1>4, Zenon DEF Owned, Awaited, Heard, Up
  <2> QED
    BY <1>2, <2>3, <2>4, <2>5, <2>6, OneConnActsQuietly, Zenon
<1> QED
  BY <1>3, <1>4, Zenon DEF initFromHTTPRequest

LEMMA BuildKeeps ==
    ASSUME SetupInv, NEW c \in Conns, buildProtocolContextAndStartBridge(c)
    PROVE  SetupInv'
<1>1. SetupTyped /\ ConnOK(c) /\ active <= MaxConns
  BY Zenon DEF SetupInv, SlotsAreCounted
<1>2. stage[c] = "admitted" /\ UNCHANGED <<bridge, said, obs, gauges, connRegistry>>
  BY Zenon DEF buildProtocolContextAndStartBridge
<1>3. CASE Release(c)
  BY <1>2, <1>3, ReleaseKeeps, Zenon
<1>4. ASSUME NEW d \in Domain, boundTo' = [boundTo EXCEPT ![c] = d], opened' = [opened EXCEPT ![c] = d],
             stage' = [stage EXCEPT ![c] = "building"], UNCHANGED active
      PROVE  SetupInv'
  <2>1. ~Up(c) /\ bridge[c] = "none"
    BY <1>1, <1>2, Zenon DEF ConnOK
  <2>2. active' = active + Bit("building" # "idle") - Bit(stage[c] # "idle") /\ active' <= MaxConns
    BY <1>1, <1>2, <1>4 DEF SetupTyped, Bit
  <2> QED
    BY <1>2, <1>4, <2>1, <2>2, RequestMoves, Zenon
<1>5. (\E d \in Domain : /\ boundTo' = [boundTo EXCEPT ![c] = d] /\ opened' = [opened EXCEPT ![c] = d]
                         /\ stage' = [stage EXCEPT ![c] = "building"] /\ UNCHANGED active) \/ Release(c)
  BY Zenon DEF buildProtocolContextAndStartBridge
<1> QED
  BY <1>3, <1>4, <1>5, Zenon

\* A bridge that starts is owed a credit by the gauge, which awaits the report of its opening.
LEMMA StartBridgeKeeps ==
    ASSUME SetupInv, NEW c \in Conns, startWebSocketBridge(c)
    PROVE  SetupInv'
<1>1. SetupTyped /\ ConnOK(c) /\ active <= MaxConns
  BY Zenon DEF SetupInv, SlotsAreCounted
<1>2. stage[c] = "building" /\ UNCHANGED <<obs, gauges>>
  BY Zenon DEF startWebSocketBridge
<1>3. CASE Release(c) /\ UNCHANGED <<bridge, said, connRegistry>>
  BY <1>2, <1>3, ReleaseKeeps, Zenon
<1>4. CASE /\ bridge' = [bridge EXCEPT ![c] = "live"] /\ said' = [said EXCEPT ![c] = "none"]
           /\ connRegistry' = [connRegistry EXCEPT ![c] = boundTo[c]]
           /\ stage' = [stage EXCEPT ![c] = "started"] /\ UNCHANGED <<active, boundTo, opened>>
  <2>1. ~Up(c) /\ boundTo[c] \in Domain /\ opened[c] = boundTo[c] /\ obs[c] = <<>>
    BY <1>1, <1>2, Zenon DEF ConnOK
  <2>2. /\ bridge'[c] = "live" /\ said'[c] = "none" /\ connRegistry'[c] = boundTo[c] /\ stage'[c] = "started"
        /\ \A q \in Conns \ {c} : /\ stage'[q] = stage[q] /\ bridge'[q] = bridge[q] /\ said'[q] = said[q]
                                  /\ connRegistry'[q] = connRegistry[q]
    BY <1>1, <1>4, Zenon DEF SetupTyped
  <2>3. SetupTyped' /\ active' <= MaxConns
    BY <1>1, <1>2, <1>4, <2>1, Zenon DEF SetupTyped
  <2>4. active' = active + Bit(stage'[c] # "idle") - Bit(stage[c] # "idle")
    BY <1>1, <1>2, <1>4, <2>2 DEF SetupTyped, Bit
  <2>5. Others(c)
    BY <1>2, <1>4, <2>2, Zenon DEF Others
  <2>6. ConnOK(c)'
    BY <1>2, <1>4, <2>1, <2>2, Zenon DEF ConnOK, Up
  <2>7. ASSUME NEW d \in Domain
        PROVE  gauges'[d] = gauges[d] + Bit(Owned(c, d)') - Bit(Owned(c, d)) - Bit(Awaited(c, d)') + Bit(Awaited(c, d))
    <3>1. ~Owned(c, d) /\ ~Awaited(c, d) /\ (Owned(c, d)' <=> Awaited(c, d)')
      BY <1>2, <1>4, <2>1, <2>2 DEF Owned, Awaited, Heard, Up
    <3>2. gauges[d] \in Int /\ gauges'[d] = gauges[d]
      BY <1>1, <1>2, Zenon DEF SetupTyped
    <3> QED
      BY <3>1, <3>2 DEF Bit
  <2> QED
    BY <2>3, <2>4, <2>5, <2>6, <2>7, OneConnActs, Zenon
<1> QED
  BY <1>3, <1>4, Zenon DEF startWebSocketBridge

\* A connection with a bridge changes its stage and stays in the gateway.
LEMMA StaysIn ==
    ASSUME SetupTyped, NEW c \in Conns, active <= MaxConns, UNCHANGED active,
           stage[c] # "idle", stage'[c] # "idle"
    PROVE  active' <= MaxConns /\ active' = active + Bit(stage'[c] # "idle") - Bit(stage[c] # "idle")
BY DEF SetupTyped, Bit

LEMMA HandleRequestKeeps ==
    ASSUME SetupInv, NEW c \in Conns, handleWebsocketRequest(c)
    PROVE  SetupInv'
<1>1. SetupTyped /\ ConnOK(c) /\ active <= MaxConns
  BY Zenon DEF SetupInv, SlotsAreCounted
<1>2. /\ stage[c] = "started" /\ stage' = [stage EXCEPT ![c] = "open"]
      /\ UNCHANGED <<active, bridge, boundTo, opened, said, obs, gauges, connRegistry>>
  BY Zenon DEF handleWebsocketRequest
<1>3. stage'[c] = "open" /\ \A q \in Conns \ {c} : stage'[q] = stage[q]
  BY <1>1, <1>2, Zenon DEF SetupTyped
<1>4. SetupTyped'
  BY <1>1, <1>2, Zenon DEF SetupTyped
<1>5. Others(c)
  BY <1>2, <1>3, Zenon DEF Others
<1>6. ConnOK(c)'
  BY <1>1, <1>2, <1>3, Zenon DEF ConnOK, Up
<1>7. \A d \in Domain : (Owned(c, d)' <=> Owned(c, d)) /\ (Awaited(c, d)' <=> Awaited(c, d))
  BY <1>2, Zenon DEF Owned, Awaited, Heard, Up
<1>8. active' <= MaxConns /\ active' = active + Bit(stage'[c] # "idle") - Bit(stage[c] # "idle")
  BY <1>1, <1>2, <1>3, StaysIn, Zenon
<1> QED
  BY <1>2, <1>4, <1>5, <1>6, <1>7, <1>8, OneConnActsQuietly, Zenon

LEMMA Queues ==
    ASSUME NEW a, NEW b
    PROVE  /\ Append(<<>>, a) = <<a>> /\ Append(<<a>>, b) = <<a, b>>
           /\ Head(<<a>>) = a /\ Tail(<<a>>) = <<>> /\ Head(<<a, b>>) = a /\ Tail(<<a, b>>) = <<b>>
           /\ <<a>> # <<>> /\ <<a, b>> # <<>>
<1>1. Append(<<>>, a) = <<a>> /\ Head(<<a>>) = a /\ Tail(<<a>>) = <<>> /\ <<a>> # <<>>
  OBVIOUS
<1>2. Head(<<a, b>>) = a /\ Tail(<<a, b>>) = <<b>> /\ <<a, b>> # <<>>
  OBVIOUS
<1>3. Append(<<a>>, b) = <<a, b>>
  <2> DEFINE s == Append(<<a>>, b)
             t == <<a, b>>
  <2>1. <<a>> \in Seq({a, b}) /\ t \in Seq({a, b}) /\ Len(<<a>>) = 1 /\ Len(t) = 2 /\ t[1] = a /\ t[2] = b
    OBVIOUS
  <2>2. s \in Seq({a, b}) /\ Len(s) = 2 /\ s[1] = a /\ s[2] = b
    BY <2>1
  <2> HIDE DEF s, t
  <2>3. \A i \in 1 .. Len(s) : s[i] = t[i]
    BY <2>1, <2>2
  <2>4. s = t
    BY <2>1, <2>2, <2>3, SeqEqual, Zenon
  <2> QED
    BY <2>4, Zenon DEF s, t
<1> QED
  BY <1>1, <1>2, <1>3, Zenon

LEMMA Reports ==
    ASSUME NEW e, NEW d
    PROVE  Report(e, d).event = e /\ Report(e, d).domain = d
BY Zenon DEF Report

\* A report sent is not yet heard.
LEMMA LifecycleKeeps ==
    ASSUME SetupInv, NEW c \in Conns, lifecycleGoroutine(c)
    PROVE  SetupInv'
<1>1. SetupTyped /\ ConnOK(c) /\ active <= MaxConns
  BY Zenon DEF SetupInv, SlotsAreCounted
<1>2. UNCHANGED <<stage, active, bridge, boundTo, opened, gauges, connRegistry>>
  BY Zenon DEF lifecycleGoroutine
<1>3. Up(c) /\ stage[c] # "idle"
  BY <1>1, Zenon DEF lifecycleGoroutine, ConnOK, Up
<1>4. active' <= MaxConns /\ active' = active + Bit(stage'[c] # "idle") - Bit(stage[c] # "idle")
  BY <1>1, <1>2, <1>3, StaysIn, Zenon
<1>5. ASSUME NEW s \in {"established", "closed"}, NEW o,
             said' = [said EXCEPT ![c] = s], obs' = [obs EXCEPT ![c] = o]
      PROVE  /\ SetupTyped' /\ Others(c) /\ said'[c] = s /\ obs'[c] = o
  <2>1. SetupTyped'
    BY <1>1, <1>2, <1>5, Zenon DEF SetupTyped
  <2>2. said'[c] = s /\ obs'[c] = o /\ \A q \in Conns \ {c} : said'[q] = said[q] /\ obs'[q] = obs[q]
    BY <1>1, <1>5, Zenon DEF SetupTyped
  <2> QED
    BY <1>2, <2>1, <2>2, Zenon DEF Others
<1>6. CASE /\ bridge[c] \in {"live", "down"} /\ said[c] = "none"
           /\ said' = [said EXCEPT ![c] = "established"]
           /\ obs' = [obs EXCEPT ![c] = Append(@, [event |-> "established", domain |-> opened[c]])]
  <2>1. obs[c] = <<>>
    BY <1>1, <1>6, Zenon DEF ConnOK
  <2>2. obs' = [obs EXCEPT ![c] = <<Report("established", opened[c])>>]
    BY <1>1, <1>6, <2>1 DEF SetupTyped, Report
  <2>3. SetupTyped' /\ Others(c) /\ said'[c] = "established" /\ obs'[c] = <<Report("established", opened[c])>>
    BY <1>5, <1>6, <2>2, Zenon
  <2>4. ConnOK(c)'
    BY <1>1, <1>2, <1>3, <1>6, <2>3, Zenon DEF ConnOK, Up
  <2>5. ~Heard(c) /\ ~Heard(c)' /\ obs'[c] # <<>>
    BY <1>6, <2>3, SMTT(30) DEF Heard, Report
  <2>6. \A d \in Domain : (Owned(c, d)' <=> Owned(c, d)) /\ (Awaited(c, d)' <=> Awaited(c, d))
    BY <1>2, <1>6, <2>3, <2>5, Zenon DEF Owned, Awaited, Up
  <2> QED
    BY <1>2, <1>4, <2>3, <2>4, <2>6, OneConnActsQuietly, Zenon
<1>7. CASE /\ bridge[c] = "down" /\ said[c] = "established"
           /\ said' = [said EXCEPT ![c] = "closed"]
           /\ obs' = [obs EXCEPT ![c] = Append(@, [event |-> "closed", domain |-> boundTo[c]])]
  <2> DEFINE o == Append(obs[c], Report("closed", boundTo[c]))
  <2>1. obs[c] \in {<<>>, <<Report("established", opened[c])>>} /\ stage[c] # "ended"
    BY <1>1, <1>7, Zenon DEF ConnOK
  <2>2. /\ obs[c] = <<>> => o = <<Report("closed", boundTo[c])>>
        /\ obs[c] # <<>> => o = <<Report("established", opened[c]), Report("closed", boundTo[c])>>
    <3>1. obs[c] # <<>> => obs[c] = <<Report("established", opened[c])>>
      BY <2>1, Zenon
    <3>2. obs[c] = <<>> => o = <<Report("closed", boundTo[c])>>
      BY Queues, Zenon
    <3>3. obs[c] = <<Report("established", opened[c])>>
            => o = <<Report("established", opened[c]), Report("closed", boundTo[c])>>
      BY Queues, ZenonT(30)
    <3> QED
      BY <3>1, <3>2, <3>3, Zenon
  <2>3. obs' = [obs EXCEPT ![c] = o]
    BY <1>1, <1>7, Zenon DEF SetupTyped, Report
  <2> HIDE DEF o
  <2>4. SetupTyped' /\ Others(c) /\ said'[c] = "closed" /\ obs'[c] = o
    BY <1>5, <1>7, <2>3, Zenon
  <2>5. ConnOK(c)'
    BY <1>1, <1>2, <1>3, <1>7, <2>1, <2>2, <2>4, Zenon DEF ConnOK, Up
  <2>6. (Heard(c)' <=> Heard(c)) /\ obs'[c] # <<>>
    <3>1. CASE obs[c] = <<>>
      BY <1>7, <2>2, <2>4, <3>1 DEF Heard, Report
    <3>2. CASE obs[c] # <<>>
      BY <1>7, <2>1, <2>2, <2>4, <3>2, SMTT(30) DEF Heard, Report
    <3> QED
      BY <3>1, <3>2, Zenon
  <2>7. \A d \in Domain : (Owned(c, d)' <=> Owned(c, d)) /\ (Awaited(c, d)' <=> Awaited(c, d))
    BY <1>2, <1>7, <2>4, <2>6, Zenon DEF Owned, Awaited, Up
  <2> QED
    BY <1>2, <1>4, <2>4, <2>5, <2>7, OneConnActsQuietly, Zenon
<1> QED
  BY <1>6, <1>7, Zenon DEF lifecycleGoroutine

\* A report heard moves the gauge by what it was owed or ahead.
LEMMA ListenKeeps ==
    ASSUME SetupInv, NEW c \in Conns, listenForConnectionObservations(c)
    PROVE  SetupInv'
<1>1. SetupTyped /\ ConnOK(c) /\ active <= MaxConns
  BY Zenon DEF SetupInv, SlotsAreCounted
<1>2. stage[c] = "open" /\ UNCHANGED <<active, bridge, boundTo, opened, said, connRegistry>>
  BY Zenon DEF listenForConnectionObservations
<1>3. Up(c) /\ boundTo[c] \in Domain /\ opened[c] \in Domain
  BY <1>1, <1>2, Zenon DEF ConnOK
<1>4. CASE obs[c] = <<>> /\ said[c] = "closed" /\ stage' = [stage EXCEPT ![c] = "ended"] /\ UNCHANGED <<gauges, obs>>
  <2>1. stage'[c] = "ended" /\ \A q \in Conns \ {c} : stage'[q] = stage[q]
    BY <1>1, <1>4, Zenon DEF SetupTyped
  <2>2. SetupTyped'
    BY <1>1, <1>2, <1>4, Zenon DEF SetupTyped
  <2>3. Others(c)
    BY <1>2, <1>4, <2>1, Zenon DEF Others
  <2>4. ConnOK(c)'
    BY <1>1, <1>2, <1>3, <1>4, <2>1, Zenon DEF ConnOK, Up
  <2>5. \A d \in Domain : (Owned(c, d)' <=> Owned(c, d)) /\ (Awaited(c, d)' <=> Awaited(c, d))
    BY <1>2, <1>4, Zenon DEF Owned, Awaited, Heard, Up
  <2>6. active' <= MaxConns /\ active' = active + Bit(stage'[c] # "idle") - Bit(stage[c] # "idle")
    BY <1>1, <1>2, <2>1, StaysIn, Zenon
  <2> QED
    BY <1>4, <2>2, <2>3, <2>4, <2>5, <2>6, OneConnActsQuietly, Zenon
<1>5. CASE /\ obs[c] # <<>> /\ gauges' = AfterObservation(Head(obs[c]))
           /\ obs' = [obs EXCEPT ![c] = Tail(@)] /\ UNCHANGED stage
  <2>1. obs'[c] = Tail(obs[c]) /\ (\A q \in Conns \ {c} : obs'[q] = obs[q]) /\ DOMAIN obs' = Conns
    BY <1>1, <1>5, Zenon DEF SetupTyped
  <2>2. Others(c)
    BY <1>2, <1>5, <2>1, Zenon DEF Others
  <2>3. active' <= MaxConns /\ active' = active + Bit(stage'[c] # "idle") - Bit(stage[c] # "idle")
    BY <1>1, <1>2, <1>5, StaysIn, Zenon
  <2>4. said[c] \in {"none", "established", "closed"}
    BY <1>1, Zenon DEF SetupTyped
  <2>5. CASE /\ Head(obs[c]) = Report("established", opened[c])
             /\ \/ said[c] = "established" /\ Tail(obs[c]) = <<>>
                \/ said[c] = "closed" /\ Tail(obs[c]) = <<Report("closed", boundTo[c])>>
    <3>1. gauges' = [gauges EXCEPT ![opened[c]] = gauges[opened[c]] + 1]
      <4>1. gauges' = AfterObservation(Report("established", opened[c]))
        BY <1>5, <2>5, Zenon
      <4>2. Report("established", opened[c]).event = "established" /\ Report("established", opened[c]).domain = opened[c]
        BY Reports, Zenon
      <4> QED
        BY <4>1, <4>2, Zenon DEF AfterObservation
    <3>2. SetupTyped'
      BY <1>1, <1>2, <1>3, <1>5, <2>1, <3>1, SMTT(30) DEF SetupTyped
    <3>3. ConnOK(c)'
      BY <1>1, <1>2, <1>3, <1>5, <2>1, <2>5, Zenon DEF ConnOK, Up
    <3>4. ~Heard(c) /\ Heard(c)'
      <4>1. Head(obs[c]).event = "established" /\ (Tail(obs[c]) = <<>> \/ Head(Tail(obs[c])).event = "closed")
        <5>1. Report("established", opened[c]).event = "established" /\ Report("closed", boundTo[c]).event = "closed"
          BY Reports, Zenon
        <5>2. Head(<<Report("closed", boundTo[c])>>) = Report("closed", boundTo[c])
          BY Queues, Zenon
        <5> QED
          BY <2>5, <5>1, <5>2, Zenon
      <4> QED
        BY <1>2, <1>5, <2>1, <2>5, <4>1, Zenon DEF Heard
    <3>5. ASSUME NEW d \in Domain
          PROVE  gauges'[d] = gauges[d] + Bit(Owned(c, d)') - Bit(Owned(c, d)) - Bit(Awaited(c, d)') + Bit(Awaited(c, d))
      <4>1. (Owned(c, d)' <=> Owned(c, d)) /\ ~Awaited(c, d)' /\ (Awaited(c, d) <=> opened[c] = d)
        BY <1>2, <1>3, <1>5, <2>1, <2>5, <3>4, SMTT(30) DEF Owned, Awaited, Up, Report
      <4>2. gauges[d] \in Int /\ gauges'[d] = gauges[d] + Bit(opened[c] = d)
        BY <1>1, <3>1 DEF SetupTyped, Bit
      <4> QED
        BY <4>1, <4>2 DEF Bit
    <3> QED
      BY <2>2, <2>3, <3>2, <3>3, <3>5, OneConnActs, Zenon
  <2>6. CASE said[c] = "closed" /\ Head(obs[c]) = Report("closed", boundTo[c]) /\ Tail(obs[c]) = <<>>
    <3>1. gauges' = [gauges EXCEPT ![boundTo[c]] = gauges[boundTo[c]] - 1]
      <4>1. gauges' = AfterObservation(Report("closed", boundTo[c]))
        BY <1>5, <2>6, Zenon
      <4>2. Report("closed", boundTo[c]).event = "closed" /\ Report("closed", boundTo[c]).domain = boundTo[c]
        BY Reports, Zenon
      <4> QED
        BY <4>1, <4>2, Zenon DEF AfterObservation
    <3>2. SetupTyped'
      BY <1>1, <1>2, <1>3, <1>5, <2>1, <3>1, SMTT(30) DEF SetupTyped
    <3>3. ConnOK(c)'
      BY <1>1, <1>2, <1>3, <1>5, <2>1, <2>6, SMTT(30) DEF ConnOK, Up
    <3>4. Heard(c) /\ Heard(c)'
      BY <1>2, <1>5, <2>1, <2>6 DEF Heard, Report
    <3>5. ASSUME NEW d \in Domain
          PROVE  gauges'[d] = gauges[d] + Bit(Owned(c, d)') - Bit(Owned(c, d)) - Bit(Awaited(c, d)') + Bit(Awaited(c, d))
      <4>1. ~Owned(c, d)' /\ (Owned(c, d) <=> boundTo[c] = d) /\ ~Awaited(c, d)' /\ ~Awaited(c, d)
        BY <1>2, <1>3, <1>5, <2>1, <2>6, <3>4, Zenon DEF Owned, Awaited, Up
      <4>2. gauges[d] \in Int /\ gauges'[d] = gauges[d] - Bit(boundTo[c] = d)
        BY <1>1, <3>1 DEF SetupTyped, Bit
      <4> QED
        BY <4>1, <4>2 DEF Bit
    <3> QED
      BY <2>2, <2>3, <3>2, <3>3, <3>5, OneConnActs, Zenon
  <2>7. \/ obs[c] = <<Report("established", opened[c])>> /\ said[c] = "established"
        \/ obs[c] = <<Report("closed", boundTo[c])>> /\ said[c] = "closed"
        \/ obs[c] = <<Report("established", opened[c]), Report("closed", boundTo[c])>> /\ said[c] = "closed"
    BY <1>1, <1>5, <2>4, Zenon DEF ConnOK
  <2>8. CASE obs[c] = <<Report("established", opened[c])>> /\ said[c] = "established"
    BY <2>5, <2>8, Queues, Zenon
  <2>9. CASE obs[c] = <<Report("closed", boundTo[c])>> /\ said[c] = "closed"
    BY <2>6, <2>9, Queues, Zenon
  <2>10. CASE obs[c] = <<Report("established", opened[c]), Report("closed", boundTo[c])>> /\ said[c] = "closed"
    BY <2>5, <2>10, Queues
  <2> QED
    BY <2>7, <2>8, <2>9, <2>10, Zenon
<1> QED
  BY <1>4, <1>5, Zenon DEF listenForConnectionObservations

LEMMA ReleaseOnDoneKeeps ==
    ASSUME SetupInv, NEW c \in Conns, releaseOnDone(c)
    PROVE  SetupInv'
<1>1. SetupTyped /\ ConnOK(c) /\ active <= MaxConns
  BY Zenon DEF SetupInv, SlotsAreCounted
<1>2. /\ stage[c] = "ended" /\ active' = active - 1 /\ stage' = [stage EXCEPT ![c] = "idle"]
      /\ boundTo' = [boundTo EXCEPT ![c] = Unbound] /\ opened' = [opened EXCEPT ![c] = Unbound]
      /\ bridge' = [bridge EXCEPT ![c] = "none"] /\ said' = [said EXCEPT ![c] = "none"]
      /\ UNCHANGED <<obs, gauges, connRegistry>>
  BY Zenon DEF releaseOnDone, Release
<1>3. said[c] = "closed" /\ obs[c] = <<>> /\ connRegistry[c] = Unbound
  BY <1>1, <1>2, Zenon DEF ConnOK
<1>4. /\ stage'[c] = "idle" /\ bridge'[c] = "none" /\ said'[c] = "none"
      /\ \A q \in Conns \ {c} : /\ stage'[q] = stage[q] /\ boundTo'[q] = boundTo[q] /\ opened'[q] = opened[q]
                                /\ bridge'[q] = bridge[q] /\ said'[q] = said[q]
  BY <1>1, <1>2, Zenon DEF SetupTyped
<1>5. active' \in Int /\ active' <= MaxConns /\ active' = active + Bit(stage'[c] # "idle") - Bit(stage[c] # "idle")
  BY <1>1, <1>2, <1>4, SetupAssumption DEF SetupTyped, Bit
<1>6. SetupTyped'
  BY <1>1, <1>2, <1>5, Zenon DEF SetupTyped
<1>7. Others(c)
  BY <1>2, <1>4, Zenon DEF Others
<1>8. ConnOK(c)'
  BY <1>2, <1>3, <1>4, Zenon DEF ConnOK, Up
<1>9. \A d \in Domain : (Owned(c, d)' <=> Owned(c, d)) /\ (Awaited(c, d)' <=> Awaited(c, d))
  BY <1>3, <1>4, Zenon DEF Owned, Awaited, Heard, Up
<1> QED
  BY <1>2, <1>5, <1>6, <1>7, <1>8, <1>9, OneConnActsQuietly, Zenon

LEMMA BridgeEndsKeeps ==
    ASSUME SetupInv, NEW c \in Conns, BridgeEnds(c)
    PROVE  SetupInv'
<1>1. SetupTyped /\ ConnOK(c) /\ active <= MaxConns
  BY Zenon DEF SetupInv, SlotsAreCounted
<1>2. /\ bridge[c] = "live" /\ bridge' = [bridge EXCEPT ![c] = "down"]
      /\ connRegistry' = [connRegistry EXCEPT ![c] = Unbound]
      /\ UNCHANGED <<stage, active, boundTo, opened, said, obs, gauges>>
  BY Zenon DEF BridgeEnds
<1>3. /\ bridge'[c] = "down" /\ connRegistry'[c] = Unbound
      /\ \A q \in Conns \ {c} : bridge'[q] = bridge[q] /\ connRegistry'[q] = connRegistry[q]
  BY <1>1, <1>2, Zenon DEF SetupTyped
<1>4. SetupTyped'
  BY <1>1, <1>2, Zenon DEF SetupTyped
<1>5. Others(c)
  BY <1>2, <1>3, Zenon DEF Others
<1>6. ConnOK(c)'
  BY <1>1, <1>2, <1>3, Zenon DEF ConnOK, Up
<1>7. \A d \in Domain : (Owned(c, d)' <=> Owned(c, d)) /\ (Awaited(c, d)' <=> Awaited(c, d))
  BY <1>2, <1>3, Zenon DEF Owned, Awaited, Heard, Up
<1>8. stage[c] # "idle"
  BY <1>1, <1>2, Zenon DEF ConnOK, Up
<1>9. active' <= MaxConns /\ active' = active + Bit(stage'[c] # "idle") - Bit(stage[c] # "idle")
  BY <1>1, <1>2, <1>8, StaysIn, Zenon
<1> QED
  BY <1>2, <1>4, <1>5, <1>6, <1>7, <1>9, OneConnActsQuietly, Zenon

LEMMA CreditMoves ==
    ASSUME gauges \in [Domain -> Int], NEW from \in Domain, NEW to \in Domain
    PROVE  /\ MoveWebsocketConnection(from, to) \in [Domain -> Int]
           /\ \A d \in Domain : MoveWebsocketConnection(from, to)[d] = gauges[d] + Bit(to = d) - Bit(from = d)
<1>1. CASE from = to
  <2>1. MoveWebsocketConnection(from, to) = gauges
    BY <1>1, Zenon DEF MoveWebsocketConnection
  <2>2. \A d \in Domain : gauges[d] = gauges[d] + Bit(to = d) - Bit(from = d)
    BY <1>1 DEF Bit
  <2> QED
    BY <2>1, <2>2, Zenon
<1>2. CASE from # to
  <2>1. MoveWebsocketConnection(from, to) = [gauges EXCEPT ![from] = gauges[from] - 1, ![to] = gauges[to] + 1]
    BY <1>2, Zenon DEF MoveWebsocketConnection
  <2>2. \A d \in Domain : MoveWebsocketConnection(from, to)[d] = gauges[d] + Bit(to = d) - Bit(from = d)
    BY <1>2, <2>1 DEF Bit
  <2> QED
    BY <2>1, <2>2
<1> QED
  BY <1>1, <1>2, Zenon

\* A rebind moves the credit with the connection, heard of or not.
LEMMA RebindKeeps ==
    ASSUME SetupInv, NEW c \in Conns, NEW to \in Domain, Rebind(c, to)
    PROVE  SetupInv'
<1>1. SetupTyped /\ ConnOK(c) /\ active <= MaxConns
  BY Zenon DEF SetupInv, SlotsAreCounted
<1>2. /\ bridge[c] = "live" /\ gauges' = MoveWebsocketConnection(boundTo[c], to)
      /\ boundTo' = [boundTo EXCEPT ![c] = to] /\ connRegistry' = [connRegistry EXCEPT ![c] = to]
      /\ UNCHANGED <<stage, active, bridge, opened, said, obs>>
  BY Zenon DEF Rebind
<1>3. stage[c] \in {"started", "open", "ended"} /\ said[c] # "closed"
  <2>1. stage[c] \in {"idle", "accepted", "admitted", "building", "started", "open", "ended"}
    BY <1>1, Zenon DEF SetupTyped
  <2> QED
    BY <1>1, <1>2, <2>1, Zenon DEF ConnOK, Up
<1>4. boundTo[c] \in Domain /\ Up(c)
  BY <1>1, <1>3, Zenon DEF ConnOK
<1>5. /\ boundTo'[c] = to /\ connRegistry'[c] = to
      /\ \A q \in Conns \ {c} : boundTo'[q] = boundTo[q] /\ connRegistry'[q] = connRegistry[q]
  BY <1>1, <1>2, Zenon DEF SetupTyped
<1>6. gauges' \in [Domain -> Int] /\ \A d \in Domain : gauges'[d] = gauges[d] + Bit(to = d) - Bit(boundTo[c] = d)
  <2>1. gauges \in [Domain -> Int]
    BY <1>1, Zenon DEF SetupTyped
  <2>2. /\ MoveWebsocketConnection(boundTo[c], to) \in [Domain -> Int]
        /\ \A d \in Domain : MoveWebsocketConnection(boundTo[c], to)[d] = gauges[d] + Bit(to = d) - Bit(boundTo[c] = d)
    BY <1>4, <2>1, CreditMoves
  <2> QED
    BY <1>2, <2>2, Zenon
<1>7. SetupTyped'
  BY <1>1, <1>2, <1>6, Zenon DEF SetupTyped
<1>8. Others(c)
  BY <1>2, <1>5, Zenon DEF Others
<1>9. ConnOK(c)'
  BY <1>1, <1>2, <1>3, <1>4, <1>5, Zenon DEF ConnOK, Up
<1>10. ASSUME NEW d \in Domain
       PROVE  gauges'[d] = gauges[d] + Bit(Owned(c, d)') - Bit(Owned(c, d)) - Bit(Awaited(c, d)') + Bit(Awaited(c, d))
  <2>1. (Owned(c, d)' <=> to = d) /\ (Owned(c, d) <=> boundTo[c] = d) /\ (Awaited(c, d)' <=> Awaited(c, d))
    BY <1>2, <1>3, <1>4, <1>5, Zenon DEF Owned, Awaited, Heard, Up
  <2>2. gauges[d] \in Int
    BY <1>1, Zenon DEF SetupTyped
  <2>3. gauges'[d] = gauges[d] + Bit(to = d) - Bit(boundTo[c] = d)
    BY <1>6, Zenon
  <2>4. /\ Bit(Owned(c, d)') = Bit(to = d) /\ Bit(Owned(c, d)) = Bit(boundTo[c] = d)
        /\ Bit(Awaited(c, d)') = Bit(Awaited(c, d))
    BY <2>1, Zenon DEF Bit
  <2>5. Bit(to = d) \in Int /\ Bit(boundTo[c] = d) \in Int /\ Bit(Awaited(c, d)) \in Int
    BY DEF Bit
  <2> QED
    BY ONLY <2>2, <2>3, <2>4, <2>5
<1>11. active' <= MaxConns /\ active' = active + Bit(stage'[c] # "idle") - Bit(stage[c] # "idle")
  BY <1>1, <1>2, <1>3, StaysIn, Zenon
<1> QED
  BY <1>7, <1>8, <1>9, <1>10, <1>11, OneConnActs, Zenon

\* The sweep of a shutdown takes down the registered bridges, which are live.
LEMMA ShutdownAllKeeps ==
    ASSUME SetupInv, shutdownAll
    PROVE  SetupInv'
<1>1. SetupTyped /\ \A c \in Conns : ConnOK(c)
  BY Zenon DEF SetupInv
<1>2. /\ bridge' = [c \in Conns |-> IF c \in Registered THEN "down" ELSE bridge[c]]
      /\ connRegistry' = [c \in Conns |-> Unbound]
      /\ UNCHANGED <<stage, active, boundTo, opened, said, obs, gauges>>
  BY Zenon DEF shutdownAll
<1>3. \A c \in Conns : /\ bridge'[c] = IF connRegistry[c] # Unbound THEN "down" ELSE bridge[c]
                       /\ connRegistry'[c] = Unbound /\ (Up(c)' <=> Up(c))
  BY <1>1, <1>2, Zenon DEF Registered, ConnOK, Up
<1>4. SetupTyped'
  BY <1>1, <1>2, <1>3, Zenon DEF SetupTyped
<1>5. ASSUME NEW c \in Conns PROVE ConnOK(c)'
  <2>1. ConnOK(c) /\ (Up(c)' <=> Up(c)) /\ connRegistry'[c] = Unbound
    BY <1>1, <1>3, Zenon
  <2>2. (bridge[c] = "none" => bridge'[c] = "none") /\ (bridge[c] = "down" => bridge'[c] = "down")
    BY <1>3, <2>1, Zenon DEF ConnOK
  <2> QED
    BY <1>2, <2>1, <2>2, Zenon DEF ConnOK
<1>6. SlotsAreCounted'
  BY <1>2, Zenon DEF SetupInv, SlotsAreCounted
<1>7. GaugesOK'
  <2> SUFFICES ASSUME NEW d \in Domain
               PROVE  gauges'[d] = Cardinality({q \in Conns : Owned(q, d)'}) - Cardinality({q \in Conns : Awaited(q, d)'})
    BY Zenon DEF GaugesOK
  <2>1. \A q \in Conns : (Owned(q, d)' <=> Owned(q, d)) /\ (Awaited(q, d)' <=> Awaited(q, d))
    BY <1>2, <1>3, Zenon DEF Owned, Awaited, Heard
  <2>2. /\ {q \in Conns : Owned(q, d)'} = {q \in Conns : Owned(q, d)}
        /\ {q \in Conns : Awaited(q, d)'} = {q \in Conns : Awaited(q, d)}
    BY <2>1, Zenon
  <2> QED
    BY <1>2, <2>2, Zenon DEF SetupInv, GaugesOK
<1> QED
  BY <1>4, <1>5, <1>6, <1>7, Zenon DEF SetupInv

\* No connection, at the start and once the process has exited.
NoConns ==
    /\ stage = [c \in Conns |-> "idle"] /\ active = 0 /\ bridge \in [Conns -> {"none", "cut"}]
    /\ boundTo = [c \in Conns |-> Unbound] /\ opened = boundTo /\ said = [c \in Conns |-> "none"]
    /\ obs = [c \in Conns |-> <<>>] /\ gauges = [d \in Domain |-> 0] /\ connRegistry = [c \in Conns |-> Unbound]

LEMMA NoConnections == NoConns => SetupInv
<1> SUFFICES ASSUME NoConns PROVE SetupInv
  OBVIOUS
<1>1. SetupTyped
  BY DEF NoConns, SetupTyped
<1>2. \A c \in Conns : ConnOK(c) /\ ~Up(c)
  BY Zenon DEF NoConns, ConnOK, Up
<1>3. Cardinality({}) = 0
  BY FS_EmptySet, Zenon
<1>4. SlotsAreCounted
  <2>1. {c \in Conns : stage[c] # "idle"} = {} /\ active = 0
    BY Zenon DEF NoConns
  <2> QED
    BY <1>3, <2>1, SetupAssumption DEF SlotsAreCounted
<1>5. GaugesOK
  <2> SUFFICES ASSUME NEW d \in Domain
               PROVE  gauges[d] = Cardinality({q \in Conns : Owned(q, d)}) - Cardinality({q \in Conns : Awaited(q, d)})
    BY Zenon DEF GaugesOK
  <2>1. {q \in Conns : Owned(q, d)} = {} /\ {q \in Conns : Awaited(q, d)} = {}
    BY <1>2, Zenon DEF Owned, Awaited
  <2>2. gauges[d] = 0
    BY Zenon DEF NoConns
  <2> QED
    BY <1>3, <2>1, <2>2, SMTT(30)
<1> QED
  BY <1>1, <1>2, <1>4, <1>5, Zenon DEF SetupInv

LEMMA ExitKeeps == exit => SetupInv'
<1>1. exit => NoConns'
  BY DEF exit, NoConns
<1>2. NoConns' => SetupInv'
  BY NoConnections, PTL
<1> QED
  BY <1>1, <1>2, Zenon

LEMMA SetupKeeps == SetupInv /\ [SetupNext]_podVars => SetupInv'
<1> SUFFICES ASSUME SetupInv, [SetupNext]_podVars PROVE SetupInv'
  OBVIOUS
<1>1. ASSUME UNCHANGED <<stage, active, bridge, boundTo, opened, said, obs, gauges, connRegistry>> PROVE SetupInv'
  <2>1. SetupTyped' /\ SlotsAreCounted'
    BY <1>1, Zenon DEF SetupInv, SetupTyped, SlotsAreCounted
  <2>2. \A c \in Conns : ConnOK(c)'
    BY <1>1, SMTT(30) DEF SetupInv, ConnOK, Up
  <2>3. GaugesOK'
    BY <1>1, Zenon DEF SetupInv, GaugesOK, Owned, Awaited, Heard, Up
  <2> QED
    BY <2>1, <2>2, <2>3, Zenon DEF SetupInv
<1>2. CASE UNCHANGED podVars
  BY <1>1, <1>2, Zenon DEF podVars
<1>3. ASSUME NEW busy \in SUBSET Conns, sampleRates(busy) PROVE SetupInv'
  BY <1>1, <1>3, Zenon DEF sampleRates
<1>4. ASSUME NEW d, NEW max, tumbleBusiest(d, max) PROVE SetupInv'
  BY <1>1, <1>4, Zenon DEF tumbleBusiest
<1>5. ASSUME NEW c \in Conns, Acquire(c) \/ Handler(c) PROVE SetupInv'
  BY <1>5, AcquireKeeps, InitFromKeeps, BuildKeeps, StartBridgeKeeps, HandleRequestKeeps, Zenon DEF Handler
<1>6. ASSUME NEW c \in Conns, Background(c) \/ BridgeEnds(c) PROVE SetupInv'
  BY <1>6, LifecycleKeeps, ListenKeeps, ReleaseOnDoneKeeps, BridgeEndsKeeps, Zenon DEF Background
<1>7. ASSUME NEW c \in Conns, NEW d \in Domain, Rebind(c, d) PROVE SetupInv'
  BY <1>7, RebindKeeps, Zenon
<1>8. CASE shutdownAll \/ exit
  BY <1>8, ShutdownAllKeeps, ExitKeeps, Zenon
<1> QED
  BY <1>2, <1>3, <1>4, <1>5, <1>6, <1>7, <1>8, Zenon DEF SetupNext

\* With every report taken, an owed credit is a live bridge and none is awaited.
LEMMA GaugesCount == SetupInv => GaugeCountsBridges
<1> SUFFICES ASSUME SetupInv, NEW d \in Domain,
                    \A c \in Conns : /\ obs[c] = <<>> /\ (bridge[c] \in {"live", "down"} => said[c] # "none")
                                     /\ ~(bridge[c] = "down" /\ said[c] = "established")
             PROVE  gauges[d] = Cardinality({c \in Conns : bridge[c] = "live" /\ boundTo[c] = d})
  BY Zenon DEF GaugeCountsBridges
<1>1. ASSUME NEW c \in Conns
      PROVE  ~Awaited(c, d) /\ (Owned(c, d) <=> bridge[c] = "live" /\ boundTo[c] = d)
  <2>1. ConnOK(c) /\ said[c] \in {"none", "established", "closed"}
    BY Zenon DEF SetupInv, SetupTyped
  <2>2. ~Awaited(c, d)
    BY Zenon DEF Awaited, Heard, Up
  <2>3. Owned(c, d) <=> bridge[c] = "live" /\ boundTo[c] = d
    BY <2>1, Zenon DEF Owned, Up, ConnOK
  <2> QED
    BY <2>2, <2>3, Zenon
<1> DEFINE L == {c \in Conns : bridge[c] = "live" /\ boundTo[c] = d}
           S == {c \in Conns : Owned(c, d)}
           A == {c \in Conns : Awaited(c, d)}
<1>2. A = {} /\ S = L
  BY <1>1, Zenon
<1>3. gauges[d] = Cardinality(S) - Cardinality(A)
  BY Zenon DEF SetupInv, GaugesOK
<1>4. IsFiniteSet(S)
  BY SetupAssumption, FS_Subset, Zenon
<1> HIDE DEF L, S, A
<1>5. Cardinality(A) = 0 /\ Cardinality(S) \in Nat
  BY <1>2, <1>4, FS_EmptySet, FS_CardinalityType, Zenon
<1>6. gauges[d] = Cardinality(L)
  BY <1>2, <1>3, <1>5
<1> QED
  BY <1>6, Zenon DEF L

\* The limiter counts the connections in the gateway, and once every report is taken the gauges
\* count the live bridges, for any connections, operators and capacity (websocket_limiter.go,
\* handleConnectionObservation, MoveWebsocketConnection).
THEOREM ConnectionsCounted == SetupSpec => []ConnectionsAreCounted
<1>1. SetupInit => SetupInv
  <2>1. SetupInit => NoConns
    BY DEF SetupInit, NoConns
  <2> QED
    BY <2>1, NoConnections, Zenon
<1>2. SetupInv => ConnectionsAreCounted
  BY GaugesCount, Zenon DEF SetupInv, ConnectionsAreCounted
<1> QED
  BY <1>1, <1>2, SetupKeeps, PTL DEF SetupSpec
=============================================================================
