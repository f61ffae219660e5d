------------------------ MODULE WebsocketBridgeProofs ------------------------
(***************************************************************************)
(* One websocket connection leaves no socket behind, keeps the pod's books *)
(* true to its binding and tells a client whose rebind failed to           *)
(* reconnect: for any endpoints, operators, limits and number of           *)
(* connections, and every interleaving of the bridge goroutine with its    *)
(* loops, operators and the gateway's shutdown.                            *)
(***************************************************************************)
EXTENDS WebsocketBridge, TLAPS

\* What the socket of an endpoint connection may be.
SockStates == {"none", "open", "dead", "reset", "closed"}
\* Sockets that hold nothing.
Off == {"none", "closed"}

\* The types the proofs need.
Typed ==
  /\ pc \in {"setup", "serve", "select", "dial", "replay", "ended"}
  /\ endpointGen \in Nat /\ endpointDown \in Int
  /\ sock \in [Gens -> SockStates] /\ loop \in [Gens -> LoopStates]
  /\ bound \in Endpoints /\ clientCode \in ClientCodes
  /\ lifecycle \in {"starting", "established", "closed"}

\* The numbers of the endpoint connections stay within Gens: a tumble that is waiting leaves
\* room for the rebind it will cause, and a signal for the current connection is either one of
\* the first MaxGen connections' or comes too late.
GensOK ==
  /\ endpointGen <= MaxGen + 2
  /\ tumble \/ Rebinding => endpointGen <= MaxGen + 1
  /\ tumble /\ Rebinding => endpointGen <= MaxGen
  /\ endpointDown <= endpointGen
  /\ endpointDown = endpointGen => endpointGen < MaxGen \/ ctxDone \/ Rebinding
  /\ \A g \in Gens : loop[g] = "reading" => g <= endpointGen
  /\ \A g \in Gens : sock[g] \in {"dead", "reset"} /\ reconnector => g < MaxGen

\* The one connection that may be open: endpointConn, or the connection that is about to
\* become it, during the set-up and during a replay.
Held == IF pc = "setup" THEN 0 ELSE IF pc = "replay" THEN endpointGen + 1 ELSE endpointConn

\* endpointConn is the newest connection or none, and the only one that may be open.
ConnOK ==
  /\ endpointConn \in {NoGen, endpointGen}
  /\ pc = "setup" => endpointConn = NoGen /\ endpointGen = 0
  /\ Rebinding => endpointConn = NoGen
  /\ pc = "serve" /\ ~ctxDone => endpointConn = endpointGen
  /\ sock[endpointGen] # "none"
  /\ sock[endpointGen] = "closed" => ctxDone \/ Rebinding
  /\ pc = "replay" => sock[endpointGen + 1] = "open"
  /\ \A g \in Gens : g # Held => sock[g] \in Off

\* What the one shutdown of the bridge leaves behind.
ShutOK ==
  /\ shut => ctxDone /\ entry = NoDomain
  /\ cut => shut
  /\ pc = "ended" => shut
  /\ shut /\ ~cut => /\ pc \in {"serve", "ended"} /\ clientSock = "closed"
                     /\ \A g \in Gens : sock[g] \in Off

\* The gauge: the credit of the first endpoint is booked late, its moves are not.
Credit(o, e) == IF o = Operator[e] THEN 1 ELSE 0
Booked(o) ==
  IF lifecycle = "starting" THEN Credit(o, bound) - Credit(o, SelectedEndpoint)
  ELSE IF lifecycle = "established" THEN Credit(o, bound) ELSE 0

\* Outside a rebind the registry knows the operator bound to, and the gauge is as booked.
BooksOK ==
  /\ pc \in {"setup", "serve"} /\ entry # NoDomain => entry = Operator[bound]
  /\ gauge = [o \in Operators |-> Booked(o)]
  /\ lifecycle = "closed" => pc = "ended"
  /\ pc = "setup" => lifecycle = "starting"

\* Every stall rebind since the client got data is counted against the limit.
CountsOK ==
  /\ quietRebinds = consecutiveStallRebinds
  /\ consecutiveStallRebinds \in 0 .. maxConsecutiveStallRebinds

\* The inductive invariant.
IInv == Typed /\ GensOK /\ ConnOK /\ ShutOK /\ BooksOK /\ CountsOK

-----------------------------------------------------------------------------
\* What a shutdown that finds the sockets as in socks leaves behind, be it the first one or not.
ShutWith(socks) ==
  /\ shut' /\ ctxDone' /\ entry' = NoDomain
  /\ sock' \in [Gens -> SockStates]
  /\ \A g \in Gens : g # endpointConn => sock'[g] = socks[g]
  /\ \A g \in Gens : sock'[g] \in {socks[g], "closed"}
  /\ shut => sock' = socks /\ clientSock' = clientSock
  /\ ~shut /\ pc # "setup" =>
       clientSock' = "closed" /\ \A g \in Gens : g = endpointConn => sock'[g] = "closed"

\* Changing one entry of a table.
LEMMA ChangeOne ==
  ASSUME NEW A, NEW B, NEW f \in [A -> B], NEW a, NEW b \in B, NEW g, g = [f EXCEPT ![a] = b]
  PROVE  /\ g \in [A -> B]
         /\ \A x \in A : x # a => g[x] = f[x]
         /\ \A x \in A : g[x] \in {f[x], b}
         /\ a \in A => g[a] = b
OBVIOUS

\* A shutdown has that effect, also when it is not the first.
LEMMA ShutdownDone ==
  ASSUME Typed, ShutOK, endpointConn \in Gens \cup {NoGen},
         NEW cause, NEW socks \in [Gens -> SockStates], shutdown(cause, socks)
  PROVE  ShutWith(socks)
<1>1. CASE shut
  BY <1>1, Zenon DEF ShutOK, ShutWith, shutdown, shutdownVars
<1>2. CASE ~shut
  <2>1. shut' /\ ctxDone' /\ entry' = NoDomain
    BY <1>2, Zenon DEF shutdown
  <2>2. sock' = IF endpointConn = NoGen THEN socks ELSE [socks EXCEPT ![endpointConn] = "closed"]
    BY <1>2, Zenon DEF shutdown
  <2>3. pc # "setup" => clientSock' = "closed"
    BY <1>2, Zenon DEF shutdown
  <2>4. NoGen \notin Gens
    BY DEF NoGen, Gens
  <2>. QED  BY <1>2, <2>1, <2>2, <2>3, <2>4, Zenon DEF ShutWith, SockStates
<1>. QED  BY <1>1, <1>2, Zenon

\* In particular of a handler that leaves the sockets as they are.
LEMMA ShutdownHere ==
  ASSUME IInv, NEW cause, shutdown(cause, sock)
  PROVE  ShutWith(sock)
<1>1. endpointConn \in Gens \cup {NoGen} /\ sock \in [Gens -> SockStates] /\ Typed /\ ShutOK
  BY BridgeAssumption DEF IInv, Typed, ConnOK, GensOK, Gens
<1>. QED  BY <1>1, ShutdownDone, Zenon

\* The credit booked depends on the binding and the life cycle alone.
LEMMA BooksKept ==
  ASSUME BooksOK, UNCHANGED <<bound, gauge, lifecycle>>
  PROVE  gauge' = [o \in Operators |-> Booked(o)']
<1>1. \A o \in Operators : Booked(o)' = Booked(o)
  BY Zenon DEF Booked, Credit
<1>. QED  BY <1>1, Zenon DEF BooksOK

\* What a client sent, and what the loops do.
LEMMA LoopsKnown ==
  ASSUME IInv
  PROVE  clientCode \in ClientCodes /\ loop \in [Gens -> LoopStates]
BY Zenon DEF IInv, Typed

\* The current connection has a number.
LEMMA GenKnown ==
  ASSUME IInv
  PROVE  /\ endpointGen \in Nat /\ endpointGen \in Gens /\ MaxGen \in Nat
         /\ endpointConn \in {NoGen, endpointGen}
<1>1. endpointGen \in Nat /\ endpointGen <= MaxGen + 2 /\ MaxGen \in Nat
  BY BridgeAssumption DEF IInv, Typed, GensOK
<1>2. endpointConn \in {NoGen, endpointGen}
  BY Zenon DEF IInv, ConnOK
<1>. QED  BY <1>1, <1>2 DEF Gens

\* A loop of the current connection or of none starts to read.
LEMMA ReadersKnown ==
  ASSUME IInv, NEW h \in Gens, loop[h] = "reading" \/ h = endpointConn
  PROVE  h <= endpointGen
<1>1. endpointGen \in Nat /\ endpointConn \in {NoGen, endpointGen} /\ h \in Nat
  BY DEF IInv, Typed, ConnOK, Gens
<1>2. loop[h] = "reading" => h <= endpointGen
  BY Zenon DEF IInv, GensOK
<1>. QED  BY <1>1, <1>2 DEF NoGen

\* Steps that close nothing and move nothing: loops read, hold and stop, the client leaves, a
\* signal is dropped.
LEMMA QuietKeeps ==
  ASSUME IInv,
         UNCHANGED <<pc, reconnector, shut, entry, sock, endpointGen, endpointConn, tumble, bound, gauge,
                     lifecycle, cut>>,
         ctxDone => ctxDone', clientSock = "closed" => clientSock' = "closed",
         clientCode' \in ClientCodes, endpointDown' \in {endpointDown, NoGen},
         loop' \in [Gens -> LoopStates],
         \A h \in Gens : loop'[h] = "reading" => loop[h] = "reading" \/ h = endpointConn
  PROVE  Typed' /\ GensOK' /\ ConnOK' /\ ShutOK' /\ BooksOK'
<1>1. Typed'
  BY DEF IInv, Typed, NoGen
<1>2. GensOK'
  <2>1. \A h \in Gens : loop'[h] = "reading" => h <= endpointGen
    BY ReadersKnown
  <2>2. endpointGen \in Nat /\ (Rebinding' <=> Rebinding)
    BY DEF IInv, Typed, Rebinding
  <2>3. /\ endpointDown' <= endpointGen
        /\ endpointDown' = endpointGen => endpointGen < MaxGen \/ ctxDone' \/ Rebinding
    BY <2>2 DEF IInv, GensOK, NoGen
  <2>. QED  BY <2>1, <2>2, <2>3 DEF IInv, GensOK
<1>3. ConnOK'
  <2>1. Held' = Held /\ (Rebinding' <=> Rebinding)
    BY DEF Held, Rebinding
  <2>. QED  BY <2>1 DEF IInv, ConnOK
<1>4. ShutOK'
  BY DEF IInv, ShutOK
<1>5. BooksOK'
  <2>1. gauge' = [o \in Operators |-> Booked(o)']
    BY BooksKept DEF IInv
  <2>. QED  BY <2>1 DEF IInv, BooksOK
<1>. QED  BY <1>1, <1>2, <1>3, <1>4, <1>5

\* Steps that shut the bridge down, or find it shut down: the goroutine goes back to its select
\* or returns.
LEMMA ShutKeeps ==
  ASSUME IInv, pc \in {"serve", "select", "dial"}, pc' \in {"serve", "ended"}, ShutWith(sock),
         UNCHANGED <<reconnector, endpointGen, endpointConn, bound, gauge, lifecycle, cut>>,
         tumble' => tumble, clientCode' \in ClientCodes, endpointDown' \in {endpointDown, NoGen},
         loop' \in [Gens -> LoopStates],
         \A h \in Gens : loop'[h] = "reading" => loop[h] = "reading" \/ h = endpointConn
  PROVE  Typed' /\ GensOK' /\ ConnOK' /\ ShutOK' /\ BooksOK'
<1>1. /\ Held = endpointConn /\ Held' = endpointConn /\ ~ Rebinding'
      /\ endpointGen \in Gens /\ endpointGen \in Nat
  BY GenKnown DEF Held, Rebinding
<1>2. /\ shut' /\ ctxDone' /\ entry' = NoDomain /\ sock' \in [Gens -> SockStates]
      /\ \A g \in Gens : g # endpointConn => sock'[g] = sock[g]
      /\ \A g \in Gens : sock'[g] \in {sock[g], "closed"}
  BY DEF ShutWith
<1>3. Typed'
  BY <1>2 DEF IInv, Typed, NoGen
<1>4. GensOK'
  <2>1. \A h \in Gens : loop'[h] = "reading" => h <= endpointGen
    BY ReadersKnown
  <2>2. endpointDown' <= endpointGen
    BY <1>1 DEF IInv, GensOK, NoGen
  <2>3. \A g \in Gens : sock'[g] \in {"dead", "reset"} /\ reconnector => g < MaxGen
    BY <1>2 DEF IInv, GensOK
  <2>. QED  BY <1>1, <1>2, <2>1, <2>2, <2>3 DEF IInv, GensOK
<1>5. ConnOK'
  <2>1. \A g \in Gens : g # Held => sock'[g] \in Off
    BY <1>1, <1>2 DEF IInv, ConnOK
  <2>2. sock'[endpointGen] # "none"
    BY <1>1, <1>2 DEF IInv, ConnOK
  <2>3. endpointConn \in {NoGen, endpointGen} /\ pc' # "setup" /\ pc' # "replay"
    BY DEF IInv, ConnOK
  <2>. QED  BY <1>1, <1>2, <2>1, <2>2, <2>3 DEF ConnOK
<1>6. ShutOK'
  <2>1. CASE shut
    <3>1. sock' = sock /\ clientSock' = clientSock
      BY <2>1 DEF ShutWith
    <3>. QED  BY <1>2, <2>1, <3>1 DEF IInv, ShutOK
  <2>2. CASE ~ shut
    <3>1. clientSock' = "closed" /\ \A g \in Gens : g = endpointConn => sock'[g] = "closed"
      BY <2>2 DEF ShutWith
    <3>2. \A g \in Gens : sock'[g] \in Off
      BY <1>1, <1>2, <3>1 DEF IInv, ConnOK, Off
    <3>. QED  BY <1>2, <3>1, <3>2 DEF ShutOK
  <2>. QED  BY <2>1, <2>2
<1>7. BooksOK'
  <2>1. gauge' = [o \in Operators |-> Booked(o)']
    BY BooksKept DEF IInv
  <2>2. lifecycle # "closed"
    BY DEF IInv, BooksOK
  <2>. QED  BY <1>2, <2>1, <2>2 DEF BooksOK
<1>. QED  BY <1>3, <1>4, <1>5, <1>6, <1>7

\* The socket of the current connection breaks.
LEMMA BreakKeeps ==
  ASSUME IInv, NEW s \in {"dead", "reset"}, endpointConn # NoGen, sock[endpointConn] \notin Off,
         reconnector => endpointGen < MaxGen, sock' = [sock EXCEPT ![endpointConn] = s],
         UNCHANGED <<pc, reconnector, clientCode, ctxDone, shut, entry, clientSock, endpointGen,
                     endpointConn, loop, endpointDown, tumble, bound, gauge, lifecycle, cut>>
  PROVE  Typed' /\ GensOK' /\ ConnOK' /\ ShutOK' /\ BooksOK'
<1>1. /\ endpointConn = endpointGen /\ endpointGen \in Gens
      /\ Held' = Held /\ (Rebinding' <=> Rebinding) /\ s \in SockStates
  BY GenKnown, Zenon DEF Held, Rebinding, SockStates
<1>2. /\ sock' \in [Gens -> SockStates] /\ sock'[endpointGen] = s
      /\ \A g \in Gens : g # endpointGen => sock'[g] = sock[g]
  <2>1. sock \in [Gens -> SockStates]
    BY DEF IInv, Typed
  <2>. QED  BY <1>1, <2>1, ChangeOne, Zenon
<1>3. Typed'
  BY <1>2 DEF IInv, Typed
<1>4. GensOK'
  <2>1. \A g \in Gens : sock'[g] \in {"dead", "reset"} /\ reconnector => g < MaxGen
    BY <1>2, Zenon DEF IInv, GensOK
  <2>. QED  BY <1>1, <2>1, Zenon DEF IInv, GensOK
<1>5. ConnOK'
  <2>1. endpointGen = Held
    BY <1>1, Zenon DEF IInv, ConnOK
  <2>2. \A g \in Gens : g # Held => sock'[g] \in Off
    BY <1>2, <2>1, Zenon DEF IInv, ConnOK
  <2>3. pc # "replay"
    BY <1>1, Zenon DEF IInv, ConnOK, Rebinding
  <2>. QED  BY <1>1, <1>2, <2>2, <2>3, Zenon DEF IInv, ConnOK
<1>6. ShutOK'
  <2>1. ~ (shut /\ ~ cut)
    BY <1>1, Zenon DEF IInv, ShutOK
  <2>. QED  BY <2>1, Zenon DEF IInv, ShutOK
<1>7. BooksOK'
  <2>1. gauge' = [o \in Operators |-> Booked(o)']
    BY BooksKept, Zenon DEF IInv
  <2>. QED  BY <2>1, Zenon DEF IInv, BooksOK
<1>. QED  BY <1>3, <1>4, <1>5, <1>6, <1>7, Zenon

\* Every handler that may begin a rebind: it shuts the bridge down when the context has ended.
LEMMA RebindKeeps ==
  ASSUME IInv, NEW trigger, pc = "serve", beginRebind(trigger),
         ~ctxDone => endpointGen <= MaxGen + 1,
         tumble' => tumble /\ (~ctxDone => endpointGen <= MaxGen),
         endpointDown' \in {endpointDown, NoGen}
  PROVE  Typed' /\ GensOK' /\ ConnOK' /\ ShutOK' /\ BooksOK'
<1>1. CASE ctxDone
  <2>1. ShutWith(sock)
    BY <1>1, ShutdownHere, Zenon DEF beginRebind
  <2>2. UNCHANGED <<pc, endpointConn, loop, reconnector, clientCode, endpointGen, bound, gauge,
                    lifecycle, cut>>
    BY <1>1, Zenon DEF beginRebind, rebindVars
  <2>3. clientCode \in ClientCodes /\ loop \in [Gens -> LoopStates]
    BY LoopsKnown, Zenon
  <2>. QED  BY <2>1, <2>2, <2>3, ShutKeeps, Zenon
<1>2. CASE ~ctxDone
  <2>1. endpointConn = endpointGen /\ endpointGen \in Gens
    BY <1>2, GenKnown, Zenon DEF IInv, ConnOK
  <2>2. /\ pc' = "select" /\ endpointConn' = NoGen
        /\ sock' = [sock EXCEPT ![endpointGen] = "closed"]
        /\ UNCHANGED <<ctxDone, shut, entry, clientSock>>
    BY <1>2, <2>1, Zenon DEF beginRebind, NotShut, shutdownVars
  <2>3. /\ loop' = [loop EXCEPT ![endpointGen] = IF @ = "holding" THEN "stopped" ELSE @]
        /\ UNCHANGED <<reconnector, clientCode, endpointGen, bound, gauge, lifecycle, cut>>
    BY <1>2, <2>1, Zenon DEF beginRebind
  <2>4. /\ sock' \in [Gens -> SockStates] /\ sock'[endpointGen] = "closed"
        /\ \A g \in Gens : g # endpointGen => sock'[g] = sock[g]
    <3>1. sock \in [Gens -> SockStates] /\ "closed" \in SockStates
      BY DEF IInv, Typed, SockStates
    <3>. QED  BY <2>1, <2>2, <3>1, ChangeOne, Zenon
  <2>5. /\ loop' \in [Gens -> LoopStates]
        /\ \A g \in Gens : loop'[g] = "reading" => loop[g] = "reading"
    BY <2>1, <2>3 DEF IInv, Typed, LoopStates
  <2>6. ~ Rebinding /\ Rebinding' /\ Held = endpointGen /\ Held' = NoGen
    BY <2>1, <2>2, Zenon DEF Rebinding, Held
  <2>7. Typed'
    BY <2>2, <2>3, <2>4, <2>5 DEF IInv, Typed, NoGen
  <2>8. GensOK'
    <3>1. endpointGen \in Nat /\ endpointDown' <= endpointGen
      BY DEF IInv, Typed, GensOK, NoGen
    <3>2. \A g \in Gens : loop'[g] = "reading" => g <= endpointGen
      BY <2>5, Zenon DEF IInv, GensOK
    <3>3. \A g \in Gens : sock'[g] \in {"dead", "reset"} /\ reconnector => g < MaxGen
      BY <2>4, Zenon DEF IInv, GensOK
    <3>. QED  BY <1>2, <2>3, <2>6, <3>1, <3>2, <3>3, BridgeAssumption, Zenon DEF IInv, GensOK
  <2>9. ConnOK'
    <3>1. \A g \in Gens : sock'[g] \in Off
      BY <2>4, <2>6, Zenon DEF IInv, ConnOK, Off
    <3>. QED  BY <2>2, <2>3, <2>4, <2>6, <3>1, Zenon DEF ConnOK
  <2>10. ShutOK' /\ BooksOK'
    <3>1. gauge' = [o \in Operators |-> Booked(o)']
      BY <2>3, BooksKept, Zenon DEF IInv
    <3>2. ~ shut
      BY <1>2, Zenon DEF IInv, ShutOK
    <3>. QED  BY <1>2, <2>2, <2>3, <3>1, <3>2, Zenon DEF IInv, ShutOK, BooksOK
  <2>. QED  BY <2>7, <2>8, <2>9, <2>10, Zenon
<1>. QED  BY <1>1, <1>2, Zenon

\* The loops start and the bridge takes the connection of the set-up.
LEMMA StartBridgeKeeps ==
  ASSUME IInv, StartBridge
  PROVE  IInv'
<1>1. /\ pc = "setup" /\ pc' = "serve" /\ endpointConn' = 0
      /\ loop' = [loop EXCEPT ![0] = "reading"]
      /\ UNCHANGED <<reconnector, clientCode, ctxDone, shut, entry, clientSock, sock, endpointGen,
                     endpointDown, tumble, consecutiveStallRebinds, quietRebinds, bound, gauge,
                     lifecycle, cut>>
  BY Zenon DEF StartBridge, NotShut, shutdownVars, channelVars, countVars, bindVars
<1>2. /\ endpointGen = 0 /\ 0 \in Gens /\ Held = 0 /\ Held' = 0
      /\ ~ Rebinding /\ ~ Rebinding' /\ loop \in [Gens -> LoopStates] /\ "reading" \in LoopStates
  BY <1>1, BridgeAssumption DEF IInv, Typed, ConnOK, Gens, Held, Rebinding, LoopStates
<1>3. /\ loop' \in [Gens -> LoopStates]
      /\ \A h \in Gens : loop'[h] = "reading" => loop[h] = "reading" \/ h = 0
  BY <1>1, <1>2, ChangeOne, Zenon
<1>4. Typed'
  BY <1>1, <1>3 DEF IInv, Typed
<1>5. GensOK'
  <2>1. \A h \in Gens : loop'[h] = "reading" => h <= endpointGen
    BY <1>2, <1>3 DEF IInv, GensOK
  <2>. QED  BY <1>1, <1>2, <2>1, Zenon DEF IInv, GensOK
<1>6. ConnOK'
  BY <1>1, <1>2, Zenon DEF IInv, ConnOK
<1>7. ShutOK'
  BY <1>1, Zenon DEF IInv, ShutOK
<1>8. BooksOK' /\ CountsOK'
  <2>1. gauge' = [o \in Operators |-> Booked(o)']
    BY <1>1, BooksKept, Zenon DEF IInv
  <2>. QED  BY <1>1, <2>1, Zenon DEF IInv, BooksOK, CountsOK
<1>. QED  BY <1>4, <1>5, <1>6, <1>7, <1>8, Zenon DEF IInv

\* The gateway's Close, at any point of the bridge goroutine.
LEMMA CloseKeeps ==
  ASSUME IInv, Close
  PROVE  IInv'
<1>0. cut' <=> endpointConn = NoGen
  BY Zenon DEF Close
<1>1. ShutWith(sock)
  BY BridgeAssumption, ShutdownDone DEF Close, IInv, Typed, ConnOK, GensOK, Gens
<1>2. /\ entry # NoDomain
      /\ UNCHANGED <<pc, clientCode, reconnector, endpointGen, endpointConn, loop, endpointDown, tumble,
                     consecutiveStallRebinds, quietRebinds, bound, gauge, lifecycle>>
  BY Zenon DEF Close, rebindVars, channelVars, countVars, bindVars
<1> USE <1>0, <1>1, <1>2, BridgeAssumption DEF IInv, ShutWith, Gens, NoGen, NoDomain, Rebinding,
    SockStates, LoopStates, Off, Held
<1>3. Typed'
  BY DEF Typed
<1>4. GensOK'
  BY DEF Typed, GensOK
<1>5. ConnOK'
  BY SMTT(30) DEF Typed, GensOK, ConnOK
<1>6. ShutOK'
  <2>1. ~ shut
    BY Zenon DEF ShutOK
  <2>2. endpointConn # NoGen => pc \in {"serve", "ended"} /\ endpointConn = endpointGen
    BY Zenon DEF Typed, ConnOK
  <2>3. endpointConn # NoGen => \A g \in Gens : sock'[g] \in Off
    BY <2>1, <2>2, Zenon DEF ConnOK
  <2>. QED  BY <2>1, <2>2, <2>3, Zenon DEF ShutOK
<1>7. BooksOK' /\ CountsOK'
  BY Zenon DEF BooksOK, Booked, CountsOK
<1>. QED  BY <1>3, <1>4, <1>5, <1>6, <1>7, Zenon

\* A read loop takes a frame.
LEMMA ReadFrameKeeps ==
  ASSUME IInv, readFrame
  PROVE  IInv'
<1>1. /\ UNCHANGED <<pc, reconnector, shut, entry, clientSock, sock, endpointGen, endpointConn, tumble,
                     endpointDown, bound, gauge, lifecycle, cut, consecutiveStallRebinds, quietRebinds>>
      /\ ctxDone => ctxDone'
  BY Zenon DEF readFrame, loopFrame, rebindVars, countVars, bindVars
<1>2. clientCode' \in ClientCodes /\ loop \in [Gens -> LoopStates]
  <2>1. clientCode' = clientCode
    BY Zenon DEF readFrame
  <2>. QED  BY <2>1, LoopsKnown, Zenon
<1>3. /\ loop' \in [Gens -> LoopStates]
      /\ \A h \in Gens : loop'[h] = "reading" => loop[h] = "reading"
  <2>1. loop' = loop \/ loop' = [loop EXCEPT ![endpointConn] = "holding"]
    BY Zenon DEF readFrame
  <2>2. {"holding", "stopped"} \subseteq LoopStates
    BY Zenon DEF LoopStates
  <2>3. CASE loop' = loop
    BY <1>2, <2>3
  <2>4. CASE loop' # loop
    <3>0. loop' = [loop EXCEPT ![endpointConn] = "holding"] /\ "holding" \in LoopStates
      BY <2>1, <2>2, <2>4, Zenon
    <3>1. /\ loop' \in [Gens -> LoopStates]
          /\ \A h \in Gens : loop'[h] \in {loop[h], "holding"}
      BY <1>2, <3>0, ChangeOne
    <3>. QED  BY <3>1, Zenon
  <2>. QED  BY <2>3, <2>4, Zenon
<1>4. Typed' /\ GensOK' /\ ConnOK' /\ ShutOK' /\ BooksOK'
  BY <1>1, <1>2, <1>3, QuietKeeps, Zenon
<1>5. CountsOK'
  BY <1>1, Zenon DEF IInv, CountsOK
<1>. QED  BY <1>4, <1>5, Zenon DEF IInv

\* A loop of a connection, current or replaced, fails and signals.
LEMMA EndpointFailsKeeps ==
  ASSUME IInv, NEW g \in Gens, endpointFails(g)
  PROVE  IInv'
<1>1. /\ sock[g] # "open"
      /\ UNCHANGED <<pc, shut, entry, clientSock, sock, endpointGen, endpointConn, tumble,
                     consecutiveStallRebinds, quietRebinds, bound, gauge, lifecycle, cut, clientCode,
                     reconnector>>
  BY DEF endpointFails, loopFrame, rebindVars, countVars, bindVars
<1>2. loop' = loop \/ (loop[g] = "reading" /\ loop' = [loop EXCEPT ![g] = "stopped"])
  BY SMT DEF endpointFails
<1>3. loop[g] = "reading" \/ g = endpointConn
  BY SMT DEF endpointFails
<1>0. onDisconnect(g)
  BY SMT DEF endpointFails
<1>4. ctxDone => ctxDone'
  BY <1>0, Zenon DEF onDisconnect
<1>5. endpointDown' = endpointDown \/ (reconnector /\ endpointDown' = g)
  BY <1>0, Zenon DEF onDisconnect
<1> USE <1>1, <1>2, <1>3, <1>4, <1>5, BridgeAssumption DEF IInv, Gens, NoGen, NoDomain, Rebinding,
    SockStates, LoopStates, Off, Held
<1>6. Typed'
  BY DEF Typed
<1>7. GensOK'
  <2>1. g <= endpointGen
    BY DEF Typed, GensOK, ConnOK
  <2>2. g = endpointGen /\ reconnector => g < MaxGen \/ ctxDone \/ Rebinding
    BY DEF Typed, GensOK, ConnOK
  <2>3. \A h \in Gens : loop'[h] = "reading" => h <= endpointGen
    BY DEF Typed, GensOK
  <2>4. endpointDown' <= endpointGen
    BY <2>1, Zenon DEF GensOK
  <2>5. endpointDown' = endpointGen => endpointGen < MaxGen \/ ctxDone' \/ Rebinding'
    BY <2>2, Zenon DEF GensOK
  <2>. QED  BY <2>3, <2>4, <2>5, Zenon DEF GensOK
<1>8. ConnOK'
  BY Zenon DEF ConnOK
<1>9. ShutOK'
  BY Zenon DEF ShutOK
<1>10. BooksOK' /\ CountsOK'
  BY Zenon DEF BooksOK, Booked, CountsOK
<1>. QED  BY <1>6, <1>7, <1>8, <1>9, <1>10, Zenon

\* Loops end with the context.
LEMMA EndpointLoopStopsKeeps ==
  ASSUME IInv, endpointLoopStops
  PROVE  IInv'
<1>1. /\ UNCHANGED <<pc, reconnector, shut, entry, clientSock, sock, endpointGen, endpointConn, tumble,
                     endpointDown, bound, gauge, lifecycle, cut, consecutiveStallRebinds, quietRebinds>>
      /\ ctxDone => ctxDone'
  BY Zenon DEF endpointLoopStops, loopFrame, rebindVars, countVars, bindVars
<1>2. clientCode' \in ClientCodes /\ loop \in [Gens -> LoopStates]
  <2>1. clientCode' = clientCode
    BY Zenon DEF endpointLoopStops
  <2>. QED  BY <2>1, LoopsKnown, Zenon
<1>3. /\ loop' \in [Gens -> LoopStates]
      /\ \A h \in Gens : loop'[h] = "reading" => loop[h] = "reading"
  <2>1. loop' = loop \/ loop' = [loop EXCEPT ![endpointConn] = "stopped"]
    BY Zenon DEF endpointLoopStops
  <2>2. {"holding", "stopped"} \subseteq LoopStates
    BY Zenon DEF LoopStates
  <2>3. CASE loop' = loop
    BY <1>2, <2>3
  <2>4. CASE loop' # loop
    <3>0. loop' = [loop EXCEPT ![endpointConn] = "stopped"] /\ "stopped" \in LoopStates
      BY <2>1, <2>2, <2>4, Zenon
    <3>1. /\ loop' \in [Gens -> LoopStates]
          /\ \A h \in Gens : loop'[h] \in {loop[h], "stopped"}
      BY <1>2, <3>0, ChangeOne
    <3>. QED  BY <3>1, Zenon
  <2>. QED  BY <2>3, <2>4, Zenon
<1>4. Typed' /\ GensOK' /\ ConnOK' /\ ShutOK' /\ BooksOK'
  BY <1>1, <1>2, <1>3, QuietKeeps, Zenon
<1>5. CountsOK'
  BY <1>1, Zenon DEF IInv, CountsOK
<1>. QED  BY <1>4, <1>5, Zenon DEF IInv

\* The client is gone.
LEMMA ClientLoopEndsKeeps ==
  ASSUME IInv, clientLoopEnds
  PROVE  IInv'
<1>1. /\ UNCHANGED <<pc, reconnector, shut, entry, clientSock, sock, endpointGen, endpointConn, tumble,
                     endpointDown, bound, gauge, lifecycle, cut, consecutiveStallRebinds, quietRebinds>>
      /\ ctxDone => ctxDone'
  BY Zenon DEF clientLoopEnds, loopFrame, rebindVars, countVars, bindVars
<1>2. clientCode' \in ClientCodes
  <2>1. clientCode' = clientCode \/ clientCode' \in ClientCodes
    BY DEF clientLoopEnds
  <2>. QED  BY <2>1, LoopsKnown DEF ClientCodes
<1>3. loop' = loop /\ loop \in [Gens -> LoopStates]
  <2>1. loop' = loop
    BY Zenon DEF clientLoopEnds
  <2>. QED  BY <2>1, LoopsKnown, Zenon
<1>4. Typed' /\ GensOK' /\ ConnOK' /\ ShutOK' /\ BooksOK'
  BY <1>1, <1>2, <1>3, QuietKeeps, Zenon
<1>5. CountsOK'
  BY <1>1, Zenon DEF IInv, CountsOK
<1>. QED  BY <1>4, <1>5, Zenon DEF IInv

\* The idle watchdog.
LEMMA CheckIdleConnectionKeeps ==
  ASSUME IInv, checkIdleConnection
  PROVE  IInv'
<1>1. /\ pc = "serve" /\ pc' \in {"serve", "ended"}
      /\ UNCHANGED <<reconnector, clientCode, endpointGen, endpointConn, loop, endpointDown, tumble,
                     bound, gauge, lifecycle, cut, consecutiveStallRebinds, quietRebinds>>
  BY Zenon DEF checkIdleConnection, serveFrame, rebindVars, channelVars, countVars, bindVars
<1>2. ShutWith(sock)
  BY ShutdownHere, Zenon DEF checkIdleConnection
<1>3. clientCode \in ClientCodes /\ loop \in [Gens -> LoopStates]
  BY LoopsKnown, Zenon
<1>4. Typed' /\ GensOK' /\ ConnOK' /\ ShutOK' /\ BooksOK'
  BY <1>1, <1>2, <1>3, ShutKeeps, Zenon
<1>5. CountsOK'
  BY <1>1, Zenon DEF IInv, CountsOK
<1>. QED  BY <1>4, <1>5, Zenon DEF IInv

\* A rebind goes to one of the candidates.
LEMMA ChoiceIsCandidate ==
  ASSUME NEW candidates \in SUBSET Endpoints, NEW e, NEW was, NEW want,
         e \in chooseRebindEndpoint(candidates, was, want)
  PROVE  e \in Endpoints
BY Zenon DEF chooseRebindEndpoint, Survivors

\* The credit of a connection follows a move of its binding.
LEMMA CreditMoves ==
  ASSUME gauge = [o \in Operators |-> Booked(o)], lifecycle # "closed",
         lifecycle \in {"starting", "established", "closed"}, lifecycle' = lifecycle,
         bound \in Endpoints, bound' \in Endpoints,
         gauge' = MoveCredit(Operator[bound], Operator[bound'])
  PROVE  gauge' = [o \in Operators |-> Booked(o)']
<1> DEFINE G == [o \in Operators |-> Booked(o)']
<1>0. Operator[bound] \in Operators /\ Operator[bound'] \in Operators
  BY Zenon DEF Operators
<1>1. CASE Operator[bound] = Operator[bound']
  BY <1>1, Zenon DEF MoveCredit, Booked, Credit
<1>2. CASE Operator[bound] # Operator[bound']
  <2>1. gauge' = [gauge EXCEPT ![Operator[bound]] = @ - 1, ![Operator[bound']] = @ + 1]
    BY <1>2, Zenon DEF MoveCredit
  <2>2. ASSUME NEW o \in Operators
        PROVE  gauge'[o] = Booked(o)'
    <3>1. gauge[o] = Booked(o)
      OBVIOUS
    <3>2. gauge'[o] = IF o = Operator[bound] THEN gauge[o] - 1
                      ELSE IF o = Operator[bound'] THEN gauge[o] + 1 ELSE gauge[o]
      BY <1>0, <1>2, <2>1, Zenon
    <3>. QED  BY <1>2, <3>1, <3>2 DEF Booked, Credit
  <2>3. gauge' = [o \in Operators |-> gauge'[o]]
    BY <2>1, Zenon
  <2>. QED  BY <2>2, <2>3, Zenon
<1>. QED  BY <1>1, <1>2, Zenon

\* An attempt of a rebind selects an endpoint, or the last one fails.
LEMMA SelectEndpointKeeps ==
  ASSUME IInv, selectEndpoint
  PROVE  IInv'
<1>1. \A c : shutdown(c, sock) => ShutWith(sock)
  BY ShutdownHere, Zenon
<1>2. /\ pc = "select"
      /\ UNCHANGED <<reconnector, clientCode, endpointDown, tumble, consecutiveStallRebinds, quietRebinds,
                     lifecycle, cut, endpointGen, endpointConn, loop>>
  BY Zenon DEF selectEndpoint, rebindFrame, channelVars, countVars
<1>3. \/ pc' = "serve" /\ ShutWith(sock) /\ UNCHANGED <<bound, gauge>>
      \/ /\ pc' \in {"select", "dial"} /\ UNCHANGED <<sock, ctxDone, shut, entry, clientSock>>
         /\ bound' \in Endpoints
         /\ UNCHANGED <<bound, gauge>> \/ gauge' = MoveCredit(Operator[bound], Operator[bound'])
  <2>1. CASE ctxDone
    BY <1>1, <2>1, Zenon DEF selectEndpoint, toServe, bindVars
  <2>2. CASE ~ctxDone
    <3>1. PICK candidates \in SUBSET Endpoints :
            LET choices == chooseRebindEndpoint(candidates, bound, avoidScope)
            IN  \/ choices = {} /\ attemptFails /\ UNCHANGED <<bound, gauge>>
                \/ \E e \in choices :
                     /\ bound' = e /\ gauge' = MoveCredit(Operator[bound], Operator[e])
                     /\ pc' = "dial" /\ NotShut(sock) /\ UNCHANGED <<attempt, avoid>>
      BY <2>2, Zenon DEF selectEndpoint
    <3>2. CASE attemptFails /\ UNCHANGED <<bound, gauge>>
      BY <1>1, <3>2 DEF attemptFails, toServe, NotShut, shutdownVars, IInv, Typed
    <3>3. ASSUME NEW e \in chooseRebindEndpoint(candidates, bound, avoidScope),
                 bound' = e /\ gauge' = MoveCredit(Operator[bound], Operator[e]), pc' = "dial",
                 NotShut(sock)
          PROVE  /\ pc' \in {"select", "dial"} /\ UNCHANGED <<sock, ctxDone, shut, entry, clientSock>>
                 /\ bound' \in Endpoints /\ gauge' = MoveCredit(Operator[bound], Operator[bound'])
      BY <3>3, ChoiceIsCandidate, Zenon DEF NotShut, shutdownVars
    <3>. QED  BY <3>1, <3>2, <3>3, Zenon
  <2>. QED  BY <2>1, <2>2, Zenon
<1>. SUFFICES Typed' /\ GensOK' /\ ConnOK' /\ ShutOK' /\ BooksOK'
  BY <1>2, Zenon DEF IInv, CountsOK
<1>4. clientCode \in ClientCodes /\ loop \in [Gens -> LoopStates]
  BY LoopsKnown, Zenon
<1>5. CASE pc' = "serve" /\ ShutWith(sock) /\ UNCHANGED <<bound, gauge>>
  BY <1>2, <1>4, <1>5, ShutKeeps, Zenon
<1>6. CASE /\ pc' \in {"select", "dial"} /\ UNCHANGED <<sock, ctxDone, shut, entry, clientSock>>
           /\ bound' \in Endpoints
           /\ UNCHANGED <<bound, gauge>> \/ gauge' = MoveCredit(Operator[bound], Operator[bound'])
  <2>1. Rebinding /\ Rebinding' /\ Held = endpointConn /\ Held' = endpointConn
    BY <1>2, <1>6, Zenon DEF Rebinding, Held
  <2>2. Typed'
    BY <1>2, <1>6 DEF IInv, Typed
  <2>3. GensOK'
    BY <1>2, <1>6, <2>1, Zenon DEF IInv, GensOK
  <2>4. ConnOK'
    BY <1>2, <1>6, <2>1, Zenon DEF IInv, ConnOK
  <2>5. ShutOK'
    BY <1>2, <1>6, Zenon DEF IInv, ShutOK
  <2>6. gauge' = [o \in Operators |-> Booked(o)']
    <3>1. CASE UNCHANGED <<bound, gauge>>
      BY <1>2, <3>1, BooksKept, Zenon DEF IInv
    <3>2. CASE gauge' = MoveCredit(Operator[bound], Operator[bound'])
      <4>1. /\ gauge = [o \in Operators |-> Booked(o)] /\ lifecycle # "closed" /\ bound \in Endpoints
            /\ lifecycle \in {"starting", "established", "closed"}
        BY <1>2 DEF IInv, Typed, BooksOK
      <4>. QED  BY <1>2, <1>6, <3>2, <4>1, CreditMoves, Zenon
    <3>. QED  BY <1>6, <3>1, <3>2, Zenon
  <2>7. BooksOK'
    BY <1>2, <1>6, <2>6, Zenon DEF IInv, BooksOK
  <2>. QED  BY <2>2, <2>3, <2>4, <2>5, <2>7, Zenon
<1>. QED  BY <1>3, <1>5, <1>6, Zenon

\* The dial opens the next connection or the attempt fails.
LEMMA DialEndpointKeeps ==
  ASSUME IInv, dialEndpoint
  PROVE  IInv'
<1>1. /\ pc = "dial"
      /\ UNCHANGED <<reconnector, clientCode, endpointDown, tumble, consecutiveStallRebinds, quietRebinds,
                     lifecycle, cut, bound, gauge, endpointGen, endpointConn, loop>>
  BY Zenon DEF dialEndpoint, rebindFrame, channelVars, countVars, bindVars
<1>2. \/ pc' = "serve" /\ ShutWith(sock)
      \/ pc' = "select" /\ UNCHANGED <<sock, ctxDone, shut, entry, clientSock>>
      \/ /\ pc' = "replay" /\ sock' = [sock EXCEPT ![endpointGen + 1] = "open"]
         /\ UNCHANGED <<ctxDone, shut, entry, clientSock>>
  BY ShutdownHere, Zenon DEF dialEndpoint, attemptFails, toServe, NotShut, shutdownVars
<1>3. /\ clientCode \in ClientCodes /\ loop \in [Gens -> LoopStates] /\ sock \in [Gens -> SockStates]
      /\ endpointConn = NoGen /\ endpointGen \in Nat /\ Rebinding /\ Held = NoGen
  BY <1>1 DEF IInv, Typed, ConnOK, Rebinding, Held
<1>. SUFFICES Typed' /\ GensOK' /\ ConnOK' /\ ShutOK' /\ BooksOK'
  BY <1>1, Zenon DEF IInv, CountsOK
<1>4. CASE pc' = "serve" /\ ShutWith(sock)
  BY <1>1, <1>3, <1>4, ShutKeeps, Zenon
<1>5. CASE pc' # "serve"
  <2>1. /\ pc' \in {"select", "replay"} /\ Rebinding'
        /\ UNCHANGED <<ctxDone, shut, entry, clientSock>>
    BY <1>2, <1>5, Zenon DEF Rebinding
  <2>2. /\ sock' \in [Gens -> SockStates]
        /\ \A g \in Gens : sock'[g] = sock[g] \/ (pc' = "replay" /\ g = endpointGen + 1)
        /\ \A g \in Gens : sock'[g] \in {sock[g], "open"}
    <3>1. CASE sock' = sock
      BY <1>3, <3>1, Zenon
    <3>2. CASE pc' = "replay" /\ sock' = [sock EXCEPT ![endpointGen + 1] = "open"]
      <4>. DEFINE n == endpointGen + 1
                  o == "open"
      <4>1. o \in SockStates /\ sock' = [sock EXCEPT ![n] = o]
        BY <3>2, Zenon DEF SockStates
      <4>. HIDE DEF n, o
      <4>2. /\ sock' \in [Gens -> SockStates]
            /\ \A g \in Gens : g # n => sock'[g] = sock[g]
            /\ \A g \in Gens : sock'[g] \in {sock[g], o}
        <5>1. sock \in [Gens -> SockStates]
          BY <1>3
        <5>. QED  BY <5>1, <4>1, ChangeOne, Zenon
      <4>. QED  BY <3>2, <4>2, Zenon DEF n, o
    <3>. QED  BY <1>2, <1>5, <3>1, <3>2, Zenon
  <2>3. Typed'
    BY <1>1, <2>1, <2>2 DEF IInv, Typed
  <2>4. GensOK'
    <3>1. \A g \in Gens : sock'[g] \in {"dead", "reset"} /\ reconnector => g < MaxGen
      BY <2>2, Zenon DEF IInv, GensOK
    <3>. QED  BY <1>1, <1>3, <2>1, <3>1 DEF IInv, GensOK
  <2>5. ConnOK'
    <3>1. \A g \in Gens : g # Held' => sock'[g] \in Off
      <4>1. \A g \in Gens : sock[g] \in Off
        BY <1>3 DEF IInv, ConnOK, NoGen, Gens
      <4>2. pc' = "replay" => Held' = endpointGen + 1
        BY <1>1, Zenon DEF Held
      <4>. QED  BY <2>2, <4>1, <4>2, Zenon
    <3>2. endpointGen \in Gens /\ endpointGen + 1 \in Gens /\ endpointGen # endpointGen + 1
      BY <1>3, BridgeAssumption DEF IInv, GensOK, Gens
    <3>3. sock'[endpointGen] = sock[endpointGen]
      BY <2>2, <3>2, Zenon
    <3>4. pc' = "replay" => sock'[endpointGen + 1] = "open"
      BY <1>2, <1>3, <3>2
    <3>. QED  BY <1>1, <1>3, <2>1, <3>1, <3>3, <3>4 DEF IInv, ConnOK
  <2>6. ShutOK'
    <3>1. ~ (shut /\ ~ cut)
      BY <1>1, Zenon DEF IInv, ShutOK
    <3>. QED  BY <1>1, <2>1, <3>1, Zenon DEF IInv, ShutOK
  <2>7. BooksOK'
    <3>1. gauge' = [o \in Operators |-> Booked(o)'] /\ lifecycle # "closed"
      BY <1>1, BooksKept, Zenon DEF IInv, BooksOK
    <3>. QED  BY <1>1, <2>1, <3>1, Zenon DEF BooksOK
  <2>. QED  BY <2>3, <2>4, <2>5, <2>6, <2>7, Zenon
<1>. QED  BY <1>2, <1>4, <1>5, Zenon

\* The new connection is closed after a failed replay, or swapped in.
LEMMA ReplaySubscriptionsKeeps ==
  ASSUME IInv, replaySubscriptions
  PROVE  IInv'
<1> DEFINE g == endpointGen + 1
<1>1. /\ pc = "replay" /\ pc' = "serve"
      /\ UNCHANGED <<reconnector, clientCode, endpointDown, tumble, consecutiveStallRebinds, quietRebinds,
                     lifecycle, cut, bound, gauge>>
  BY Zenon DEF replaySubscriptions, rebindFrame, channelVars, countVars, bindVars, toServe
<1>2. /\ g \in Gens /\ endpointGen \in Gens /\ endpointGen \in Nat /\ endpointGen < g
      /\ endpointConn = NoGen /\ NoGen \notin Gens /\ g <= MaxGen + 2
      /\ tumble => g <= MaxGen + 1
  BY <1>1, BridgeAssumption DEF IInv, Typed, GensOK, ConnOK, Rebinding, Gens, NoGen
<1>3. /\ Rebinding /\ ~ Rebinding' /\ Held = g /\ Held' = endpointConn'
      /\ sock \in [Gens -> SockStates] /\ loop \in [Gens -> LoopStates]
      /\ "closed" \in SockStates /\ "reading" \in LoopStates
  BY <1>1 DEF Rebinding, Held, IInv, Typed, SockStates, LoopStates
<1>4. \A h \in Gens : h # g => sock[h] \in Off
  BY <1>3, Zenon DEF IInv, ConnOK
<1>5. gauge' = [o \in Operators |-> Booked(o)'] /\ lifecycle # "closed"
  BY <1>1, BooksKept, Zenon DEF IInv, BooksOK
<1>6. CountsOK'
  BY <1>1, Zenon DEF IInv, CountsOK
<1>7. \/ /\ shutdown("unavailable", [sock EXCEPT ![g] = "closed"])
         /\ UNCHANGED <<endpointGen, endpointConn, loop>>
      \/ /\ endpointGen' = g /\ endpointConn' = g
         /\ loop' = [loop EXCEPT ![g] = "reading"]
         /\ entry' = IF entry = NoDomain THEN entry ELSE Operator[bound]
         /\ UNCHANGED <<sock, ctxDone, shut, clientSock>>
  BY Zenon DEF replaySubscriptions
<1>. HIDE DEF g
<1>8. CASE /\ shutdown("unavailable", [sock EXCEPT ![g] = "closed"])
           /\ UNCHANGED <<endpointGen, endpointConn, loop>>
  <2>. DEFINE socks == [sock EXCEPT ![g] = "closed"]
  <2>1. /\ socks \in [Gens -> SockStates] /\ socks[g] = "closed"
        /\ \A h \in Gens : h # g => socks[h] = sock[h]
    BY <1>2, <1>3, ChangeOne, Zenon
  <2>. HIDE DEF socks
  <2>2. ShutWith(socks)
    <3>1. endpointConn \in Gens \cup {NoGen} /\ Typed /\ ShutOK
      BY <1>2, Zenon DEF IInv
    <3>. QED  BY <1>8, <2>1, <3>1, ShutdownDone, Zenon DEF socks
  <2>3. /\ sock' \in [Gens -> SockStates] /\ \A h \in Gens : sock'[h] = socks[h]
        /\ shut' /\ ctxDone' /\ entry' = NoDomain
    BY <1>2, <2>2, Zenon DEF ShutWith
  <2>4. \A h \in Gens : sock'[h] \in Off
    BY <1>2, <1>4, <2>1, <2>3, Zenon DEF Off
  <2>5. Typed'
    BY <1>1, <1>8, <2>3 DEF IInv, Typed
  <2>6. GensOK'
    <3>1. \A h \in Gens : ~ (sock'[h] \in {"dead", "reset"})
      BY <2>4, Zenon DEF Off
    <3>. QED  BY <1>1, <1>3, <1>8, <2>3, <3>1, Zenon DEF IInv, GensOK
  <2>7. ConnOK'
    <3>1. sock'[endpointGen] # "none"
      BY <1>2, <2>1, <2>3, Zenon DEF IInv, ConnOK
    <3>. QED  BY <1>1, <1>2, <1>3, <1>8, <2>3, <2>4, <3>1, Zenon DEF ConnOK
  <2>8. ShutOK'
    <3>1. ~ shut => clientSock' = "closed"
      BY <1>1, <2>2, Zenon DEF ShutWith
    <3>2. shut => cut
      BY <1>1, Zenon DEF IInv, ShutOK
    <3>. QED  BY <1>1, <2>3, <2>4, <3>1, <3>2, Zenon DEF ShutOK
  <2>9. BooksOK'
    BY <1>1, <1>5, <2>3, Zenon DEF BooksOK
  <2>. QED  BY <1>6, <2>5, <2>6, <2>7, <2>8, <2>9, Zenon DEF IInv
<1>9. CASE /\ endpointGen' = g /\ endpointConn' = g
           /\ loop' = [loop EXCEPT ![g] = "reading"]
           /\ entry' = IF entry = NoDomain THEN entry ELSE Operator[bound]
           /\ UNCHANGED <<sock, ctxDone, shut, clientSock>>
  <2>1. /\ loop' \in [Gens -> LoopStates]
        /\ \A h \in Gens : h # g => loop'[h] = loop[h]
    BY <1>3, <1>9, ChangeOne, Zenon
  <2>2. g \in Nat
    BY <1>2 DEF Gens
  <2>3. Typed'
    BY <1>1, <1>9, <2>1, <2>2 DEF IInv, Typed
  <2>4. GensOK'
    <3>1. \A h \in Gens : loop'[h] = "reading" => h <= g
      <4>1. \A h \in Gens : loop[h] = "reading" => h <= endpointGen
        BY Zenon DEF IInv, GensOK
      <4>2. \A h \in Gens : h \in Nat
        BY DEF Gens
      <4>. QED  BY <1>2, <2>1, <2>2, <4>1, <4>2
    <3>2. endpointDown \in Int /\ endpointDown < g
      BY <1>2, <2>2 DEF IInv, Typed, GensOK
    <3>3. \A h \in Gens : sock[h] \in {"dead", "reset"} /\ reconnector => h < MaxGen
      BY Zenon DEF IInv, GensOK
    <3>. QED  BY <1>1, <1>2, <1>3, <1>9, <2>2, <3>1, <3>2, <3>3 DEF GensOK
  <2>5. ConnOK'
    <3>1. sock[g] = "open"
      BY <1>1, Zenon DEF IInv, ConnOK, g
    <3>. QED  BY <1>1, <1>3, <1>4, <1>9, <3>1, Zenon DEF ConnOK
  <2>6. ShutOK'
    <3>1. shut => cut /\ ctxDone /\ entry = NoDomain
      BY <1>1, Zenon DEF IInv, ShutOK
    <3>2. cut => shut
      BY Zenon DEF IInv, ShutOK
    <3>. QED  BY <1>1, <1>9, <3>1, <3>2, Zenon DEF ShutOK
  <2>7. BooksOK'
    BY <1>1, <1>5, <1>9, Zenon DEF BooksOK
  <2>. QED  BY <1>6, <2>3, <2>4, <2>5, <2>6, <2>7, Zenon DEF IInv
<1>. QED  BY <1>7, <1>8, <1>9, Zenon

\* A frame of the client.
LEMMA HandleClientMessageKeeps ==
  ASSUME IInv, handleClientMessage
  PROVE  IInv'
<1>1. /\ pc = "serve"
      /\ UNCHANGED <<reconnector, clientCode, endpointGen, endpointConn, loop, endpointDown, tumble,
                     bound, gauge, lifecycle, cut, consecutiveStallRebinds, quietRebinds>>
  BY Zenon DEF handleClientMessage, channelVars, countVars, bindVars
<1>2. \/ pc' \in {"serve", "ended"} /\ ShutWith(sock)
      \/ pc' = pc /\ UNCHANGED <<sock, ctxDone, shut, entry, clientSock>>
      \/ /\ pc' = pc /\ UNCHANGED <<ctxDone, shut, entry, clientSock>> /\ endpointConn # NoGen
         /\ sock[endpointConn] = "dead" /\ sock' = [sock EXCEPT ![endpointConn] = "reset"]
  BY <1>1, ShutdownHere, Zenon DEF handleClientMessage, NotShut, shutdownVars
<1>3. clientCode \in ClientCodes /\ loop \in [Gens -> LoopStates]
  BY LoopsKnown, Zenon
<1>. SUFFICES Typed' /\ GensOK' /\ ConnOK' /\ ShutOK' /\ BooksOK'
  BY <1>1, Zenon DEF IInv, CountsOK
<1>4. CASE pc' \in {"serve", "ended"} /\ ShutWith(sock)
  BY <1>1, <1>3, <1>4, ShutKeeps, Zenon
<1>5. CASE pc' = pc /\ UNCHANGED <<sock, ctxDone, shut, entry, clientSock>>
  BY <1>1, <1>3, <1>5, QuietKeeps, Zenon
<1>6. CASE /\ pc' = pc /\ UNCHANGED <<ctxDone, shut, entry, clientSock>> /\ endpointConn # NoGen
           /\ sock[endpointConn] = "dead" /\ sock' = [sock EXCEPT ![endpointConn] = "reset"]
  <2>1. endpointConn = endpointGen /\ endpointGen \in Gens
    BY <1>6, GenKnown, Zenon
  <2>2. reconnector => endpointGen < MaxGen
    BY <1>6, <2>1, Zenon DEF IInv, GensOK
  <2>3. "reset" \in {"dead", "reset"} /\ sock[endpointConn] \notin Off
    BY <1>6, Zenon DEF Off
  <2>. QED  BY <1>1, <1>6, <2>2, <2>3, BreakKeeps, Zenon
<1>. QED  BY <1>2, <1>4, <1>5, <1>6, Zenon

\* A frame of the endpoint.
LEMMA HandleEndpointMessageKeeps ==
  ASSUME IInv, handleEndpointMessage
  PROVE  IInv'
<1>1. /\ pc = "serve" /\ loop' = [loop EXCEPT ![endpointConn] = "reading"]
      /\ UNCHANGED <<pc, reconnector, clientCode, endpointGen, endpointConn, endpointDown, tumble,
                     bound, gauge, lifecycle, cut>>
  BY Zenon DEF handleEndpointMessage, serveFrame, rebindVars, channelVars, bindVars
<1>2. ShutWith(sock) \/ UNCHANGED <<sock, ctxDone, shut, entry, clientSock>>
  BY ShutdownHere, Zenon DEF handleEndpointMessage, NotShut, shutdownVars
<1>3. clientCode \in ClientCodes /\ loop \in [Gens -> LoopStates] /\ "reading" \in LoopStates
  BY LoopsKnown, Zenon DEF LoopStates
<1>4. /\ loop' \in [Gens -> LoopStates]
      /\ \A h \in Gens : loop'[h] = "reading" => loop[h] = "reading" \/ h = endpointConn
  <2>. DEFINE r == "reading"
  <2>1. r \in LoopStates /\ loop' = [loop EXCEPT ![endpointConn] = r]
    BY <1>1, <1>3
  <2>. HIDE DEF r
  <2>2. /\ loop' \in [Gens -> LoopStates]
        /\ \A h \in Gens : h # endpointConn => loop'[h] = loop[h]
    <3>1. loop \in [Gens -> LoopStates]
      BY <1>3
    <3>. QED  BY <3>1, <2>1, ChangeOne, Zenon
  <2>. QED  BY <2>2, Zenon DEF r
<1>. SUFFICES Typed' /\ GensOK' /\ ConnOK' /\ ShutOK' /\ BooksOK'
  <2>1. \/ UNCHANGED <<consecutiveStallRebinds, quietRebinds>>
        \/ consecutiveStallRebinds' = 0 /\ quietRebinds' = 0
    BY Zenon DEF handleEndpointMessage
  <2>2. CountsOK'
    BY <2>1, BridgeAssumption DEF IInv, CountsOK
  <2>. QED  BY <2>2, Zenon DEF IInv
<1>5. CASE ShutWith(sock)
  BY <1>1, <1>3, <1>4, <1>5, ShutKeeps, Zenon
<1>6. CASE UNCHANGED <<sock, ctxDone, shut, entry, clientSock>>
  BY <1>1, <1>3, <1>4, <1>6, QuietKeeps, Zenon
<1>. QED  BY <1>2, <1>5, <1>6, Zenon

\* The bridge goroutine returns.
LEMMA ContextEndsKeeps ==
  ASSUME IInv, contextEnds
  PROVE  IInv'
<1>1. /\ pc = "serve" /\ pc' \in {"serve", "ended"}
      /\ UNCHANGED <<reconnector, clientCode, endpointGen, endpointConn, loop, endpointDown, tumble,
                     bound, gauge, lifecycle, cut, consecutiveStallRebinds, quietRebinds>>
  BY Zenon DEF contextEnds, channelVars, countVars, bindVars
<1>2. ShutWith(sock)
  BY ShutdownHere, Zenon DEF contextEnds
<1>3. clientCode \in ClientCodes /\ loop \in [Gens -> LoopStates]
  BY LoopsKnown, Zenon
<1>4. Typed' /\ GensOK' /\ ConnOK' /\ ShutOK' /\ BooksOK'
  BY <1>1, <1>2, <1>3, ShutKeeps, Zenon
<1>5. CountsOK'
  BY <1>1, Zenon DEF IInv, CountsOK
<1>. QED  BY <1>4, <1>5, Zenon DEF IInv

\* The credit is booked once at the start and taken back once at the end.
LEMMA ReportLifecycleKeeps ==
  ASSUME IInv, reportLifecycle
  PROVE  IInv'
<1>1. UNCHANGED <<pc, reconnector, clientCode, ctxDone, shut, entry, clientSock, sock, endpointGen,
                  endpointConn, loop, endpointDown, tumble, consecutiveStallRebinds, quietRebinds, bound,
                  cut>>
  BY Zenon DEF reportLifecycle, NotShut, shutdownVars, rebindVars, channelVars, countVars
<1>2. \/ /\ lifecycle = "starting" /\ pc # "setup" /\ lifecycle' = "established"
         /\ gauge' = [gauge EXCEPT ![Operator[SelectedEndpoint]] = @ + 1]
      \/ /\ lifecycle = "established" /\ pc = "ended" /\ lifecycle' = "closed"
         /\ gauge' = [gauge EXCEPT ![Operator[bound]] = @ - 1]
  BY Zenon DEF reportLifecycle
<1>3. Typed' /\ GensOK' /\ ConnOK' /\ ShutOK'
  <2>1. (Rebinding' <=> Rebinding) /\ Held' = Held
    BY <1>1, Zenon DEF Rebinding, Held
  <2>2. Typed'
    BY <1>1, <1>2 DEF IInv, Typed
  <2>3. GensOK'
    BY <1>1, <2>1, Zenon DEF IInv, GensOK
  <2>4. ConnOK'
    BY <1>1, <2>1, Zenon DEF IInv, ConnOK
  <2>5. ShutOK'
    BY <1>1, Zenon DEF IInv, ShutOK
  <2>. QED  BY <2>2, <2>3, <2>4, <2>5, Zenon
<1>4. gauge' = [o \in Operators |-> Booked(o)']
  <2>0. bound \in Endpoints /\ SelectedEndpoint \in Endpoints
    BY BridgeAssumption DEF IInv, Typed
  <2>1. Operator[bound] \in Operators /\ Operator[SelectedEndpoint] \in Operators
    BY <2>0, Zenon DEF Operators
  <2> USE <1>1, <1>2 DEF IInv
  <2>2. \A o \in Operators : gauge[o] = Booked(o)
    BY Zenon DEF BooksOK
  <2>3. gauge' = [o \in Operators |-> gauge'[o]]
    BY Zenon DEF BooksOK
  <2>4. ASSUME NEW o \in Operators
        PROVE  gauge'[o] = Booked(o)'
    <3>1. CASE lifecycle = "starting"
      <4>1. gauge[o] = Credit(o, bound) - Credit(o, SelectedEndpoint)
        BY <2>2, <3>1, Zenon DEF Booked
      <4>2. gauge'[o] = gauge[o] + Credit(o, SelectedEndpoint)
        BY <2>1, <3>1, <4>1, SMTT(30) DEF BooksOK, Credit
      <4>. QED  BY <3>1, <4>1, <4>2, SMTT(30) DEF Booked, Credit
    <3>2. CASE lifecycle = "established"
      <4>1. gauge[o] = Credit(o, bound)
        BY <2>2, <3>2, Zenon DEF Booked
      <4>2. gauge'[o] = gauge[o] - Credit(o, bound)
        BY <2>1, <3>2, <4>1, SMTT(30) DEF BooksOK, Credit
      <4>. QED  BY <3>2, <4>1, <4>2, SMTT(30) DEF Booked, Credit
    <3>. QED  BY <3>1, <3>2, Zenon
  <2>. QED  BY <2>3, <2>4, Zenon
<1>5. BooksOK' /\ CountsOK'
  BY <1>1, <1>2, <1>4, Zenon DEF IInv, BooksOK, CountsOK
<1>. QED  BY <1>3, <1>5, Zenon DEF IInv

\* A peer leaves or an operator tumbles.
LEMMA WorldActsKeeps ==
  ASSUME IInv, worldActs
  PROVE  IInv'
<1>1. UNCHANGED <<pc, reconnector, clientCode, ctxDone, shut, entry, endpointGen, endpointConn, loop,
                  endpointDown, bound, gauge, lifecycle, cut, consecutiveStallRebinds, quietRebinds>>
  BY Zenon DEF worldActs, rebindVars, countVars, bindVars
<1>2. clientCode \in ClientCodes /\ loop \in [Gens -> LoopStates]
  BY LoopsKnown, Zenon
<1>. SUFFICES Typed' /\ GensOK' /\ ConnOK' /\ ShutOK' /\ BooksOK'
  BY <1>1, Zenon DEF IInv, CountsOK
<1>3. CASE clientSock = "open" /\ UNCHANGED <<sock, tumble>>
  BY <1>1, <1>2, <1>3, QuietKeeps, Zenon
<1>4. CASE /\ endpointConn # NoGen /\ sock[endpointConn] = "open" /\ (reconnector => endpointGen < MaxGen)
           /\ sock' = [sock EXCEPT ![endpointConn] = "dead"] /\ UNCHANGED <<clientSock, tumble>>
  <2>1. "dead" \in {"dead", "reset"} /\ sock[endpointConn] \notin Off
    BY <1>4, Zenon DEF Off
  <2>. QED  BY <1>1, <1>4, <2>1, BreakKeeps, Zenon
<1>5. CASE endpointGen < MaxGen /\ UNCHANGED <<clientSock, sock>>
  <2>1. Held' = Held /\ (Rebinding' <=> Rebinding) /\ endpointGen \in Nat
    BY <1>1 DEF Held, Rebinding, IInv, Typed
  <2>2. Typed'
    BY <1>1, <1>5 DEF IInv, Typed
  <2>3. GensOK'
    <3>1. endpointGen <= MaxGen + 2 /\ endpointGen <= MaxGen + 1 /\ endpointGen <= MaxGen
      BY <1>5, <2>1, BridgeAssumption
    <3>. QED  BY <1>1, <1>5, <2>1, <3>1, Zenon DEF IInv, GensOK
  <2>4. ConnOK' /\ ShutOK'
    BY <1>1, <1>5, <2>1, Zenon DEF IInv, ConnOK, ShutOK
  <2>5. BooksOK'
    <3>1. gauge' = [o \in Operators |-> Booked(o)']
      BY <1>1, BooksKept, Zenon DEF IInv
    <3>. QED  BY <1>1, <3>1, Zenon DEF IInv, BooksOK
  <2>. QED  BY <2>2, <2>3, <2>4, <2>5, Zenon
<1>6. \/ clientSock = "open" /\ UNCHANGED <<sock, tumble>>
      \/ /\ endpointConn # NoGen /\ sock[endpointConn] = "open" /\ (reconnector => endpointGen < MaxGen)
         /\ sock' = [sock EXCEPT ![endpointConn] = "dead"] /\ UNCHANGED <<clientSock, tumble>>
      \/ endpointGen < MaxGen /\ UNCHANGED <<clientSock, sock>>
  BY Zenon DEF worldActs
<1>. QED  BY <1>3, <1>4, <1>5, <1>6, Zenon

\* A disconnect signal begins a rebind only when it is about the current connection.
LEMMA HandleEndpointDownKeeps ==
  ASSUME IInv, handleEndpointDown
  PROVE  IInv'
<1>1. /\ pc = "serve" /\ endpointDown # NoGen /\ endpointDown' = NoGen
      /\ UNCHANGED <<tumble, consecutiveStallRebinds, quietRebinds>>
  BY Zenon DEF handleEndpointDown, countVars
<1>2. CountsOK'
  BY <1>1, Zenon DEF IInv, CountsOK
<1>3. CASE endpointDown = endpointGen /\ beginRebind("rollover")
  <2>1. ~ctxDone => endpointGen < MaxGen
    BY <1>1, <1>3, Zenon DEF IInv, GensOK, Rebinding
  <2>2. ~ctxDone => endpointGen <= MaxGen + 1 /\ endpointGen <= MaxGen
    BY <2>1, GenKnown
  <2>. QED  BY <1>1, <1>2, <1>3, <2>2, RebindKeeps, Zenon DEF IInv
<1>4. CASE NotShut(sock) /\ serveFrame /\ UNCHANGED <<loop, clientLoop, clientCode>>
  <2>1. UNCHANGED <<pc, reconnector, clientCode, ctxDone, shut, entry, clientSock, sock, endpointGen,
                    endpointConn, loop, tumble, bound, gauge, lifecycle, cut>>
    BY <1>1, <1>4, Zenon DEF NotShut, serveFrame, rebindVars, shutdownVars, bindVars
  <2>2. clientCode \in ClientCodes /\ loop \in [Gens -> LoopStates]
    BY LoopsKnown, Zenon
  <2>. QED  BY <1>1, <1>2, <2>1, <2>2, QuietKeeps, Zenon DEF IInv
<1>. QED  BY <1>3, <1>4, Zenon DEF handleEndpointDown

\* A tumble begins a rebind.
LEMMA HandleAdminTumbleKeeps ==
  ASSUME IInv, handleAdminTumble
  PROVE  IInv'
<1>1. /\ pc = "serve" /\ tumble /\ ~tumble' /\ beginRebind("tumble")
      /\ UNCHANGED <<endpointDown, consecutiveStallRebinds, quietRebinds>>
  BY Zenon DEF handleAdminTumble, countVars
<1>2. CountsOK'
  BY <1>1, Zenon DEF IInv, CountsOK
<1>3. endpointGen <= MaxGen + 1
  BY <1>1, Zenon DEF IInv, GensOK
<1>. QED  BY <1>1, <1>2, <1>3, RebindKeeps, Zenon DEF IInv

\* The stall watchdog rebinds within its limit and shuts down beyond it.
LEMMA CheckEndpointStalenessKeeps ==
  ASSUME IInv, checkEndpointStaleness
  PROVE  IInv'
<1>1. pc = "serve" /\ endpointGen <= MaxGen /\ UNCHANGED <<endpointDown, tumble>>
  BY Zenon DEF checkEndpointStaleness, channelVars
<1>2. CASE /\ shutdown("unavailable", sock)
           /\ serveFrame /\ UNCHANGED <<loop, clientLoop, clientCode, countVars>>
  <2>1. ShutWith(sock)
    BY <1>2, ShutdownHere, Zenon
  <2>2. UNCHANGED <<pc, reconnector, clientCode, endpointGen, endpointConn, loop, bound, gauge,
                    lifecycle, cut, consecutiveStallRebinds, quietRebinds>>
    BY <1>2, Zenon DEF serveFrame, rebindVars, countVars, bindVars
  <2>3. clientCode \in ClientCodes /\ loop \in [Gens -> LoopStates]
    BY LoopsKnown, Zenon
  <2>4. Typed' /\ GensOK' /\ ConnOK' /\ ShutOK' /\ BooksOK'
    BY <1>1, <2>1, <2>2, <2>3, ShutKeeps, Zenon
  <2>. QED  BY <2>2, <2>4, Zenon DEF IInv, CountsOK
<1>3. CASE /\ consecutiveStallRebinds < maxConsecutiveStallRebinds
           /\ consecutiveStallRebinds' = consecutiveStallRebinds + 1
           /\ quietRebinds' = quietRebinds + 1
           /\ beginRebind("stall")
  <2>1. CountsOK'
    BY <1>3, BridgeAssumption DEF IInv, CountsOK
  <2>2. endpointGen <= MaxGen + 1
    BY <1>1, GenKnown
  <2>. QED  BY <1>1, <1>3, <2>1, <2>2, RebindKeeps, Zenon DEF IInv
<1>. QED  BY <1>2, <1>3, Zenon DEF checkEndpointStaleness

\* The session watchdog.
LEMMA CheckBoundSessionExpiryKeeps ==
  ASSUME IInv, checkBoundSessionExpiry
  PROVE  IInv'
<1>1. pc = "serve" /\ UNCHANGED <<endpointDown, tumble, consecutiveStallRebinds, quietRebinds>>
  BY Zenon DEF checkBoundSessionExpiry, channelVars
<1>2. CountsOK'
  BY <1>1, Zenon DEF IInv, CountsOK
<1>3. CASE NotShut(sock) /\ serveFrame /\ UNCHANGED <<loop, clientLoop, clientCode>>
  <2>1. UNCHANGED <<pc, reconnector, clientCode, ctxDone, shut, entry, clientSock, sock, endpointGen,
                    endpointConn, loop, bound, gauge, lifecycle, cut>>
    BY <1>3, Zenon DEF NotShut, serveFrame, rebindVars, shutdownVars, bindVars
  <2>2. clientCode \in ClientCodes /\ loop \in [Gens -> LoopStates]
    BY LoopsKnown, Zenon
  <2>. QED  BY <1>1, <1>2, <2>1, <2>2, QuietKeeps, Zenon DEF IInv
<1>4. CASE endpointGen < MaxGen /\ beginRebind("expired")
  <2>1. endpointGen <= MaxGen + 1 /\ endpointGen <= MaxGen
    BY <1>4, GenKnown
  <2>. QED  BY <1>1, <1>2, <1>4, <2>1, RebindKeeps, Zenon DEF IInv
<1>. QED  BY <1>3, <1>4, Zenon DEF checkBoundSessionExpiry

-----------------------------------------------------------------------------
\* The invariant holds at the start,
LEMMA InitIsSound == Init => IInv
<1> SUFFICES ASSUME Init PROVE IInv
  OBVIOUS
<1> USE BridgeAssumption DEF Init, Gens, NoGen, Rebinding, SockStates, LoopStates, Off, Held
<1>1. Typed
  BY SMTT(30) DEF Typed, ClientCodes
<1>2. GensOK
  BY SMTT(30) DEF GensOK
<1>3. ConnOK
  BY SMTT(30) DEF ConnOK
<1>4. ShutOK /\ CountsOK
  BY DEF ShutOK, CountsOK
<1>5. BooksOK
  BY DEF BooksOK, Booked, Credit
<1>. QED  BY <1>1, <1>2, <1>3, <1>4, <1>5, Zenon DEF IInv

\* is about the variables only,
LEMMA StutterKeeps ==
  ASSUME IInv, UNCHANGED vars
  PROVE  IInv'
<1>1. UNCHANGED <<pc, reconnector, clientCode, ctxDone, shut, entry, clientSock, sock, endpointGen,
                  endpointConn, loop, endpointDown, tumble, bound, gauge, lifecycle, cut,
                  consecutiveStallRebinds, quietRebinds>>
  BY Zenon DEF vars, connVars, channelVars, countVars, bindVars, rebindVars, shutdownVars
<1>2. clientCode \in ClientCodes /\ loop \in [Gens -> LoopStates]
  BY LoopsKnown, Zenon
<1>3. Typed' /\ GensOK' /\ ConnOK' /\ ShutOK' /\ BooksOK'
  BY <1>1, <1>2, QuietKeeps, Zenon
<1>. QED  BY <1>1, <1>3, Zenon DEF IInv, CountsOK

\* is kept by every step,
LEMMA NextKeeps == IInv /\ [Next]_vars => IInv'
<1> SUFFICES ASSUME IInv, [Next]_vars PROVE IInv'
  OBVIOUS
<1>1. ConnLoops => IInv'
  BY EndpointFailsKeeps, ClientLoopEndsKeeps, EndpointLoopStopsKeeps, Zenon DEF ConnLoops
<1>2. Course => IInv'
  BY StartBridgeKeeps, SelectEndpointKeeps, DialEndpointKeeps, ReplaySubscriptionsKeeps,
     ContextEndsKeeps, ReportLifecycleKeeps, Zenon DEF Course
<1>. QED
  BY <1>1, <1>2, ReadFrameKeeps, HandleClientMessageKeeps, HandleEndpointMessageKeeps,
     HandleEndpointDownKeeps, HandleAdminTumbleKeeps, CheckEndpointStalenessKeeps,
     CheckBoundSessionExpiryKeeps, CheckIdleConnectionKeeps, CloseKeeps, WorldActsKeeps,
     StutterKeeps, Zenon DEF Next

\* and so holds always.
LEMMA Inductive == Spec => []IInv
BY InitIsSound, NextKeeps, PTL DEF Spec

\* However peers, watchdogs, operators and the gateway's shutdown interleave, at most one
\* endpoint connection is open, and a bridge that has ended leaves no socket behind unless Close
\* found it between two connections (shutdown, handleEndpointDown).
THEOREM SocketsClosed == Spec => []SocketsAreClosed
<1>1. IInv => SocketsAreClosed
  <2> SUFFICES ASSUME IInv PROVE SocketsAreClosed
    OBVIOUS
  <2>1. ASSUME NEW g \in Gens, NEW h \in Gens, {sock[g], sock[h]} \cap {"none", "closed"} = {}
        PROVE  g = h
    <3>1. sock[g] \notin Off /\ sock[h] \notin Off
      BY <2>1, Zenon DEF Off
    <3>. QED  BY <3>1, Zenon DEF IInv, ConnOK
  <2>2. ASSUME pc = "ended", ~cut
        PROVE  clientSock = "closed" /\ \A g \in Gens : sock[g] \in {"none", "closed"}
    BY <2>2, Zenon DEF IInv, ShutOK, Off
  <2>. QED  BY <2>1, <2>2, Zenon DEF SocketsAreClosed
<1>. QED  BY <1>1, Inductive, PTL

\* Registry, gauge and stall count follow the binding of the connection through every
\* interleaving of rebinds, failed dials, late reports and shutdowns (updateBinding,
\* MoveWebsocketConnection, checkEndpointStaleness).
THEOREM BooksFollow == Spec => []BooksFollowBinding
<1>1. IInv => BooksFollowBinding
  <2> SUFFICES ASSUME IInv PROVE BooksFollowBinding
    OBVIOUS
  <2>1. pc = "serve" /\ entry # NoDomain => entry = Operator[bound]
    BY Zenon DEF IInv, BooksOK
  <2>2. lifecycle = "established" =>
          gauge = [o \in Operators |-> IF o = Operator[bound] THEN 1 ELSE 0]
    BY Zenon DEF IInv, BooksOK, Booked, Credit
  <2>3. lifecycle = "closed" => gauge = [o \in Operators |-> 0]
    BY Zenon DEF IInv, BooksOK, Booked
  <2>4. quietRebinds <= maxConsecutiveStallRebinds
    BY BridgeAssumption DEF IInv, CountsOK
  <2>. QED  BY <2>1, <2>2, <2>3, <2>4, Zenon DEF BooksFollowBinding
<1>. QED  BY <1>1, Inductive, PTL

\* What the client must be told.
RightlyTold ==
  \/ clientCode = 0 /\ sent' = 1012
  \/ clientCode \in {1005, 1006} /\ sent' = 1011
  \/ clientCode \notin {0, 1005, 1006} /\ sent' = clientCode

\* Whoever ends a bridge in the middle of a rebind, the client is told to reconnect, or gets
\* the code it closed with as far as that may be sent, never that of the connection that was
\* lost (handleEndpointDown, determineCloseCode, sanitizeCloseCode).
THEOREM FailedRebinds == Spec => FailedRebindAsksToReconnect
<1>1. ASSUME IInv, [Next]_vars, Rebinding, ~shut, shut'
      PROVE  RightlyTold
  <2>0. pc \in {"select", "dial", "replay"} /\ endpointConn = NoGen /\ clientCode \in ClientCodes
    BY <1>1 DEF IInv, ConnOK, Typed, Rebinding
  <2>1. ASSUME NEW cause \in {"gateway", "unavailable"}, NEW socks, shutdown(cause, socks)
        PROVE  RightlyTold
    <3>1. sent' = sanitizeCloseCode(determineCloseCode(cause))
      BY <1>1, <2>0, <2>1 DEF shutdown
    <3>2. determineCloseCode(cause) = IF clientCode = 0 THEN 1012 ELSE clientCode
      BY <2>0, <2>1 DEF determineCloseCode
    <3>3. clientCode # 1015
      BY <2>0 DEF ClientCodes
    <3>. QED  BY <3>1, <3>2, <3>3, SMT DEF sanitizeCloseCode, RightlyTold
  <2>2. ASSUME NEW socks, NotShut(socks)
        PROVE  FALSE
    BY <1>1, <2>2, Zenon DEF NotShut, shutdownVars
  <2>3. CASE Close
    BY <2>1, <2>3, Zenon DEF Close
  <2>11. attemptFails => RightlyTold
    <3>1. attemptFails => shutdown("unavailable", sock) \/ NotShut(sock)
      BY Zenon DEF attemptFails
    <3>. QED  BY <2>1, <2>2, <3>1, Zenon
  <2>4. CASE selectEndpoint
    <3>1. shutdown("unavailable", sock) \/ attemptFails \/ NotShut(sock)
      BY <2>4, Zenon DEF selectEndpoint
    <3>. QED  BY <2>1, <2>2, <2>11, <3>1, Zenon
  <2>5. CASE dialEndpoint
    <3>1. attemptFails \/ NotShut([sock EXCEPT ![endpointGen + 1] = "open"])
      BY <2>5, Zenon DEF dialEndpoint
    <3>. QED  BY <2>2, <2>11, <3>1, Zenon
  <2>6. CASE replaySubscriptions
    <3>1. \/ shutdown("unavailable", [sock EXCEPT ![endpointGen + 1] = "closed"])
          \/ UNCHANGED shut
      BY <2>6, Zenon DEF replaySubscriptions
    <3>. QED  BY <1>1, <2>1, <3>1, Zenon
  <2>7. CASE ConnLoops \/ readFrame
    <3>1. clientLoopEnds => UNCHANGED shut
      BY Zenon DEF clientLoopEnds, loopFrame
    <3>2. endpointLoopStops => UNCHANGED shut
      BY Zenon DEF endpointLoopStops, loopFrame
    <3>3. \A g \in Gens : endpointFails(g) => UNCHANGED shut
      BY SMT DEF endpointFails, loopFrame
    <3>4. readFrame => UNCHANGED shut
      BY Zenon DEF readFrame, loopFrame
    <3>. QED  BY <1>1, <2>7, <3>1, <3>2, <3>3, <3>4, Zenon DEF ConnLoops
  <2>8. CASE reportLifecycle \/ worldActs
    BY <1>1, <2>2, <2>8, Zenon DEF reportLifecycle, worldActs
  <2>9. CASE UNCHANGED vars
    BY <1>1, <2>9, Zenon DEF vars, shutdownVars
  <2>10. \/ Close \/ selectEndpoint \/ dialEndpoint \/ replaySubscriptions \/ ConnLoops \/ readFrame
         \/ reportLifecycle \/ worldActs \/ UNCHANGED vars
    <3>1. pc # "setup" /\ pc # "serve"
      BY <2>0
    <3>2. ~ StartBridge /\ ~ contextEnds
      BY <3>1, Zenon DEF StartBridge, contextEnds
    <3>3. ~ handleClientMessage /\ ~ handleEndpointMessage
      BY <3>1, Zenon DEF handleClientMessage, handleEndpointMessage
    <3>4. ~ handleEndpointDown /\ ~ handleAdminTumble
      BY <3>1, Zenon DEF handleEndpointDown, handleAdminTumble
    <3>5. ~ checkEndpointStaleness /\ ~ checkBoundSessionExpiry /\ ~ checkIdleConnection
      BY <3>1, Zenon DEF checkEndpointStaleness, checkBoundSessionExpiry, checkIdleConnection
    <3>. QED  BY <1>1, <3>2, <3>3, <3>4, <3>5, ZenonT(30) DEF Next, Course
  <2>. QED  BY <2>3, <2>4, <2>5, <2>6, <2>7, <2>8, <2>9, <2>10, Zenon
<1>2. IInv /\ [Next]_vars =>
        [Rebinding /\ ~shut /\ shut' => RightlyTold]_vars
  BY <1>1, Zenon
<1>. QED  BY <1>2, Inductive, PTL DEF Spec, FailedRebindAsksToReconnect, RightlyTold
=============================================================================
