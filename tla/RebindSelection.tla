--------------------------- MODULE RebindSelection ---------------------------
(***************************************************************************)
(* protocol/shannon/websocket_context.go: which endpoint of the current       *)
(* session a websocket connection may be rebound to.  The tied-best band and   *)
(* the spread over operators depend on reputation scores, which are arbitrary *)
(* here: any candidate may be the best one.                                 *)
(***************************************************************************)
EXTENDS Naturals

CONSTANTS
  Endpoints,
  Backend, Operator,    \* of each endpoint: its URL, and the operator (eTLD+1) of that URL
  Rotate                \* operator-uniform spreading or the concentration cap is on

\* rebindAvoidScope, nested: each scope excludes at least what the one before it does
avoidNothing == 0
avoidBoundEndpoint == 1
avoidBoundBackend == 2
avoidBoundOperator == 3

ASSUME SelectionAssumption ==
  /\ Rotate \in BOOLEAN
  /\ \A a, b \in Endpoints : Backend[a] = Backend[b] => Operator[a] = Operator[b]

excludedByScope(e, bound, scope) ==
  \/ scope = avoidBoundOperator /\ Operator[e] = Operator[bound]
  \/ scope = avoidBoundBackend /\ Backend[e] = Backend[bound]
  \/ scope = avoidBoundEndpoint /\ e = bound

Survivors(candidates, bound, scope) == {e \in candidates : ~excludedByScope(e, bound, scope)}

\* The scope that is applied: the widest one up to want that leaves a candidate.
applyAvoidScope(candidates, bound, want) ==
  LET usable == {s \in avoidBoundEndpoint .. want : Survivors(candidates, bound, s) # {}}
  IN  IF usable = {} THEN avoidNothing ELSE CHOOSE s \in usable : \A t \in usable : t <= s

\* The endpoints chooseRebindEndpoint may return; none when it returns an error.
chooseRebindEndpoint(candidates, bound, want) ==
  IF want > avoidNothing
  THEN LET applied == applyAvoidScope(candidates, bound, want)
       IN  IF applied = avoidNothing THEN {} ELSE Survivors(candidates, bound, applied)
  ELSE IF ~Rotate /\ bound \in candidates THEN {bound} ELSE candidates
=============================================================================
