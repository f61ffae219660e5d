---------------------------- MODULE MCRelayRequest ----------------------------
(***************************************************************************)
(* HandleRelayRequest for TLC.  A request takes one of three paths, by the    *)
(* number of its payloads and of its protocol contexts: the retry loop, the   *)
(* batch fan-out or the parallel race.  mode says which: the retry loop is     *)
(* RelayRetry, at the root of this module; the others are instances.  Mode     *)
(* "race" is the hedge race inside an attempt, step by step (Hedge); the paths *)
(* use what it promises: one result, a valid one if there is one.            *)
(***************************************************************************)
EXTENDS RelayRetry, Hedge

VARIABLES
  mode,
  pathDone, pathBroken, pathMarked, pathLookups, pathChan, pathLatest,  \* the batch and the parallel race
  handler, next, sem, item, results, qosUpdates,                        \* the batch
  ctx, branch, numFailed, outcome, winner                               \* the parallel race

batchVars == <<handler, next, sem, item, results, qosUpdates>>
parallelVars == <<ctx, branch, numFailed, outcome, winner>>
pathVars == <<pathDone, pathBroken, pathMarked, pathLookups, pathChan, pathLatest, batchVars, parallelVars>>
mcVars == <<mode, vars, pathVars, hedgeVars>>

-----------------------------------------------------------------------------
(* The instances                                                            *)

\* Two payloads at once, hedged, without retries.
Wide == INSTANCE BatchRelay WITH
  Endpoints <- {"a1", "b1"}, MaxRetries <- 0, NumPayloads <- 2, MaxBatchPayloads <- 2,
  MaxConcurrentRelays <- 2, HedgeMaxBatchSize <- 0, HedgeEnabled <- TRUE, FailedLookups <- 0,
  ctxDone <- pathDone, broken <- pathBroken, marked <- pathMarked, lookups <- pathLookups,
  resultChan <- pathChan

\* Two payloads one after the other, hedging suppressed by the batch size, two retries.
Deep == INSTANCE BatchRelay WITH
  Endpoints <- {"a1", "b1", "c1"}, MaxRetries <- 2, NumPayloads <- 2, MaxBatchPayloads <- 0,
  MaxConcurrentRelays <- 1, HedgeMaxBatchSize <- 1, HedgeEnabled <- TRUE, FailedLookups <- 1,
  ctxDone <- pathDone, broken <- pathBroken, marked <- pathMarked, lookups <- pathLookups,
  resultChan <- pathChan

\* Two parallel requests over two endpoints.
Parallel == INSTANCE ParallelRelay WITH
  Endpoints <- {"a1", "b1"}, RetryOn <- {"5xx", "connection"}, MaxRetries <- 1, NumRequests <- 2, FailedLookups <- 1,
  marked <- pathMarked, lookups <- pathLookups, resultChan <- pathChan, latest <- pathLatest

-----------------------------------------------------------------------------
\* The variables of the other paths are not used.
IdleSingle == Init /\ ~hedging /\ broken = {}
IdleBatch == handler = "rejected" /\ next = 0 /\ sem = 0 /\ item = 0 /\ results = 0 /\ qosUpdates = 0
IdleParallel ==
  /\ ctx = "done" /\ branch = [b \in Parallel!Branches |-> Parallel!Over]
  /\ numFailed = 0 /\ outcome = 0 /\ winner = 0
IdlePath ==
  /\ pathDone = FALSE /\ pathBroken = {} /\ pathMarked = {} /\ pathLookups = 0 /\ pathChan = << >>
  /\ pathLatest = {} /\ IdleBatch /\ IdleParallel

\* The circuit breaker reports at most one host to the retry loop, and none to a hedged one,
\* of which nothing is claimed that depends on it.
FewBroken == Cardinality(broken) <= IF hedging THEN 0 ELSE 1

MCInit ==
  /\ HedgeInit
  /\ \/ mode = "single" /\ Init /\ FewBroken /\ IdlePath
     \/ mode = "wide" /\ Wide!Init /\ pathLatest = {} /\ IdleSingle /\ IdleParallel
     \/ mode = "deep" /\ Deep!Init /\ pathLatest = {} /\ IdleSingle /\ IdleParallel
     \/ mode = "parallel" /\ Parallel!Init /\ IdleSingle /\ IdleBatch /\ pathDone = FALSE /\ pathBroken = {}
     \/ mode = "race" /\ IdleSingle /\ IdlePath

Single(A) == A /\ UNCHANGED <<mode, pathVars, hedgeVars>>
Batch(A) == A /\ UNCHANGED <<mode, vars, pathLatest, parallelVars, hedgeVars>>
Several(A) == A /\ UNCHANGED <<mode, vars, pathDone, pathBroken, batchVars, hedgeVars>>
InRace(A) == mode = "race" /\ A /\ UNCHANGED <<mode, vars, pathVars>>

MCNext ==
  \/ mode = "single" /\ Single(Next /\ FewBroken')
  \/ mode = "wide" /\ Batch(Wide!Next)
  \/ mode = "deep" /\ Batch(Deep!Next)
  \/ mode = "parallel" /\ Several(Parallel!Next)
  \/ mode = "parallel" /\ Parallel!AllOver /\ UNCHANGED mcVars
  \/ InRace(HedgeNext)

\* The goroutines of the path keep moving: every relay and every race is bounded by a
\* timeout of its own. Only the parallel race counts on its deadline.
Progress ==
  \/ mode = "single" /\ Single(Step /\ FewBroken')
  \/ mode = "wide" /\ Batch(Wide!collect \/ \E i \in Wide!Items : Wide!ItemStep(i))
  \/ mode = "deep" /\ Batch(Deep!collect \/ \E i \in Deep!Items : Deep!ItemStep(i))
  \/ mode = "parallel" /\ Several(Parallel!Next)

\* The hedge race has the fairness of Hedge.
MCSpec ==
  /\ MCInit /\ [][MCNext]_mcVars
  /\ WF_mcVars(Progress)
  /\ WF_mcVars(InRace(Race)) /\ WF_mcVars(InRace(Cleanup))
  /\ WF_mcVars(InRace(callerCancels)) /\ WF_mcVars(InRace(Tick))

-----------------------------------------------------------------------------
(* Properties, beside those of RelayRetry and Hedge                          *)

\* The batch and the parallel race keep the rules of the retry loop: no domain is broken on
\* account of a client that left, of a backend's 4xx, of a capability limitation or of
\* over-servicing (shouldCircuitBreak and the guards around its callers), and the second
\* capability limitation ends the attempts of a batch item. A batch item is held to it when its
\* hedging is suppressed, and not for a 4xx of the relay miner, whose status it does not look at.
OtherPathsAgree ==
  /\ mode = "deep" => Deep!OnlyFaultsBreakDomains /\ Deep!CapabilityRetriedOnce
  /\ mode = "parallel" => Parallel!OnlyFaultsBreakDomains

\* Every request ends on each path, be it by an answer, the end of its retries or its deadline
\* (handleSingleRelayRequest, handleBatchRelayRequest, handleParallelRelayRequests), a batch with
\* the payloads' results handed on once and in their order, none missing but for a payload whose
\* endpoints were all broken at the start.  Every hedge race ends
\* and releases the contexts of its branches, none of them while a branch still runs inside the
\* grace window (cleanupRunningBranches).
RequestEnds ==
  /\ <>(/\ mode = "single" => Finished
        /\ mode = "wide" => handler = "rejected" \/ (handler = "done" /\ Wide!ResultsInPayloadOrder)
        /\ mode = "deep" => handler = "rejected" \/ (handler = "done" /\ Deep!ResultsInPayloadOrder)
        /\ mode = "parallel" => Parallel!AllOver
        /\ mode = "race" => hedgePc = "returned" /\ released)
  /\ [][LosersFinishCleanly]_hedgeVars

\* "Processes the first successful endpoint's response using the QoS context" (the comment of
\* handleParallelRelayRequests): the response written to the client is the winner's.
ClientGetsTheWinner == [][mode = "parallel" => Parallel!ClientGetsTheWinner]_mcVars

\* Operator x has an apex host and a subdomain, operators y and z one host each.
HostOf == [a1 |-> "x", a2 |-> "s.x", b1 |-> "y", c1 |-> "z"]
OperatorOf == [a1 |-> "x", a2 |-> "x", b1 |-> "y", c1 |-> "z"]

\* In the hedge race: two endpoints of one operator, one of another and one without a domain.
RaceDomains == [a1 |-> "A", a2 |-> "A", b |-> "B", raw |-> ""]
=============================================================================
