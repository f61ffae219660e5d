----------------------------- MODULE MCLearning -----------------------------
(***************************************************************************)
(* What the gateway learns from traffic, for TLC: which domains to break   *)
(* (DomainCircuitBreaker) and which label tuples to keep (CardinalityGuard),*)
(* both at the root of this module; what observations say, the verdict on a*)
(* response, the perceived block height and the request sampler. part      *)
(* explores one of them at a time.                                         *)
(***************************************************************************)
EXTENDS DomainCircuitBreaker, CardinalityGuard

VARIABLES
    part,
    family, registered, pruned, queue, running, uncounted, totals, synced, store, observed, phase,
    scope, perceived, window, external, graceOver, shared, writes, fetched, reset,
    fresh, late, reports, syncs,
    req, resp, native, stage, err, verdict,
    counter, samplerNow, calls, current, previous, gauge

CONSTANTS p1, p2

TwoPods == {p1, p2}

\* One pod with enough failures for a second, escalated break, an admin clear or a
\* Redis error; or two pods breaking the domain between them.
SmallFleets ==
  {[pods |-> {p1}, outcomes |-> 4, disruptions |-> 1],
   [pods |-> TwoPods, outcomes |-> 2, disruptions |-> 0]}
\* One pod, nothing failing.
OnePod == {[pods |-> {p1}, outcomes |-> 2, disruptions |-> 0]}

Item(method, params) == [method |-> method, params |-> params]
Bodies == {<<>>, <<Item("m1", "p")>>, <<Item("m1", "q"), Item("none", "p"), Item("m2", "p")>>}

-----------------------------------------------------------------------------
\* One worker, a queue of one and three responses.
Observation == INSTANCE ObservationPipeline WITH
    WorkerCount <- 1, QueueSize <- 1, MaxObs <- 3, counters <- totals, counting <- uncounted, seen <- observed
observationVars == <<family, registered, pruned, queue, running, uncounted, totals, synced, store, observed,
                     phase>>

\* Two pods. The EVM consensus meets an honest height, a misreport within the tolerated deviation
\* and one beyond it, with a floor or with a reset; the maxima one within a plausible jump and one
\* above the ceiling, with a floor, or resets of the whole fleet.
Scope(qos, heights, limits, floors, resets, reads) ==
  [flavour |-> qos, heights |-> heights, reports |-> [p1 |-> limits[1], p2 |-> limits[2]],
   fetched |-> {12}, floors |-> floors, resets |-> resets, syncs |-> reads]
HeightScopes ==
  {Scope("evm", {3, 5, 12}, <<3, 1>>, {"p1"}, {}, 1), Scope("evm", {3, 12}, <<3, 0>>, {"p1"}, {"p1"}, 1)}
    \cup {Scope(qos, {3, 12, 21}, <<2, 2>>, {"p2"}, {}, 1) : qos \in {"cosmos", "solana", "noop"}}
    \cup {Scope(qos, {3, 12}, <<1, 1>>, {}, {"p1", "p2"}, 2) : qos \in {"cosmos", "solana", "noop"}}
Heights == INSTANCE PerceivedHeight WITH
    Pods <- {"p1", "p2"}, Scopes <- HeightScopes, Honest <- {3}, SyncAllowance <- 1, MaxJump <- 9,
    MaxHeight <- 20, MaxWindow <- 3, redis <- shared
heightVars == <<scope, perceived, window, external, graceOver, shared, writes, fetched,
                reset, fresh, late, reports, syncs>>

\* What the two layers make of a response.
Verdict == INSTANCE Heuristics WITH
    Phrases <- {"bad gateway", "certificate", "relay limit reached", "invalid api key", "mdbx_panic",
                "is pruned", "lite fullnode", "lowest height"},
    MaxPhrases <- 2
verdictVars == <<req, resp, native, stage, err, verdict>>

\* Two callers, one request in two sampled, a table of one fingerprint.
Sampler == INSTANCE RequestSampler WITH
    Service <- {"s1", "s2"}, Caller <- {"c1", "c2"}, Body <- Bodies, Rate <- 2,
    MaxFingerprints <- 1, MaxRequests <- 4, MaxTime <- 2, now <- samplerNow
samplerVars == <<counter, samplerNow, calls, current, previous, gauge>>

\* One of the three families of a listed service, the EVM endpoint without historical state, or a
\* service that is not listed.
OneAspect ==
    /\ pruned <=> family = "evm"
    /\ ~registered => family = "cosmos"

\* Two observations show what becomes of a pair. Where nothing is read from them, they fill the pool
\* and a third is dropped.
Few == Observation!Offered <= 2 + IF registered THEN 0 ELSE totals.dropped + uncounted.dropped

\* The parts share no state. Those that are not explored stay at zero.
observationIdle == 
    /\ family = 0 /\ registered = 0 /\ pruned = 0 /\ queue = 0 /\ running = 0
    /\ uncounted = 0 /\ totals = 0 /\ synced = 0 /\ store = 0 /\ observed = 0 /\ phase = 0
heightIdle == 
    /\ scope = 0 /\ perceived = 0 /\ window = 0 /\ external = 0 /\ graceOver = 0
    /\ shared = 0 /\ writes = 0 /\ fetched = 0 /\ reset = 0 /\ fresh = 0 /\ late = 0
    /\ reports = 0 /\ syncs = 0
verdictIdle == 
    /\ req = 0 /\ resp = 0 /\ native = 0 /\ stage = 0 /\ err = 0 /\ verdict = 0
samplerIdle == 
    /\ counter = 0 /\ samplerNow = 0 /\ calls = 0 /\ current = 0 /\ previous = 0
    /\ gauge = 0
InBreaker(A) == part = "breaker" /\ A /\ UNCHANGED <<part, observationVars, heightVars, verdictVars,
        samplerVars, guardVars>>
InObservation(A) == part = "observation" /\ A /\ UNCHANGED <<part, vars, heightVars, verdictVars,
        samplerVars, guardVars>>
InHeight(A) == part = "height" /\ A /\ UNCHANGED <<part, vars, observationVars, verdictVars,
        samplerVars, guardVars>>
InVerdict(A) == part = "verdict" /\ A /\ UNCHANGED <<part, vars, observationVars, heightVars,
        samplerVars, guardVars>>
InSampler(A) == part = "sampler" /\ A /\ UNCHANGED <<part, vars, observationVars, heightVars,
        verdictVars, guardVars>>
InGuard(A) == part = "guard" /\ A /\ UNCHANGED <<part, vars, observationVars, heightVars,
        verdictVars, samplerVars>>

MCInit ==
    /\ part \in {"breaker", "observation", "height", "verdict", "sampler", "guard"}
    /\ Init /\ (part # "breaker" => pods = TwoPods)
    /\ IF part = "observation" THEN Observation!Init /\ OneAspect ELSE observationIdle
    /\ IF part = "height" THEN Heights!Init ELSE heightIdle
    /\ IF part = "verdict" THEN Verdict!Init ELSE verdictIdle
    /\ IF part = "sampler" THEN Sampler!Init ELSE samplerIdle
    /\ GuardInit

MCNext ==
    \/ InBreaker(Next)
    \/ InObservation(Observation!Next /\ Few')
    \/ InHeight(Heights!Next)
    \/ InVerdict(Verdict!Next)
    \/ InSampler(Sampler!Next)
    \/ InGuard(GuardNext)

mcVars == <<part, vars, observationVars, heightVars, verdictVars, samplerVars, guardVars>>
MCSpec == MCInit /\ [][MCNext]_mcVars

-----------------------------------------------------------------------------
\* An endpoint that answers the way its protocol says is never stored as behind, syncing or
\* archival without proof (the extractors of EVM and Solana gate on the method), and once Stop
\* has returned, every observation the pool accepted has been processed (StopAndWait).
ObservationsAreSound ==
  part = "observation" => /\ Observation!HonestStaysEligible
                          /\ Observation!CurrentStateProvesNothing
                          /\ Observation!AcceptedAreProcessed

\* The rule that an empty result is garbage should not catch "valid CometBFT responses"
\* (cosmos/extractor.go).
CosmosHonestStaysEligible == part = "observation" => Observation!CosmosHonestStaysEligible

\* While misreports are a minority of the window, an EVM pod perceives an honest height of it,
\* up to the tolerated deviation, or the external floor, although the window holds other pods'
\* conclusions too (calculateMedian); the packages with a ceiling never pass it, and those that keep
\* a maximum forget it once every pod has been reset, but for what writes and syncs carried across
\* a reset (DeletePerceivedBlockNumber).
HeightsAreCredible ==
  [][part = "height" => /\ Heights!MinorityIsOutvoted
                        /\ Heights!CeilingHolds' /\ Heights!MaximumIsForgotten']_mcVars

\* Whatever the gateway exempts from penalty, the protocol layer exempts too
\* (classifyMalformedPayloadAsSignal: "mirror it here"), and no tier takes an honest JSON-RPC
\* answer for a supplier's fault (Analyze).
VerdictsAreFair == part = "verdict" => Verdict!ExemptionsAgree /\ Verdict!HonestAnswersPass

\* Overflow of the fingerprint table only makes traffic look more diverse (recordLocked).
DistinctNeverUnderstates == part = "sampler" => Sampler!DistinctNeverUnderstates
=============================================================================
