-------------------------- MODULE ConcentrationCap --------------------------
(***************************************************************************)
(* Which endpoint a pool of valid ones yields (qos/selector), for a first  *)
(* relay, for a retry or hedge (selectTopRankedEndpoint) and for a         *)
(* websocket that is bound anew (websocket_context.go): backends are       *)
(* weighted by min(registrations, K), the weights of an operator are       *)
(* summed, and the sums are water-filled so that no operator holds more    *)
(* than a share of the pool. A parallel request then takes several         *)
(* endpoints, one operator each while there are operators left.            *)
(*                                                                         *)
(* The code computes with floats; the model computes the same weights      *)
(* exactly, as integers over a common denominator. Shares are 20ths. A     *)
(* random pick is any endpoint of positive weight.                         *)
(***************************************************************************)
EXTENDS Integers, FiniteSets, FiniteSetsExt, TLC

CONSTANTS
    Pools,          \* the pools of valid endpoints a selection may meet,
                    \* [endpoints, score]: with their reputation scores
    Fallback,       \* the endpoints that are fallbacks
    Tld,            \* Tld[e]: its eTLD+1, "" when it cannot be resolved
    Backend,        \* Backend[e]: its backend URL
    FleetCaps,      \* values of the process-wide K, 0 = uncapped
    ServiceCaps,    \* values of a service's own K, 0 = none
    Shares,         \* max operator shares, in 20ths
    MaxParallel     \* the most endpoints one request asks for

VARIABLES
    settings,       \* the selection switches and settings in force
    score,          \* the candidates' reputation scores
    remaining,      \* the pool still to pick from
    picked,         \* endpoints selected so far
    wanted,         \* numEndpoints
    outcome         \* of a one-endpoint selection: BandCapOutcome

vars == <<settings, score, remaining, picked, wanted, outcome>>

Whole == 20
infeasibleCapFallbackShare == 13
DisplacementMultiple == 3
retryHedgeScoreEpsilon == 2

SettingsType ==
    [dedup : BOOLEAN, capServingPick : BOOLEAN, capRetryHedge : BOOLEAN, forcesUniform : BOOLEAN,
     share : Shares, fleetCap : FleetCaps, serviceCap : ServiceCaps]

operatorKey(e) == IF Tld[e] = "" THEN e ELSE Tld[e]

Operators(pool) == {operatorKey(e) : e \in pool}

Of(pool, o) == {e \in pool : operatorKey(e) = o}

-----------------------------------------------------------------------------
(* Settings *)

\* effectiveWeightCap: a service's K overrides the fleet's, and both are
\* off with the backend-URL dedup. A band pick names no service.
effectiveWeightCap(ofService) ==
    CASE ~settings.dedup -> 0
      [] ofService /\ settings.serviceCap > 0 -> settings.serviceCap
      [] OTHER -> settings.fleetCap

backendWeight(registrations, k) ==
    IF k > 0 /\ registrations > k THEN k ELSE registrations

\* groupPool: an operator's weight units over its distinct backends.
Units(pool, k, o) ==
    MapThenSumSet(
        LAMBDA b : backendWeight(Cardinality({e \in Of(pool, o) : Backend[e] = b}), k),
        {Backend[e] : e \in Of(pool, o)})

TotalUnits(pool, k) == MapThenSumSet(LAMBDA o : Units(pool, k, o), Operators(pool))

-----------------------------------------------------------------------------
(* The water-fill, over a denominator every weight shares *)

\* Weights, cap and ceilings before the fill, times Whole * units * entries.
Held(pool, k) ==
    [o \in Operators(pool) |-> Units(pool, k, o) * Whole * Cardinality(pool)]

CapOf(pool, k, share) == share * TotalUnits(pool, k) * Cardinality(pool)

Ceiling(pool, k) ==
    [o \in Operators(pool) |->
        Max({Held(pool, k)[o],
             DisplacementMultiple * Cardinality(Of(pool, o)) * Whole * TotalUnits(pool, k)})]

Room(held, cap, ceiling) ==
    [o \in DOMAIN held |->
        IF held[o] > cap THEN 0 ELSE Max({0, Min({cap, ceiling[o]}) - held[o]})]

\* Mutant: what the others cannot absorb is dropped, not given back.
waterFillDropsRest(held, cap, ceiling) ==
    LET room == Room(held, cap, ceiling)
        roomSum == MapThenSumSet(LAMBDA o : room[o], DOMAIN held)
        excess == MapThenSumSet(LAMBDA o : Max({0, held[o] - cap}), DOMAIN held)
        absorbed == Min({excess, roomSum})
    IN  IF excess = 0 \/ roomSum = 0 THEN [w |-> held, unit |-> 1]
        ELSE [unit |-> roomSum * excess,
              w |-> [o \in DOMAIN held |->
                       IF held[o] > cap
                       THEN cap * roomSum * excess
                       ELSE held[o] * roomSum * excess + absorbed * room[o] * excess]]

\* waterFillToCap. One pass decides: either the whole excess is absorbed and
\* the operators over the cap are at it, or every other is at its limit and
\* the next pass finds no room. "unit" is the denominator the pass adds.
waterFillToCap(held, cap, ceiling) ==
    LET room == Room(held, cap, ceiling)
        roomSum == MapThenSumSet(LAMBDA o : room[o], DOMAIN held)
        excess == MapThenSumSet(LAMBDA o : Max({0, held[o] - cap}), DOMAIN held)
        absorbed == Min({excess, roomSum})
    IN  IF excess = 0 \/ roomSum = 0 THEN [w |-> held, unit |-> 1]
        ELSE [unit |-> roomSum * excess,
              w |-> [o \in DOMAIN held |->
                       IF held[o] > cap
                       THEN cap * roomSum * excess
                              + (held[o] - cap) * (excess - absorbed) * roomSum
                       ELSE held[o] * roomSum * excess + absorbed * room[o] * excess]]

capEnabled(pool, share) == Cardinality(Operators(pool)) > 1 /\ 0 < share /\ share < Whole

infeasible(pool, share) == share * Cardinality(Operators(pool)) <= Whole

feasibleShare(pool, share) ==
    IF infeasible(pool, share) THEN infeasibleCapFallbackShare ELSE share

\* pickWeightedFromPools: the operators' weights, and whether the cap
\* altered them.
pickWeightedFromPools(pool, k, share) ==
    LET held == Held(pool, k)
        cap == CapOf(pool, k, feasibleShare(pool, share))
    IN  CASE capEnabled(pool, share) /\ infeasible(pool, share) /\ settings.forcesUniform
               -> [w |-> [o \in Operators(pool) |-> 1], unit |-> 1, reshaped |-> TRUE]
          [] capEnabled(pool, share) /\ (\E o \in Operators(pool) : held[o] > cap)
               /\ ~(infeasible(pool, share) /\ settings.forcesUniform)
               -> waterFillToCap(held, cap, Ceiling(pool, k)) @@ [reshaped |-> TRUE]
          [] OTHER -> [w |-> held, unit |-> 1, reshaped |-> FALSE]

\* weightedPick: any operator with weight.
weightedPick(fill) == {o \in DOMAIN fill.w : fill.w[o] > 0}

\* operatorPool.pickEndpoint and backendGroup.pick: any endpoint of the operator,
\* since every backend has a registration and so a weight of at least 1.
pickEndpoint(pool, o) == Of(pool, o)

Picks(pool, k, share) ==
    UNION {pickEndpoint(pool, o) : o \in weightedPick(pickWeightedFromPools(pool, k, share))}

-----------------------------------------------------------------------------
(* The selections *)

\* pickBackend with applyOperatorCap: the share of the service's settings,
\* when the dedup and the cap on the serving pick are both on.
servingShare ==
    IF settings.dedup /\ settings.capServingPick THEN settings.share ELSE 0

Init ==
    /\ settings \in SettingsType
    /\ \E pool \in Pools : remaining = pool.endpoints /\ score = pool.score
    /\ picked = {}
    /\ wanted \in 1..MaxParallel
    /\ outcome = "none"

Take(e) ==
    /\ picked' = picked \union {e}
    /\ remaining' = remaining \ {e}
    /\ UNCHANGED <<settings, score, wanted, outcome>>

\* SelectEndpointsWithDiversity, the first endpoint: the serving pick, from
\* the whole pool, under the cap.
FirstPick ==
    /\ picked = {} /\ outcome = "none"
    /\ \E e \in Picks(remaining, effectiveWeightCap(TRUE), servingShare) : Take(e)

\* selectEndpointWithDifferentTLD's filter; endpoints without a TLD share "".
differentTLD == {e \in remaining : Tld[e] \notin {Tld[p] : p \in picked}}

\* Mutant: the extra endpoints come from the whole pool.
AnyPick ==
    /\ picked # {} /\ outcome = "none"
    /\ Cardinality(picked) < wanted /\ remaining # {}
    /\ \E e \in remaining : Take(e)

\* The extra endpoints: an unused TLD while there is one, then any.
DiversePick ==
    /\ picked # {} /\ outcome = "none"
    /\ Cardinality(picked) < wanted /\ remaining # {}
    /\ LET pool == IF differentTLD # {} THEN differentTLD ELSE remaining
       IN  \E e \in Picks(pool, effectiveWeightCap(TRUE), 0) : Take(e)

One(candidates, result) ==
    /\ \E e \in candidates : picked' = {e} /\ remaining' = remaining \ {e}
    /\ outcome' = result
    /\ UNCHANGED <<settings, score, wanted>>

\* selectTopRankedEndpoint: the endpoints within epsilon of the best score.
TopScore(pool) == Max({score[e] : e \in pool})
TopBand == {e \in remaining : score[e] >= TopScore(remaining) - retryHedgeScoreEpsilon}

\* SelectBandWithConcentrationCap, on a band of equally ranked endpoints.
SelectBandWithConcentrationCap(band) ==
    LET k == effectiveWeightCap(FALSE)
        on == 0 < settings.share /\ settings.share < Whole
        uncapped == Picks(band, k, 0)
    IN  \/ ~on /\ One(uncapped, "disabled")
        \/ on /\ Cardinality(Operators(band)) = 1 /\ One(uncapped, "degraded_no_room")
        \/ /\ on /\ Cardinality(Operators(band)) > 1
           /\ One(Picks(band, k, settings.share),
                  IF pickWeightedFromPools(band, k, settings.share).reshaped
                  THEN "reshaped" ELSE "no_op")

\* pickFromBand: uniform over backends unless the cap is on for retries.
pickFromBand(band) ==
    IF settings.capRetryHedge THEN SelectBandWithConcentrationCap(band) ELSE One(band, "backend_uniform")

selectTopRankedEndpoint ==
    /\ picked = {} /\ outcome = "none"
    /\ IF Cardinality(remaining) = 1 THEN One(remaining, "only") ELSE pickFromBand(TopBand)

\* betterReconnectCandidate orders by fallback, then by score; reconnectTopBand
\* are the best under it.
betterReconnectCandidate(a, b) ==
    IF (a \in Fallback) # (b \in Fallback) THEN b \in Fallback ELSE score[a] > score[b]
reconnectTopBand == {e \in remaining : ~\E b \in remaining : betterReconnectCandidate(b, e)}

SelectWithConcentrationCap(band) ==
    One(Picks(band, effectiveWeightCap(TRUE), settings.share), "capped")

\* Every operator is as likely as another, and so is each of its endpoints.
SelectOperatorUniform(band) == One(band, "operator_uniform")

\* selectReconnectEndpointWithCap: a tie is broken by address when the cap is
\* off or there is nothing to spread, and by SelectWithConcentrationCap otherwise.
selectReconnectEndpointWithCap ==
    /\ picked = {} /\ outcome = "none"
    /\ IF Cardinality(reconnectTopBand) = 1 \/ settings.share <= 0 \/ settings.share >= Whole
       THEN One(reconnectTopBand, "best")
       ELSE SelectWithConcentrationCap(reconnectTopBand)

selectReconnectEndpointOperatorUniform ==
    /\ picked = {} /\ outcome = "none"
    /\ SelectOperatorUniform(reconnectTopBand)

Next ==
    \/ FirstPick
    \/ DiversePick
    \/ selectTopRankedEndpoint
    \/ selectReconnectEndpointWithCap
    \/ selectReconnectEndpointOperatorUniform

Spec == Init /\ [][Next]_vars

-----------------------------------------------------------------------------
(* Properties *)

Fill(k) == pickWeightedFromPools(remaining, k, settings.share)

\* The capped weights of any pool a selection meets: they still add up to
\* one, no candidate is priced out, nobody is handed more than three times
\* its registrations' share, and an operator is left over the cap only when
\* every other one is at its limit (waterFillToCap: "it keeps the remainder").
CapMovesOnlyExcess ==
    remaining # {} =>
        \A k \in FleetCaps \union ServiceCaps :
            LET fill == Fill(k)
                held == Held(remaining, k)
                cap == CapOf(remaining, k, feasibleShare(remaining, settings.share))
                room == Room(held, cap, Ceiling(remaining, k))
            IN  (fill.reshaped /\ ~(infeasible(remaining, settings.share) /\ settings.forcesUniform)) =>
                  /\ MapThenSumSet(LAMBDA o : fill.w[o], Operators(remaining))
                       = fill.unit * MapThenSumSet(LAMBDA o : held[o], Operators(remaining))
                  /\ \A o \in Operators(remaining) :
                       /\ fill.w[o] > 0
                       /\ fill.w[o] <= fill.unit * Max({held[o], Ceiling(remaining, k)[o]})
                       /\ held[o] <= cap => fill.w[o] \in
                            fill.unit * held[o] .. fill.unit * (held[o] + room[o])
                       /\ fill.w[o] > fill.unit * cap =>
                            \A p \in Operators(remaining) : held[p] <= cap =>
                                fill.w[p] = fill.unit * (held[p] + room[p])

\* The extra endpoints of a parallel request go to operators not used yet
\* while the pool has one (SelectEndpointsWithDiversity: "the pass above has
\* already spread them across operators by construction"). An endpoint whose
\* operator cannot be told is an operator of its own, but is passed over like a
\* used one once another such endpoint is picked: GetEndpointTLDs gives both "".
ParallelPicksSpread ==
    \A e \in picked' \ picked :
        (picked # {} /\ operatorKey(e) \in Operators(picked)) =>
            \A r \in remaining :
                \/ operatorKey(r) \in Operators(picked)
                \/ Tld[r] = "" /\ \E p \in picked : Tld[p] = ""
=============================================================================
