--------------------------- MODULE PerceivedHeight ---------------------------
(***************************************************************************)
(* The perceived block height of one service: what every replica (pod)     *)
(* believes the chain tip to be, against which an endpoint's height is     *)
(* compared before the endpoint is selected.                               *)
(*                                                                         *)
(* Four QoS packages keep one.  evm runs a median-anchored consensus over  *)
(* a window of observations (block_consensus.go); cosmos, solana and noop  *)
(* keep a maximum.  All of them mirror the value to Redis, where the       *)
(* highest write wins, read it back on a ticker, accept an external floor, *)
(* and are reset pod by pod through the admin endpoint.  The writes to     *)
(* Redis are goroutines of their own, so they land late and in any order;  *)
(* a sync reads Redis and applies the value in two steps, and a reset      *)
(* clears the memory of the pod and the value in Redis in two steps.       *)
(* That two evm observations may store their conclusions in the other      *)
(* order is left out: perceived is what the consensus concluded last.      *)
(*                                                                         *)
(* Heights are small numbers in scale: SyncAllowance < MaxJump < MaxHeight *)
(* stand for the allowance, MaxBlockHeightJump and MaxPlausibleBlockHeight.*)
(* Honest heights lie in Honest; the others of Reports are misreports.     *)
(***************************************************************************)
EXTENDS Integers, FiniteSets, Sequences, SequencesExt, FiniteSetsExt

CONSTANTS
    Pods,            \* replicas of the gateway
    Honest,          \* the heights of Reports that are really on the chain
    SyncAllowance,   \* blocks an endpoint may trail by
    MaxJump,         \* MaxBlockHeightJump
    MaxHeight,       \* MaxPlausibleBlockHeight
    MaxWindow,       \* bound: observations kept in the window (1000 in the code)
    Scopes           \* bounds: the QoS package of the instance with the heights reported,
                     \* how many to each pod, the heights and pods of the external
                     \* fetcher, the pods the admin resets and the syncs that read a value

VARIABLES
    scope,       \* one of Scopes
    perceived,   \* perceivedBlockNumber, per pod
    window,      \* observations of the consensus, oldest first (evm)
    external,    \* externalBlockHeight, per pod (evm)
    graceOver,   \* externalBlockGracePeriod has elapsed (the pods start together)
    redis,       \* the shared perceived block number, 0 when absent
    writes,      \* SetPerceivedBlockNumber goroutines in flight
    fetched,     \* per pod: what a sync has read from Redis and not applied, or 0
    reset,       \* per pod: "no", "memory" (cleared, Redis not yet) or "done"
    fresh,       \* history: heights reported since the admin began
    late,        \* history: older heights in flight across a reset
    reports,     \* reports so far, per pod
    syncs        \* syncs so far

resetVars == <<reset, fresh, late>>
counts == <<reports, syncs>>
vars == <<scope, perceived, window, external, graceOver, redis, writes, fetched, resetVars,
          counts>>

flavour == scope.flavour
ResetBegun == \E p \in Pods : reset[p] # "no"

(***************************************************************************)
(* block_height_plausibility.go                                            *)
(***************************************************************************)
IsPlausibleBlockHeight(candidate, current) ==
    /\ candidate <= MaxHeight
    /\ current > 0 => candidate <= current + MaxJump

(***************************************************************************)
(* block_consensus.go.  Fewer than three observations: the highest.  From  *)
(* three on: the highest that is at most three sync allowances above the   *)
(* median, and the external floor when it is plausible and in force.       *)
(***************************************************************************)
MinObservationsForMedian == 3
MaxDeviationMultiplier == 3

MedianIsHighest(heights) == Last(heights)

calculateMedian(heights) ==
    LET n == Len(heights)
    IN  IF n % 2 = 0
        THEN (heights[n \div 2] + heights[(n \div 2) + 1]) \div 2
        ELSE heights[(n \div 2) + 1]

extractHeights(obs) == SortSeq(obs, <)

calculatePerceived(obs, floor, floorInForce) ==
    LET heights  == extractHeights(obs)
        median   == calculateMedian(heights)
        allowed  == {h \in ToSet(heights) :
                        h <= median + SyncAllowance * MaxDeviationMultiplier}
        maxValid == IF allowed = {} THEN median ELSE Max(allowed)
    IN  IF Len(obs) < MinObservationsForMedian
        THEN Max(ToSet(obs))
        ELSE IF floorInForce /\ floor > maxValid
                             /\ IsPlausibleBlockHeight(floor, maxValid)
             THEN floor
             ELSE maxValid

\* AddObservation: append, drop what fell out of the window (any number of the
\* oldest, and always enough to stay within MaxWindow), recompute.
AddObservation(p, h) ==
    \E dropped \in 0..Len(window[p]) :
        LET obs == Append(SubSeq(window[p], dropped + 1, Len(window[p])), h)
        IN  /\ Len(obs) <= MaxWindow
            /\ window' = [window EXCEPT ![p] = obs]
            /\ perceived' = [perceived EXCEPT ![p] =
                  calculatePerceived(obs, external[p], graceOver)]

\* The goroutine started when the perceived height changed.
PublishIf(changed, h) == writes' = IF changed THEN writes \cup {h} ELSE writes

Fresh(h) == fresh' = IF ResetBegun THEN fresh \cup {h} ELSE fresh

Reported(p, h) ==
    /\ h \in scope.heights /\ reports[p] < scope.reports[p]
    /\ reports' = [reports EXCEPT ![p] = @ + 1]
    /\ Fresh(h) /\ UNCHANGED syncs

(***************************************************************************)
(* UpdateFromExtractedData: an endpoint's height, from the observation     *)
(* pipeline (health checks and sampled relays).  cosmos takes any higher   *)
(* value; solana and noop ask IsPlausibleBlockHeight first.                *)
(***************************************************************************)
AdoptAny(h, current) == h > current

Adopt(h, current) == h > current /\ IsPlausibleBlockHeight(h, current)

\* A maximum moves to h when the guard holds, and is published when it moved.
Raise(p, h, guard) ==
    /\ perceived' = IF guard THEN [perceived EXCEPT ![p] = h] ELSE perceived
    /\ PublishIf(guard, h)
    /\ UNCHANGED window

evmUpdateFromExtractedData(p, h) ==
    /\ flavour = "evm"
    /\ AddObservation(p, h)
    /\ PublishIf(perceived'[p] # perceived[p], perceived'[p])

cosmosUpdateFromExtractedData(p, h) == flavour = "cosmos" /\ Raise(p, h, h > perceived[p])

solanaUpdateFromExtractedData(p, h) == flavour = "solana" /\ Raise(p, h, Adopt(h, perceived[p]))

noopUpdateFromExtractedData(p, h) == flavour = "noop" /\ Raise(p, h, Adopt(h, perceived[p]))

UpdateFromExtractedData(p, h) ==
    /\ Reported(p, h)
    /\ \/ evmUpdateFromExtractedData(p, h)
       \/ cosmosUpdateFromExtractedData(p, h)
       \/ solanaUpdateFromExtractedData(p, h)
       \/ noopUpdateFromExtractedData(p, h)
    /\ UNCHANGED <<scope, external, graceOver, redis, fetched, reset, late>>

\* ApplyObservations: the same height, from the response to a user's request.
\* Nothing is published.  noop ignores it; cosmos skips every endpoint, because
\* isCometBFTStatusValid compares its chain ID with the empty string.
evmUpdateFromEndpoints(p, h) == flavour = "evm" /\ AddObservation(p, h)

solanaUpdateFromEndpoints(p, h) ==
    /\ flavour = "solana"
    /\ Adopt(h, perceived[p])
    /\ perceived' = [perceived EXCEPT ![p] = h]
    /\ UNCHANGED window

ApplyObservations(p, h) ==
    /\ Reported(p, h)
    /\ evmUpdateFromEndpoints(p, h) \/ solanaUpdateFromEndpoints(p, h)
    /\ UNCHANGED <<scope, external, graceOver, redis, writes, fetched, reset, late>>

(***************************************************************************)
(* ConsumeExternalBlockHeight: evm stores the height for the consensus and *)
(* publishes it when it is a plausible rise; the others raise the maximum. *)
(* Before the grace period is over only evm's stored height changes.       *)
(***************************************************************************)
Rises(p, h) == graceOver /\ perceived[p] > 0 /\ Adopt(h, perceived[p])

evmConsumeExternal(p, h) ==
    /\ flavour = "evm"
    /\ external' = [external EXCEPT ![p] = h]
    /\ PublishIf(Rises(p, h), h)
    /\ UNCHANGED <<perceived, window>>

cosmosConsumeExternal(p, h) ==
    flavour = "cosmos" /\ Raise(p, h, Rises(p, h)) /\ UNCHANGED external

solanaConsumeExternal(p, h) ==
    flavour = "solana" /\ Raise(p, h, Rises(p, h)) /\ UNCHANGED external

noopConsumeExternal(p, h) ==
    flavour = "noop" /\ Raise(p, h, Rises(p, h)) /\ UNCHANGED external

ConsumeExternalBlockHeight(p, h) ==
    /\ p \in scope.floors /\ Fresh(h)
    /\ \/ evmConsumeExternal(p, h)
       \/ cosmosConsumeExternal(p, h)
       \/ solanaConsumeExternal(p, h)
       \/ noopConsumeExternal(p, h)
    /\ UNCHANGED <<scope, graceOver, redis, fetched, reset, late, counts>>

GraceEnds ==
    /\ ~graceOver
    /\ graceOver' = TRUE
    /\ UNCHANGED <<scope, perceived, window, external, redis, writes, fetched, resetVars, counts>>

(***************************************************************************)
(* Redis: max wins, with a time to live; a write may also be lost (its     *)
(* two-second timeout).                                                    *)
(***************************************************************************)
SetPerceivedBlockNumber(h) ==
    /\ h \in writes
    /\ writes' = writes \ {h}
    /\ \/ redis' = Max({redis, h})
       \/ UNCHANGED redis
    /\ UNCHANGED <<scope, perceived, window, external, graceOver, fetched, resetVars, counts>>

perceivedBlockTTL ==
    /\ redis > 0
    /\ redis' = 0
    /\ UNCHANGED <<scope, perceived, window, external, graceOver, writes, fetched, resetVars, counts>>

\* The first half of syncFromRedis, at startup and on every tick.
GetPerceivedBlockNumber(p) ==
    /\ redis > 0 /\ fetched[p] = 0
    /\ syncs < scope.syncs /\ syncs' = syncs + 1
    /\ fetched' = [fetched EXCEPT ![p] = redis]
    /\ UNCHANGED <<scope, perceived, window, external, graceOver, redis, writes, resetVars,
                   reports>>

\* The second: evm counts the shared value as one more observation (of
\* "redis-sync"), the others take the maximum.
evmSyncFromRedis(p) == flavour = "evm" /\ AddObservation(p, fetched[p])

TakesMaximum(p) ==
    /\ perceived' = [perceived EXCEPT ![p] = Max({@, fetched[p]})]
    /\ UNCHANGED window

cosmosSyncFromRedis(p) == flavour = "cosmos" /\ TakesMaximum(p)
solanaSyncFromRedis(p) == flavour = "solana" /\ TakesMaximum(p)
noopSyncFromRedis(p)   == flavour = "noop" /\ TakesMaximum(p)

syncFromRedis(p) ==
    /\ fetched[p] > 0 /\ fetched' = [fetched EXCEPT ![p] = 0]
    /\ late' = IF reset[p] = "memory" THEN late \cup {fetched[p]} ELSE late
    /\ \/ evmSyncFromRedis(p)
       \/ cosmosSyncFromRedis(p)
       \/ solanaSyncFromRedis(p)
       \/ noopSyncFromRedis(p)
    /\ UNCHANGED <<scope, external, graceOver, redis, writes, reset, fresh, counts>>

(***************************************************************************)
(* ResetPerceivedBlockHeight on one pod, in its two steps.  The admin      *)
(* works through the fleet.                                                *)
(***************************************************************************)
evmReset(p) ==
    /\ flavour = "evm"
    /\ perceived' = [perceived EXCEPT ![p] = 0]
    /\ external' = [external EXCEPT ![p] = 0]

MaximumReset(p) == perceived' = [perceived EXCEPT ![p] = 0] /\ UNCHANGED external

cosmosReset(p) == flavour = "cosmos" /\ MaximumReset(p)
solanaReset(p) == flavour = "solana" /\ MaximumReset(p)
noopReset(p)   == flavour = "noop" /\ MaximumReset(p)

\* ResetChainState of the admin endpoint, for the service.
ResetPerceivedBlockHeight(p) ==
    /\ p \in scope.resets /\ reset[p] = "no"
    /\ evmReset(p) \/ cosmosReset(p) \/ solanaReset(p) \/ noopReset(p)
    /\ reset' = [reset EXCEPT ![p] = "memory"]
    /\ UNCHANGED <<scope, window, graceOver, redis, writes, fetched, fresh, late, counts>>

\* What is still on its way when the value in Redis goes: every write, and what
\* this pod's sync has read.
Deleted(p) ==
    /\ reset[p] = "memory"
    /\ reset' = [reset EXCEPT ![p] = "done"]
    /\ late' = late \cup writes \cup ({fetched[p]} \ {0})
    /\ UNCHANGED <<scope, perceived, window, external, graceOver, writes, fetched, fresh, counts>>

ClearKeepsRedis(p) == Deleted(p) /\ UNCHANGED redis

\* DeletePerceivedBlockNumber of the storage behind the reputation service.
DeletePerceivedBlockNumber(p) == Deleted(p) /\ redis' = 0

Init ==
    /\ scope \in Scopes
    /\ perceived = [p \in Pods |-> 0]
    /\ window = [p \in Pods |-> <<>>]
    /\ external = [p \in Pods |-> 0]
    /\ graceOver = FALSE
    /\ redis = 0 /\ writes = {}
    /\ fetched = [p \in Pods |-> 0]
    /\ reset = [p \in Pods |-> "no"] /\ fresh = {} /\ late = {}
    /\ reports = [p \in Pods |-> 0] /\ syncs = 0

Heights == UNION {s.heights \cup s.fetched : s \in Scopes}

Next ==
    \/ \E p \in Pods, h \in Heights :
          \/ UpdateFromExtractedData(p, h)
          \/ ApplyObservations(p, h)
    \/ \E p \in Pods, h \in scope.fetched : ConsumeExternalBlockHeight(p, h)
    \/ \E p \in Pods :
          \/ GetPerceivedBlockNumber(p) \/ syncFromRedis(p)
          \/ ResetPerceivedBlockHeight(p) \/ DeletePerceivedBlockNumber(p)
    \/ \E h \in writes : SetPerceivedBlockNumber(h)
    \/ GraceEnds
    \/ perceivedBlockTTL

Spec == Init /\ [][Next]_vars

(***************************************************************************)
(* Properties                                                              *)
(***************************************************************************)
TypeOK ==
    /\ scope \in Scopes
    /\ perceived \in [Pods -> {0} \cup Heights]
    /\ window \in [Pods -> BoundedSeq(Heights, MaxWindow)]
    /\ external \in [Pods -> {0} \cup Heights]
    /\ graceOver \in BOOLEAN
    /\ redis \in {0} \cup Heights /\ writes \subseteq Heights
    /\ fetched \in [Pods -> {0} \cup Heights]
    /\ reset \in [Pods -> {"no", "memory", "done"}]
    /\ fresh \subseteq Heights /\ late \subseteq Heights

\* No pod of a solana or noop service ever believes a height above the absolute
\* ceiling, whoever reported it and whichever pod it was reported to: the guards
\* of UpdateFromExtractedData, UpdateFromEndpoints and the external floor keep
\* such a value out of Redis, the one path (syncFromRedis) that has no guard.
CeilingHolds ==
    flavour \in {"solana", "noop"} => \A p \in Pods : perceived[p] <= MaxHeight

\* evm: while misreports are a minority of a window of three or more, the
\* perceived height is within the tolerated deviation of an honest height of the
\* window, or is the external floor, although the window also holds what other pods
\* concluded (the "redis-sync" observations).
Misreports(p) == SelectSeq(window[p], LAMBDA h : h \notin Honest)

MinorityIsOutvoted ==
    \A p \in Pods :
      (/\ window'[p] # window[p]
       /\ Len(window'[p]) >= MinObservationsForMedian
       /\ 2 * Len(Misreports(p)') < Len(window'[p]))
      => LET honest == ToSet(window'[p]) \cap Honest
         IN  perceived'[p] \in Min(honest)..(Max(honest) + SyncAllowance * MaxDeviationMultiplier)
                               \cup {external[p]}

\* Of the packages that keep a maximum: once every pod has been reset, the only
\* older heights a pod may believe are those that were in flight while a pod was
\* being reset, in a write to Redis or in a sync that had read the value and was
\* applied after the memory was cleared.
MaximumIsForgotten ==
    (flavour # "evm" /\ \A p \in Pods : reset[p] = "done") =>
        \A p \in Pods : perceived[p] \in {0} \cup fresh \cup late
=============================================================================
