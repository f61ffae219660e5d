--------------------------- MODULE ReputationScore ---------------------------
(***************************************************************************)
(* How signals move one endpoint's score and bench it: RecordSignal and    *)
(* the readers that recover a score (reputation/service.go, signals.go,    *)
(* reputation.go, selector.go).  The copies of a score in caches and in    *)
(* storage are the module ReputationSync.                                  *)
(*                                                                         *)
(* Three mechanisms write CooldownUntil: strikes, the critical-rate        *)
(* detector and the invalid-rate detector.  Times are kept relative to     *)
(* now, in ticks: an end of a cooldown counts down, below zero it says how *)
(* long ago the cooldown ended, and -MaxCooldown also stands for "never".  *)
(* The moving averages are integers out of Scale.                          *)
(***************************************************************************)
EXTENDS Integers, FiniteSetsExt

CONSTANTS
    Impact,              \* [SignalType -> Int]: SignalImpactsConfig
    FastBonus,           \* multiplier of a fast success
    RecoveryMultiplier,  \* multiplier of a success in probation
    MaxScore, InitialScore, MinThreshold, ProbationThreshold,
    StrikeThreshold, StrikeDecayPerSuccess,
    BaseCooldown, RateCooldown, MaxCooldown,   \* in ticks
    Scale,               \* the moving average of a signal at every request
    CriticalMemory, CriticalThreshold, CriticalMinObservations,
    InvalidMemory, InvalidThreshold, InvalidMinObservations,
    RecoveryTimeout,     \* ticks without a signal
    RecoverByTime,       \* health checks and probation both off for the service
    MaxStrikes, MaxSignals   \* bounds

SignalType == DOMAIN Impact
Failure == {"critical", "fatal"}

VARIABLES
    score,       \* the Score record of the key
    idle,        \* ticks since LastUpdated
    probation,   \* the key is in the selector's probationEndpoints
    recovering,  \* a reader found the score eligible and has not reset it yet
    signals,     \* signals so far
    userFault,   \* history: a user's request failed critically
    run          \* history: user requests since the last bench, as long as
                 \* one of any two in a row failed critically
vars == <<score, idle, probation, recovering, signals, userFault, run>>

Fresh == [value |-> InitialScore, observations |-> 0, strikes |-> 0,
          cooldown |-> 0,
          rate |-> 0, rateEnd |-> -MaxCooldown, rateCount |-> 0,
          invalid |-> 0, invalidEnd |-> -MaxCooldown, invalidCount |-> 0]

Init ==
    /\ score = Fresh /\ idle = 0 /\ probation = FALSE /\ recovering = FALSE
    /\ signals = 0 /\ userFault = FALSE /\ run = [length |-> 0, lastFailed |-> TRUE]

-----------------------------------------------------------------------------
Larger(x, y) == Max({x, y})
Smaller(x, y) == Min({x, y})
clamp(v) == Larger(0, Smaller(v, MaxScore))
IsPositive(s) == Impact[s.type] > 0
IsNegative(s) == Impact[s.type] < 0

\* The latency modifier and the recovery multiplier only raise successes; a
\* very slow success earns nothing.
CalculateLatencyAwareImpact(s) ==
    CASE ~IsPositive(s) \/ s.latency = "normal" -> Impact[s.type]
      [] s.latency = "fast" -> FastBonus * Impact[s.type]
      [] s.latency = "veryslow" -> 0
calculateImpact(s) ==
    LET impact == CalculateLatencyAwareImpact(s)
    IN  IF impact > 0 /\ s.boosted THEN RecoveryMultiplier * impact ELSE impact

\* The additive score and the counters.
ApplyImpact(sc, s) ==
    [sc EXCEPT !.value = clamp(@ + calculateImpact(s)),
               !.observations = IF IsPositive(s) \/ IsNegative(s) THEN @ + 1 ELSE @,
               !.strikes = IF IsPositive(s) THEN Larger(0, @ - StrikeDecayPerSuccess) ELSE @]

\* The strike system: probes count, and the end of the cooldown is assigned.
ApplyStrike(sc, s) ==
    LET strikes == sc.strikes + 1
        cooldown == Smaller(MaxCooldown, BaseCooldown * 2^(strikes - StrikeThreshold))
    IN  IF s.type \notin Failure THEN sc
        ELSE [sc EXCEPT !.strikes = strikes,
                        !.cooldown = IF strikes >= StrikeThreshold THEN cooldown ELSE @]

\* Mutation: a success clears the average.
EwmaForgets(rate, memory, hit) == IF hit THEN (rate * (memory - 1) + Scale) \div memory ELSE 0

Ewma(rate, memory, hit) == (rate * (memory - 1) + (IF hit THEN Scale ELSE 0)) \div memory

\* Mutation: every trip counts as a consecutive one.
EscalateAlways(count, end) == count + 1

\* A detector's trip: consecutive trips escalate against its own last
\* cooldown; the shared cooldown is only ever extended.
Escalate(count, end) == IF end > -MaxCooldown THEN count + 1 ELSE 1
TripLength(count) == Smaller(MaxCooldown, RateCooldown * count)

DetectCriticalRate(sc, s) ==
    LET rate == Ewma(sc.rate, CriticalMemory, s.type \in Failure)
        count == Escalate(sc.rateCount, sc.rateEnd)
    IN  IF rate >= CriticalThreshold /\ sc.observations >= CriticalMinObservations
        THEN [sc EXCEPT !.rate = 0, !.rateCount = count, !.rateEnd = TripLength(count),
                        !.cooldown = Larger(@, TripLength(count))]
        ELSE [sc EXCEPT !.rate = rate]

DetectInvalidRate(sc, s) ==
    LET invalid == Ewma(sc.invalid, InvalidMemory, s.violation)
        count == Escalate(sc.invalidCount, sc.invalidEnd)
    IN  IF invalid >= InvalidThreshold /\ sc.observations >= InvalidMinObservations
        THEN [sc EXCEPT !.invalid = 0, !.invalidCount = count, !.invalidEnd = TripLength(count),
                        !.cooldown = Larger(@, TripLength(count))]
        ELSE [sc EXCEPT !.invalid = invalid]

AfterSignal(sc, s) ==
    LET struck == ApplyStrike(ApplyImpact(sc, s), s)
    IN  IF s.probe THEN struck ELSE DetectInvalidRate(DetectCriticalRate(struck, s), s)

-----------------------------------------------------------------------------
\* RecordSignal.  A success in probation is recorded by the relay as a
\* recovery and by the request's observations with the multiplier; a health
\* check records every success as a recovery.
RecordSignal(s) ==
    /\ signals < MaxSignals /\ (s.type \in Failure => score.strikes < MaxStrikes)
    /\ (s.boosted \/ (s.type = "recovery" /\ ~s.probe)) => probation
    /\ score' = AfterSignal(score, s)
    /\ idle' = 0 /\ signals' = signals + 1
    /\ userFault' = (userFault \/ (~s.probe /\ s.type \in Failure))
    /\ run' = CASE s.probe -> run
                [] score'.cooldown > score.cooldown -> [length |-> 0, lastFailed |-> TRUE]
                [] s.type \in Failure -> [length |-> run.length + 1, lastFailed |-> TRUE]
                [] OTHER -> [length |-> IF run.lastFailed THEN run.length + 1 ELSE 0,
                             lastFailed |-> FALSE]
    /\ UNCHANGED <<probation, recovering>>

\* GetScore and FilterByScore copy the score and test it ...
shouldRecover == score.value < MinThreshold /\ RecoverByTime /\ idle >= RecoveryTimeout
GetScore ==
    /\ ~recovering /\ shouldRecover /\ recovering' = TRUE
    /\ UNCHANGED <<score, idle, probation, signals, userFault, run>>

\* ... and recoverScore stores a fresh one, as ResetScore does.
recoverScore ==
    /\ recovering /\ recovering' = FALSE
    /\ score' = Fresh /\ idle' = 0 /\ userFault' = FALSE
    /\ run' = [length |-> 0, lastFailed |-> TRUE]
    /\ UNCHANGED <<probation, signals>>

\* filterToHighestTier refreshes the probation set at every selection.
UpdateProbationStatus ==
    /\ probation' = (MinThreshold <= score.value /\ score.value < ProbationThreshold)
    /\ probation' # probation
    /\ UNCHANGED <<score, idle, recovering, signals, userFault, run>>

Tick ==
    /\ score' = [score EXCEPT !.cooldown = Larger(0, @ - 1),
                              !.rateEnd = Larger(-MaxCooldown, @ - 1),
                              !.invalidEnd = Larger(-MaxCooldown, @ - 1)]
    /\ idle' = Smaller(idle + 1, RecoveryTimeout)
    /\ <<score', idle'>> # <<score, idle>>
    /\ UNCHANGED <<probation, recovering, signals, userFault, run>>

Signals == [type : SignalType, latency : {"fast", "normal", "veryslow"}, probe : BOOLEAN,
            violation : BOOLEAN, boosted : BOOLEAN]
\* Only an empty payload, a critical error of a relay, is a protocol
\* violation; latency and the multiplier are told apart for successes.
RealSignals == {s \in Signals : /\ s.violation => s.type = "critical"
                                /\ s.latency # "normal" => s.type = "success" /\ ~s.boosted
                                /\ s.boosted => s.type = "success"}

Next ==
    \/ \E s \in RealSignals : RecordSignal(s)
    \/ GetScore \/ recoverScore \/ UpdateProbationStatus \/ Tick

Spec == Init /\ [][Next]_vars

-----------------------------------------------------------------------------
IsInCooldown == score.cooldown > 0

\* The detectors are volume-independent: successes in between do not hide a
\* failure rate of one in two.  A run of user requests in which one of any
\* two in a row failed critically cannot go on without a new or longer bench,
\* once the sample is large enough, whatever probes and strikes do.
SteadyFailureIsBenched ==
    (run.length >= 2 * CriticalMemory /\ score.observations >= CriticalMinObservations)
        => IsInCooldown

\* A detector that has run clean for MaxCooldown benches for one step at its
\* next trip, however often strikes or the other detector benched the
\* endpoint meanwhile: the shared CooldownUntil does not escalate it.
FirstOffenceIsShort ==
    /\ score.rateEnd = -MaxCooldown /\ score'.rateEnd > 0 => score'.rateEnd = RateCooldown
    /\ score.invalidEnd = -MaxCooldown /\ score'.invalidEnd > 0
         => score'.invalidEnd = RateCooldown
=============================================================================
