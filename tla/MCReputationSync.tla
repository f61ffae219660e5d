-------------------------- MODULE MCReputationSync --------------------------
(***************************************************************************)
(* Reputation for TLC: how the replicas share the scores (ReputationSync,  *)
(* at the root of this module), how signals become a score, and how a      *)
(* score is kept in Redis. part explores one of them at a time.            *)
(***************************************************************************)
EXTENDS ReputationSync

VARIABLES
    part,
    score, idle, probation, onTheMend, signals, userFault, run,
    backend, entries, closed, storageNow, stores, loading, held

Impacts == [success |-> 1, recovery |-> 2, minor |-> -1, critical |-> -3, fatal |-> -5]

\* Two keys of a service; the address of the second holds a colon.
StoredKeys == {[service |-> "eth", addr |-> <<"node.org">>, rpc |-> "JSON_RPC"],
               [service |-> "eth", addr |-> <<"pokt1-https", "//node.org">>, rpc |-> "JSON_RPC"]}

-----------------------------------------------------------------------------
\* One key under five signals, with a scale small enough for every detector to trip.
Scoring == INSTANCE ReputationScore WITH
    Impact <- Impacts, FastBonus <- 2, RecoveryMultiplier <- 2, MaxScore <- 8, InitialScore <- 6,
    MinThreshold <- 2, ProbationThreshold <- 4, StrikeThreshold <- 3, StrikeDecayPerSuccess <- 2,
    BaseCooldown <- 1, RateCooldown <- 2, MaxCooldown <- 4, Scale <- 8, CriticalMemory <- 2,
    CriticalThreshold <- 5, CriticalMinObservations <- 2, InvalidMemory <- 4, InvalidThreshold <- 2,
    InvalidMinObservations <- 3, RecoveryTimeout <- 2, RecoverByTime <- TRUE, MaxStrikes <- 5,
    MaxSignals <- 5, recovering <- onTheMend
scoreVars == <<score, idle, probation, onTheMend, signals, userFault, run>>

\* Two keys, two writes, one refresh, seconds of two ticks.
Storage == INSTANCE ScoreStorage WITH
    Key <- StoredKeys, Cooldowns <- {0, 3}, TTL <- 3, TicksPerSecond <- 2, MaxWrites <- 2,
    MaxTime <- 6, now <- storageNow, writes <- stores, refresh <- loading
storageVars == <<backend, entries, closed, storageNow, stores, loading, held>>

\* The parts share no state. Those that are not explored stay at zero.
scoreIdle == 
    /\ score = 0 /\ idle = 0 /\ probation = 0 /\ onTheMend = 0 /\ signals = 0
    /\ userFault = 0 /\ run = 0
storageIdle == 
    /\ backend = 0 /\ entries = 0 /\ closed = 0 /\ storageNow = 0 /\ stores = 0
    /\ loading = 0 /\ held = 0

InSync(A) == part = "sync" /\ A /\ UNCHANGED <<part, scoreVars, storageVars>>
InScore(A) == part = "score" /\ A /\ UNCHANGED <<part, vars, storageVars>>
InStorage(A) == part = "storage" /\ A /\ UNCHANGED <<part, vars, scoreVars>>

MCInit ==
    /\ part \in {"sync", "score", "storage"}
    /\ Init
    /\ IF part = "score" THEN Scoring!Init ELSE scoreIdle
    /\ IF part = "storage" THEN Storage!Init ELSE storageIdle

MCNext ==
    \/ InSync(Next)
    \/ InScore(Scoring!Next)
    \/ InStorage(Storage!Next)

mcVars == <<part, vars, scoreVars, storageVars>>
MCSpec ==
    /\ MCInit /\ [][MCNext]_mcVars
    /\ \A r \in Replicas :
        /\ WF_mcVars(InSync(Unfinished(r)))
        /\ WF_mcVars(InSync(WriteLoop(r))) /\ WF_mcVars(InSync(RefreshLoop(r)))

-----------------------------------------------------------------------------
\* Successes in between do not hide a failure rate of one in two: such a run ends in a bench;
\* and a detector that ran clean benches for one step only (the moving averages of RecordSignal).
BenchesAreProportionate ==
  [][part = "score" => Scoring!SteadyFailureIsBenched' /\ Scoring!FirstOffenceIsShort]_mcVars

\* What a refresh overwrites a cache with is what was stored under those keys since it began
\* (List, GetMultiple, parseKey and parseScore under refreshFromStorage).
RefreshIsFaithful == part = "storage" => Storage!RefreshIsFaithful
=============================================================================
