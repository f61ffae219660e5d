------------------------- MODULE CardinalityGuard -------------------------
(***************************************************************************)
(* The label-cardinality guard of one metric (metrics/cardinality_guard.go)*)
(* as its recorders and the sweep janitor interleave.  A recorder asks     *)
(* allow(tuple) and then writes the series: the lookup, the touch and the  *)
(* write are lock-free and separate steps; admission and the sweep hold    *)
(* addMu.  Time is counted in half windows of evictAfter.                  *)
(***************************************************************************)
EXTENDS Integers, FiniteSets

CONSTANTS
    Recorder,       \* goroutines that record the metric
    Tuple,          \* label tuples they record
    Limit,          \* tuples the guard admits
    MaxGuardTime,        \* bound: half windows observed
    MaxRecords      \* bound: recordings

Window == 2         \* evictAfter
Nobody == "nobody"  \* holds addMu while it is free
Janitor == "janitor"

ASSUME GuardAssumption ==
    /\ Nobody \notin Recorder /\ Janitor \notin Recorder
    /\ Tuple # {} /\ Limit \in Nat

VARIABLES
    seen,           \* admitted tuples -> generation they were last observed in
    count,          \* the atomic count beside the map
    gen,            \* the liveness generation
    nextSweep,      \* earliest time of the next sweep; -1: not armed
    addMu,          \* holder of the mutex
    sweeping,       \* what the sweep under way has left to visit, and found idle
    series,         \* child series of the registry
    pc, arg, stamp, \* per recorder: its step, its tuple, the generation it read
    guardNow,
    touched,        \* history: when each tuple was last found live
    records         \* recordings begun

slotVars == <<seen, count, gen, nextSweep>>
sweepVars == <<addMu, sweeping>>
recVars == <<pc, arg, stamp, records>>
guardVars == <<slotVars, sweepVars, series, recVars, guardNow, touched>>

NoSweep == [todo |-> {}, idle |-> {}, evicted |-> 0]

GuardInit ==
    /\ seen = [t \in {} |-> 0] /\ count = 0 /\ gen = 0 /\ nextSweep = -1
    /\ addMu = Nobody /\ sweeping = NoSweep
    /\ series = {}
    /\ pc = [r \in Recorder |-> "idle"] /\ arg \in [Recorder -> {CHOOSE t \in Tuple : TRUE}]
    /\ stamp = [r \in Recorder |-> 0]
    /\ guardNow = 0 /\ touched = [t \in Tuple |-> -1] /\ records = 0

Goto(r, step) == pc' = [pc EXCEPT ![r] = step]
Without(f, t) == [x \in DOMAIN f \ {t} |-> f[x]]
With(f, t, v) == [x \in DOMAIN f \cup {t} |-> IF x = t THEN v ELSE f[x]]

-----------------------------------------------------------------------------
\* The lock-free lookup of allow: a known tuple goes on to touch its entry.
Load(r, t) ==
    /\ pc[r] = "idle" /\ records < MaxRecords
    /\ records' = records + 1
    /\ arg' = [arg EXCEPT ![r] = t]
    /\ Goto(r, IF t \in DOMAIN seen THEN "touch" ELSE "lock")
    /\ UNCHANGED <<slotVars, sweepVars, series, stamp, guardNow, touched>>

\* touch reads the generation, then stamps the entry the lookup returned with it; an
\* entry evicted since is no longer in the map.
touch(r) ==
    /\ pc[r] = "touch" /\ Goto(r, "stamp")
    /\ stamp' = [stamp EXCEPT ![r] = gen]
    /\ UNCHANGED <<slotVars, sweepVars, series, arg, records, guardNow, touched>>

Observe(t, g) ==
    /\ seen' = IF t \in DOMAIN seen THEN [seen EXCEPT ![t] = g] ELSE seen
    /\ touched' = IF t \in DOMAIN seen THEN [touched EXCEPT ![t] = guardNow] ELSE touched

Stamp(r) ==
    /\ pc[r] = "stamp" /\ Goto(r, "record")
    /\ Observe(arg[r], stamp[r])
    /\ stamp' = [stamp EXCEPT ![r] = 0]
    /\ UNCHANGED <<count, gen, nextSweep, sweepVars, series, arg, records, guardNow>>

\* The slow path takes addMu and looks again; a tuple admitted meanwhile is touched.
Lock(r) ==
    /\ pc[r] = "lock" /\ addMu = Nobody
    /\ \/ /\ arg[r] \in DOMAIN seen /\ Observe(arg[r], gen)
          /\ Goto(r, "record") /\ UNCHANGED addMu
       \/ /\ arg[r] \notin DOMAIN seen /\ UNCHANGED <<seen, touched>>
          /\ Goto(r, "sweep") /\ addMu' = r
    /\ UNCHANGED <<count, gen, nextSweep, sweeping, series, arg, stamp, records, guardNow>>

Armed == nextSweep # -1
SweepDue == Armed /\ guardNow >= nextSweep

\* sweepLocked before its Range: the first call arms the timer, a call within the
\* window returns, a due call visits every entry.
StartSweep ==
    /\ nextSweep' = IF ~Armed \/ SweepDue THEN guardNow + Window ELSE nextSweep
    /\ sweeping' = IF SweepDue THEN [NoSweep EXCEPT !.todo = DOMAIN seen] ELSE NoSweep

\* The slow path reclaims idle slots before it decides; the janitor asks every tick.
SlowSweep(r) ==
    /\ pc[r] = "sweep" /\ addMu = r
    /\ StartSweep
    /\ Goto(r, IF SweepDue THEN "range" ELSE "admit")
    /\ UNCHANGED <<seen, count, gen, addMu, series, arg, stamp, records, guardNow, touched>>

sweep ==
    /\ addMu = Nobody /\ StartSweep
    /\ addMu' = IF SweepDue THEN Janitor ELSE Nobody
    /\ nextSweep' # nextSweep
    /\ UNCHANGED <<seen, count, gen, series, recVars, guardNow, touched>>

\* The Range reads one entry's generation ...
EvictAnything(t) ==
    /\ addMu # Nobody /\ t \in sweeping.todo
    /\ sweeping' = [sweeping EXCEPT !.todo = @ \ {t}, !.idle = @ \cup {t}]
    /\ UNCHANGED <<slotVars, addMu, series, recVars, guardNow, touched>>

CheckEntry(t) ==
    /\ addMu # Nobody /\ t \in sweeping.todo
    /\ sweeping' = [sweeping EXCEPT !.todo = @ \ {t},
                                    !.idle = IF seen[t] = gen THEN @ ELSE @ \cup {t}]
    /\ UNCHANGED <<slotVars, addMu, series, recVars, guardNow, touched>>

\* ... and evicts an idle one with its series; a touch may come in between.
Evict(t) ==
    /\ t \in sweeping.idle
    /\ seen' = Without(seen, t)
    /\ series' = series \ {t}
    /\ sweeping' = [sweeping EXCEPT !.idle = @ \ {t}, !.evicted = @ + 1]
    /\ UNCHANGED <<count, gen, nextSweep, addMu, recVars, guardNow, touched>>

SweepDone == addMu # Nobody /\ sweeping.todo = {} /\ sweeping.idle = {}
Sweeper(r) == addMu = r /\ pc[r] = "range"

SlotsLeak ==
    /\ SweepDone
    /\ gen' = gen + 1 /\ sweeping' = NoSweep
    /\ \/ addMu = Janitor /\ addMu' = Nobody /\ UNCHANGED pc
       \/ \E r \in Recorder : Sweeper(r) /\ Goto(r, "admit") /\ UNCHANGED addMu
    /\ UNCHANGED <<seen, count, nextSweep, series, arg, stamp, records, guardNow, touched>>

\* After the Range: the slots go back to the pool and a new generation opens.
EndSweep ==
    /\ SweepDone
    /\ count' = count - sweeping.evicted
    /\ gen' = gen + 1 /\ sweeping' = NoSweep
    /\ \/ addMu = Janitor /\ addMu' = Nobody /\ UNCHANGED pc
       \/ \E r \in Recorder : Sweeper(r) /\ Goto(r, "admit") /\ UNCHANGED addMu
    /\ UNCHANGED <<seen, nextSweep, series, arg, stamp, records, guardNow, touched>>

\* Still under addMu: dropped at the cap, admitted with the current generation below it.
Admit(r) ==
    /\ pc[r] = "admit" /\ addMu = r /\ addMu' = Nobody
    /\ IF count >= Limit
       THEN Goto(r, "idle") /\ UNCHANGED <<seen, count, touched>>
       ELSE /\ seen' = With(seen, arg[r], gen) /\ count' = count + 1
            /\ touched' = [touched EXCEPT ![arg[r]] = guardNow]
            /\ Goto(r, "record")
    /\ UNCHANGED <<gen, nextSweep, sweeping, series, arg, stamp, records, guardNow>>

\* The caller's WithLabelValues(...).Inc() creates the series if it is not there.
Record(r) ==
    /\ pc[r] = "record" /\ Goto(r, "idle")
    /\ series' = series \cup {arg[r]}
    /\ UNCHANGED <<slotVars, sweepVars, arg, stamp, records, guardNow, touched>>

\* A half window is minutes: recordings and sweeps under way end within it.
GuardTick ==
    /\ guardNow < MaxGuardTime /\ guardNow' = guardNow + 1
    /\ addMu = Nobody /\ \A r \in Recorder : pc[r] = "idle"
    /\ UNCHANGED <<slotVars, sweepVars, series, recVars, touched>>

GuardNext ==
    \/ \E r \in Recorder, t \in Tuple : Load(r, t)
    \/ \E r \in Recorder : touch(r) \/ Stamp(r) \/ Lock(r) \/ SlowSweep(r) \/ Admit(r) \/ Record(r)
    \/ \E t \in Tuple : CheckEntry(t) \/ Evict(t)
    \/ sweep \/ EndSweep
    \/ GuardTick

GuardSpec == GuardInit /\ [][GuardNext]_guardVars

-----------------------------------------------------------------------------
\* Whenever the mutex is free, count is the number of slots held and within the
\* limit, however recorders and sweeps interleaved ("keeps count exactly equal to
\* len(seen)").
CountIsExact == addMu = Nobody => count = Cardinality(DOMAIN seen) /\ count <= Limit

\* What a step may delete: tuples idle for a window, or touched since its sweep began.
OnlyIdleAreEvicted ==
    \A t \in DOMAIN seen \ DOMAIN seen' :
       guardNow - touched[t] >= Window \/ touched[t] >= nextSweep - Window

\* A tuple is evicted only after a full window without an observation, unless the
\* observation came while this very sweep was at work (sweepLocked), and the count
\* stays exact.
SlotsAreSound == [][OnlyIdleAreEvicted /\ CountIsExact']_guardVars
=============================================================================
