---------------------------- MODULE HealthChecks ----------------------------
(***************************************************************************)
(* The health check loop and its executor on one instance: cmd/healthcheck.go *)
(* and gateway/health_check_executor.go.  A ticker starts cycles; a cycle     *)
(* decides which services are due, resolves their endpoints concurrently      *)
(* under a budget, submits one job per backend URL and waits for the jobs.    *)
(* A job relays through one representative and fans the outcome out to the    *)
(* other suppliers of the URL; websocket checks go to a bounded pool of their *)
(* own that nobody waits for.  Whether the instance leads is LeaderElection's *)
(* subject; here it does.  The signals the protocol records for a relay are   *)
(* not modelled, only those of the executor.                                  *)
(*                                                                         *)
(* A service's clock is the number of ticks since it last ran and how late    *)
(* after their ticks that cycle and this one started.                         *)
(***************************************************************************)
EXTENDS Integers, Sequences, SequencesExt, FiniteSets

CONSTANTS
  Endpoints,       \* addresses, as numbers in their sort order
  Service, URL,    \* of each endpoint; URL "" if it has no HTTP URL
  HasWebsocket,    \* endpoints that advertise a websocket URL
  Checks,          \* sequence of [type, enabled, archival]
  CheckInterval,   \* of each service
  TickerPeriod,    \* MinCheckInterval() when the loop started
  Jitter,          \* how late after its tick a cycle may start
  StartupDelay,    \* the first cycle follows the start of the ticker by this much
  Flaky,           \* services whose endpoint lookup may fail or never return
  Dedup,           \* backendDedupEnabled()
  WsCapacity,      \* tasks wsPool accepts
  Blacklisted,     \* endpoints whose supplier is blacklisted at the start
  MaxChanges       \* bound: changes of the external config and of the sessions

Services == DOMAIN CheckInterval
Never == -1
CycleMod == 2    \* serviceCycle is kept modulo the largest backend group

VARIABLES
  ctxDone, stop,         \* the background context; how far Stop() has come
  loop,                  \* where runHealthCheckLoop is
  configured,            \* services GetServiceConfigs returns
  late,                  \* time from the last tick to the start of the cycle
  ticks, lastLate,       \* serviceLastRun: ticks since then, and late at that time
  serviceCycle,
  lookups, resolved,     \* of the services due in this cycle, and the endpoints they found
  jobs, wsTasks,         \* tasks of pool, and number of tasks of wsPool per endpoint
  inSession, changes,    \* endpoints whose session is active; changes made to these two
  archival, blacklist,   \* what the reputation service and the protocol hold
  effects,               \* signals and observations recorded in the last step
  earned                 \* <<endpoint, check>> of the relays that passed in this cycle

schedule == <<late, ticks, lastLate, serviceCycle>>
world == <<configured, inSession, changes>>
records == <<archival, blacklist, effects, earned>>
vars == <<ctxDone, stop, loop, schedule, lookups, resolved, jobs, wsTasks, world, records>>

\* No answer; an over-serviced supplier; an answer the heuristics reject, that fails validation, or
\* that the sync check or a known error pattern turns down; a pass.
Outcomes == {"failed", "exhausted", "rejected", "invalid", "faulty", "pass"}
Effects == [ep : Endpoints, check : DOMAIN Checks, kind : {"recovery", "error", "observation"}]
MaxTicks == 2    \* bound: ticks are counted up to here, the longest interval

TypeOK ==
  /\ ctxDone \in BOOLEAN /\ stop \in {"none", "wsPool", "pool", "stopped"}
  /\ loop \in {"ticker", "due", "lookup", "wait", "over"}
  /\ configured \subseteq Services /\ changes \in 0 .. MaxChanges
  /\ late \in 0 .. TickerPeriod /\ lastLate \in [Services -> 0 .. TickerPeriod]
  /\ ticks \in [Services -> Never .. MaxTicks]
  /\ serviceCycle \in [Services -> 0 .. CycleMod - 1]
  /\ lookups \in [Services -> {"none", "running", "done", "failed"}]
  /\ resolved \in [Services -> SUBSET Endpoints]
  /\ \A j \in jobs :
       /\ j.stage \in {"queued", "chosen", "probe", "fan"} /\ j.rep \in DOMAIN j.eps
       /\ j.outcomes \in Seq([check : DOMAIN Checks, result : Outcomes \cup {"skipped"}])
  /\ wsTasks \in [Endpoints -> 0 .. WsCapacity]
  /\ inSession \subseteq Endpoints
  /\ archival \subseteq Endpoints /\ blacklist \subseteq Endpoints
  /\ effects \subseteq Effects /\ earned \subseteq Endpoints \X DOMAIN Checks

Init ==
  /\ ctxDone = FALSE /\ stop = "none" /\ loop = "due"
  /\ configured = Services /\ changes = 0
  /\ late = StartupDelay /\ serviceCycle = [s \in Services |-> 0]
  /\ ticks = [s \in Services |-> Never] /\ lastLate = [s \in Services |-> 0]
  /\ lookups = [s \in Services |-> "none"] /\ resolved = [s \in Services |-> {}]
  /\ jobs = {} /\ wsTasks = [e \in Endpoints |-> 0]
  /\ inSession = Endpoints
  /\ archival = {} /\ blacklist = Blacklisted
  /\ effects = {} /\ earned = {}

Silent == effects' = {} /\ UNCHANGED <<archival, blacklist, earned>>

-----------------------------------------------------------------------------
(* The schedule                                                             *)

MinOf(S) == CHOOSE x \in S : \A y \in S : x <= y
MinCheckInterval == IF configured = {} THEN TickerPeriod ELSE MinOf({CheckInterval[s] : s \in configured})

Elapsed(s) == ticks[s] * TickerPeriod + late - lastLate[s]

\* A service is due half a tick before its interval is over, or if it never ran.
Due(s) == ticks[s] = Never \/ Elapsed(s) >= CheckInterval[s] - MinCheckInterval \div 2

\* The next cycle starts, up to Jitter after its tick; ticks are dropped while one runs.  Both
\* cases of the select may be ready, so this can happen after the context is done.
tickerFires ==
  /\ loop = "ticker" /\ loop' = "due"
  /\ \E n \in 1 .. 2 : ticks' = [s \in Services |->
       IF ticks[s] = Never THEN Never ELSE MinOf({ticks[s] + n, MaxTicks})]
  /\ late' \in 0 .. Jitter /\ Silent
  /\ UNCHANGED <<ctxDone, stop, lastLate, serviceCycle, lookups, resolved, jobs, wsTasks, world>>

\* dueServices marks the due services as run, forgets the ones that left the configuration, and
\* a lookup per due service starts.
dueServices ==
  /\ loop = "due"
  /\ LET due == {s \in configured : Due(s)}
     IN  /\ ticks' = [s \in Services |->
              IF s \in due THEN 0 ELSE IF s \in configured THEN ticks[s] ELSE Never]
         /\ lastLate' = [s \in Services |->
              IF s \in due THEN late ELSE IF s \in configured THEN lastLate[s] ELSE 0]
         /\ serviceCycle' = [s \in Services |->
              IF s \in due THEN (serviceCycle[s] + 1) % CycleMod
              ELSE IF s \in configured THEN serviceCycle[s] ELSE 0]
         /\ lookups' = [s \in Services |-> IF s \in due THEN "running" ELSE "none"]
         /\ loop' = IF due = {} THEN "ticker" ELSE "lookup"
  /\ Silent
  /\ UNCHANGED <<ctxDone, stop, late, resolved, jobs, wsTasks, world>>

\* refreshExternalConfig: a service is dropped from the external rules or comes back.
refreshExternalConfig ==
  /\ ~ ctxDone /\ changes < MaxChanges /\ changes' = changes + 1
  /\ \E s \in Services : configured' = IF s \in configured THEN configured \ {s} ELSE configured \cup {s}
  /\ Silent
  /\ UNCHANGED <<ctxDone, stop, loop, schedule, lookups, resolved, jobs, wsTasks, inSession>>

-----------------------------------------------------------------------------
(* Endpoint resolution                                                      *)

\* A lookup returns; one that misses the budget is never read.
lookupReturns(s) ==
  /\ loop = "lookup" /\ lookups[s] = "running"
  /\ \E r \in IF s \in Flaky THEN {"done", "failed"} ELSE {"done"} :
       /\ lookups' = [lookups EXCEPT ![s] = r]
       /\ resolved' = [resolved EXCEPT ![s] = IF r = "done" THEN {e \in inSession : Service[e] = s} ELSE {}]
  /\ Silent
  /\ UNCHANGED <<ctxDone, stop, loop, schedule, jobs, wsTasks, world>>

\* groupEndpointsByURL: the endpoints of one URL in address order; an endpoint without one is alone.
groupEndpointsByURL(eps) ==
  LET Group(e) == IF URL[e] = "" \/ ~ Dedup THEN {e} ELSE {f \in eps : URL[f] = URL[e]}
  IN  {SetToSortSeq(Group(e), <) : e \in eps}

representativeIndex(cycle, size) == IF size <= 1 THEN 1 ELSE (cycle % size) + 1

JobsOf(s) ==
  {[eps |-> g, rep |-> representativeIndex(serviceCycle[s], Len(g)), stage |-> "queued", next |-> 1,
    outcomes |-> << >>] : g \in groupEndpointsByURL(resolved[s])}

\* Fault: no budget, the cycle waits for every lookup.
LookupsComplete == ctxDone \/ \A s \in Services : lookups[s] # "running"

\* Every lookup has returned, the context is done, or the budget is spent, which is longer than a
\* lookup's own deadline: only one that ignores its deadline is still running.
LookupsOver == ctxDone \/ \A s \in Services : lookups[s] = "running" => s \in Flaky

\* resolveEndpointInfos returns and a job per group of each resolved service is submitted; a pool
\* that is being stopped refuses them.
submit ==
  /\ loop = "lookup" /\ LookupsOver
  /\ jobs' = IF stop \in {"pool", "stopped"} THEN jobs
             ELSE jobs \cup UNION {JobsOf(s) : s \in Services}
  /\ lookups' = [s \in Services |-> "none"] /\ resolved' = [s \in Services |-> {}]
  /\ loop' = "wait" /\ Silent
  /\ UNCHANGED <<ctxDone, stop, schedule, wsTasks, world>>

\* group.Wait returns.
cycleEnds ==
  /\ loop = "wait" /\ jobs = {}
  /\ loop' = "ticker" /\ effects' = {} /\ earned' = {}
  /\ UNCHANGED <<ctxDone, stop, schedule, lookups, resolved, jobs, wsTasks, world, archival, blacklist>>

-----------------------------------------------------------------------------
(* The checks of one endpoint                                               *)

Runs(type) == {c \in DOMAIN Checks : Checks[c].type = type}

\* recordCheckResult for an HTTP check, on the representative or on a sibling: a pass is a
\* recovery signal, an over-serviced supplier is not charged, the rest is an error.
recordCheckResult(e, c, result) ==
  CASE result \in {"pass", "skipped"} -> {[ep |-> e, check |-> c, kind |-> "recovery"]}
    [] result = "exhausted" -> {}
    [] OTHER -> {[ep |-> e, check |-> c, kind |-> "error"]}

Observation(e, c) == {[ep |-> e, check |-> c, kind |-> "observation"]}

\* Fault: the archival mark is set before the known error patterns are looked for.
ArchivalPassesEarly(c, result) == Checks[c].archival /\ result \in {"faulty", "pass"}

\* The archival verdict of an outcome; most failures leave it open.
ArchivalPasses(c, result) == Checks[c].archival /\ result = "pass"
ArchivalFails(c, result) == Checks[c].archival /\ result = "invalid"

\* What ExecuteCheckViaProtocol can return: nothing is sent for a disabled check, and a relay on a
\* cancelled context fails.
Results(c) ==
  IF ~ Checks[c].enabled THEN {"skipped"} ELSE IF ctxDone THEN {"failed"} ELSE Outcomes

\* ExecuteCheckViaProtocol and recordCheckResult for the representative e.
executeCheck(e, c, result) ==
  /\ effects' = recordCheckResult(e, c, result)
       \cup (IF result \in {"invalid", "faulty", "pass"} THEN Observation(e, c) ELSE {})
  /\ archival' = IF ArchivalPasses(c, result) THEN archival \cup {e}
                 ELSE IF ArchivalFails(c, result) THEN archival \ {e} ELSE archival
  /\ blacklist' = IF result = "pass" THEN blacklist \ {e} ELSE blacklist
  /\ earned' = IF result = "pass" THEN earned \cup {<<e, c>>} ELSE earned

\* fanOutcomeToSibling: the signals, the observations of every body and the last verdict on
\* archival data.
fanOutcomeToSibling(e, outcomes) ==
  LET O == {outcomes[i] : i \in DOMAIN outcomes}
  IN  /\ effects' = UNION {recordCheckResult(e, o.check, o.result) : o \in O}
           \cup UNION {Observation(e, o.check) : o \in
                  {x \in O : x.result \in {"rejected", "invalid", "faulty", "pass"}}}
      /\ archival' = FoldLeft(LAMBDA a, o : IF ArchivalPasses(o.check, o.result) THEN a \cup {e}
                                ELSE IF ArchivalFails(o.check, o.result) THEN a \ {e} ELSE a,
                              archival, outcomes)
      /\ UNCHANGED <<blacklist, earned>>

\* wsPool.TrySubmit for n checks of an endpoint: what does not fit is skipped this round.
TrySubmit(e, n) ==
  LET queued == FoldFunction(+, 0, wsTasks)
      fits == IF stop # "none" \/ e \notin HasWebsocket THEN 0 ELSE MinOf({n, WsCapacity - queued})
  IN  wsTasks' = [wsTasks EXCEPT ![e] = @ + fits]

-----------------------------------------------------------------------------
(* A job: one backend URL                                                   *)

Put(j, next) == jobs' = (jobs \ {j}) \cup {next}
Drop(j) == jobs' = jobs \ {j}

\* The representative is the rotated member or the next one whose session is active.
pickRepresentative(j) ==
  /\ j.stage = "queued"
  /\ LET n == Len(j.eps)
         After(off) == ((j.rep - 1 + off) % n) + 1
         active == {off \in 0 .. n - 1 : j.eps[After(off)] \in inSession}
     IN  IF ctxDone THEN Drop(j)
         ELSE Put(j, [j EXCEPT !.stage = "chosen",
                               !.rep = IF active = {} THEN @ ELSE After(MinOf(active))])
  /\ Silent /\ UNCHANGED wsTasks

\* Its session is looked at once more; it may have ended since.
startProbe(j) ==
  /\ j.stage = "chosen"
  /\ Put(j, [j EXCEPT !.stage = IF j.eps[j.rep] \in inSession THEN "probe" ELSE "fan"])
  /\ Silent /\ UNCHANGED wsTasks

\* runEndpointChecks for the representative, one check at a time.
probe(j) ==
  /\ j.stage = "probe" /\ j.next \in DOMAIN Checks
  /\ LET e == j.eps[j.rep]
         done == [j EXCEPT !.next = IF @ = Len(Checks) THEN 1 ELSE @ + 1,
                           !.stage = IF j.next = Len(Checks) THEN "fan" ELSE @]
     IN  \/ /\ Checks[j.next].type = "http"
            /\ \E result \in Results(j.next) :
                 /\ executeCheck(e, j.next, result)
                 /\ Put(j, [done EXCEPT !.outcomes = Append(@, [check |-> j.next, result |-> result])])
            /\ UNCHANGED wsTasks
         \/ /\ Checks[j.next].type = "websocket"
            /\ TrySubmit(e, 1) /\ Put(j, done) /\ Silent

\* The next member of the group: the representative and one whose session ended are passed over,
\* any other gets the outcomes and its own websocket checks.
fan(j) ==
  /\ j.stage = "fan"
  /\ LET next == [j EXCEPT !.next = @ + 1]
         e == j.eps[j.next]
     IN  IF j.next > Len(j.eps) \/ (ctxDone /\ j.next # j.rep)
         THEN Drop(j) /\ Silent /\ UNCHANGED wsTasks
         ELSE /\ Put(j, next)
              /\ IF j.next = j.rep \/ e \notin inSession
                 THEN Silent /\ UNCHANGED wsTasks
                 ELSE fanOutcomeToSibling(e, j.outcomes) /\ TrySubmit(e, Cardinality(Runs("websocket")))

jobStep ==
  /\ \E j \in jobs : pickRepresentative(j) \/ startProbe(j) \/ probe(j) \/ fan(j)
  /\ UNCHANGED <<ctxDone, stop, loop, schedule, lookups, resolved, world>>

\* ExecuteWebSocketCheckViaProtocol in wsPool, the only writer of its signal; nothing is sent for
\* a disabled check or on a cancelled context.
websocketCheck(e) ==
  /\ wsTasks[e] > 0 /\ wsTasks' = [wsTasks EXCEPT ![e] = @ - 1]
  /\ \E c \in Runs("websocket") :
       IF ctxDone \/ ~ Checks[c].enabled THEN Silent
       ELSE /\ \E result \in {"pass", "failed", "exhausted"} :
                 /\ effects' = recordCheckResult(e, c, result)
                 /\ earned' = IF result = "pass" THEN earned \cup {<<e, c>>} ELSE earned
            /\ UNCHANGED <<archival, blacklist>>
  /\ UNCHANGED <<ctxDone, stop, loop, schedule, lookups, resolved, jobs, world>>

-----------------------------------------------------------------------------
(* Sessions and shutdown                                                    *)

\* A session ends, or an endpoint is in the new one.
sessionRollover ==
  /\ changes < MaxChanges /\ changes' = changes + 1
  /\ \E e \in Endpoints : inSession' = IF e \in inSession THEN inSession \ {e} ELSE inSession \cup {e}
  /\ Silent
  /\ UNCHANGED <<ctxDone, stop, loop, schedule, lookups, resolved, jobs, wsTasks, configured>>

\* Shutdown cancels the background context, and then calls Stop() without waiting for the loop.
cancelBackground ==
  /\ ~ ctxDone /\ ctxDone' = TRUE /\ Silent
  /\ UNCHANGED <<stop, loop, schedule, lookups, resolved, jobs, wsTasks, world>>

\* The first caller of Stop(), shutdown or the loop, runs the body; both return when it is done.
Stop ==
  /\ \/ ctxDone /\ stop = "none" /\ stop' = "wsPool"
     \/ stop = "wsPool" /\ (\A e \in Endpoints : wsTasks[e] = 0) /\ stop' = "pool"
     \/ stop = "pool" /\ jobs = {} /\ stop' = "stopped"
  /\ Silent
  /\ UNCHANGED <<ctxDone, loop, schedule, lookups, resolved, jobs, wsTasks, world>>

\* The loop sees that the context is done, and Stop() returns to it.
loopEnds ==
  /\ loop = "ticker" /\ stop = "stopped" /\ loop' = "over" /\ Silent
  /\ UNCHANGED <<ctxDone, stop, schedule, lookups, resolved, jobs, wsTasks, world>>

Over == loop = "over" /\ UNCHANGED vars

\* The steps of a cycle: the loop's, its jobs' and those of lookups that keep their deadline.
CycleStep ==
  \/ tickerFires \/ dueServices \/ submit \/ cycleEnds \/ jobStep
  \/ \E s \in Services \ Flaky : lookupReturns(s)

Next ==
  \/ CycleStep \/ loopEnds \/ Over
  \/ \E s \in Flaky : lookupReturns(s)
  \/ \E e \in Endpoints : websocketCheck(e)
  \/ refreshExternalConfig \/ sessionRollover \/ cancelBackground \/ Stop

\* The loop and the pool's workers keep running; nothing is assumed of websocket checks.
Fairness == WF_vars(CycleStep)

Spec == Init /\ [][Next]_vars
FairSpec == Spec /\ Fairness

-----------------------------------------------------------------------------
(* Properties                                                               *)

SameBackend(e, f) == e = f \/ (Dedup /\ URL[e] # "" /\ URL[e] = URL[f] /\ Service[e] = Service[f])
Passed(e, c, passes) == \E f \in Endpoints : SameBackend(e, f) /\ <<f, c>> \in passes

\* Credit is earned: a recovery signal for an enabled check and an archival mark, also the ones
\* fanned out to siblings, follow a pass of that check by the same backend in the same cycle, and
\* a supplier leaves the blacklist only for a pass of its own relay.
CreditIsEarned ==
  [][/\ \A x \in effects' : x.kind = "recovery" /\ Checks[x.check].enabled => Passed(x.ep, x.check, earned')
     /\ \A e \in archival' \ archival : \E c \in DOMAIN Checks : Checks[c].archival /\ Passed(e, c, earned')
     /\ \A e \in blacklist \ blacklist' : \E c \in DOMAIN Checks : <<e, c>> \in earned']_vars

Probing(e) == \E j \in jobs : j.stage = "probe" /\ j.eps[j.rep] = e

\* Every supplier of a shared backend gets its own relay again and again (the rotation), although
\* another service's lookup may hang in every cycle (the lookup budget) and websocket checks may
\* never end (their own pool).
EveryMemberIsProbed ==
  \A e \in Endpoints : Service[e] \notin Flaky =>
    \/ <>ctxDone
    \/ <>[](e \notin inSession \/ Service[e] \notin configured)
    \/ []<>Probing(e)
=============================================================================
