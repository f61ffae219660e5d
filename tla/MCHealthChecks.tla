---------------------------- MODULE MCHealthChecks ----------------------------
(***************************************************************************)
(* Health checks for TLC: who runs them (LeaderElection) and how one instance *)
(* runs them (HealthChecks).  The two meet only in IsLeader(); part says   *)
(* which of them is explored.                                              *)
(*                                                                         *)
(* Service fast is due on every tick and its lookups may hang; service     *)
(* slow is due on every second one, and two suppliers share its backend.   *)
(* Its checks are a disabled one, a websocket one and an archival one.     *)
(***************************************************************************)
EXTENDS LeaderElection

VARIABLES
  part,
  ctxDone, stop, loop, configured, late, ticks, lastLate, serviceCycle, lookups, resolved, jobs,
  wsTasks, inSession, changes, archival, blacklist, effects, earned

Check(type, enabled, arch) == [type |-> type, enabled |-> enabled, archival |-> arch]

H == INSTANCE HealthChecks WITH
  Endpoints <- {1, 2}, Service <- <<"slow", "slow">>, URL <- <<"u", "u">>, HasWebsocket <- {1},
  Checks <- <<Check("http", FALSE, FALSE), Check("websocket", TRUE, FALSE), Check("http", TRUE, TRUE)>>,
  CheckInterval <- [fast |-> 4, slow |-> 8], TickerPeriod <- 4, Jitter <- 1, StartupDelay <- 2,
  Flaky <- {"fast"}, Dedup <- TRUE, WsCapacity <- 1, Blacklisted <- {2}, MaxChanges <- 1

checkVars == <<ctxDone, stop, loop, configured, late, ticks, lastLate, serviceCycle, lookups,
  resolved, jobs, wsTasks, inSession, changes, archival, blacklist, effects, earned>>

Election(A) == part = "election" /\ A /\ UNCHANGED <<part, checkVars>>
Executor(A) == part = "executor" /\ A /\ UNCHANGED <<part, vars>>

MCInit ==
  /\ Init /\ H!Init
  /\ part \in {"election", "executor"}

MCNext == Election(Next) \/ Executor(H!Next)

mcVars == <<part, vars, checkVars>>

\* The fairness of LeaderElection and of HealthChecks, each in its part.
MCFairness ==
  /\ \A i \in Instances :
       /\ WF_vars(part = "election" /\ SendAttempt(i))
       /\ WF_vars(part = "election" /\ (ExecGranted(i) \/ ExecDenied(i)))
       /\ WF_vars(part = "election" /\ StoreReply(i))
  /\ WF_vars(part = "election" /\ Tick)
  /\ WF_checkVars(part = "executor" /\ H!CycleStep)

MCSpec == MCInit /\ [][MCNext]_mcVars /\ MCFairness

\* Recovery signals, archival marks and releases from the blacklist follow a passed relay of the
\* same cycle (ExecuteCheckViaProtocol, fanOutcomeToSibling).
CreditIsEarned == H!CreditIsEarned

\* Every supplier of a shared backend is probed itself again and again (representativeIndex),
\* whatever other lookups and websocket checks do (resolveEndpointInfos, wsPool).
EveryMemberIsProbed == part = "executor" => H!EveryMemberIsProbed
=============================================================================
