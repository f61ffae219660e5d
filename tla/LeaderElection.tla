--------------------------- MODULE LeaderElection ---------------------------
(***************************************************************************)
(* Leader election for health checks: gateway/health_check_leader.go and    *)
(* its only consumer, the health check loop of cmd/healthcheck.go.          *)
(*                                                                         *)
(* Every PATH instance runs a loop that takes or renews a lease, a Redis    *)
(* key holding the instance's ID, and mirrors the outcome in the local flag *)
(* isLeader.  A Redis command is three steps: it is sent, Redis executes it *)
(* atomically (SET NX and the two Lua scripts are atomic on the server),    *)
(* and the reply is stored in isLeader.  Between those steps anything else  *)
(* may happen: time passes, the lease expires, other instances act, Stop    *)
(* runs, the process dies.  A command may fail without being executed, or   *)
(* be executed and have its reply lost; both surface as err # nil.          *)
(***************************************************************************)
EXTENDS Integers, FiniteSets

CONSTANTS
  Instances,        \* the processes that compete for the lease
  Nobody,           \* the key does not exist
  Ghost,            \* the ID of a process that has exited
  LeaseDuration,    \* config.LeaseDuration, in ticks of the clock
  Second,           \* ticks per second: the lease is rounded down to seconds
  MaxAge,           \* scheduling: ticks within which a leader hears from Redis
  MaxDisruptions    \* bound on errors, crashes and shutdowns together

ASSUME ConstantsAssumption ==
  /\ LeaseDuration \in Nat /\ MaxAge \in Nat /\ MaxDisruptions \in Nat
  /\ Second \in Nat \ {0}
  /\ Nobody \notin Instances /\ Ghost \notin Instances /\ Nobody # Ghost

VARIABLES
  owner,            \* the value of the Redis key
  ttl,              \* its remaining time to live
  isLeader,         \* LeaderElector.isLeader of each instance
  status,           \* what each process is doing
  call,             \* the loop's Redis command, or its unread reply
  age,              \* ticks since Redis last granted the instance a lease
  stray,            \* a SET NX of a dead process is still on the network
  checking,         \* the instance is inside a health check cycle
  disruptions       \* errors, crashes and shutdowns so far

vars == <<owner, ttl, isLeader, status, call, age, stray, checking, disruptions>>

NoExpiry == -1

\* int(LeaseDuration.Seconds()) * time.Second
LeaseTicks == (LeaseDuration \div Second) * Second

Up(i) == status[i] = "up"

\* isLeader.Load() of a process that serves
Leading(i) == Up(i) /\ isLeader[i]

TypeOK ==
  /\ owner \in Instances \cup {Nobody, Ghost}
  /\ ttl \in 0 .. LeaseTicks \cup {NoExpiry}
  /\ isLeader \in [Instances -> BOOLEAN]
  /\ status \in [Instances -> {"down", "up", "releasing", "released", "stopped"}]
  /\ call \in [Instances -> {"none", "acquire", "renew", "yes", "no", "error"}]
  /\ age \in [Instances -> 0 .. MaxAge]
  /\ stray \in BOOLEAN
  /\ checking \in [Instances -> BOOLEAN]
  /\ disruptions \in 0 .. MaxDisruptions

Init ==
  /\ owner = Nobody /\ ttl = 0
  /\ isLeader = [i \in Instances |-> FALSE]
  /\ status = [i \in Instances |-> "down"]
  /\ call = [i \in Instances |-> "none"]
  /\ age = [i \in Instances |-> 0]
  /\ stray = FALSE
  /\ checking = [i \in Instances |-> FALSE]
  /\ disruptions = 0

Disrupt == disruptions < MaxDisruptions /\ disruptions' = disruptions + 1

-----------------------------------------------------------------------------
(* The leadership loop                                                      *)

\* Start: the first attempt is made before the loop begins.
Start(i) ==
  /\ status[i] = "down"
  /\ status' = [status EXCEPT ![i] = "up"]
  /\ call' = [call EXCEPT ![i] = "acquire"]
  /\ UNCHANGED <<owner, ttl, isLeader, age, stray, checking, disruptions>>

\* A tick of runLeadershipLoop: tryAcquireLeadership branches on isLeader and
\* sends SET NX or the renewal script.
SendAttempt(i) ==
  /\ Up(i) /\ call[i] = "none"
  /\ call' = [call EXCEPT ![i] = IF isLeader[i] THEN "renew" ELSE "acquire"]
  /\ UNCHANGED <<owner, ttl, isLeader, status, age, stray, checking, disruptions>>

\* Defects these two commands could have, for the mutation runs: no NX, no
\* expiry, a renewal that adds up leases.
SetWithoutNX(id) == owner' = id /\ ttl' = LeaseTicks
SetNXWithoutExpiry(id) == owner = Nobody /\ owner' = id /\ ttl' = NoExpiry
\* Redis executes SET key id NX EX leaseSeconds.  An expiry of 0 means that
\* the key is set without one.
SetNX(id) ==
  /\ owner = Nobody
  /\ owner' = id
  /\ ttl' = IF LeaseTicks = 0 THEN NoExpiry ELSE LeaseTicks

\* The renewal script when the key holds id: EXPIRE key leaseSeconds, which
\* with 0 seconds deletes the key and still returns 1.
ExtendLease(id) ==
  /\ owner = id
  /\ owner' = IF LeaseTicks = 0 THEN Nobody ELSE owner
  /\ ttl' = LeaseTicks

\* The command is executed; its reply reaches the caller or is lost, in which
\* case the caller sees an error although the lease was granted.
ExecGranted(i) ==
  /\ \/ call[i] = "acquire" /\ SetNX(i)
     \/ call[i] = "renew" /\ ExtendLease(i)
  /\ age' = [age EXCEPT ![i] = 0]
  /\ \/ call' = [call EXCEPT ![i] = "yes"] /\ UNCHANGED disruptions
     \/ call' = [call EXCEPT ![i] = "error"] /\ Disrupt
  /\ UNCHANGED <<isLeader, status, stray, checking>>

\* The key exists already (SET NX, even when the holder is i itself), or it
\* no longer holds i's ID (renewal).
ExecDenied(i) ==
  /\ \/ call[i] = "acquire" /\ owner # Nobody
     \/ call[i] = "renew" /\ owner # i
  /\ call' = [call EXCEPT ![i] = "no"]
  /\ UNCHANGED <<owner, ttl, isLeader, status, age, stray, checking, disruptions>>

\* The command is not executed: Redis is unreachable or the context is done.
ExecFailed(i) ==
  /\ call[i] \in {"acquire", "renew"}
  /\ \/ Disrupt
     \/ ~Up(i) /\ UNCHANGED disruptions
  /\ call' = [call EXCEPT ![i] = "error"]
  /\ UNCHANGED <<owner, ttl, isLeader, status, age, stray, checking>>

\* isLeader.Store(true) on a grant, Store(false) on a denial or an error.
StoreReply(i) ==
  /\ call[i] \in {"yes", "no", "error"}
  /\ isLeader' = [isLeader EXCEPT ![i] = (call[i] = "yes")]
  /\ call' = [call EXCEPT ![i] = "none"]
  /\ UNCHANGED <<owner, ttl, status, age, stray, checking, disruptions>>

-----------------------------------------------------------------------------
(* Shutdown, crash, time                                                    *)

\* Stop: the loop's context is cancelled and stopCh closed, but the loop is
\* not waited for.  isLeader decides whether the release script is sent.
Stop(i) ==
  /\ Up(i) /\ Disrupt
  /\ status' = [status EXCEPT ![i] = IF isLeader[i] THEN "releasing" ELSE "stopped"]
  /\ checking' = [checking EXCEPT ![i] = FALSE]
  /\ UNCHANGED <<owner, ttl, isLeader, call, age, stray>>

\* Mutation: the release deletes the key without checking who holds it.
ExecReleaseUnchecked(i) ==
  /\ status[i] = "releasing"
  /\ status' = [status EXCEPT ![i] = "released"]
  /\ owner' = Nobody /\ ttl' = 0
  /\ UNCHANGED <<isLeader, call, age, stray, checking, disruptions>>

\* The release script: DEL the key only while it still holds i's ID.
ExecRelease(i) ==
  /\ status[i] = "releasing"
  /\ status' = [status EXCEPT ![i] = "released"]
  /\ owner' = IF owner = i THEN Nobody ELSE owner
  /\ ttl' = IF owner = i THEN 0 ELSE ttl
  /\ UNCHANGED <<isLeader, call, age, stray, checking, disruptions>>

\* After an executed release the flag is cleared; after a failed one it is not.
FinishStop(i) ==
  /\ \/ /\ status[i] = "released"
        /\ isLeader' = [isLeader EXCEPT ![i] = FALSE]
     \/ status[i] = "releasing" /\ UNCHANGED isLeader
  /\ status' = [status EXCEPT ![i] = "stopped"]
  /\ UNCHANGED <<owner, ttl, call, age, stray, checking, disruptions>>

\* The process is gone: after Stop, or by a crash at any point.  A later
\* process has another ID, so a lease left behind belongs to a ghost, and a
\* SET NX that Redis has not executed yet may still arrive.
Exit(i) ==
  /\ \/ status[i] = "stopped" /\ UNCHANGED disruptions
     \/ status[i] \in {"up", "releasing", "released"} /\ Disrupt
  /\ status' = [status EXCEPT ![i] = "down"]
  /\ isLeader' = [isLeader EXCEPT ![i] = FALSE]
  /\ call' = [call EXCEPT ![i] = "none"]
  /\ age' = [age EXCEPT ![i] = 0]
  /\ checking' = [checking EXCEPT ![i] = FALSE]
  /\ owner' = IF owner = i THEN Ghost ELSE owner
  /\ stray' = (stray \/ call[i] = "acquire")
  /\ UNCHANGED ttl

ExecStray ==
  /\ stray /\ stray' = FALSE
  /\ SetNX(Ghost) \/ UNCHANGED <<owner, ttl>>
  /\ UNCHANGED <<isLeader, status, call, age, checking, disruptions>>

\* The instances whose last grant the loop still acts on.
Relying == {i \in Instances : Up(i) /\ (isLeader[i] \/ call[i] = "yes")}

\* One tick of time.  Redis deletes a key whose time to live has run out.
\* The scheduling assumption is the guard: an instance hears from Redis
\* again within MaxAge ticks of a grant.
Tick ==
  /\ \A i \in Relying : age[i] < MaxAge
  /\ ttl' = IF ttl > 0 THEN ttl - 1 ELSE ttl
  /\ owner' = IF ttl = 1 THEN Nobody ELSE owner
  /\ age' = [i \in Instances |-> IF i \in Relying THEN age[i] + 1 ELSE age[i]]
  /\ UNCHANGED <<isLeader, status, call, stray, checking, disruptions>>

-----------------------------------------------------------------------------
(* The health check loop                                                    *)

\* runHealthChecks reads IsLeader() once, then runs a whole cycle.
BeginCycle(i) ==
  /\ Leading(i) /\ ~checking[i]
  /\ checking' = [checking EXCEPT ![i] = TRUE]
  /\ UNCHANGED <<owner, ttl, isLeader, status, call, age, stray, disruptions>>

EndCycle(i) ==
  /\ checking[i]
  /\ checking' = [checking EXCEPT ![i] = FALSE]
  /\ UNCHANGED <<owner, ttl, isLeader, status, call, age, stray, disruptions>>

Step(i) ==
  \/ Start(i) \/ SendAttempt(i)
  \/ ExecGranted(i) \/ ExecDenied(i) \/ ExecFailed(i) \/ StoreReply(i)
  \/ Stop(i) \/ ExecRelease(i) \/ FinishStop(i) \/ Exit(i)
  \/ BeginCycle(i) \/ EndCycle(i)

Next == (\E i \in Instances : Step(i)) \/ ExecStray \/ Tick

Spec == Init /\ [][Next]_vars

\* The loop's goroutine is scheduled, Redis answers, and time passes.
Fairness ==
  /\ \A i \in Instances :
       /\ WF_vars(SendAttempt(i))
       /\ WF_vars(ExecGranted(i) \/ ExecDenied(i))
       /\ WF_vars(StoreReply(i))
  /\ WF_vars(Tick)

FairSpec == Spec /\ Fairness

-----------------------------------------------------------------------------
(* Properties                                                               *)

\* Two serving instances never both answer true from IsLeader(), whatever
\* errors, crashes, lost replies and late commands occur, provided a leader
\* hears from Redis more often than its lease expires.
AtMostOneLeader ==
  \A i, j \in Instances : Leading(i) /\ Leading(j) => i = j

\* IsLeader() "returns true if this instance is currently the leader": the
\* flag of a serving instance is backed by a live key holding its ID.
LeaderHoldsLease == \A i \in Instances : Leading(i) => owner = i

\* Nobody touches another's lease. The renewal script never "accidentally
\* extends" one, SET NX never replaces one, and a shutdown never deletes one: the
\* time to live of a held key grows only when its holder's own renewal is
\* executed, the key passes to another process only by being free first, and it
\* is freed before it expires only by its holder's release.
LeaseBelongsToItsHolder ==
  [][owner # Nobody =>
       /\ ttl' > ttl => \E i \in Instances :
                          owner = i /\ call[i] = "renew" /\ call'[i] # "renew"
       /\ owner' \in {owner, Nobody, Ghost}
       /\ owner' = Nobody /\ ttl # 1 =>
            \E i \in Instances : owner = i /\ status[i] = "releasing"]_vars

\* Once disruptions cease while some instance keeps serving, leadership
\* settles: from some point on there is always a leader.  Leases of crashed
\* processes, leases granted in a lost reply, and leases set by a late command
\* of a dead process all run out.
LeadershipSettles ==
  (\E i \in Instances : <>[]Up(i)) => <>[](\E j \in Instances : Leading(j))
=============================================================================
