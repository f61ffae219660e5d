-------------------------------- MODULE Hedge --------------------------------
(***************************************************************************)
(* One hedged race: gateway/hedge.go.  race() starts the primary branch,     *)
(* starts a hedge branch after hedgeDelay if another operator is available,  *)
(* and picks a winner; a clean-up goroutine waits for the branches still in  *)
(* flight and then releases their detached contexts.  Both branches send     *)
(* their result to a channel of capacity two.  A result is "valid", "error"  *)
(* (transport) or "rejected" (the heuristic analysis asks for a retry).      *)
(* Timers count down in ticks; one that is due is served before the next tick. *)
(***************************************************************************)
EXTENDS Integers, Sequences, FiniteSets

CONSTANTS
  Candidates,
  DomainOf,      \* registrable domain of each endpoint, "" if it has none
  HedgeDelay, SecondWait, CollectWait, GraceWindow    \* in ticks

ASSUME WindowAssumption == GraceWindow \in Nat

Branches == {"primary", "hedge"}
Kinds == {"valid", "rejected", "error"}
Results == [branch : Branches, kind : Kinds]
NotStarted == "none"

VARIABLES
  callerDone,            \* the caller's context is cancelled or past its deadline
  hedgePc, timer,             \* where race() is, and the ticks its timer has left
  endpoint,              \* endpoint of each branch
  hedgeBranch,                \* each branch: not started, running or done
  hedgeChan,
  firstResult, returned, \* sets of at most one result
  received,              \* the results race() took from the channel
  hedgeWinner, losers,        \* recordWinner and recordLoser, in order
  suppliersTried,
  cleanup,               \* the clean-up goroutine
  sinceReturn,           \* ticks since race() returned, up to GraceWindow
  released               \* cancelBranches has been called

raceVars == <<hedgePc, timer, firstResult, returned, received, hedgeWinner>>
hedgeVars == <<callerDone, sinceReturn, raceVars, endpoint, hedgeBranch, hedgeChan, losers, suppliersTried,
          cleanup, released>>

NoCleanup == [pc |-> "none", got |-> 0, timer |-> 0]

HedgeTypeOK ==
  /\ callerDone \in BOOLEAN /\ released \in BOOLEAN
  /\ hedgePc \in {"start", "delay", "first", "second", "collect", "returned"}
  /\ endpoint \in [Branches -> Candidates \cup {NotStarted}]
  /\ hedgeBranch \in [Branches -> {"none", "running", "done"}]
  /\ hedgeChan \in Seq(Results) /\ Len(hedgeChan) <= 2
  /\ \A s \in {firstResult, returned, hedgeWinner} : s \subseteq Results /\ Cardinality(s) <= 1
  /\ received \subseteq Results
  /\ losers \in Seq(Results)
  /\ suppliersTried \subseteq Candidates
  /\ cleanup.pc \in {"none", "waiting", "done"} /\ cleanup.got \in 0 .. 2

HedgeInit ==
  /\ callerDone = FALSE /\ released = FALSE
  /\ hedgePc = "start" /\ timer = 0 /\ sinceReturn = 0
  /\ endpoint = [b \in Branches |-> NotStarted]
  /\ hedgeBranch = [b \in Branches |-> "none"]
  /\ hedgeChan = << >>
  /\ firstResult = {} /\ returned = {} /\ received = {} /\ hedgeWinner = {}
  /\ losers = << >> /\ suppliersTried = {}
  /\ cleanup = NoCleanup

-----------------------------------------------------------------------------
(* The branches                                                             *)

\* HandleServiceRequest returns; once its context is released it can only fail.
executeRequest(b) ==
  /\ hedgeBranch[b] = "running"
  /\ hedgeBranch' = [hedgeBranch EXCEPT ![b] = "done"]
  /\ \E kind \in IF released THEN {"error"} ELSE Kinds :
       hedgeChan' = IF Len(hedgeChan) < 2
                     THEN Append(hedgeChan, [branch |-> b, kind |-> kind]) ELSE hedgeChan
  /\ UNCHANGED <<sinceReturn, callerDone, raceVars, endpoint, losers, suppliersTried, cleanup, released>>

-----------------------------------------------------------------------------
(* Helpers of race()                                                        *)

\* cleanupRunningBranches starts the goroutine.
cleanupRunningBranches ==
  cleanup' = [pc |-> "waiting", got |-> 0, timer |-> GraceWindow]

\* once.Do: the first caller names the winner.
recordWinner(r) == hedgeWinner' = IF hedgeWinner = {} THEN {r} ELSE hedgeWinner

\* race() returns the result through handleResult, which tracks its supplier.
Return(r) ==
  /\ hedgePc' = "returned" /\ returned' = {r}
  /\ suppliersTried' = suppliersTried \cup {endpoint[r.branch]}

ReturnCtxErr ==
  /\ callerDone
  /\ hedgePc' = "returned"
  /\ cleanupRunningBranches
  /\ UNCHANGED <<sinceReturn, callerDone, timer, endpoint, hedgeBranch, hedgeChan, firstResult, returned,
                 received, hedgeWinner, losers, suppliersTried, released>>

\* Another endpoint of another operator. The top-ranked one is chosen; which
\* one that is does not matter here.
selectHedgeEndpoint(available) ==
  {ep \in available \ {endpoint["primary"]} :
     DomainOf[endpoint["primary"]] = "" \/ DomainOf[ep] # DomainOf[endpoint["primary"]]}

-----------------------------------------------------------------------------
(* race()                                                                   *)

start ==
  /\ hedgePc = "start"
  /\ \E ep \in Candidates : endpoint' = [endpoint EXCEPT !["primary"] = ep]
  /\ hedgeBranch' = [hedgeBranch EXCEPT !["primary"] = "running"]
  /\ hedgePc' = "delay" /\ timer' = HedgeDelay
  /\ UNCHANGED <<sinceReturn, callerDone, firstResult, returned, received, hedgeWinner, hedgeChan,
                 losers, suppliersTried, cleanup, released>>

\* The primary answered before hedgeDelay.
primaryOnly ==
  /\ hedgePc = "delay" /\ hedgeChan # << >>
  /\ LET r == Head(hedgeChan) IN
       /\ hedgeChan' = Tail(hedgeChan) /\ received' = received \cup {r}
       /\ recordWinner(r)
       /\ released' = TRUE
       /\ Return(r)
  /\ UNCHANGED <<sinceReturn, callerDone, timer, endpoint, hedgeBranch, firstResult, losers, cleanup>>

\* hedgeDelay elapsed: start the hedge, or go on without one when there is no other
\* operator or its protocol context cannot be built.
startHedge ==
  /\ hedgePc = "delay" /\ timer = 0
  /\ hedgePc' = "first"
  /\ \E available \in SUBSET Candidates :
       /\ endpoint["primary"] \in available
       /\ \/ /\ selectHedgeEndpoint(available) = {}
             /\ UNCHANGED <<endpoint, hedgeBranch, suppliersTried>>
          \/ \E ep \in selectHedgeEndpoint(available) :
               /\ suppliersTried' = suppliersTried \cup {endpoint["primary"], ep}
               /\ endpoint' = [endpoint EXCEPT !["hedge"] = ep]
               /\ \/ hedgeBranch' = [hedgeBranch EXCEPT !["hedge"] = "running"]
                  \/ UNCHANGED hedgeBranch
  /\ UNCHANGED <<sinceReturn, callerDone, timer, firstResult, returned, received, hedgeWinner,
                 hedgeChan, losers, cleanup, released>>

\* waitForWinner, first result.
takeFirst ==
  /\ hedgePc = "first" /\ hedgeChan # << >>
  /\ LET r == Head(hedgeChan) IN
       /\ hedgeChan' = Tail(hedgeChan) /\ received' = received \cup {r}
       /\ firstResult' = {r}
       /\ IF r.kind = "valid"
          THEN hedgePc' = "collect" /\ timer' = CollectWait /\ recordWinner(r)
          ELSE hedgePc' = "second" /\ timer' = SecondWait /\ UNCHANGED hedgeWinner
  /\ UNCHANGED <<sinceReturn, callerDone, returned, endpoint, hedgeBranch, losers, suppliersTried,
                 cleanup, released>>

\* Mutation: with two results the first one is used if the second is not an error.
BetterOfIgnoringHeuristic(first, second) == IF second.kind # "error" THEN first ELSE second

\* The second result if it is valid, or else the first.
BetterOf(first, second) == IF second.kind = "valid" THEN second ELSE first

\* waitForWinner, second result after a first that failed.
takeSecond ==
  /\ hedgePc = "second" /\ hedgeChan # << >>
  /\ \E first \in firstResult :
       LET second == Head(hedgeChan)
           best == BetterOf(first, second)
           loser == IF best = first THEN second ELSE first
       IN /\ hedgeChan' = Tail(hedgeChan) /\ received' = received \cup {second}
          /\ recordWinner(best)
          /\ losers' = Append(losers, loser)
          /\ hedgePc' = "returned" /\ returned' = {best}
          /\ suppliersTried' = suppliersTried \cup {endpoint["primary"], endpoint["hedge"]}
  /\ released' = TRUE
  /\ UNCHANGED <<sinceReturn, callerDone, timer, firstResult, endpoint, hedgeBranch, cleanup>>

\* Mutation: the timeout path leaves the other branch's context alone.
secondTimeoutNoCleanup ==
  /\ hedgePc = "second" /\ timer = 0
  /\ \E first \in firstResult : recordWinner(first) /\ Return(first)
  /\ UNCHANGED <<sinceReturn, callerDone, timer, firstResult, received, endpoint, hedgeBranch, hedgeChan,
                 losers, released, cleanup>>

secondTimeout ==
  /\ hedgePc = "second" /\ timer = 0
  /\ \E first \in firstResult : recordWinner(first) /\ Return(first)
  /\ cleanupRunningBranches
  /\ UNCHANGED <<sinceReturn, callerDone, timer, firstResult, received, endpoint, hedgeBranch, hedgeChan,
                 losers, released>>

\* Mutation: the loser is recorded from a peek and drained again by the clean-up.
collectLoserTwice ==
  /\ hedgePc = "collect"
  /\ \/ /\ hedgeChan # << >>
        /\ losers' = Append(losers, Head(hedgeChan))
        /\ UNCHANGED hedgeChan
        /\ released' = released /\ cleanupRunningBranches
     \/ /\ timer = 0
        /\ cleanupRunningBranches
        /\ UNCHANGED <<hedgeChan, losers, released>>
  /\ \E first \in firstResult :
       /\ hedgePc' = "returned" /\ returned' = {first}
       /\ suppliersTried' = suppliersTried \cup {endpoint[first.branch]}
                               \cup {endpoint[losers'[k].branch] : k \in DOMAIN losers'}
  /\ UNCHANGED <<sinceReturn, callerDone, timer, firstResult, received, hedgeWinner, endpoint, hedgeBranch>>

\* collectLoserSync: the loser within the short window, or else the clean-up.
collectLoserSync ==
  /\ hedgePc = "collect"
  /\ \/ /\ hedgeChan # << >>
        /\ losers' = Append(losers, Head(hedgeChan))
        /\ hedgeChan' = Tail(hedgeChan)
        /\ released' = TRUE /\ UNCHANGED cleanup
     \/ /\ timer = 0
        /\ cleanupRunningBranches
        /\ UNCHANGED <<hedgeChan, losers, released>>
  /\ \E first \in firstResult :
       /\ hedgePc' = "returned" /\ returned' = {first}
       /\ suppliersTried' = suppliersTried \cup {endpoint[first.branch]}
                               \cup {endpoint[losers'[k].branch] : k \in DOMAIN losers'}
  /\ UNCHANGED <<sinceReturn, callerDone, timer, firstResult, received, hedgeWinner, endpoint, hedgeBranch>>

\* The caller's context ends while race() waits for a result.
callerLeaves == hedgePc \in {"delay", "first", "second"} /\ ReturnCtxErr

-----------------------------------------------------------------------------
(* cleanupRunningBranches, the goroutine                                    *)

\* Mutation: the drain stops after one result.
LastDrainOnce == cleanup.got = 0

\* The loop runs twice.
LastDrain == cleanup.got = 1

drainLoser ==
  /\ cleanup.pc = "waiting" /\ hedgeChan # << >>
  /\ hedgeChan' = Tail(hedgeChan)
  /\ losers' = Append(losers, Head(hedgeChan))
  /\ suppliersTried' = suppliersTried \cup {endpoint[Head(hedgeChan).branch]}
  /\ cleanup' = [cleanup EXCEPT !.got = @ + 1, !.timer = GraceWindow,
                                !.pc = IF LastDrain THEN "done" ELSE "waiting"]
  /\ released' = (released \/ LastDrain)
  /\ UNCHANGED <<sinceReturn, callerDone, raceVars, endpoint, hedgeBranch>>

graceOver ==
  /\ cleanup.pc = "waiting" /\ cleanup.timer = 0
  /\ cleanup' = [cleanup EXCEPT !.pc = "done"]
  /\ released' = TRUE
  /\ UNCHANGED <<sinceReturn, callerDone, raceVars, endpoint, hedgeBranch, hedgeChan, losers, suppliersTried>>

-----------------------------------------------------------------------------
(* The environment                                                          *)

callerCancels ==
  /\ ~ callerDone /\ callerDone' = TRUE
  /\ UNCHANGED <<sinceReturn, raceVars, endpoint, hedgeBranch, hedgeChan, losers, suppliersTried, cleanup, released>>

TimerDue ==
  \/ hedgePc \in {"delay", "second", "collect"} /\ timer = 0
  \/ cleanup.pc = "waiting" /\ cleanup.timer = 0

Down(n) == IF n > 0 THEN n - 1 ELSE 0

Tick ==
  /\ ~ TimerDue
  /\ timer' = Down(timer)
  /\ cleanup' = [cleanup EXCEPT !.timer = Down(@)]
  /\ sinceReturn' = IF hedgePc = "returned" /\ sinceReturn < GraceWindow THEN sinceReturn + 1 ELSE sinceReturn
  /\ UNCHANGED <<callerDone, hedgePc, firstResult, returned, received, hedgeWinner, endpoint, hedgeBranch,
                 hedgeChan, losers, suppliersTried, released>>

Race == \/ start \/ primaryOnly \/ startHedge \/ takeFirst \/ takeSecond \/ secondTimeout
        \/ collectLoserSync \/ callerLeaves

Cleanup == drainLoser \/ graceOver

HedgeNext == \/ Race \/ Cleanup \/ callerCancels \/ Tick
        \/ \E b \in Branches : executeRequest(b)

HedgeSpec == HedgeInit /\ [][HedgeNext]_hedgeVars

\* Goroutines and timers run; the router puts a deadline on the caller's context.
HedgeFairSpec == /\ HedgeSpec
            /\ WF_hedgeVars(Race) /\ WF_hedgeVars(Cleanup) /\ WF_hedgeVars(callerCancels) /\ WF_hedgeVars(Tick)

-----------------------------------------------------------------------------
(* Properties                                                               *)

\* race() never returns a failed result when it has received a valid one, however
\* the two branches, the timers and the caller's cancellation interleave.
ValidResultWins ==
  \A r \in returned : r.kind # "valid" => \A other \in received : other.kind # "valid"

\* An outcome counts once: no branch is recorded as loser twice, or as both winner
\* and loser, by race(), collectLoserSync and the clean-up goroutine together.
OutcomesCountOnce ==
  /\ \A i, j \in DOMAIN losers : losers[i].branch = losers[j].branch => i = j
  /\ \A w \in hedgeWinner, i \in DOMAIN losers : losers[i].branch # w.branch

\* The outcome of a race, as its caller and the records of its branches see it.
RaceIsSound == ValidResultWins /\ OutcomesCountOnce

\* A branch still in flight is not torn down early: when cancelBranches runs, a
\* running branch has had the whole grace window since race() returned.
LosersFinishCleanly ==
  (released' /\ ~ released) =>
     \A b \in Branches : hedgeBranch[b] = "running" => hedgePc = "returned" /\ sinceReturn = GraceWindow
=============================================================================
