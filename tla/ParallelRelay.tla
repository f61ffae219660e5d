----------------------------- MODULE ParallelRelay -----------------------------
(***************************************************************************)
(* One payload relayed to several endpoints at once (max_parallel_endpoints    *)
(* > 1): handleParallelRelayRequests starts one executeOneOfParallelRequests    *)
(* goroutine per protocol context, each with its own retry loop, and            *)
(* waitForFirstSuccessfulResponse takes their results from a channel.  The      *)
(* HTTP handler then writes what the QoS context holds as the response.         *)
(***************************************************************************)
EXTENDS RelayOutcome

CONSTANTS NumRequests, FailedLookups

maxAttempts == MaxRetries + 1
Branches == 1 .. NumRequests

VARIABLES
  ctx,           \* alive, timedOut or canceled; done once the handler has returned
  branch,        \* each goroutine
  resultChan,    \* of capacity NumRequests
  numFailed,     \* numFailedOrErrored
  outcome,       \* how waitForFirstSuccessfulResponse returned
  winner,        \* the result it returned, a set of at most one
  latest,        \* the latest result handed to the QoS context, a set of at most one;
                 \* dropped once the response is written
  marked,        \* the outcome this step called MarkBroken for, a set of at most one
  lookups        \* endpoint lookups and context builds that failed

vars == <<ctx, branch, resultChan, numFailed, outcome, winner, latest, marked, lookups>>

Results == [from : Branches, answer : AnyOutcome]
Fresh == [pc |-> "top", attempt |-> 1, target |-> NoEndpoint, tried |-> {}, domains |-> {}, last |-> Canceled]
Over == [Fresh EXCEPT !.pc = "over"]

TypeOK ==
  /\ ctx \in {"alive", "timedOut", "canceled", "done"}
  /\ \A b \in Branches :
       /\ branch[b].pc \in {"top", "relay", "delay", "report", "over"}
       /\ branch[b].attempt \in 1 .. maxAttempts
       /\ branch[b].target \in Endpoints \cup {NoEndpoint} /\ branch[b].last \in AnyOutcome
  /\ resultChan \in Seq(Results) /\ Len(resultChan) <= NumRequests
  /\ numFailed \in 0 .. NumRequests
  /\ outcome \in {"waiting", "first", "timedOut", "canceled", "allFailed"}
  /\ \A s \in {winner, latest} : s \subseteq Results /\ Cardinality(s) <= 1
  /\ marked \subseteq AnyOutcome /\ lookups \in 0 .. FailedLookups

Init ==
  /\ ctx = "alive" /\ resultChan = << >> /\ numFailed = 0
  /\ outcome = "waiting" /\ winner = {}
  /\ latest = {} /\ marked = {} /\ lookups = 0
  /\ \E target \in [Branches -> Endpoints], broken \in {{}} \cup {{Host[ep]} : ep \in Endpoints} :
       /\ \A b, c \in Branches : b # c => target[b] # target[c]
       /\ branch = [b \in Branches |-> [Fresh EXCEPT !.target = target[b], !.domains = broken]]

-----------------------------------------------------------------------------
(* executeOneOfParallelRequests                                             *)

LookupFails == lookups < FailedLookups /\ lookups' = lookups + 1
CtxDone == ctx # "alive"
Quiet == UNCHANGED <<ctx, numFailed, outcome, winner>>

\* The context ended before an attempt or during the delay: return, report nothing.
branchCancelled(b) ==
  /\ branch[b].pc \in {"top", "delay"} /\ CtxDone
  /\ branch' = [branch EXCEPT ![b] = Over]
  /\ Quiet /\ marked' = {} /\ UNCHANGED <<resultChan, latest, lookups>>

\* Mutation: every failed attempt breaks its domain.
MarkBrokenAlways(o) == {o}

MarkBrokenIf(o) == {l \in {o} : shouldCircuitBreak(l)}

\* Attempt 1 uses the given protocol context. Later ones pick another endpoint, and
\* return without a result when there is none, or when a lookup fails.
startAttempt(b) ==
  /\ branch[b].pc = "top" /\ ~CtxDone
  /\ \/ /\ branch[b].attempt = 1
        /\ branch' = [branch EXCEPT ![b].pc = "relay"]
        /\ marked' = {} /\ UNCHANGED lookups
     \/ /\ branch[b].attempt > 1
        /\ marked' = MarkBrokenIf(branch[b].last)
        /\ LET tried == branch[b].tried \cup {branch[b].target}
               domains == markDomainTried(branch[b].domains, branch[b].target)
           IN  \/ /\ LookupFails
                  /\ branch' = [branch EXCEPT ![b] = Over]
               \/ \E available \in (SUBSET Endpoints) \ {{}} :
                    LET candidates == filterEndpoints(available, tried, domains)
                    IN  \/ /\ candidates = {} /\ UNCHANGED lookups
                           /\ branch' = [branch EXCEPT ![b] = Over]
                        \/ \E ep \in candidates :
                             /\ UNCHANGED lookups
                             /\ branch' = [branch EXCEPT ![b] =
                                  [@ EXCEPT !.pc = "relay", !.target = ep, !.tried = tried, !.domains = domains]]
  /\ Quiet /\ UNCHANGED <<resultChan, latest>>

RetriesLeft(b) == branch[b].attempt < maxAttempts

\* HandleServiceRequest returns. The relay runs on the request's context, not on the
\* race's, so it is not cut short by the race's end. A failure goes to the QoS context
\* at once (and once more after the last attempt, when it came with an error).
relayReturns(b) ==
  /\ branch[b].pc = "relay"
  /\ \E o \in AnyOutcome, slow \in BOOLEAN :
       /\ o = Canceled => ctx \in {"canceled", "done"}
       /\ LET r == [from |-> b, answer |-> o]
              retry == RetriesLeft(b) /\ shouldRetry(o, slow)
          IN  IF checkResponseSuccess(o)
              THEN /\ branch' = [branch EXCEPT ![b].pc = "report", ![b].last = o]
                   /\ UNCHANGED latest
              ELSE /\ branch' = [branch EXCEPT ![b].pc = IF retry THEN "delay" ELSE "report", ![b].last = o]
                   /\ latest' = IF ctx = "done" THEN {} ELSE {r}
  /\ Quiet /\ marked' = {} /\ UNCHANGED <<resultChan, lookups>>

delayOver(b) ==
  /\ branch[b].pc = "delay"
  /\ branch' = [branch EXCEPT ![b].pc = "top", ![b].attempt = @ + 1]
  /\ Quiet /\ marked' = {} /\ UNCHANGED <<resultChan, latest, lookups>>

SendResult(b) == resultChan' = Append(resultChan, [from |-> b, answer |-> branch[b].last])

\* Send the result, or give up when the context has ended.
report(b) ==
  /\ branch[b].pc = "report"
  /\ \/ Len(resultChan) < NumRequests /\ SendResult(b)
     \/ CtxDone /\ UNCHANGED resultChan
  /\ branch' = [branch EXCEPT ![b] = Over]
  /\ Quiet /\ marked' = {} /\ UNCHANGED <<latest, lookups>>

-----------------------------------------------------------------------------
(* waitForFirstSuccessfulResponse and the HTTP handler                      *)

waiting == outcome = "waiting"

\* A result without an error is taken for the first success.
handleSuccessfulResponse ==
  /\ waiting /\ resultChan # << >> /\ Head(resultChan).answer.err = "none"
  /\ resultChan' = Tail(resultChan)
  /\ outcome' = "first" /\ winner' = {Head(resultChan)}
  /\ latest' = {Head(resultChan)}
  /\ marked' = {} /\ UNCHANGED <<ctx, branch, numFailed, lookups>>

\* The loop counts failures but leaves only when enough requests have succeeded.
handleFailedResponse ==
  /\ waiting /\ resultChan # << >> /\ Head(resultChan).answer.err # "none"
  /\ resultChan' = Tail(resultChan)
  /\ numFailed' = numFailed + 1
  /\ marked' = {} /\ UNCHANGED <<ctx, branch, outcome, winner, latest, lookups>>

handleContextDone ==
  /\ waiting /\ ctx \in {"timedOut", "canceled"}
  /\ outcome' = ctx
  /\ marked' = {} /\ UNCHANGED <<ctx, branch, resultChan, numFailed, winner, latest, lookups>>

\* The handler returns (cancelling the race's context) and the response is written:
\* the latest one the QoS context holds.
writeResponse ==
  /\ ~waiting /\ ctx # "done"
  /\ ctx' = "done"
  /\ winner' = {} /\ latest' = {}
  /\ marked' = {} /\ UNCHANGED <<branch, resultChan, numFailed, outcome, lookups>>

\* DefaultRelayRequestTimeout passes, or the client hangs up.
contextEnds ==
  /\ ctx = "alive"
  /\ ctx' \in {"timedOut", "canceled"}
  /\ marked' = {} /\ UNCHANGED <<branch, resultChan, numFailed, outcome, winner, latest, lookups>>

BranchStep(b) == branchCancelled(b) \/ startAttempt(b) \/ relayReturns(b) \/ delayOver(b) \/ report(b)
Waiter == handleSuccessfulResponse \/ handleFailedResponse \/ handleContextDone \/ writeResponse

AllOver == ctx = "done" /\ \A b \in Branches : branch[b].pc = "over"

Next == (\E b \in Branches : BranchStep(b)) \/ Waiter \/ contextEnds

Spec == Init /\ [][Next]_vars
\* Goroutines are scheduled, relays end by their own timeout, and the race's context
\* carries a deadline.
FairSpec == Spec /\ WF_vars(Waiter) /\ WF_vars(contextEnds) /\ \A b \in Branches : WF_vars(BranchStep(b))

-----------------------------------------------------------------------------
(* Properties                                                               *)

\* "Skip circuit breaking for archival-related errors": a domain is marked broken only for
\* a fault of its own, never for a relay that the end of the race cancelled.
OnlyFaultsBreakDomains ==
  \A o \in marked :
    /\ o # Canceled /\ o.status # "4xx"
    /\ ~isCapabilityLimitationFailure(o) /\ o.err # "overserviced"

\* "Processes the first successful endpoint's response using the QoS context": the
\* response written to the client is the winner's.
ClientGetsTheWinner == ctx # "done" /\ ctx' = "done" /\ winner # {} => latest = winner
=============================================================================
