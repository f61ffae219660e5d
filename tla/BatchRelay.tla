------------------------------ MODULE BatchRelay ------------------------------
(***************************************************************************)
(* A JSON-RPC batch: handleBatchRelayRequest fans the payloads out to one     *)
(* goroutine each, under a semaphore, and collects their results;             *)
(* processSinglePayloadWithRetry is each goroutine's retry loop.  All items    *)
(* share the request's context and the circuit breaker.                      *)
(***************************************************************************)
EXTENDS RelayOutcome

CONSTANTS
  NumPayloads,
  MaxBatchPayloads,     \* 0: no limit
  MaxConcurrentRelays,  \* 0: no limit
  HedgeMaxBatchSize,    \* 0: no limit
  HedgeEnabled,         \* hedge_delay > 0
  FailedLookups         \* bound: failed lookups and context builds, all items

maxAttempts == MaxRetries + 1
Items == 1 .. NumPayloads

VARIABLES
  ctxDone,
  handler,      \* handleBatchRelayRequest: starting, rejected or done
  next,         \* the next item to start
  sem,          \* items that hold a slot of the semaphore
  item,         \* each item's goroutine
  resultChan,   \* items whose result is in the channel, in order
  results,      \* the results collected, by index
  qosUpdates,   \* UpdateWithResponse calls, in order
  broken,       \* hosts the circuit breaker reports to a starting item
  marked,       \* the outcome this step called MarkBroken for, a set of at most one: what
                \* the endpoint really answered
  lookups

vars == <<ctxDone, handler, next, sem, item, resultChan, results, qosUpdates, broken, marked, lookups>>

\* attempt, rotation state and last outcome of an item. capabilityAnswers are the
\* attempts that an endpoint answered with a capability limitation; released: the race released
\* the context that the item's protocol context now uses; reply: there is a response or an
\* error to hand on.
IdleItem == [pc |-> "none", attempt |-> 1, endpoint |-> NoEndpoint, hedge |-> NoEndpoint,
             tried |-> {}, domains |-> {}, last |-> {}, capabilityFailures |-> 0,
             capabilityAnswers |-> {}, released |-> FALSE, reply |-> FALSE]

TypeOK ==
  /\ ctxDone \in BOOLEAN
  /\ handler \in {"starting", "rejected", "done"} /\ next \in 1 .. NumPayloads + 1
  /\ sem \subseteq Items
  /\ \A i \in Items :
       /\ item[i].pc \in {"none", "top", "relay", "race", "send", "over"}
       /\ item[i].attempt \in 1 .. maxAttempts + 1
       /\ item[i].last \subseteq AnyOutcome /\ Cardinality(item[i].last) <= 1
       /\ item[i].capabilityFailures \in 0 .. capabilityAttemptBudget
  /\ resultChan \in Seq(Items)
  /\ results \subseteq Items /\ qosUpdates \in Seq(Items)
  /\ marked \subseteq AnyOutcome
  /\ lookups \in 0 .. FailedLookups

Init ==
  /\ ctxDone = FALSE /\ sem = {} /\ resultChan = << >> /\ results = {} /\ qosUpdates = << >>
  /\ handler = IF MaxBatchPayloads > 0 /\ NumPayloads > MaxBatchPayloads THEN "rejected" ELSE "starting"
  /\ next = 1
  /\ item = [i \in Items |-> IdleItem]
  /\ broken \in {{}} \cup {{Host[ep]} : ep \in Endpoints}
  /\ marked = {} /\ lookups = 0

-----------------------------------------------------------------------------
(* handleBatchRelayRequest                                                  *)

\* Take a slot, then start the goroutine, which first reads the broken domains.
spawn(i) ==
  /\ handler = "starting" /\ next = i
  /\ MaxConcurrentRelays > 0 => Cardinality(sem) < MaxConcurrentRelays
  /\ sem' = sem \cup {i}
  /\ item' = [item EXCEPT ![i].pc = "top", ![i].domains = broken]
  /\ next' = i + 1
  /\ marked' = {} /\ UNCHANGED <<ctxDone, handler, resultChan, results, qosUpdates, broken, lookups>>

\* The channel holds one result per payload, so the send never blocks; the slot is
\* released after it.
sendResult(i) ==
  /\ item[i].pc = "send"
  /\ resultChan' = Append(resultChan, i)
  /\ item' = [item EXCEPT ![i].pc = "over"]
  /\ sem' = sem \ {i}
  /\ marked' = {} /\ UNCHANGED <<ctxDone, handler, next, results, qosUpdates, broken, lookups>>

\* Mutation: results are handed over as they arrive.
InArrivalOrder(got) == SelectSeq(resultChan, LAMBDA i : i \in got)

\* Results go to the QoS context by index, those that have a response or an error.
InOrder(got) == [k \in 1 .. Cardinality(got) |-> CHOOSE i \in got : Cardinality({j \in got : j < i}) = k - 1]

\* All started, all goroutines gone, the channel closed and drained.
collect ==
  /\ handler = "starting" /\ next = NumPayloads + 1
  /\ \A i \in Items : item[i].pc = "over"
  /\ results' = Items /\ handler' = "done"
  /\ qosUpdates' = InOrder({i \in Items : item[i].reply})
  /\ marked' = {} /\ UNCHANGED <<ctxDone, next, sem, item, resultChan, broken, lookups>>

-----------------------------------------------------------------------------
(* processSinglePayloadWithRetry                                            *)

LookupFails == lookups < FailedLookups /\ lookups' = lookups + 1
shouldSuppressHedgeForBatch == HedgeMaxBatchSize > 0 /\ NumPayloads > HedgeMaxBatchSize

\* The loop is over: what is left of the goroutine is its result.
Finish(r) ==
  [IdleItem EXCEPT !.pc = "send", !.attempt = r.attempt, !.capabilityAnswers = r.capabilityAnswers, !.reply = r.reply]
Replied(r) == Finish([r EXCEPT !.reply = TRUE])

\* The attempt failed: lastErr is set.
NextAttempt(r) == [r EXCEPT !.attempt = @ + 1, !.pc = "top", !.last = {}, !.released = FALSE, !.reply = TRUE]

AttemptsLeft(r) == r.attempt <= maxAttempts

\* The attempts are used up, or the request is gone.
giveUp(i) ==
  /\ item[i].pc = "top"
  /\ ~AttemptsLeft(item[i]) \/ ctxDone
  /\ item' = [item EXCEPT ![i] = Replied(@)]
  /\ marked' = {} /\ UNCHANGED <<ctxDone, handler, next, sem, resultChan, results, qosUpdates, broken, lookups>>

attemptItem(i) ==
  /\ item[i].pc = "top" /\ AttemptsLeft(item[i]) /\ ~ctxDone
  /\ \/ \* no endpoints: the attempt is spent
        /\ LookupFails
        /\ item' = [item EXCEPT ![i] = NextAttempt(@)]
     \/ \E available \in (SUBSET Endpoints) \ {{}} :
          LET candidates == filterEndpoints(available, item[i].tried, item[i].domains) IN
          \/ /\ candidates = {} \* on the first attempt there is nothing to hand on
             /\ item' = [item EXCEPT ![i] = Finish(@)]
             /\ UNCHANGED lookups
          \/ \E ep \in candidates :
               LET picked == [item[i] EXCEPT !.endpoint = ep, !.hedge = NoEndpoint, !.released = FALSE,
                                             !.tried = @ \cup {ep}, !.domains = markDomainTried(@, ep)]
                   mayHedge == HedgeEnabled /\ ~shouldSuppressHedgeForBatch /\ item[i].attempt = 1
                                 /\ Cardinality(candidates) > 1
               IN  \/ LookupFails /\ item' = [item EXCEPT ![i] = NextAttempt(picked)]
                   \/ /\ ~mayHedge /\ UNCHANGED lookups
                      /\ item' = [item EXCEPT ![i] = [picked EXCEPT !.pc = "relay"]]
                   \/ /\ mayHedge /\ UNCHANGED lookups
                      /\ \E h \in {NoEndpoint} \cup {e \in candidates : Operator[e] # Operator[ep]} :
                           item' = [item EXCEPT ![i] = [picked EXCEPT !.pc = "race", !.hedge = h]]
  /\ marked' = {} /\ UNCHANGED <<ctxDone, handler, next, sem, resultChan, results, qosUpdates, broken>>

\* One more capability failure in the loop's count, and the budget it may exhaust.
noteCapabilityFailure(r, o) ==
  IF isCapabilityLimitationFailure(o) THEN [r EXCEPT !.capabilityFailures = @ + 1] ELSE r

BudgetSpent(r) == r.capabilityFailures >= capabilityAttemptBudget

\* The failed attempt is recorded and the loop goes on or stops. What the endpoint
\* answered and what the loop saw differ after a race that failed.
Failed(r, o) ==
  LET noted == noteCapabilityFailure([r EXCEPT !.last = {o}], o)
  IN  IF BudgetSpent(noted) THEN Replied(noted) ELSE NextAttempt(noted)

Answered(r, o) ==
  [r EXCEPT !.capabilityAnswers = @ \cup (IF isCapabilityLimitationFailure(o) THEN {r.attempt} ELSE {})]

\* The race returned a response without an error, or an error. Whichever branch won,
\* an error releases the detached contexts before the item falls through to a normal
\* request on the primary's protocol context.
raceReturns(i) ==
  /\ item[i].pc = "race"
  /\ \E o \in AnyOutcome :
       /\ o = Canceled => ctxDone
       /\ item' = [item EXCEPT ![i] =
            IF checkResponseSuccess(o) THEN Replied(@)
            ELSE IF o.err = "none"
            THEN Failed([Answered(@, o) EXCEPT !.tried = @ \cup {item[i].hedge},
                                               !.domains = markDomainTried(@, item[i].hedge)], o)
            ELSE [Answered(@, o) EXCEPT !.pc = "relay", !.released = TRUE, !.last = {o}]]
  /\ marked' = {} /\ UNCHANGED <<ctxDone, handler, next, sem, resultChan, results, qosUpdates, broken, lookups>>

\* What shouldCircuitBreak is given after an error: neither a status nor a heuristic.
ErrorOnly(o) == [o EXCEPT !.status = "none", !.heuristic = "none"]

\* Mutation: an error breaks the domain also when the client is gone.
BreaksDespiteAbort(o) == shouldCircuitBreak(IF o.err = "none" THEN o ELSE ErrorOnly(o))

\* An error breaks the domain unless the request itself is over.
Breaks(o) == IF o.err = "none" THEN shouldCircuitBreak(o) ELSE ~ctxDone /\ shouldCircuitBreak(ErrorOnly(o))

\* What the endpoint really answered, for the marks: a released context hides it.
RealOutcome(r, o) == IF r.released THEN r.last ELSE {o}

relayReturns(i) ==
  /\ item[i].pc = "relay"
  /\ \E o \in AnyOutcome :
       /\ o = Canceled => ctxDone \/ item[i].released
       /\ item[i].released => o = Canceled
       /\ IF checkResponseSuccess(o)
          THEN /\ item' = [item EXCEPT ![i] = Replied(@)]
               /\ marked' = {}
          ELSE /\ item' = [item EXCEPT ![i] = Failed(Answered(@, o), o)]
               /\ marked' = IF Breaks(o) THEN RealOutcome(item[i], o) ELSE {}
  /\ UNCHANGED <<ctxDone, handler, next, sem, resultChan, results, qosUpdates, broken, lookups>>

\* The client hangs up, or the router's deadline passes.
contextEnds ==
  /\ ~ctxDone /\ ctxDone' = TRUE
  /\ marked' = {} /\ UNCHANGED <<handler, next, sem, item, resultChan, results, qosUpdates, broken, lookups>>

Done == handler \in {"rejected", "done"} /\ UNCHANGED vars

ItemStep(i) == spawn(i) \/ sendResult(i) \/ giveUp(i) \/ attemptItem(i) \/ raceReturns(i) \/ relayReturns(i)

Next == (\E i \in Items : ItemStep(i)) \/ collect \/ contextEnds \/ Done

Spec == Init /\ [][Next]_vars
\* Goroutines are scheduled and every relay and race is bounded by a timeout.
FairSpec == Spec /\ WF_vars(collect) /\ \A i \in Items : WF_vars(ItemStep(i))

-----------------------------------------------------------------------------
(* Properties                                                               *)

\* Results reach the QoS context once and in the order of the payloads, whatever the order in
\* which the goroutines finish. A payload goes without one only if the circuit breaker had
\* broken the domains of all endpoints it was offered at its first attempt.
ResultsInPayloadOrder ==
  handler = "done" =>
    /\ \A j, k \in DOMAIN qosUpdates : j < k => qosUpdates[j] < qosUpdates[k]
    /\ \A i \in Items : i \notin {qosUpdates[k] : k \in DOMAIN qosUpdates}
                         => item[i].attempt = 1 /\ broken # {}

\* A batch whose client has gone breaks no domain with the errors its own abort produced, and
\* a backend's 4xx, capability limitations and over-servicing break none. A 4xx of the relay
\* miner comes as an error, without its status, and does break the domain.
OnlyFaultsBreakDomains ==
  \A m \in marked :
    /\ m # Canceled
    /\ m.err = "none" => m.status # "4xx"
    /\ ~isCapabilityLimitationFailure(m) /\ m.err # "overserviced"

\* "exactly one retry": an item meets at most two capability limitations, that is
\* capabilityAttemptBudget attempts end in one.
CapabilityRetriedOnce ==
  \A i \in Items : Cardinality(item[i].capabilityAnswers) <= capabilityAttemptBudget
=============================================================================
