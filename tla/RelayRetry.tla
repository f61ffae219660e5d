------------------------------ MODULE RelayRetry ------------------------------
(***************************************************************************)
(* One relay request with one payload: endpoint selection for the first       *)
(* attempt (BuildProtocolContextsFromHTTPRequest) and the retry loop of        *)
(* handleSingleRelayRequest, with a hedge race as first attempt when           *)
(* hedge_delay is set.  The race itself is module Hedge; here it is what its   *)
(* caller sees of it.                                                        *)
(***************************************************************************)
EXTENDS RelayOutcome

CONSTANTS
  QosValid,      \* endpoints that pass the QoS filter
  FailedLookups  \* bound: failed endpoint lookups and failed context builds

maxAttempts == MaxRetries + 1

VARIABLES
  hedging,                 \* hedge_delay > 0, a setting of the service
  ctxDone,                 \* the request's context: client gone or deadline passed
  pc, attempt,
  broken,                  \* hosts the circuit breaker reported when the loop started
  current,                 \* currentEndpointAddr
  target,                  \* endpoint of currentProtocolCtx
  racing,                  \* the hedge race's primaryEndpoint and hedge endpoint
  triedEndpoints, triedDomains,
  last,                    \* outcome of the last attempt, a set of at most one
  capabilityFailures,
  latest,                  \* the latest outcome handed to the QoS context, the one it
                           \* answers with; a set of at most one
  marked,                  \* MarkBroken calls: endpoint and outcome
  sent,                    \* relays sent, in order
  lookups                  \* failed lookups so far

loopVars == <<broken, current, target, racing, triedEndpoints, triedDomains, last, capabilityFailures>>
vars == <<hedging, ctxDone, pc, attempt, loopVars, latest, marked, sent, lookups>>

NoRace == [primary |-> NoEndpoint, hedge |-> NoEndpoint]
Addr == Endpoints \cup {NoEndpoint}

TypeOK ==
  /\ hedging \in BOOLEAN /\ ctxDone \in BOOLEAN
  /\ pc \in {"build", "start", "top", "first", "rotate", "relay", "race", "delay", "failed", "ok", "ctxErr", "rejected"}
  /\ attempt \in 1 .. maxAttempts + 1
  /\ broken \subseteq {Host[ep] : ep \in Endpoints}
  /\ current \in Addr /\ target \in Addr
  /\ racing \in [primary : Addr, hedge : Addr]
  /\ triedEndpoints \subseteq Addr
  /\ triedDomains \subseteq {Host[ep] : ep \in Endpoints} \cup {Operator[ep] : ep \in Endpoints}
  /\ last \subseteq AnyOutcome /\ Cardinality(last) <= 1
  /\ capabilityFailures \in 0 .. capabilityAttemptBudget
  /\ latest \subseteq AnyOutcome /\ Cardinality(latest) <= 1
  /\ marked \subseteq [endpoint : Endpoints, outcome : AnyOutcome]
  /\ sent \in Seq(Endpoints)
  /\ lookups \in 0 .. FailedLookups

Init ==
  /\ hedging \in BOOLEAN
  /\ ctxDone = FALSE /\ pc = "build" /\ attempt = 1
  /\ broken \in SUBSET {Host[ep] : ep \in Endpoints}
  /\ current = NoEndpoint /\ target = NoEndpoint /\ racing = NoRace
  /\ triedEndpoints = {} /\ triedDomains = {}
  /\ last = {} /\ capabilityFailures = 0
  /\ latest = {} /\ marked = {} /\ sent = << >> /\ lookups = 0

-----------------------------------------------------------------------------
(* The protocol and the QoS instance, as the loop uses them                  *)

\* SelectMultipleWithArchival used as a filter: its result is ignored when empty.
QosFilter(available) == IF available \cap QosValid = {} THEN available ELSE available \cap QosValid

\* AvailableHTTPEndpoints: sessions roll over, so any endpoints may be there.
AvailableHTTPEndpoints == (SUBSET Endpoints) \ {{}}

\* A lookup or a context build fails.
LookupFails == lookups < FailedLookups /\ lookups' = lookups + 1

-----------------------------------------------------------------------------
(* BuildProtocolContextsFromHTTPRequest, max_parallel_endpoints = 1           *)

selectEndpoint ==
  /\ pc = "build"
  /\ \E available \in AvailableHTTPEndpoints :
       \E ep \in QosFilter(filterEndpointsByBrokenDomains(available, broken)) :
         \/ /\ target' = ep /\ pc' = "start" /\ UNCHANGED lookups
         \* The endpoint is gone: the first fresh endpoint that can be built replaces it.
         \/ /\ LookupFails
            /\ \E fresh \in Endpoints \ {ep} : target' = fresh
            /\ pc' = "start"
         \/ /\ LookupFails
            /\ pc' = "rejected" /\ UNCHANGED target
         \* The QoS instance may refuse instead of falling back on invalid endpoints.
         \/ /\ ep \notin QosValid
            /\ pc' = "rejected" /\ UNCHANGED <<target, lookups>>
  /\ UNCHANGED <<hedging, ctxDone, attempt, broken, current, racing, triedEndpoints, triedDomains, last,
                 capabilityFailures, latest, marked, sent>>

\* handleSingleRelayRequest starts: the broken hosts count as tried.
startLoop ==
  /\ pc = "start"
  /\ \E nowBroken \in SUBSET {Host[ep] : ep \in Endpoints} :
       broken' = nowBroken /\ triedDomains' = nowBroken
  /\ pc' = "top"
  /\ UNCHANGED <<hedging, ctxDone, attempt, current, target, racing, triedEndpoints, last,
                 capabilityFailures, latest, marked, sent, lookups>>

-----------------------------------------------------------------------------
(* The retry loop                                                           *)

\* Mutation: the end of the context does not leave the loop.
loopTopSpins ==
  /\ pc = "top"
  /\ pc' = IF attempt > maxAttempts THEN "failed"
           ELSE IF ctxDone THEN "top"
           ELSE IF attempt = 1 THEN "first" ELSE "rotate"
  /\ UNCHANGED <<hedging, ctxDone, attempt, loopVars, latest, marked, sent, lookups>>

loopTop ==
  /\ pc = "top"
  /\ pc' = IF attempt > maxAttempts THEN "failed"
           ELSE IF ctxDone THEN "ctxErr"
           ELSE IF attempt = 1 THEN "first" ELSE "rotate"
  /\ UNCHANGED <<hedging, ctxDone, attempt, loopVars, latest, marked, sent, lookups>>

Send(ep) == sent' = Append(sent, ep)

\* First attempt, no race: no hedge_delay, or no endpoints for a race.
firstRelay ==
  /\ pc = "first"
  /\ IF hedging THEN LookupFails ELSE UNCHANGED lookups
  /\ current' = NoEndpoint
  /\ Send(target) /\ pc' = "relay"
  /\ UNCHANGED <<hedging, ctxDone, attempt, broken, target, racing, triedEndpoints, triedDomains, last,
                 capabilityFailures, latest, marked>>

\* First attempt with a race: the primary is the context built earlier, its name in
\* the race the first of a freshly fetched list.
firstRace ==
  /\ pc = "first" /\ hedging
  /\ \E available \in AvailableHTTPEndpoints :
       \E primary \in QosFilter(available) :
         \/ /\ racing' = [primary |-> primary, hedge |-> NoEndpoint]
            /\ Send(target)
         \/ \E h \in QosFilter(available) \ {primary} :
              /\ Operator[h] # Operator[primary]
              /\ racing' = [primary |-> primary, hedge |-> h]
              /\ sent' = sent \o <<target, h>>
  /\ pc' = "race"
  /\ UNCHANGED <<hedging, ctxDone, attempt, broken, current, target, triedEndpoints, triedDomains, last,
                 capabilityFailures, latest, marked, lookups>>

\* Count a capability failure; the loop stops when the budget is spent.
noteCapabilityFailure(o) ==
  capabilityFailures' = capabilityFailures + (IF isCapabilityLimitationFailure(o) THEN 1 ELSE 0)

\* Mutation: one capability failure too many is allowed.
CapabilityBudgetOffByOne(o) ==
  isCapabilityLimitationFailure(o) /\ capabilityFailures + 1 > capabilityAttemptBudget

CapabilityBudgetSpent(o) ==
  isCapabilityLimitationFailure(o) /\ capabilityFailures + 1 >= capabilityAttemptBudget

\* Mutation: the hedge path drops the bytes of every failed response.
HedgeAnswerDropped(o) == latest

\* The hedge path hands only capability answers to the QoS context.
HedgeAnswer(o) == IF isCapabilityLimitationFailure(o) THEN {o} ELSE latest

\* The race returned an answer of one of the two branches.
raceAnswers ==
  /\ pc = "race"
  /\ \E ep \in {target, racing.hedge} \ {NoEndpoint} :
     \E o \in AnyOutcome :
       /\ o = Canceled => ctxDone
       /\ latest' = IF checkResponseSuccess(o) THEN {o} ELSE HedgeAnswer(o)
       /\ IF checkResponseSuccess(o)
          THEN /\ pc' = "ok"
               /\ UNCHANGED <<attempt, current, triedEndpoints, triedDomains, last, capabilityFailures>>
          ELSE /\ current' = ep /\ last' = {o}
               /\ triedEndpoints' = triedEndpoints \cup {racing.primary, racing.hedge}
               /\ triedDomains' = markDomainTried(markDomainTried(triedDomains, racing.primary), racing.hedge)
               /\ noteCapabilityFailure(o)
               /\ pc' = IF CapabilityBudgetSpent(o) THEN "failed" ELSE "top"
               /\ attempt' = attempt + 1
  /\ UNCHANGED <<hedging, ctxDone, broken, target, racing, marked, sent, lookups>>

\* The race returned the caller's context error, and no response.
raceCancelled ==
  /\ pc = "race" /\ ctxDone
  /\ last' = {Canceled}
  /\ triedEndpoints' = triedEndpoints \cup {racing.primary, racing.hedge}
  /\ triedDomains' = markDomainTried(markDomainTried(triedDomains, racing.primary), racing.hedge)
  /\ attempt' = attempt + 1 /\ pc' = "top"
  /\ UNCHANGED <<hedging, ctxDone, broken, current, target, racing, capabilityFailures, latest, marked, sent, lookups>>

\* HandleServiceRequest returns.
relayAnswers ==
  /\ pc = "relay"
  /\ \E o \in AnyOutcome, slow \in BOOLEAN :
       /\ o = Canceled => ctxDone
       /\ latest' = {o}
       /\ current' = IF attempt = 1 THEN target ELSE current
       /\ IF checkResponseSuccess(o)
          THEN pc' = "ok" /\ UNCHANGED <<last, capabilityFailures>>
          ELSE /\ last' = {o}
               /\ noteCapabilityFailure(o)
               /\ pc' = IF \/ attempt = maxAttempts
                           \/ CapabilityBudgetSpent(o)
                           \/ ~isCapabilityLimitationFailure(o) /\ ~shouldRetry(o, slow)
                        THEN "failed" ELSE "delay"
  /\ UNCHANGED <<hedging, ctxDone, attempt, broken, target, racing, triedEndpoints, triedDomains, marked, sent, lookups>>

\* 100 ms before the next attempt, cut short when the context ends.
retryDelay ==
  /\ pc = "delay"
  /\ \/ ctxDone /\ pc' = "ctxErr" /\ UNCHANGED attempt
     \/ pc' = "top" /\ attempt' = attempt + 1
  /\ UNCHANGED <<hedging, ctxDone, loopVars, latest, marked, sent, lookups>>

\* Mutation: every failed attempt breaks its domain.
MarkBrokenAlways(ep) ==
  marked' = marked \cup {[endpoint |-> e, outcome |-> o] : e \in {ep} \ {NoEndpoint}, o \in last}

\* MarkBroken for the previous endpoint.
MarkBrokenIf(ep) ==
  marked' = marked \cup {[endpoint |-> e, outcome |-> o] :
                           e \in {ep} \ {NoEndpoint}, o \in {l \in last : shouldCircuitBreak(l)}}

markTried ==
  /\ triedEndpoints' = triedEndpoints \cup {current}
  /\ triedDomains' = markDomainTried(triedDomains, current)

\* Attempt 2 and later: mark the previous endpoint, pick another one and relay to it.
rotate ==
  /\ pc = "rotate"
  /\ markTried
  /\ MarkBrokenIf(current)
  /\ \/ LookupFails /\ pc' = "failed" /\ UNCHANGED <<current, target, sent>>
     \/ \E available \in AvailableHTTPEndpoints :
          LET candidates == filterEndpoints(QosFilter(available), triedEndpoints', triedDomains')
          IN  \/ candidates = {} /\ pc' = "failed" /\ UNCHANGED <<current, target, sent, lookups>>
              \/ \E ep \in candidates :
                   /\ current' = ep
                   /\ \/ target' = ep /\ Send(ep) /\ pc' = "relay" /\ UNCHANGED lookups
                      \/ LookupFails /\ pc' = "failed" /\ UNCHANGED <<target, sent>>
  /\ UNCHANGED <<hedging, ctxDone, attempt, broken, racing, last, capabilityFailures, latest>>

\* The client hangs up, or the router's deadline passes.
contextEnds ==
  /\ ~ctxDone /\ ctxDone' = TRUE
  /\ UNCHANGED <<hedging, pc, attempt, loopVars, latest, marked, sent, lookups>>

Finished == pc \in {"ok", "failed", "ctxErr", "rejected"}
Done == Finished /\ UNCHANGED vars

Step == selectEndpoint \/ startLoop \/ loopTop \/ firstRelay \/ firstRace \/ raceAnswers
        \/ raceCancelled \/ relayAnswers \/ retryDelay \/ rotate

Next == Step \/ contextEnds \/ Done

Spec == Init /\ [][Next]_vars
\* Every relay and every race is bounded by a timeout, so the loop keeps moving.
FairSpec == Spec /\ WF_vars(Step)

-----------------------------------------------------------------------------
(* Properties                                                               *)

Rotates ==
  \A i, j \in DOMAIN sent :
    i < j => Operator[sent[i]] # Operator[sent[j]] /\ Host[sent[j]] \notin broken

\* Rotation: without hedging a retry never relays to an operator that an earlier
\* attempt relayed to, nor to a host that was broken when the loop started
\* (triedEndpoints, triedDomains, markDomainTried, filterEndpoints).
RetriesRotate == ~hedging => Rotates

\* A request that keeps meeting capability limitations is relayed at most twice as
\* far as they go: the attempt that met the second one is the last one
\* (capabilityAttemptBudget, noteCapabilityFailure, hedge and normal path together).
CapabilityRetriedOnce ==
  capabilityFailures >= capabilityAttemptBudget => Finished

\* No domain is broken on account of a request that ended because its client left:
\* only outcomes that an endpoint produced reach MarkBroken, and none of those is a
\* 4xx, a capability limitation or an over-servicing answer (shouldCircuitBreak).
OnlyFaultsBreakDomains ==
  \A m \in marked :
    /\ m.outcome # Canceled
    /\ m.outcome.status # "4xx"
    /\ ~isCapabilityLimitationFailure(m.outcome) /\ m.outcome.err # "overserviced"
    /\ \E k \in DOMAIN sent : m.endpoint = sent[k]

\* When the last attempt ended in a capability limitation, the backend's own answer is
\* the latest one the QoS context holds, so it is the one the client gets, on the
\* hedge path as on the normal one.
CapabilityAnswerReachesClient ==
  pc = "failed" /\ (\A l \in last : isCapabilityLimitationFailure(l))
    => latest = last

\* Both sides of the budget for capability limitations: one retry, and no answer lost.
CapabilityLimitsAreKept == CapabilityRetriedOnce /\ CapabilityAnswerReachesClient
=============================================================================
