-------------------------- MODULE RelayRequestProofs --------------------------
(***************************************************************************)
(* Proofs about the relays of a request with one payload: the retry loop     *)
(* (RelayRetry), for any endpoints, operators, retry limit and retry          *)
(* conditions, and the hedge race inside an attempt (Hedge), for any           *)
(* endpoints, domains and waits.                                            *)
(***************************************************************************)
EXTENDS RelayRetry, Hedge, TLAPS

-----------------------------------------------------------------------------
(* The retry loop                                                           *)

WasSent(ep) == \E k \in DOMAIN sent : sent[k] = ep

Typed ==
  /\ attempt \in Nat \ {0}
  /\ current \in Addr /\ target \in Addr
  /\ racing \in [primary : Addr, hedge : Addr]
  /\ last \subseteq AnyOutcome
  /\ capabilityFailures \in Nat
  /\ sent \in Seq(Endpoints)

\* The endpoints the loop can mark have been relayed to, and a cancelled attempt is the
\* last of its request: the loop passes its top with the context over.
FaultsOK ==
  /\ Canceled \in last => ctxDone /\ pc \in {"delay", "top", "ok", "failed", "ctxErr", "rejected"}
  /\ ~Finished => current = NoEndpoint \/ WasSent(current)
  /\ pc \notin {"build", "rejected"} => target \in Endpoints
  /\ pc \in {"relay", "race"} => WasSent(target)
  /\ pc = "race" => racing.hedge = NoEndpoint \/ WasSent(racing.hedge)
  /\ OnlyFaultsBreakDomains

\* Every attempt leaves its outcome, and a capability limitation its answer.
CapabilitiesOK ==
  /\ CapabilityRetriedOnce
  /\ attempt > 1 \/ pc \in {"delay", "failed"} => last # {}
  /\ pc = "rotate" => attempt > 1
  /\ pc # "ok" /\ last # {} /\ (\A l \in last : isCapabilityLimitationFailure(l)) => latest = last

\* The endpoint relayed to last, whose operator is marked when the next attempt starts.
Held == IF pc = "relay" /\ attempt = 1 THEN target ELSE current

\* Without hedging every operator relayed to is marked tried or held.
RotationOK ==
  /\ racing = NoRace /\ pc # "race"
  /\ pc \in {"build", "start", "first"} => attempt = 1
  /\ attempt = 1 /\ pc \in {"build", "start", "top", "first"} => sent = << >>
  /\ pc \notin {"build", "start", "rejected"} => broken \subseteq triedDomains
  /\ ~Finished => \A k \in DOMAIN sent : Operator[sent[k]] \in triedDomains \/ sent[k] = Held
  /\ Rotates

IInv == Typed /\ FaultsOK /\ CapabilitiesOK

-----------------------------------------------------------------------------
(* What the operators of the loop return                                     *)

\* A result that breaks a domain is no capability limitation and no over-servicing.
LEMMA FaultIsNoCapability ==
  \A o \in AnyOutcome : shouldCircuitBreak(o) => ~isCapabilityLimitationFailure(o) /\ o.err # "overserviced" /\ o.status # "4xx"
BY DEF AnyOutcome, Outcomes, Canceled, shouldCircuitBreak, isCapabilityLimitationFailure

\* A cancelled attempt is no success and no capability limitation.
LEMMA CanceledFacts ==
  /\ Canceled \in AnyOutcome /\ ~checkResponseSuccess(Canceled)
  /\ ~isCapabilityLimitationFailure(Canceled)
BY Zenon DEF AnyOutcome, Canceled, checkResponseSuccess, isCapabilityLimitationFailure

\* The QoS filter and the lookup name known endpoints.
LEMMA FilterIsKnown ==
  /\ \A available \in AvailableHTTPEndpoints : QosFilter(available) \subseteq Endpoints
  /\ \A b : \A available \in AvailableHTTPEndpoints :
       QosFilter(filterEndpointsByBrokenDomains(available, b)) \subseteq Endpoints
BY Zenon DEF AvailableHTTPEndpoints, QosFilter, filterEndpointsByBrokenDomains

\* What is sent stays sent, and the new relay is the last.
LEMMA AppendFacts ==
  ASSUME NEW s \in Seq(Endpoints), NEW ep \in Endpoints
  PROVE  /\ Append(s, ep) \in Seq(Endpoints)
         /\ DOMAIN Append(s, ep) = 1 .. Len(s) + 1 /\ DOMAIN s = 1 .. Len(s) /\ Len(s) \in Nat
         /\ \A k \in 1 .. Len(s) : Append(s, ep)[k] = s[k]
         /\ Append(s, ep)[Len(s) + 1] = ep
OBVIOUS

\* Two relays at once, the race's.
LEMMA PairFacts ==
  ASSUME NEW s \in Seq(Endpoints), NEW ep \in Endpoints, NEW h \in Endpoints
  PROVE  /\ s \o <<ep, h>> \in Seq(Endpoints)
         /\ DOMAIN (s \o <<ep, h>>) = 1 .. Len(s) + 2 /\ DOMAIN s = 1 .. Len(s) /\ Len(s) \in Nat
         /\ \A k \in 1 .. Len(s) : (s \o <<ep, h>>)[k] = s[k]
         /\ (s \o <<ep, h>>)[Len(s) + 1] = ep /\ (s \o <<ep, h>>)[Len(s) + 2] = h
OBVIOUS

\* The relays sent are kept by every step.
SentKept == \A ep : WasSent(ep) => WasSent(ep)'

-----------------------------------------------------------------------------
(* The first invariant, one lemma per action                                 *)

LEMMA SelectKeeps == IInv /\ selectEndpoint => IInv'
<1> SUFFICES ASSUME IInv, selectEndpoint PROVE IInv'
  OBVIOUS
<1>1. /\ pc = "build" /\ pc' \in {"start", "rejected"}
      /\ target' \in Addr /\ (pc' # "rejected" => target' \in Endpoints)
  BY FilterIsKnown, Zenon DEF IInv, Typed, selectEndpoint, Addr
<1>2. UNCHANGED <<ctxDone, attempt, broken, current, racing, triedEndpoints, triedDomains, last,
                  capabilityFailures, latest, marked, sent>>
  BY Zenon DEF selectEndpoint
<1>3. Typed'
  BY <1>1, <1>2, Zenon DEF IInv, Typed
<1>4. FaultsOK'
  BY <1>1, <1>2, Zenon DEF IInv, FaultsOK, Finished, WasSent, OnlyFaultsBreakDomains
<1>5. CapabilitiesOK'
  BY <1>1, <1>2, Zenon DEF IInv, CapabilitiesOK, CapabilityRetriedOnce, Finished
<1> QED
  BY <1>3, <1>4, <1>5, Zenon DEF IInv

LEMMA StartKeeps == IInv /\ startLoop => IInv'
<1> SUFFICES ASSUME IInv, startLoop PROVE IInv'
  OBVIOUS
<1> USE DEF startLoop
<1>1. Typed'
  BY Zenon DEF IInv, Typed
<1>2. FaultsOK'
  BY Zenon DEF IInv, FaultsOK, Finished, WasSent, OnlyFaultsBreakDomains
<1>3. CapabilitiesOK'
  BY Zenon DEF IInv, CapabilitiesOK, CapabilityRetriedOnce, Finished
<1> QED
  BY <1>1, <1>2, <1>3, Zenon DEF IInv

LEMMA TopKeeps == IInv /\ loopTop => IInv'
<1> SUFFICES ASSUME IInv, loopTop PROVE IInv'
  OBVIOUS
<1>1. /\ pc = "top"
      /\ pc' \in {"failed", "ctxErr", "first", "rotate"}
      /\ pc' \in {"first", "rotate"} => ~ctxDone
      /\ pc' \in {"failed", "rotate"} => attempt > 1
  BY RelayAssumption DEF loopTop, IInv, Typed, maxAttempts
<1>2. UNCHANGED <<ctxDone, attempt, loopVars, latest, marked, sent, lookups>>
  BY Zenon DEF loopTop
<1>3. Typed'
  BY <1>1, <1>2, Zenon DEF IInv, Typed, loopVars
<1>4. FaultsOK'
  BY <1>1, <1>2, Zenon DEF IInv, FaultsOK, Finished, WasSent, OnlyFaultsBreakDomains, loopVars
<1>5. CapabilitiesOK'
  BY <1>1, <1>2, Zenon DEF IInv, CapabilitiesOK, CapabilityRetriedOnce, Finished, loopVars
<1> QED
  BY <1>3, <1>4, <1>5, Zenon DEF IInv

\* No operator is marked, and what was relayed to stays relayed to.
LEMMA MarksKept ==
  ASSUME OnlyFaultsBreakDomains, marked' = marked, SentKept
  PROVE  OnlyFaultsBreakDomains'
<1>1. ASSUME NEW m \in marked
      PROVE  /\ m.outcome # Canceled /\ m.outcome.status # "4xx"
             /\ ~isCapabilityLimitationFailure(m.outcome) /\ m.outcome.err # "overserviced"
             /\ \E k \in DOMAIN sent' : m.endpoint = sent'[k]
  <2>1. /\ m.outcome # Canceled /\ m.outcome.status # "4xx"
        /\ ~isCapabilityLimitationFailure(m.outcome) /\ m.outcome.err # "overserviced" /\ WasSent(m.endpoint)
    BY Zenon DEF OnlyFaultsBreakDomains, WasSent
  <2>2. WasSent(m.endpoint)'
    BY <2>1, Zenon DEF SentKept
  <2> QED
    BY <2>1, <2>2, Zenon DEF WasSent
<1> QED
  BY <1>1, Zenon DEF OnlyFaultsBreakDomains

LEMMA FirstRelayKeeps == IInv /\ firstRelay => IInv'
<1> SUFFICES ASSUME IInv, firstRelay PROVE IInv'
  OBVIOUS
<1>1. /\ pc = "first" /\ pc' = "relay" /\ current' = NoEndpoint
      /\ sent' = Append(sent, target) /\ target \in Endpoints /\ sent \in Seq(Endpoints)
  BY Zenon DEF firstRelay, Send, IInv, FaultsOK, Typed
<1>2. UNCHANGED <<ctxDone, attempt, broken, target, racing, triedEndpoints, triedDomains, last,
                  capabilityFailures, latest, marked>>
  BY Zenon DEF firstRelay
<1>3. SentKept /\ WasSent(target)' /\ sent' \in Seq(Endpoints)
  BY <1>1, <1>2, AppendFacts DEF SentKept, WasSent
<1>4. Typed'
  BY <1>1, <1>2, <1>3, Zenon DEF IInv, Typed, Addr
<1>5. OnlyFaultsBreakDomains'
  BY <1>2, <1>3, MarksKept, Zenon DEF IInv, FaultsOK
<1>6. FaultsOK'
  BY <1>1, <1>2, <1>3, <1>5, Zenon DEF IInv, FaultsOK, Finished
<1>7. CapabilitiesOK'
  BY <1>1, <1>2, Zenon DEF IInv, CapabilitiesOK, CapabilityRetriedOnce, Finished
<1> QED
  BY <1>4, <1>6, <1>7, Zenon DEF IInv

LEMMA FirstRaceKeeps == IInv /\ firstRace => IInv'
<1> SUFFICES ASSUME IInv, firstRace PROVE IInv'
  OBVIOUS
<1>1. /\ pc = "first" /\ pc' = "race" /\ target \in Endpoints /\ sent \in Seq(Endpoints)
  BY Zenon DEF firstRace, IInv, FaultsOK, Typed
<1>2. UNCHANGED <<ctxDone, attempt, broken, current, target, triedEndpoints, triedDomains, last,
                  capabilityFailures, latest, marked, lookups>>
  BY Zenon DEF firstRace
<1>3. PICK available \in AvailableHTTPEndpoints : \E primary \in QosFilter(available) :
         \/ racing' = [primary |-> primary, hedge |-> NoEndpoint] /\ Send(target)
         \/ \E h \in QosFilter(available) \ {primary} :
              racing' = [primary |-> primary, hedge |-> h] /\ sent' = sent \o <<target, h>>
  BY Zenon DEF firstRace
<1>4. PICK primary \in QosFilter(available) :
         \/ racing' = [primary |-> primary, hedge |-> NoEndpoint] /\ Send(target)
         \/ \E h \in QosFilter(available) \ {primary} :
              racing' = [primary |-> primary, hedge |-> h] /\ sent' = sent \o <<target, h>>
  BY <1>3, Zenon
<1>5. /\ SentKept /\ WasSent(target)' /\ sent' \in Seq(Endpoints)
      /\ racing' \in [primary : Addr, hedge : Addr]
      /\ racing'.hedge = NoEndpoint \/ WasSent(racing.hedge)'
  <2>1. CASE racing' = [primary |-> primary, hedge |-> NoEndpoint] /\ Send(target)
    <3>a. /\ sent' \in Seq(Endpoints)
          /\ DOMAIN sent' = 1 .. Len(sent) + 1 /\ DOMAIN sent = 1 .. Len(sent) /\ Len(sent) \in Nat
          /\ \A k \in 1 .. Len(sent) : sent'[k] = sent[k]
          /\ sent'[Len(sent) + 1] = target
      BY <1>1, <2>1, AppendFacts DEF Send
    <3>1. SentKept /\ WasSent(target)' /\ sent' \in Seq(Endpoints)
      BY <1>2, <3>a DEF SentKept, WasSent
    <3>2. primary \in Addr /\ NoEndpoint \in Addr
      BY FilterIsKnown, Zenon DEF Addr
    <3>3. racing' \in [primary : Addr, hedge : Addr] /\ racing'.hedge = NoEndpoint
      BY <2>1, <3>2, Zenon
    <3> QED
      BY <3>1, <3>3, Zenon
  <2>2. ASSUME NEW h \in QosFilter(available) \ {primary},
               racing' = [primary |-> primary, hedge |-> h], sent' = sent \o <<target, h>>
        PROVE  /\ SentKept /\ WasSent(target)' /\ sent' \in Seq(Endpoints)
               /\ racing' \in [primary : Addr, hedge : Addr]
               /\ racing'.hedge = NoEndpoint \/ WasSent(racing.hedge)'
    <3>1. h \in Endpoints /\ primary \in Endpoints
      BY FilterIsKnown, Zenon
    <3>a. /\ sent' \in Seq(Endpoints)
          /\ DOMAIN sent' = 1 .. Len(sent) + 2 /\ DOMAIN sent = 1 .. Len(sent) /\ Len(sent) \in Nat
          /\ \A k \in 1 .. Len(sent) : sent'[k] = sent[k]
          /\ sent'[Len(sent) + 1] = target /\ sent'[Len(sent) + 2] = h
      BY <1>1, <2>2, <3>1, PairFacts
    <3>2. SentKept /\ WasSent(target)' /\ WasSent(h)' /\ sent' \in Seq(Endpoints)
      BY <1>2, <3>a DEF SentKept, WasSent
    <3>3. racing' \in [primary : Addr, hedge : Addr] /\ racing'.hedge = h
      BY <2>2, <3>1, Zenon DEF Addr
    <3> QED
      BY <3>2, <3>3, Zenon DEF WasSent
  <2> QED
    BY <1>4, <2>1, <2>2, Zenon
<1>6. Typed'
  BY <1>1, <1>2, <1>5, Zenon DEF IInv, Typed
<1>7. OnlyFaultsBreakDomains'
  BY <1>1, <1>2, <1>5 DEF IInv, FaultsOK, OnlyFaultsBreakDomains, SentKept, WasSent
<1>8. FaultsOK'
  BY <1>1, <1>2, <1>5, <1>7, Zenon DEF IInv, FaultsOK, Finished, SentKept
<1>9. CapabilitiesOK'
  BY <1>1, <1>2, Zenon DEF IInv, CapabilitiesOK, CapabilityRetriedOnce, Finished
<1> QED
  BY <1>6, <1>8, <1>9, Zenon DEF IInv

LEMMA RaceAnswersKeeps == IInv /\ raceAnswers => IInv'
<1> SUFFICES ASSUME IInv, raceAnswers PROVE IInv'
  OBVIOUS
<1>1. pc = "race" /\ UNCHANGED <<ctxDone, broken, target, racing, marked, sent, lookups>>
  BY Zenon DEF raceAnswers
<1>2. PICK ep \in {target, racing.hedge} \ {NoEndpoint}, o \in AnyOutcome :
       /\ o = Canceled => ctxDone
       /\ latest' = IF checkResponseSuccess(o) THEN {o} ELSE HedgeAnswer(o)
       /\ IF checkResponseSuccess(o)
          THEN /\ pc' = "ok"
               /\ UNCHANGED <<attempt, current, triedEndpoints, triedDomains, last, capabilityFailures>>
          ELSE /\ current' = ep /\ last' = {o}
               /\ noteCapabilityFailure(o)
               /\ pc' = IF CapabilityBudgetSpent(o) THEN "failed" ELSE "top"
               /\ attempt' = attempt + 1
  BY Zenon DEF raceAnswers
<1>3. ep \in Addr /\ WasSent(ep)
  BY <1>1, <1>2, Zenon DEF IInv, Typed, FaultsOK
<1>4. OnlyFaultsBreakDomains'
  BY <1>1, Zenon DEF IInv, FaultsOK, OnlyFaultsBreakDomains
<1>5. CASE checkResponseSuccess(o)
  <2>1. /\ pc' = "ok"
        /\ UNCHANGED <<attempt, current, triedEndpoints, triedDomains, last, capabilityFailures>>
    BY <1>2, <1>5, Zenon
  <2>2. Typed'
    BY <1>1, <2>1, Zenon DEF IInv, Typed
  <2>3. FaultsOK'
    BY <1>1, <1>4, <2>1, Zenon DEF IInv, FaultsOK, Finished
  <2>4. CapabilitiesOK'
    BY <1>1, <2>1, Zenon DEF IInv, CapabilitiesOK, CapabilityRetriedOnce, Finished
  <2> QED
    BY <2>2, <2>3, <2>4, Zenon DEF IInv
<1>6. CASE ~checkResponseSuccess(o)
  <2>1. /\ current' = ep /\ last' = {o} /\ noteCapabilityFailure(o)
        /\ pc' = IF CapabilityBudgetSpent(o) THEN "failed" ELSE "top"
        /\ attempt' = attempt + 1
        /\ latest' = IF isCapabilityLimitationFailure(o) THEN {o} ELSE latest
    BY <1>2, <1>6, Zenon DEF HedgeAnswer
  <2>2. capabilityFailures' \in Nat
    BY <2>1 DEF IInv, Typed, noteCapabilityFailure
  <2>3. pc' # "failed" => capabilityFailures' < capabilityAttemptBudget
    BY <1>1, <2>1 DEF IInv, Typed, CapabilitiesOK, CapabilityRetriedOnce, Finished, noteCapabilityFailure,
                      CapabilityBudgetSpent, capabilityAttemptBudget
  <2>4. Typed'
    BY <1>1, <1>2, <1>3, <2>1, <2>2 DEF IInv, Typed
  <2>5. WasSent(current)'
    BY <1>1, <1>3, <2>1, Zenon DEF WasSent
  <2>6. FaultsOK'
    BY <1>1, <1>2, <1>4, <2>1, <2>5, Zenon DEF IInv, FaultsOK, Finished
  <2>7. CapabilitiesOK'
    BY <1>1, <2>1, <2>2, <2>3 DEF IInv, Typed, CapabilitiesOK, CapabilityRetriedOnce, Finished,
                                  capabilityAttemptBudget
  <2> QED
    BY <2>4, <2>6, <2>7, Zenon DEF IInv
<1> QED
  BY <1>5, <1>6, Zenon

LEMMA RaceCancelledKeeps == IInv /\ raceCancelled => IInv'
<1> SUFFICES ASSUME IInv, raceCancelled PROVE IInv'
  OBVIOUS
<1>1. /\ pc = "race" /\ ctxDone /\ last' = {Canceled} /\ attempt' = attempt + 1 /\ pc' = "top"
      /\ UNCHANGED <<ctxDone, broken, current, target, racing, capabilityFailures, latest, marked, sent, lookups>>
  BY Zenon DEF raceCancelled
<1>2. Typed'
  BY <1>1, CanceledFacts DEF IInv, Typed
<1>3. FaultsOK'
  BY <1>1, Zenon DEF IInv, FaultsOK, Finished, WasSent, OnlyFaultsBreakDomains
<1>4. CapabilitiesOK'
  BY <1>1, CanceledFacts, Zenon DEF IInv, Typed, CapabilitiesOK, CapabilityRetriedOnce, Finished
<1> QED
  BY <1>2, <1>3, <1>4, Zenon DEF IInv

LEMMA RelayAnswersKeeps == IInv /\ relayAnswers => IInv'
<1> SUFFICES ASSUME IInv, relayAnswers PROVE IInv'
  OBVIOUS
<1>1. /\ pc = "relay"
      /\ UNCHANGED <<ctxDone, attempt, broken, target, racing, triedEndpoints, triedDomains, marked, sent, lookups>>
  BY Zenon DEF relayAnswers
<1>2. PICK o \in AnyOutcome :
       /\ o = Canceled => ctxDone
       /\ latest' = {o}
       /\ current' = IF attempt = 1 THEN target ELSE current
       /\ IF checkResponseSuccess(o)
          THEN pc' = "ok" /\ UNCHANGED <<last, capabilityFailures>>
          ELSE /\ last' = {o}
               /\ noteCapabilityFailure(o)
               /\ pc' \in {"failed", "delay"}
               /\ CapabilityBudgetSpent(o) => pc' = "failed"
  BY Zenon DEF relayAnswers
<1>3. OnlyFaultsBreakDomains'
  BY <1>1, Zenon DEF IInv, FaultsOK, OnlyFaultsBreakDomains
<1>4. current' \in Addr /\ (current' = NoEndpoint \/ WasSent(current)')
  BY <1>1, <1>2, Zenon DEF IInv, Typed, FaultsOK, Finished, WasSent
<1>5. CASE checkResponseSuccess(o)
  <2>1. pc' = "ok" /\ UNCHANGED <<last, capabilityFailures>>
    BY <1>2, <1>5, Zenon
  <2>2. Typed'
    BY <1>1, <1>4, <2>1, Zenon DEF IInv, Typed
  <2>3. FaultsOK'
    BY <1>1, <1>3, <2>1, Zenon DEF IInv, FaultsOK, Finished
  <2>4. CapabilitiesOK'
    BY <1>1, <2>1, Zenon DEF IInv, CapabilitiesOK, CapabilityRetriedOnce, Finished
  <2> QED
    BY <2>2, <2>3, <2>4, Zenon DEF IInv
<1>6. CASE ~checkResponseSuccess(o)
  <2>1. /\ last' = {o} /\ noteCapabilityFailure(o) /\ latest' = {o} /\ pc' \in {"failed", "delay"}
        /\ CapabilityBudgetSpent(o) => pc' = "failed"
    BY <1>2, <1>6, Zenon
  <2>2. capabilityFailures' \in Nat
    BY <2>1 DEF IInv, Typed, noteCapabilityFailure
  <2>3. pc' # "failed" => capabilityFailures' < capabilityAttemptBudget
    BY <1>1, <2>1 DEF IInv, Typed, CapabilitiesOK, CapabilityRetriedOnce, Finished, noteCapabilityFailure,
                      CapabilityBudgetSpent, capabilityAttemptBudget
  <2>4. Typed'
    BY <1>1, <1>2, <1>4, <2>1, <2>2, Zenon DEF IInv, Typed
  <2>5. FaultsOK'
    BY <1>1, <1>2, <1>3, <1>4, <2>1, Zenon DEF IInv, FaultsOK, Finished
  <2>6. CapabilitiesOK'
    BY <1>1, <2>1, <2>2, <2>3 DEF IInv, Typed, CapabilitiesOK, CapabilityRetriedOnce, Finished,
                                  capabilityAttemptBudget
  <2> QED
    BY <2>4, <2>5, <2>6, Zenon DEF IInv
<1> QED
  BY <1>5, <1>6, Zenon

LEMMA DelayKeeps == IInv /\ retryDelay => IInv'
<1> SUFFICES ASSUME IInv, retryDelay PROVE IInv'
  OBVIOUS
<1>1. /\ pc = "delay" /\ pc' \in {"ctxErr", "top"} /\ attempt' \in {attempt, attempt + 1}
      /\ UNCHANGED <<ctxDone, loopVars, latest, marked, sent, lookups>>
  BY Zenon DEF retryDelay
<1>2. Typed'
  BY <1>1 DEF IInv, Typed, loopVars
<1>3. FaultsOK'
  BY <1>1, Zenon DEF IInv, FaultsOK, Finished, WasSent, OnlyFaultsBreakDomains, loopVars
<1>4. CapabilitiesOK'
  BY <1>1, Zenon DEF IInv, CapabilitiesOK, CapabilityRetriedOnce, Finished, loopVars
<1> QED
  BY <1>2, <1>3, <1>4, Zenon DEF IInv

\* What an attempt after the first does: it gives up, or relays to an endpoint that no
\* earlier attempt ruled out.
LEMMA RotateMoves ==
  ASSUME Typed, rotate
  PROVE  /\ pc = "rotate" /\ pc' \in {"failed", "relay"} /\ current' \in Addr
         /\ UNCHANGED <<ctxDone, attempt, broken, racing, last, capabilityFailures, latest>>
         /\ triedDomains' = markDomainTried(triedDomains, current)
         /\ pc' = "failed" => UNCHANGED <<target, sent>>
         /\ pc' = "relay" => /\ current' \in Endpoints /\ target' = current'
                             /\ sent' = Append(sent, current')
                             /\ Host[current'] \notin triedDomains'
                             /\ Operator[current'] \notin triedDomains'
<1>1. /\ pc = "rotate" /\ triedDomains' = markDomainTried(triedDomains, current)
      /\ UNCHANGED <<ctxDone, attempt, broken, racing, last, capabilityFailures, latest>>
  BY Zenon DEF rotate, markTried
<1>2. CASE LookupFails /\ pc' = "failed" /\ UNCHANGED <<current, target, sent>>
  BY <1>1, <1>2, Zenon DEF Typed
<1>3. ASSUME NEW available \in AvailableHTTPEndpoints,
             filterEndpoints(QosFilter(available), triedEndpoints', triedDomains') = {},
             pc' = "failed", UNCHANGED <<current, target, sent, lookups>>
      PROVE  current' \in Addr /\ pc' = "failed" /\ UNCHANGED <<target, sent>>
  BY <1>3, Zenon DEF Typed
<1>4. ASSUME NEW available \in AvailableHTTPEndpoints,
             NEW ep \in filterEndpoints(QosFilter(available), triedEndpoints', triedDomains'),
             current' = ep,
             \/ target' = ep /\ Send(ep) /\ pc' = "relay" /\ UNCHANGED lookups
             \/ LookupFails /\ pc' = "failed" /\ UNCHANGED <<target, sent>>
      PROVE  /\ current' \in Endpoints /\ pc' \in {"failed", "relay"}
             /\ Host[current'] \notin triedDomains' /\ Operator[current'] \notin triedDomains'
             /\ pc' = "failed" => UNCHANGED <<target, sent>>
             /\ pc' = "relay" => target' = current' /\ sent' = Append(sent, current')
  <2>1. ep \in Endpoints /\ Host[ep] \notin triedDomains' /\ Operator[ep] \notin triedDomains'
    BY FilterIsKnown, Zenon DEF filterEndpoints
  <2> QED
    BY <1>4, <2>1, Zenon DEF Send
<1> QED
  BY <1>1, <1>2, <1>3, <1>4, Zenon DEF rotate, Addr

LEMMA RotateKeeps == IInv /\ rotate => IInv'
<1> SUFFICES ASSUME IInv, rotate PROVE IInv'
  OBVIOUS
<1>1. Typed
  BY Zenon DEF IInv
<1>2. /\ pc = "rotate" /\ pc' \in {"failed", "relay"} /\ current' \in Addr
      /\ UNCHANGED <<ctxDone, attempt, broken, racing, last, capabilityFailures, latest>>
      /\ pc' = "failed" => UNCHANGED <<target, sent>>
      /\ pc' = "relay" => /\ current' \in Endpoints /\ target' = current'
                          /\ sent' = Append(sent, current')
  BY <1>1, RotateMoves, Zenon
<1>3. /\ SentKept /\ sent' \in Seq(Endpoints) /\ target' \in Endpoints
      /\ pc' = "relay" => WasSent(target)' /\ WasSent(current)'
  <2>1. CASE pc' = "failed"
    BY <1>1, <1>2, <2>1, Zenon DEF Typed, SentKept, WasSent, IInv, FaultsOK
  <2>2. CASE pc' = "relay"
    <3>1. /\ sent' \in Seq(Endpoints)
          /\ DOMAIN sent' = 1 .. Len(sent) + 1 /\ DOMAIN sent = 1 .. Len(sent) /\ Len(sent) \in Nat
          /\ \A k \in 1 .. Len(sent) : sent'[k] = sent[k]
          /\ sent'[Len(sent) + 1] = current' /\ target' = current'
      <4>1. sent \in Seq(Endpoints) /\ current' \in Endpoints
        BY <1>1, <1>2, <2>2, Zenon DEF Typed
      <4>2. sent' = Append(sent, current') /\ target' = current'
        BY <1>2, <2>2, Zenon
      <4> QED
        BY ONLY <4>1, <4>2, AppendFacts, Zenon
    <3>2. WasSent(target)' /\ WasSent(current)'
      BY <3>1 DEF WasSent
    <3>3. SentKept
      BY <3>1 DEF SentKept, WasSent
    <3> QED
      BY <1>2, <2>2, <3>1, <3>2, <3>3, Zenon
  <2> QED
    BY <1>2, <2>1, <2>2, Zenon
<1>4. \A m \in marked' : m \in marked \/
        /\ m.outcome # Canceled /\ m.outcome.status # "4xx" /\ ~isCapabilityLimitationFailure(m.outcome) /\ m.outcome.err # "overserviced"
        /\ WasSent(m.endpoint)
  <2>1. marked' = marked \cup {[endpoint |-> e, outcome |-> o] :
                        e \in {current} \ {NoEndpoint}, o \in {l \in last : shouldCircuitBreak(l)}}
    <3>1. MarkBrokenIf(current)
      BY Zenon DEF rotate
    <3> QED
      BY <3>1 DEF MarkBrokenIf
  <2>2. Canceled \notin last /\ (current = NoEndpoint \/ WasSent(current)) /\ last \subseteq AnyOutcome
    BY <1>1, <1>2, Zenon DEF IInv, FaultsOK, Finished, Typed
  <2> QED
    BY <2>1, <2>2, FaultIsNoCapability
<1>5. OnlyFaultsBreakDomains'
  <2> SUFFICES ASSUME NEW m \in marked'
               PROVE  /\ m.outcome # Canceled /\ m.outcome.status # "4xx"
                      /\ ~isCapabilityLimitationFailure(m.outcome) /\ m.outcome.err # "overserviced" /\ WasSent(m.endpoint)'
    BY Zenon DEF OnlyFaultsBreakDomains, WasSent
  <2>1. m \in marked => /\ m.outcome # Canceled /\ m.outcome.status # "4xx"
                        /\ ~isCapabilityLimitationFailure(m.outcome) /\ m.outcome.err # "overserviced" /\ WasSent(m.endpoint)
    BY Zenon DEF IInv, FaultsOK, OnlyFaultsBreakDomains, WasSent
  <2>2. /\ m.outcome # Canceled /\ m.outcome.status # "4xx"
        /\ ~isCapabilityLimitationFailure(m.outcome) /\ m.outcome.err # "overserviced" /\ WasSent(m.endpoint)
    BY <1>4, <2>1, Zenon
  <2> QED
    BY <1>3, <2>2, Zenon DEF SentKept
<1>6. Typed'
  BY <1>2, <1>3, Zenon DEF IInv, Typed, Addr
<1>7. FaultsOK'
  BY <1>2, <1>3, <1>5, Zenon DEF IInv, FaultsOK, Finished
<1>8. CapabilitiesOK'
  BY <1>2, Zenon DEF IInv, CapabilitiesOK, CapabilityRetriedOnce, Finished
<1> QED
  BY <1>6, <1>7, <1>8, Zenon DEF IInv

\* The end of the context and steps that change nothing.
LEMMA IdleKeeps == IInv /\ (contextEnds \/ UNCHANGED vars) => IInv'
<1> SUFFICES ASSUME IInv, contextEnds \/ UNCHANGED vars PROVE IInv'
  OBVIOUS
<1>1. /\ UNCHANGED <<pc, attempt, loopVars, latest, marked, sent>>
      /\ ctxDone => ctxDone'
  BY DEF contextEnds, vars
<1>2. Typed'
  BY <1>1, Zenon DEF IInv, Typed, loopVars
<1>3. FaultsOK'
  BY <1>1, Zenon DEF IInv, FaultsOK, Finished, WasSent, OnlyFaultsBreakDomains, loopVars
<1>4. CapabilitiesOK'
  BY <1>1, Zenon DEF IInv, CapabilitiesOK, CapabilityRetriedOnce, Finished, loopVars
<1> QED
  BY <1>2, <1>3, <1>4, Zenon DEF IInv

-----------------------------------------------------------------------------
(* Rotation                                                                 *)

\* A new relay keeps the rotation when its operator is none of those relayed to.
LEMMA NewOperatorRotates ==
  ASSUME Rotates, racing.hedge = NoEndpoint, UNCHANGED <<racing, broken>>, sent \in Seq(Endpoints),
         NEW ep \in Endpoints, sent' = Append(sent, ep), Host[ep] \notin broken \/ sent = << >>,
         \A k \in DOMAIN sent : Operator[sent[k]] # Operator[ep]
  PROVE  Rotates'
<1>1. /\ DOMAIN sent' = 1 .. Len(sent) + 1 /\ DOMAIN sent = 1 .. Len(sent) /\ Len(sent) \in Nat
      /\ \A k \in 1 .. Len(sent) : sent'[k] = sent[k]
      /\ sent'[Len(sent) + 1] = ep
  BY AppendFacts
<1> SUFFICES ASSUME NEW i \in DOMAIN sent', NEW j \in DOMAIN sent', i < j
             PROVE  Operator[sent'[i]] # Operator[sent'[j]] /\ Host[sent'[j]] \notin broken
  BY DEF Rotates
<1>2. i \in DOMAIN sent /\ sent'[i] = sent[i]
  BY <1>1
<1>3. CASE j \in DOMAIN sent
  BY <1>1, <1>2, <1>3 DEF Rotates
<1>4. CASE j = Len(sent) + 1
  BY <1>1, <1>2, <1>4
<1> QED
  BY <1>1, <1>3, <1>4

LEMMA FirstRelayRotates == Typed /\ FaultsOK /\ RotationOK /\ firstRelay => RotationOK'
<1> SUFFICES ASSUME Typed, FaultsOK, RotationOK, firstRelay PROVE RotationOK'
  OBVIOUS
<1>1. /\ pc = "first" /\ pc' = "relay" /\ attempt = 1 /\ sent = << >> /\ racing = NoRace
      /\ sent' = Append(sent, target) /\ target \in Endpoints /\ sent \in Seq(Endpoints)
  BY Zenon DEF firstRelay, Send, FaultsOK, RotationOK, Typed
<1>2. UNCHANGED <<attempt, broken, target, racing, triedDomains>>
  BY Zenon DEF firstRelay
<1>3. DOMAIN sent = {} /\ DOMAIN sent' = {1} /\ sent'[1] = target
  BY <1>1
<1>4. Rotates'
  BY <1>1, <1>2, <1>3, NewOperatorRotates DEF RotationOK, NoRace
<1> QED
  BY <1>1, <1>2, <1>3, <1>4, Zenon DEF RotationOK, Finished, Held

LEMMA RotateRotates == Typed /\ FaultsOK /\ RotationOK /\ rotate => RotationOK'
<1> SUFFICES ASSUME Typed, FaultsOK, RotationOK, rotate PROVE RotationOK'
  OBVIOUS
<1>1. /\ pc = "rotate" /\ pc' \in {"failed", "relay"} /\ UNCHANGED <<attempt, broken, racing>>
      /\ triedDomains' = markDomainTried(triedDomains, current)
      /\ pc' = "failed" => UNCHANGED sent
      /\ pc' = "relay" => /\ current' \in Endpoints /\ target' = current'
                          /\ sent' = Append(sent, current')
                          /\ Host[current'] \notin triedDomains' /\ Operator[current'] \notin triedDomains'
  BY RotateMoves, Zenon
<1>2. /\ broken \subseteq triedDomains' /\ current \in Addr /\ sent \in Seq(Endpoints)
      /\ racing = NoRace
  BY <1>1, Zenon DEF RotationOK, markDomainTried, Typed
<1>3. \A k \in DOMAIN sent : Operator[sent[k]] \in triedDomains'
  <2> SUFFICES ASSUME NEW k \in DOMAIN sent PROVE Operator[sent[k]] \in triedDomains'
    OBVIOUS
  <2>1. sent[k] \in Endpoints /\ sent[k] # NoEndpoint
    BY <1>2, RelayAssumption
  <2>2. Operator[sent[k]] \in triedDomains \/ sent[k] = current
    BY <1>1, Zenon DEF RotationOK, Finished, Held
  <2> QED
    BY <1>1, <2>1, <2>2, Zenon DEF markDomainTried
<1>4. CASE pc' = "failed"
  <2>1. Rotates'
    BY <1>1, <1>4, Zenon DEF RotationOK, Rotates
  <2> QED
    BY <1>1, <1>2, <1>4, <2>1, Zenon DEF RotationOK, Finished
<1>5. CASE pc' = "relay"
  <2>1. Rotates'
    BY <1>1, <1>2, <1>3, <1>5, NewOperatorRotates DEF RotationOK, NoRace
  <2>2. \A k \in DOMAIN sent' : Operator[sent'[k]] \in triedDomains' \/ sent'[k] = current'
    <3>1. /\ DOMAIN sent' = 1 .. Len(sent) + 1 /\ DOMAIN sent = 1 .. Len(sent) /\ Len(sent) \in Nat
          /\ \A k \in 1 .. Len(sent) : sent'[k] = sent[k]
          /\ sent'[Len(sent) + 1] = current'
      BY <1>1, <1>2, <1>5, AppendFacts
    <3> QED
      BY <1>3, <3>1
  <2> QED
    BY <1>1, <1>2, <1>5, <2>1, <2>2, Zenon DEF RotationOK, Finished, Held
<1> QED
  BY <1>1, <1>4, <1>5, Zenon

\* The rotation is about the relays and the domains broken at the start.
LEMMA RotatesKept ==
  ASSUME Rotates, UNCHANGED <<sent, broken>>
  PROVE  Rotates'
<1>1. sent' = sent /\ broken' = broken
  BY Zenon
<1> QED
  BY <1>1 DEF Rotates

\* The steps that send no relay.
LEMMA OthersRotate ==
  ASSUME Typed, CapabilitiesOK, RotationOK, ~hedging,
         \/ selectEndpoint \/ startLoop \/ loopTop \/ firstRace \/ raceAnswers \/ raceCancelled
         \/ relayAnswers \/ retryDelay \/ contextEnds \/ UNCHANGED vars
  PROVE  RotationOK'
<1>1. CASE selectEndpoint
  <2>1. /\ pc = "build" /\ pc' \in {"start", "rejected"}
        /\ UNCHANGED <<attempt, broken, current, racing, triedDomains, sent>>
    BY <1>1, Zenon DEF selectEndpoint
  <2> QED
    BY <2>1 DEF RotationOK, Rotates, Finished, Held
<1>2. CASE startLoop
  <2>1. /\ pc = "start" /\ pc' = "top" /\ broken' = triedDomains' /\ UNCHANGED <<attempt, current, racing, sent>>
    BY <1>2, Zenon DEF startLoop
  <2>2. sent = << >> /\ sent' = << >> /\ attempt = 1
    BY <2>1, Zenon DEF RotationOK
  <2> QED
    BY <2>1, <2>2 DEF RotationOK, Rotates, Finished, Held
<1>3. CASE loopTop
  <2>1. /\ pc = "top" /\ pc' \in {"failed", "ctxErr", "first", "rotate"} /\ (pc' = "first" => attempt = 1)
        /\ UNCHANGED <<attempt, broken, current, racing, triedDomains, sent>>
    BY <1>3, Zenon DEF loopTop, loopVars
  <2> QED
    BY <2>1 DEF RotationOK, Rotates, Finished, Held
<1>4. CASE firstRace \/ raceAnswers \/ raceCancelled
  BY <1>4, Zenon DEF RotationOK, firstRace, raceAnswers, raceCancelled
<1>5. CASE relayAnswers
  <2>1. /\ pc = "relay" /\ pc' \in {"ok", "failed", "delay"} /\ current' = Held
        /\ UNCHANGED <<attempt, broken, racing, triedDomains, sent>>
    BY <1>5, Zenon DEF relayAnswers, Held
  <2>2. Held' = Held
    BY <2>1, Zenon DEF Held
  <2> QED
    BY <2>1, <2>2 DEF RotationOK, Rotates, Finished
<1>6. CASE retryDelay
  <2>1. /\ pc = "delay" /\ attempt \in Nat \ {0}
        /\ \/ pc' = "ctxErr" /\ UNCHANGED attempt
           \/ pc' = "top" /\ attempt' = attempt + 1
        /\ UNCHANGED <<broken, current, racing, triedDomains, sent>>
    BY <1>6, Zenon DEF retryDelay, loopVars, Typed
  <2>2. Held' = Held /\ ~Finished
    BY <2>1, Zenon DEF Held, Finished
  <2>3. Rotates'
    BY <2>1, RotatesKept, Zenon DEF RotationOK
  <2>4. \A k \in DOMAIN sent' : Operator[sent'[k]] \in triedDomains' \/ sent'[k] = Held'
    BY <2>1, <2>2, Zenon DEF RotationOK
  <2>5. racing' = NoRace /\ pc' # "race" /\ broken' \subseteq triedDomains' /\ (pc' = "top" => attempt' # 1)
    BY <2>1 DEF RotationOK
  <2> QED
    BY <2>1, <2>3, <2>4, <2>5, Zenon DEF RotationOK
<1>7. CASE contextEnds \/ UNCHANGED vars
  <2>1. UNCHANGED <<pc, attempt, broken, current, target, racing, triedDomains, sent>>
    BY <1>7, Zenon DEF contextEnds, vars, loopVars
  <2>2. Rotates'
    BY <2>1, RotatesKept, Zenon DEF RotationOK
  <2> QED
    BY <2>1, <2>2, Zenon DEF RotationOK, Finished, Held
<1> QED
  BY <1>1, <1>2, <1>3, <1>4, <1>5, <1>6, <1>7, Zenon

-----------------------------------------------------------------------------
(* The theorems about the retry loop                                         *)

LEMMA Inductive == Spec => []IInv
<1>1. Init => IInv
  <2> SUFFICES ASSUME Init PROVE IInv
    OBVIOUS
  <2>1. Typed
    <3>1. NoEndpoint \in Addr
      BY Zenon DEF Addr
    <3>2. NoRace \in [primary : Addr, hedge : Addr]
      BY <3>1, Zenon DEF NoRace
    <3>3. sent \in Seq(Endpoints) /\ attempt \in Nat \ {0} /\ capabilityFailures \in Nat
      BY DEF Init
    <3>4. /\ current \in Addr /\ target \in Addr /\ last \subseteq AnyOutcome
          /\ racing \in [primary : Addr, hedge : Addr]
      BY <3>1, <3>2, Zenon DEF Init
    <3> QED
      BY <3>3, <3>4, Zenon DEF Typed
  <2>2. FaultsOK
    BY Zenon DEF Init, FaultsOK, Finished, OnlyFaultsBreakDomains
  <2>3. CapabilitiesOK
    BY DEF Init, CapabilitiesOK, CapabilityRetriedOnce, capabilityAttemptBudget
  <2> QED
    BY <2>1, <2>2, <2>3, Zenon DEF IInv
<1>2. IInv /\ [Next]_vars => IInv'
  BY SelectKeeps, StartKeeps, TopKeeps, FirstRelayKeeps, FirstRaceKeeps, RaceAnswersKeeps,
     RaceCancelledKeeps, RelayAnswersKeeps, DelayKeeps, RotateKeeps, IdleKeeps, Zenon DEF Next, Step, Done
<1> QED
  BY <1>1, <1>2, PTL DEF Spec

LEMMA RotationInductive == Spec => [](hedging \/ RotationOK)
<1>1. Init => RotationOK
  BY DEF Init, RotationOK, Rotates, NoRace, Finished
<1>2. [Next]_vars => hedging' = hedging
  BY Zenon DEF Next, Step, Done, vars, selectEndpoint, startLoop, loopTop, firstRelay, firstRace, raceAnswers,
         raceCancelled, relayAnswers, retryDelay, rotate, contextEnds
<1>3. IInv /\ RotationOK /\ ~hedging /\ [Next]_vars => RotationOK'
  BY FirstRelayRotates, RotateRotates, OthersRotate, Zenon DEF IInv, Next, Step, Done
<1>4. IInv /\ (hedging \/ RotationOK) /\ [Next]_vars => (hedging \/ RotationOK)'
  BY <1>2, <1>3
<1> QED
  BY <1>1, <1>4, Inductive, PTL DEF Spec

\* Rotation, for a service without hedge_delay: whatever sessions roll over between the
\* attempts, no retry of handleSingleRelayRequest relays to an operator that an earlier
\* attempt relayed to, or to a host that was broken when the loop started.
THEOREM RetriesAlwaysRotate == Spec => []RetriesRotate
<1>1. hedging \/ RotationOK => RetriesRotate
  BY Zenon DEF RotationOK, RetriesRotate
<1> QED
  BY <1>1, RotationInductive, PTL

\* With or without hedging, MarkBroken is called only for endpoints that the request
\* relayed to, and never on account of a cancelled attempt, of a 4xx or of a capability
\* limitation (rotate, shouldCircuitBreak and the context check at the top of the loop).
THEOREM OnlyFaultsBreak == Spec => []OnlyFaultsBreakDomains
<1>1. IInv => OnlyFaultsBreakDomains
  BY Zenon DEF IInv, FaultsOK
<1> QED
  BY <1>1, Inductive, PTL

\* The capability budget of noteCapabilityFailure and the bytes of the answer: the second
\* capability limitation ends the request, and a request that failed with one leaves the
\* backend's own answer as the latest of the QoS context, on the hedge path as on the
\* normal one.
THEOREM CapabilityLimits == Spec => []CapabilityLimitsAreKept
<1>1. IInv => CapabilityLimitsAreKept
  BY Zenon DEF IInv, CapabilitiesOK, CapabilityAnswerReachesClient, CapabilityLimitsAreKept
<1> QED
  BY <1>1, Inductive, PTL

-----------------------------------------------------------------------------
(* The hedge race                                                           *)

BranchesOf(s) == {s[k].branch : k \in DOMAIN s}
Distinct(s) == \A i, j \in DOMAIN s : s[i].branch = s[j].branch => i = j

RaceTyped ==
  /\ hedgeBranch \in [Branches -> {"none", "running", "done"}]
  /\ hedgeChan \in Seq(Results) /\ losers \in Seq(Results)
  /\ firstResult \subseteq Results /\ hedgeWinner \subseteq Results
  /\ cleanup \in [pc : {"none", "waiting", "done"}, got : Nat, timer : Nat]
  /\ sinceReturn \in Nat

\* A branch sends one result, and it is in one place: the channel, with the winner, among
\* the losers, or held by race() as its first result.
ResultsOK ==
  /\ Distinct(hedgeChan) /\ Distinct(losers)
  /\ BranchesOf(hedgeChan) \cap BranchesOf(losers) = {}
  /\ \A w \in hedgeWinner : w.branch \notin BranchesOf(hedgeChan) \cup BranchesOf(losers)
  /\ hedgePc \in {"second", "collect"} => \A f \in firstResult : f.branch \notin BranchesOf(hedgeChan)
  /\ \A b \in BranchesOf(hedgeChan) \cup BranchesOf(losers) : hedgeBranch[b] = "done"
  /\ \A r \in hedgeWinner \cup firstResult : hedgeBranch[r.branch] = "done"

\* What race() holds at each of its waits.
StagesOK ==
  /\ hedgePc # "returned" => returned = {} /\ losers = << >> /\ cleanup.pc = "none"
  /\ hedgePc \in {"start", "delay", "first"} => received = {} /\ firstResult = {} /\ hedgeWinner = {}
  /\ hedgePc = "second" => hedgeWinner = {} /\ received = firstResult /\ \A f \in firstResult : f.kind # "valid"
  /\ hedgePc = "collect" => /\ hedgeWinner = firstResult /\ received = firstResult
                       /\ \A f \in firstResult : f.kind = "valid"
  /\ hedgePc = "start" => hedgeBranch["primary"] = "none"
  /\ hedgePc \in {"start", "delay"} => hedgeBranch["hedge"] = "none"
  /\ ValidResultWins

\* The clean-up's timer restarts with every loser, never earlier than race()'s return.
GraceOK ==
  /\ sinceReturn <= GraceWindow
  /\ cleanup.pc = "waiting" => sinceReturn + cleanup.timer >= GraceWindow
  /\ cleanup.got > 0 => losers # << >>

RaceInv == RaceTyped /\ ResultsOK /\ StagesOK /\ GraceOK

-----------------------------------------------------------------------------
(* Queues of results                                                         *)

\* Taking the oldest result of a queue.
LEMMA TakeHead ==
  ASSUME NEW s \in Seq(Results), s # << >>, Distinct(s)
  PROVE  /\ Head(s) \in Results /\ Tail(s) \in Seq(Results) /\ Distinct(Tail(s))
         /\ Head(s).branch \in BranchesOf(s) /\ Head(s).branch \notin BranchesOf(Tail(s))
         /\ BranchesOf(Tail(s)) \subseteq BranchesOf(s)
<1>1. /\ Len(s) \in Nat \ {0} /\ DOMAIN s = 1 .. Len(s) /\ Head(s) = s[1] /\ s[1] \in Results
      /\ Tail(s) \in Seq(Results) /\ DOMAIN Tail(s) = 1 .. Len(s) - 1
      /\ \A k \in 1 .. Len(s) - 1 : Tail(s)[k] = s[k + 1] /\ k + 1 \in DOMAIN s /\ k + 1 # 1
  OBVIOUS
<1>2. Distinct(Tail(s))
  <2> SUFFICES ASSUME NEW i \in DOMAIN Tail(s), NEW j \in DOMAIN Tail(s),
                      Tail(s)[i].branch = Tail(s)[j].branch
               PROVE  i = j
    BY Zenon DEF Distinct
  <2>1. s[i + 1].branch = s[j + 1].branch /\ i + 1 \in DOMAIN s /\ j + 1 \in DOMAIN s
    BY <1>1, Zenon
  <2>2. i + 1 = j + 1
    BY <2>1, Zenon DEF Distinct
  <2> QED
    BY <1>1, <2>2
<1>3. Head(s).branch \in BranchesOf(s)
  BY <1>1 DEF BranchesOf
<1>4. Head(s).branch \notin BranchesOf(Tail(s))
  BY <1>1 DEF BranchesOf, Distinct
<1>5. BranchesOf(Tail(s)) \subseteq BranchesOf(s)
  BY <1>1 DEF BranchesOf
<1> QED
  BY <1>1, <1>2, <1>3, <1>4, <1>5, Zenon

\* Adding a result of a branch that has none in the queue.
LEMMA PutLast ==
  ASSUME NEW s \in Seq(Results), NEW r \in Results, Distinct(s), r.branch \notin BranchesOf(s)
  PROVE  /\ Append(s, r) \in Seq(Results) /\ Append(s, r) # << >> /\ Distinct(Append(s, r))
         /\ BranchesOf(Append(s, r)) = BranchesOf(s) \cup {r.branch}
<1>1. /\ Len(s) \in Nat /\ DOMAIN s = 1 .. Len(s) /\ DOMAIN Append(s, r) = 1 .. Len(s) + 1
      /\ \A k \in 1 .. Len(s) : Append(s, r)[k] = s[k]
      /\ Append(s, r)[Len(s) + 1] = r /\ Append(s, r) \in Seq(Results) /\ Append(s, r) # << >>
  OBVIOUS
<1>2. \A k \in DOMAIN s : s[k].branch # r.branch
  BY Zenon DEF BranchesOf
<1>3. Distinct(Append(s, r))
  <2> SUFFICES ASSUME NEW i \in DOMAIN Append(s, r), NEW j \in DOMAIN Append(s, r),
                      Append(s, r)[i].branch = Append(s, r)[j].branch
               PROVE  i = j
    BY Zenon DEF Distinct
  <2>1. CASE i \in DOMAIN s /\ j \in DOMAIN s
    BY <1>1, <2>1, Zenon DEF Distinct
  <2>2. CASE i = Len(s) + 1 \/ j = Len(s) + 1
    BY <1>1, <1>2, <2>2
  <2> QED
    BY <1>1, <2>1, <2>2
<1>4. BranchesOf(Append(s, r)) = BranchesOf(s) \cup {r.branch}
  BY <1>1 DEF BranchesOf
<1> QED
  BY <1>1, <1>3, <1>4, Zenon

\* No queue, no branch.
LEMMA EmptyQueue == Distinct(<< >>) /\ BranchesOf(<< >>) = {} /\ << >> \in Seq(Results)
BY DEF Distinct, BranchesOf

\* Results name their branch.
LEMMA BranchIsNamed == \A s \in Seq(Results) : BranchesOf(s) \subseteq Branches
<1> SUFFICES ASSUME NEW s \in Seq(Results), NEW k \in DOMAIN s PROVE s[k].branch \in Branches
  BY Zenon DEF BranchesOf
<1>1. s[k] \in Results
  OBVIOUS
<1> QED
  BY <1>1, Zenon DEF Results

-----------------------------------------------------------------------------
(* Every step keeps the invariant                                            *)

LEMMA ExecuteKeeps == ASSUME RaceInv, NEW b \in Branches, executeRequest(b) PROVE RaceInv'
<1>1. /\ hedgeBranch[b] = "running" /\ hedgeBranch' = [hedgeBranch EXCEPT ![b] = "done"]
      /\ UNCHANGED <<sinceReturn, hedgePc, timer, firstResult, returned, received, hedgeWinner, losers, cleanup>>
  BY Zenon DEF executeRequest, raceVars
<1>2. PICK kind \in Kinds :
         hedgeChan' = IF Len(hedgeChan) < 2
                       THEN Append(hedgeChan, [branch |-> b, kind |-> kind]) ELSE hedgeChan
  BY Zenon DEF executeRequest, Kinds
<1>3. /\ \A c \in Branches : hedgeBranch'[c] = IF c = b THEN "done" ELSE hedgeBranch[c]
      /\ hedgeBranch' \in [Branches -> {"none", "running", "done"}]
  BY <1>1, Zenon DEF RaceInv, RaceTyped
<1>4. /\ b \notin BranchesOf(hedgeChan) \cup BranchesOf(losers)
      /\ \A r \in hedgeWinner \cup firstResult : r.branch # b
  BY <1>1, Zenon DEF RaceInv, ResultsOK
<1>5. /\ hedgeChan' \in Seq(Results) /\ Distinct(hedgeChan')
      /\ BranchesOf(hedgeChan') \subseteq BranchesOf(hedgeChan) \cup {b}
  <2>1. [branch |-> b, kind |-> kind] \in Results /\ [branch |-> b, kind |-> kind].branch = b
    BY Zenon DEF Results
  <2> QED
    BY <1>2, <1>4, <2>1, PutLast, Zenon DEF RaceInv, RaceTyped, ResultsOK
<1>6. RaceTyped'
  BY <1>1, <1>3, <1>5, Zenon DEF RaceInv, RaceTyped
<1>7. ResultsOK'
  <2>1. BranchesOf(hedgeChan') \cup BranchesOf(losers) \subseteq Branches
    BY <1>5, <1>6, BranchIsNamed, Zenon DEF RaceTyped, RaceInv
  <2>2. \A r \in hedgeWinner \cup firstResult : r.branch \in Branches
    BY Zenon DEF RaceInv, RaceTyped, Results
  <2>3. \A c \in BranchesOf(hedgeChan') \cup BranchesOf(losers) : hedgeBranch'[c] = "done"
    BY <1>3, <1>5, <2>1, Zenon DEF RaceInv, ResultsOK
  <2>4. \A r \in hedgeWinner \cup firstResult : hedgeBranch'[r.branch] = "done"
    BY <1>3, <2>2, Zenon DEF RaceInv, ResultsOK
  <2> QED
    BY <1>1, <1>4, <1>5, <2>3, <2>4, Zenon DEF RaceInv, ResultsOK
<1>8. StagesOK'
  BY <1>1, <1>3, Zenon DEF RaceInv, StagesOK, ValidResultWins, Branches
<1>9. GraceOK'
  BY <1>1, Zenon DEF RaceInv, GraceOK
<1> QED
  BY <1>6, <1>7, <1>8, <1>9, Zenon DEF RaceInv

LEMMA RaceStartKeeps == RaceInv /\ (start \/ startHedge) => RaceInv'
<1> SUFFICES ASSUME RaceInv, start \/ startHedge PROVE RaceInv'
  OBVIOUS
<1>1. PICK b \in Branches :
        /\ hedgeBranch[b] = "none"
        /\ hedgeBranch' = [hedgeBranch EXCEPT ![b] = "running"] \/ hedgeBranch' = hedgeBranch
        /\ \/ hedgePc = "start" /\ hedgePc' = "delay" /\ b = "primary"
           \/ hedgePc = "delay" /\ hedgePc' = "first" /\ b = "hedge"
  <2>1. CASE start
    BY <2>1, Zenon DEF start, RaceInv, StagesOK, Branches
  <2>2. CASE startHedge
    BY <2>2, Zenon DEF startHedge, RaceInv, StagesOK, Branches
  <2> QED
    BY <2>1, <2>2, Zenon
<1>2. UNCHANGED <<sinceReturn, firstResult, returned, received, hedgeWinner, hedgeChan, losers, cleanup>>
  BY Zenon DEF start, startHedge
<1>3. /\ hedgeBranch' \in [Branches -> {"none", "running", "done"}]
      /\ \A c \in Branches : c # b => hedgeBranch'[c] = hedgeBranch[c]
  BY <1>1, Zenon DEF RaceInv, RaceTyped
<1>4. RaceTyped'
  BY <1>2, <1>3, Zenon DEF RaceInv, RaceTyped
<1>5. ResultsOK'
  <2>1. /\ b \notin BranchesOf(hedgeChan) \cup BranchesOf(losers)
        /\ \A r \in hedgeWinner \cup firstResult : r.branch # b
    BY <1>1, Zenon DEF RaceInv, ResultsOK
  <2>2. BranchesOf(hedgeChan) \cup BranchesOf(losers) \subseteq Branches
    BY BranchIsNamed, Zenon DEF RaceTyped, RaceInv
  <2>3. \A r \in hedgeWinner \cup firstResult : r.branch \in Branches
    BY Zenon DEF RaceInv, RaceTyped, Results
  <2>4. \A c \in BranchesOf(hedgeChan) \cup BranchesOf(losers) : hedgeBranch'[c] = "done"
    BY <1>3, <2>1, <2>2, Zenon DEF RaceInv, ResultsOK
  <2>5. \A r \in hedgeWinner \cup firstResult : hedgeBranch'[r.branch] = "done"
    BY <1>3, <2>1, <2>3, Zenon DEF RaceInv, ResultsOK
  <2> QED
    BY <1>1, <1>2, <2>4, <2>5, Zenon DEF RaceInv, ResultsOK
<1>6. StagesOK'
  BY <1>1, <1>2, <1>3, Zenon DEF RaceInv, StagesOK, ValidResultWins, Branches
<1>7. GraceOK'
  BY <1>2, Zenon DEF RaceInv, GraceOK
<1> QED
  BY <1>4, <1>5, <1>6, <1>7, Zenon DEF RaceInv

\* What the steps that take a result from the channel have in common.
Taken(r) == r = Head(hedgeChan) /\ hedgeChan' = Tail(hedgeChan)

LEMMA TakenFacts ==
  ASSUME RaceInv, hedgeChan # << >>, NEW r, Taken(r)
  PROVE  /\ r \in Results /\ hedgeChan' \in Seq(Results) /\ Distinct(hedgeChan')
         /\ hedgeBranch[r.branch] = "done" /\ r.branch \in Branches
         /\ r.branch \notin BranchesOf(hedgeChan') \cup BranchesOf(losers)
         /\ BranchesOf(hedgeChan') \subseteq BranchesOf(hedgeChan)
         /\ \A w \in hedgeWinner : w.branch # r.branch
         /\ hedgePc \in {"second", "collect"} => \A f \in firstResult : f.branch # r.branch
<1>1. /\ r \in Results /\ hedgeChan' \in Seq(Results) /\ Distinct(hedgeChan')
      /\ r.branch \in BranchesOf(hedgeChan) /\ r.branch \notin BranchesOf(hedgeChan')
      /\ BranchesOf(hedgeChan') \subseteq BranchesOf(hedgeChan)
  BY TakeHead, Zenon DEF RaceInv, RaceTyped, ResultsOK, Taken
<1> QED
  BY <1>1, Zenon DEF RaceInv, ResultsOK, Results

LEMMA PrimaryOnlyKeeps == RaceInv /\ primaryOnly => RaceInv'
<1> SUFFICES ASSUME RaceInv, primaryOnly PROVE RaceInv'
  OBVIOUS
<1> DEFINE r == Head(hedgeChan)
<1>1. /\ hedgePc = "delay" /\ hedgePc' = "returned" /\ hedgeChan # << >> /\ Taken(r)
      /\ received' = received \cup {r} /\ returned' = {r}
      /\ hedgeWinner' = IF hedgeWinner = {} THEN {r} ELSE hedgeWinner
      /\ UNCHANGED <<sinceReturn, timer, hedgeBranch, firstResult, losers, cleanup>>
  BY Zenon DEF primaryOnly, Taken, recordWinner, Return
<1>2. hedgeWinner = {} /\ received = {} /\ firstResult = {} /\ losers = << >> /\ cleanup.pc = "none"
  BY <1>1, Zenon DEF RaceInv, StagesOK
<1>3. hedgeWinner' = {r} /\ received' = {r}
  BY <1>1, <1>2, Zenon
<1> HIDE DEF r
<1>4. /\ r \in Results /\ hedgeChan' \in Seq(Results) /\ Distinct(hedgeChan')
      /\ hedgeBranch[r.branch] = "done"
      /\ r.branch \notin BranchesOf(hedgeChan') \cup BranchesOf(losers)
      /\ BranchesOf(hedgeChan') \subseteq BranchesOf(hedgeChan)
  BY <1>1, TakenFacts, Zenon
<1>5. RaceTyped'
  BY <1>1, <1>3, <1>4, Zenon DEF RaceInv, RaceTyped
<1>6. ResultsOK'
  BY <1>1, <1>2, <1>3, <1>4, Zenon DEF RaceInv, ResultsOK
<1>7. StagesOK'
  BY <1>1, <1>3, Zenon DEF StagesOK, ValidResultWins
<1>8. GraceOK'
  BY <1>1, Zenon DEF RaceInv, GraceOK
<1> QED
  BY <1>5, <1>6, <1>7, <1>8, Zenon DEF RaceInv

LEMMA TakeFirstKeeps == RaceInv /\ takeFirst => RaceInv'
<1> SUFFICES ASSUME RaceInv, takeFirst PROVE RaceInv'
  OBVIOUS
<1> DEFINE r == Head(hedgeChan)
<1>1. /\ hedgePc = "first" /\ hedgeChan # << >> /\ Taken(r)
      /\ received' = received \cup {r} /\ firstResult' = {r}
      /\ IF r.kind = "valid" THEN hedgePc' = "collect" /\ hedgeWinner' = IF hedgeWinner = {} THEN {r} ELSE hedgeWinner
                             ELSE hedgePc' = "second" /\ hedgeWinner' = hedgeWinner
      /\ UNCHANGED <<sinceReturn, returned, hedgeBranch, losers, cleanup>>
  BY Zenon DEF takeFirst, Taken, recordWinner
<1>2. hedgeWinner = {} /\ received = {} /\ losers = << >> /\ cleanup.pc = "none" /\ returned = {}
  BY <1>1, Zenon DEF RaceInv, StagesOK
<1>3. received' = {r} /\ hedgeWinner' = IF r.kind = "valid" THEN {r} ELSE {}
  BY <1>1, <1>2, Zenon
<1> HIDE DEF r
<1>4. /\ r \in Results /\ hedgeChan' \in Seq(Results) /\ Distinct(hedgeChan')
      /\ hedgeBranch[r.branch] = "done"
      /\ r.branch \notin BranchesOf(hedgeChan') \cup BranchesOf(losers)
      /\ BranchesOf(hedgeChan') \subseteq BranchesOf(hedgeChan)
  BY <1>1, TakenFacts, Zenon
<1>5. RaceTyped'
  BY <1>1, <1>3, <1>4, Zenon DEF RaceInv, RaceTyped
<1>6. ResultsOK'
  BY <1>1, <1>2, <1>3, <1>4, Zenon DEF RaceInv, ResultsOK
<1>7. StagesOK'
  BY <1>1, <1>2, <1>3, Zenon DEF StagesOK, ValidResultWins
<1>8. GraceOK'
  BY <1>1, Zenon DEF RaceInv, GraceOK
<1> QED
  BY <1>5, <1>6, <1>7, <1>8, Zenon DEF RaceInv

LEMMA TakeSecondKeeps == RaceInv /\ takeSecond => RaceInv'
<1> SUFFICES ASSUME RaceInv, takeSecond PROVE RaceInv'
  OBVIOUS
<1> DEFINE second == Head(hedgeChan)
<1>1. PICK first \in firstResult :
        /\ Taken(second) /\ received' = received \cup {second}
        /\ recordWinner(BetterOf(first, second))
        /\ losers' = Append(losers, IF BetterOf(first, second) = first THEN second ELSE first)
        /\ hedgePc' = "returned" /\ returned' = {BetterOf(first, second)}
  BY Zenon DEF takeSecond, Taken
<1>2. /\ hedgePc = "second" /\ hedgeChan # << >>
      /\ UNCHANGED <<sinceReturn, firstResult, hedgeBranch, cleanup>>
  BY Zenon DEF takeSecond
<1> HIDE DEF second
<1>3. /\ hedgeWinner = {} /\ losers = << >> /\ cleanup.pc = "none" /\ received = firstResult
      /\ \A f \in firstResult : f.kind # "valid"
  BY <1>2, Zenon DEF RaceInv, StagesOK
<1>4. /\ second \in Results /\ hedgeChan' \in Seq(Results) /\ Distinct(hedgeChan')
      /\ hedgeBranch[second.branch] = "done"
      /\ second.branch \notin BranchesOf(hedgeChan')
      /\ BranchesOf(hedgeChan') \subseteq BranchesOf(hedgeChan)
      /\ first.branch # second.branch
  BY <1>1, <1>2, TakenFacts, Zenon
<1>5. /\ first \in Results /\ hedgeBranch[first.branch] = "done" /\ first.branch \notin BranchesOf(hedgeChan')
  BY <1>2, <1>4, Zenon DEF RaceInv, RaceTyped, ResultsOK
<1>6. PICK best, loser :
        /\ {best, loser} = {first, second} /\ best.branch # loser.branch
        /\ hedgeWinner' = {best} /\ returned' = {best} /\ losers' = Append(<< >>, loser)
        /\ best.kind # "valid" => second.kind # "valid"
  <2>1. CASE BetterOf(first, second) = first
    <3> WITNESS first, second
    <3> QED
      BY <1>1, <1>3, <1>4, <2>1, Zenon DEF recordWinner, BetterOf
  <2>2. CASE BetterOf(first, second) # first
    <3> WITNESS second, first
    <3> QED
      BY <1>1, <1>3, <1>4, <2>2, Zenon DEF recordWinner, BetterOf
  <2> QED
    BY <2>1, <2>2, Zenon
<1>7. /\ best \in Results /\ loser \in Results
      /\ hedgeBranch[best.branch] = "done" /\ hedgeBranch[loser.branch] = "done"
      /\ best.branch \notin BranchesOf(hedgeChan') /\ loser.branch \notin BranchesOf(hedgeChan')
  BY <1>4, <1>5, <1>6, Zenon
<1>8. /\ losers' \in Seq(Results) /\ losers' # << >> /\ Distinct(losers')
      /\ BranchesOf(losers') = {loser.branch}
  <2>1. << >> \in Seq(Results) /\ Distinct(<< >>) /\ BranchesOf(<< >>) = {}
    BY EmptyQueue, Zenon
  <2>2. losers' = Append(<< >>, loser) /\ loser \in Results /\ loser.branch \notin BranchesOf(<< >>)
    BY <1>6, <1>7, <2>1, Zenon
  <2> QED
    BY <2>1, <2>2, PutLast, Zenon
<1>9. RaceTyped'
  BY <1>2, <1>4, <1>6, <1>7, <1>8, Zenon DEF RaceInv, RaceTyped
<1>10. ResultsOK'
  BY <1>1, <1>2, <1>4, <1>6, <1>7, <1>8, ZenonT(30) DEF RaceInv, ResultsOK
<1>11. ValidResultWins'
  BY <1>1, <1>3, <1>6, Zenon DEF ValidResultWins
<1>12. StagesOK'
  BY <1>1, <1>11, Zenon DEF StagesOK
<1>13. GraceOK'
  BY <1>2, <1>8, Zenon DEF RaceInv, GraceOK
<1> QED
  BY <1>9, <1>10, <1>12, <1>13, Zenon DEF RaceInv

\* race() returns and leaves the branches in flight to the clean-up.
LEMMA CleanupStarts ==
  ASSUME GraceWindow \in Nat, RaceInv, hedgePc \in {"delay", "first", "second", "collect"}, hedgePc' = "returned",
         cleanupRunningBranches, UNCHANGED <<sinceReturn, hedgeBranch, hedgeChan, losers, firstResult, received>>,
         hedgeWinner' \subseteq hedgeWinner \cup firstResult, ValidResultWins'
  PROVE  RaceInv'
<1>1. cleanup' = [pc |-> "waiting", got |-> 0, timer |-> GraceWindow] /\ losers = << >>
  BY Zenon DEF cleanupRunningBranches, RaceInv, StagesOK
<1>2. RaceTyped'
  BY <1>1, Zenon DEF RaceInv, RaceTyped
<1>3. \A w \in hedgeWinner' : w.branch \notin BranchesOf(hedgeChan) \cup BranchesOf(losers)
  <2>1. firstResult # {} => hedgePc \in {"second", "collect"}
    BY Zenon DEF RaceInv, StagesOK
  <2> QED
    BY <1>1, <2>1, EmptyQueue, Zenon DEF RaceInv, ResultsOK
<1>4. ResultsOK'
  BY <1>3, Zenon DEF RaceInv, ResultsOK
<1>5. StagesOK'
  BY Zenon DEF StagesOK
<1>6. GraceOK'
  BY <1>1 DEF RaceInv, GraceOK, RaceTyped
<1> QED
  BY <1>2, <1>4, <1>5, <1>6, Zenon DEF RaceInv

LEMMA SecondTimeoutKeeps == ASSUME GraceWindow \in Nat, RaceInv, secondTimeout PROVE RaceInv'
<1>1. PICK first \in firstResult : recordWinner(first) /\ Return(first)
  BY Zenon DEF secondTimeout
<1>2. /\ hedgePc = "second" /\ hedgePc' = "returned" /\ returned' = {first} /\ cleanupRunningBranches
      /\ hedgeWinner' \subseteq hedgeWinner \cup firstResult
      /\ UNCHANGED <<sinceReturn, hedgeBranch, hedgeChan, losers, firstResult, received>>
  BY <1>1, Zenon DEF secondTimeout, Return, recordWinner
<1>3. ValidResultWins'
  BY <1>2, Zenon DEF RaceInv, StagesOK, ValidResultWins
<1> QED
  BY <1>2, <1>3, CleanupStarts, Zenon

LEMMA CallerLeavesKeeps == ASSUME GraceWindow \in Nat, RaceInv, callerLeaves PROVE RaceInv'
<1>1. /\ hedgePc \in {"delay", "first", "second"} /\ hedgePc' = "returned" /\ cleanupRunningBranches
      /\ UNCHANGED <<sinceReturn, hedgeBranch, hedgeChan, losers, firstResult, received, hedgeWinner, returned>>
  BY Zenon DEF callerLeaves, ReturnCtxErr
<1>2. ValidResultWins'
  BY <1>1, Zenon DEF RaceInv, StagesOK, ValidResultWins
<1> QED
  BY <1>1, <1>2, CleanupStarts, Zenon

LEMMA CollectKeeps == ASSUME GraceWindow \in Nat, RaceInv, collectLoserSync PROVE RaceInv'
<1>1. /\ hedgePc = "collect" /\ hedgePc' = "returned"
      /\ \E first \in firstResult : returned' = {first}
      /\ UNCHANGED <<sinceReturn, firstResult, received, hedgeWinner, hedgeBranch>>
  BY Zenon DEF collectLoserSync
<1>2. ValidResultWins'
  BY <1>1, Zenon DEF RaceInv, StagesOK, ValidResultWins
<1>3. CASE hedgeChan # << >> /\ losers' = Append(losers, Head(hedgeChan))
           /\ hedgeChan' = Tail(hedgeChan) /\ UNCHANGED cleanup
  <2> DEFINE r == Head(hedgeChan)
  <2>1. hedgeChan # << >> /\ Taken(r) /\ losers' = Append(losers, r)
    BY <1>3, Zenon DEF Taken
  <2> HIDE DEF r
  <2>2. /\ r \in Results /\ hedgeChan' \in Seq(Results) /\ Distinct(hedgeChan')
        /\ hedgeBranch[r.branch] = "done"
        /\ r.branch \notin BranchesOf(hedgeChan') \cup BranchesOf(losers)
        /\ BranchesOf(hedgeChan') \subseteq BranchesOf(hedgeChan)
        /\ \A w \in hedgeWinner : w.branch # r.branch
    BY <2>1, TakenFacts, Zenon
  <2>3. /\ losers' \in Seq(Results) /\ losers' # << >> /\ Distinct(losers')
        /\ BranchesOf(losers') = BranchesOf(losers) \cup {r.branch}
    BY <2>1, <2>2, PutLast, Zenon DEF RaceInv, RaceTyped, ResultsOK
  <2>4. RaceTyped'
    BY <1>1, <1>3, <2>2, <2>3, Zenon DEF RaceInv, RaceTyped
  <2>5. ResultsOK'
    BY <1>1, <2>2, <2>3, Zenon DEF RaceInv, ResultsOK
  <2>6. StagesOK'
    BY <1>1, <1>2, Zenon DEF StagesOK
  <2>7. GraceOK'
    BY <1>1, <1>3, <2>3, Zenon DEF RaceInv, GraceOK
  <2> QED
    BY <2>4, <2>5, <2>6, <2>7, Zenon DEF RaceInv
<1>4. CASE cleanupRunningBranches /\ UNCHANGED <<hedgeChan, losers, released>>
  BY <1>1, <1>2, <1>4, CleanupStarts, Zenon
<1> QED
  BY <1>3, <1>4, Zenon DEF collectLoserSync

LEMMA DrainKeeps == ASSUME GraceWindow \in Nat, RaceInv, drainLoser PROVE RaceInv'
<1> DEFINE r == Head(hedgeChan)
<1>1. /\ cleanup.pc = "waiting" /\ hedgeChan # << >> /\ Taken(r) /\ losers' = Append(losers, r)
      /\ UNCHANGED <<sinceReturn, hedgePc, firstResult, returned, received, hedgeWinner, hedgeBranch>>
  BY Zenon DEF drainLoser, Taken, raceVars
<1> HIDE DEF r
<1>2. /\ cleanup' \in [pc : {"none", "waiting", "done"}, got : Nat, timer : Nat]
      /\ cleanup'.timer = GraceWindow
  <2>1. /\ cleanup \in [pc : {"none", "waiting", "done"}, got : Nat, timer : Nat]
        /\ cleanup' = [cleanup EXCEPT !.got = @ + 1, !.timer = GraceWindow,
                                      !.pc = IF LastDrain THEN "done" ELSE "waiting"]
    BY Zenon DEF drainLoser, RaceInv, RaceTyped
  <2>2. cleanup' = [pc |-> IF LastDrain THEN "done" ELSE "waiting", got |-> cleanup.got + 1,
                    timer |-> GraceWindow]
    BY <2>1, Zenon
  <2>3. cleanup.got + 1 \in Nat
    BY <2>1
  <2> QED
    BY <2>2, <2>3, Zenon
<1>3. hedgePc = "returned"
  BY <1>1, Zenon DEF RaceInv, StagesOK
<1>4. /\ r \in Results /\ hedgeChan' \in Seq(Results) /\ Distinct(hedgeChan')
      /\ hedgeBranch[r.branch] = "done"
      /\ r.branch \notin BranchesOf(hedgeChan') \cup BranchesOf(losers)
      /\ BranchesOf(hedgeChan') \subseteq BranchesOf(hedgeChan)
      /\ \A w \in hedgeWinner : w.branch # r.branch
  BY <1>1, TakenFacts, Zenon
<1>5. /\ losers' \in Seq(Results) /\ losers' # << >> /\ Distinct(losers')
      /\ BranchesOf(losers') = BranchesOf(losers) \cup {r.branch}
  BY <1>1, <1>4, PutLast, Zenon DEF RaceInv, RaceTyped, ResultsOK
<1>6. RaceTyped'
  BY <1>1, <1>2, <1>4, <1>5, Zenon DEF RaceInv, RaceTyped
<1>7. ResultsOK'
  BY <1>1, <1>3, <1>4, <1>5, Zenon DEF RaceInv, ResultsOK
<1>8. StagesOK'
  BY <1>1, <1>3, Zenon DEF RaceInv, StagesOK, ValidResultWins
<1>9. GraceOK'
  BY <1>1, <1>2, <1>5, SMTT(30) DEF RaceInv, GraceOK, RaceTyped
<1> QED
  BY <1>6, <1>7, <1>8, <1>9, Zenon DEF RaceInv

LEMMA GraceOverKeeps == RaceInv /\ graceOver => RaceInv'
<1> SUFFICES ASSUME RaceInv, graceOver PROVE RaceInv'
  OBVIOUS
<1>1. /\ cleanup.pc = "waiting"
      /\ UNCHANGED <<sinceReturn, hedgePc, firstResult, returned, received, hedgeWinner, hedgeBranch, hedgeChan, losers>>
  BY Zenon DEF graceOver, raceVars
<1>2. /\ cleanup' \in [pc : {"none", "waiting", "done"}, got : Nat, timer : Nat]
      /\ cleanup'.pc = "done" /\ cleanup'.got = cleanup.got
  BY Zenon DEF graceOver, RaceInv, RaceTyped
<1>3. RaceTyped'
  BY <1>1, <1>2, Zenon DEF RaceInv, RaceTyped
<1>4. ResultsOK'
  BY <1>1, Zenon DEF RaceInv, ResultsOK
<1>5. StagesOK'
  BY <1>1, Zenon DEF RaceInv, StagesOK, ValidResultWins
<1>6. GraceOK'
  BY <1>1, <1>2, Zenon DEF RaceInv, GraceOK
<1> QED
  BY <1>3, <1>4, <1>5, <1>6, Zenon DEF RaceInv

LEMMA TickKeeps == ASSUME GraceWindow \in Nat, RaceInv, Tick PROVE RaceInv'
<1>1. UNCHANGED <<hedgePc, firstResult, returned, received, hedgeWinner, hedgeBranch, hedgeChan, losers>>
  BY Zenon DEF Tick
<1>2. /\ cleanup' \in [pc : {"none", "waiting", "done"}, got : Nat, timer : Nat]
      /\ cleanup'.pc = cleanup.pc /\ cleanup'.got = cleanup.got
      /\ cleanup'.timer = Down(cleanup.timer)
  <2> DEFINE Pcs == {"none", "waiting", "done"}
             t == Down(cleanup.timer)
  <2> HIDE DEF Pcs
  <2>1. cleanup \in [pc : Pcs, got : Nat, timer : Nat]
    BY Zenon DEF RaceInv, RaceTyped, Pcs
  <2>2. t \in Nat
    BY <2>1 DEF Down
  <2>3. cleanup' = [cleanup EXCEPT !.timer = t]
    BY Zenon DEF Tick
  <2> HIDE DEF t
  <2>4. /\ cleanup' \in [pc : Pcs, got : Nat, timer : Nat]
        /\ cleanup'.pc = cleanup.pc /\ cleanup'.got = cleanup.got /\ cleanup'.timer = t
    BY <2>1, <2>2, <2>3, Zenon
  <2> QED
    BY <2>4, Zenon DEF t, Pcs
<1>3. sinceReturn' = IF hedgePc = "returned" /\ sinceReturn < GraceWindow THEN sinceReturn + 1 ELSE sinceReturn
  BY Zenon DEF Tick
<1>4. RaceTyped'
  BY <1>1, <1>2, <1>3 DEF RaceInv, RaceTyped
<1>5. ResultsOK'
  BY <1>1, Zenon DEF RaceInv, ResultsOK
<1>6. StagesOK'
  BY <1>1, <1>2, Zenon DEF RaceInv, StagesOK, ValidResultWins
<1>7. GraceOK'
  <2>1. sinceReturn \in Nat /\ cleanup.timer \in Nat
    BY Zenon DEF RaceInv, RaceTyped
  <2>2. cleanup.pc = "waiting" => hedgePc = "returned"
    BY Zenon DEF RaceInv, StagesOK
  <2> QED
    BY <1>1, <1>2, <1>3, <2>1, <2>2, SMTT(30) DEF RaceInv, GraceOK, Down
<1> QED
  BY <1>4, <1>5, <1>6, <1>7, Zenon DEF RaceInv

\* The caller's cancellation and steps that change nothing.
LEMMA RaceIdleKeeps == RaceInv /\ (callerCancels \/ UNCHANGED hedgeVars) => RaceInv'
<1> SUFFICES ASSUME RaceInv, callerCancels \/ UNCHANGED hedgeVars PROVE RaceInv'
  OBVIOUS
<1>1. UNCHANGED <<hedgePc, firstResult, returned, received, hedgeWinner, hedgeBranch, hedgeChan, losers, cleanup, sinceReturn>>
  BY Zenon DEF callerCancels, hedgeVars, raceVars
<1>2. RaceTyped' /\ GraceOK'
  BY <1>1, Zenon DEF RaceInv, RaceTyped, GraceOK
<1>3. ResultsOK'
  BY <1>1, Zenon DEF RaceInv, ResultsOK
<1>4. StagesOK'
  BY <1>1, Zenon DEF RaceInv, StagesOK, ValidResultWins
<1> QED
  BY <1>2, <1>3, <1>4, Zenon DEF RaceInv

-----------------------------------------------------------------------------
(* The theorems about the hedge race                                         *)

LEMMA RaceInductive == HedgeSpec => []RaceInv
<1>1. HedgeInit => RaceInv
  <2> SUFFICES ASSUME HedgeInit PROVE RaceInv
    OBVIOUS
  <2>1. RaceTyped
    BY EmptyQueue, Zenon DEF HedgeInit, RaceTyped, NoCleanup
  <2>2. ResultsOK
    BY EmptyQueue, Zenon DEF HedgeInit, ResultsOK
  <2>3. StagesOK
    BY Zenon DEF HedgeInit, StagesOK, ValidResultWins, NoCleanup, Branches
  <2>4. GraceOK
    BY WindowAssumption DEF HedgeInit, GraceOK, NoCleanup
  <2> QED
    BY <2>1, <2>2, <2>3, <2>4, Zenon DEF RaceInv
<1>2. RaceInv /\ [HedgeNext]_hedgeVars => RaceInv'
  BY ExecuteKeeps, RaceStartKeeps, PrimaryOnlyKeeps, TakeFirstKeeps, TakeSecondKeeps, SecondTimeoutKeeps,
     CollectKeeps, CallerLeavesKeeps, DrainKeeps, GraceOverKeeps, TickKeeps, RaceIdleKeeps,
     WindowAssumption, Zenon DEF HedgeNext, Race, Cleanup
<1> QED
  BY <1>1, <1>2, PTL DEF HedgeSpec

\* race() returns no failed result when it received a valid one, and no branch is recorded
\* as loser twice or as both winner and loser, however the branches, the timers, the caller
\* and the clean-up goroutine interleave (race, collectLoserSync, cleanupRunningBranches).
THEOREM RaceSettled == HedgeSpec => []RaceIsSound
<1>1. RaceInv => RaceIsSound
  BY Zenon DEF RaceIsSound, RaceInv, StagesOK, ResultsOK, OutcomesCountOnce, Distinct, BranchesOf
<1> QED
  BY <1>1, RaceInductive, PTL

\* cancelBranches never tears down a branch that has not had the grace window: when it
\* runs, every branch has answered or race() returned GraceWindow ago.
THEOREM LosersFinish == HedgeSpec => [][LosersFinishCleanly]_hedgeVars
<1>1. ASSUME RaceInv, HedgeNext, released', ~released, NEW b \in Branches, hedgeBranch[b] = "running"
      PROVE  hedgePc = "returned" /\ sinceReturn = GraceWindow
  <2>1. ASSUME NEW c \in Branches, NEW d \in Branches, c # d, hedgeBranch[c] = "done", hedgeBranch[d] = "done"
        PROVE  FALSE
    BY <1>1, <2>1, Zenon DEF Branches
  <2>2. CASE primaryOnly
    <3> DEFINE r == Head(hedgeChan)
    <3>1. hedgePc = "delay" /\ hedgeChan # << >> /\ Taken(r)
      BY <2>2, Zenon DEF primaryOnly, Taken
    <3> HIDE DEF r
    <3>2. hedgeBranch[r.branch] = "done" /\ r.branch \in Branches
      BY <1>1, <3>1, TakenFacts, Zenon
    <3> QED
      BY <1>1, <3>1, <3>2, Zenon DEF RaceInv, StagesOK, Branches
  <2>3. CASE takeSecond \/ (collectLoserSync /\ hedgeChan # << >> /\ hedgeChan' = Tail(hedgeChan))
    <3> DEFINE r == Head(hedgeChan)
    <3>1. hedgePc \in {"second", "collect"} /\ hedgeChan # << >> /\ Taken(r) /\ \E first : first \in firstResult
      BY <2>3, Zenon DEF takeSecond, collectLoserSync, Taken
    <3> HIDE DEF r
    <3>2. PICK first : first \in firstResult
      BY <3>1, Zenon
    <3>3. hedgeBranch[r.branch] = "done" /\ r.branch \in Branches /\ first.branch # r.branch
      BY <1>1, <3>1, <3>2, TakenFacts, Zenon
    <3>4. hedgeBranch[first.branch] = "done" /\ first.branch \in Branches
      BY <1>1, <3>2, Zenon DEF RaceInv, ResultsOK, RaceTyped, Results
    <3> QED
      BY <2>1, <3>3, <3>4, Zenon
  <2>4. CASE collectLoserSync /\ UNCHANGED released
    BY <1>1, <2>4, Zenon
  <2>5. CASE drainLoser
    <3> DEFINE r == Head(hedgeChan)
    <3>1. hedgeChan # << >> /\ Taken(r) /\ cleanup.got = 1
      BY <1>1, <2>5, Zenon DEF drainLoser, Taken, LastDrain
    <3> HIDE DEF r
    <3>2. hedgeBranch[r.branch] = "done" /\ r.branch \in Branches /\ r.branch \notin BranchesOf(losers)
      BY <1>1, <3>1, TakenFacts, Zenon
    <3>3. losers # << >> /\ losers \in Seq(Results)
      BY <1>1, <3>1 DEF RaceInv, GraceOK, RaceTyped
    <3>4. 1 \in DOMAIN losers /\ losers[1] \in Results
      BY <3>3
    <3>5. losers[1].branch \in Branches /\ losers[1].branch \in BranchesOf(losers)
      BY <3>4, Zenon DEF BranchesOf, Results
    <3>6. hedgeBranch[losers[1].branch] = "done"
      BY <1>1, <3>5, Zenon DEF RaceInv, ResultsOK
    <3> QED
      BY <2>1, <3>2, <3>5, <3>6, Zenon
  <2>6. CASE graceOver
    BY <1>1, <2>6, WindowAssumption DEF graceOver, RaceInv, GraceOK, StagesOK, RaceTyped
  <2>7. CASE UNCHANGED released
    BY <1>1, <2>7, Zenon
  <2>8. CASE start \/ startHedge \/ takeFirst \/ secondTimeout \/ callerLeaves \/ callerCancels \/ Tick
    <3>1. UNCHANGED released
      BY <2>8, Zenon DEF start, startHedge, takeFirst, secondTimeout, callerLeaves, ReturnCtxErr,
                  callerCancels, Tick
    <3> QED
      BY <2>7, <3>1, Zenon
  <2>9. CASE \E c \in Branches : executeRequest(c)
    <3>1. UNCHANGED released
      BY <2>9, Zenon DEF executeRequest
    <3> QED
      BY <2>7, <3>1, Zenon
  <2>10. CASE collectLoserSync
    BY <2>3, <2>4, <2>10, Zenon DEF collectLoserSync
  <2>11. CASE takeSecond
    BY <2>3, <2>11, Zenon
  <2>12. \/ primaryOnly \/ takeSecond \/ collectLoserSync \/ drainLoser \/ graceOver
         \/ start \/ startHedge \/ takeFirst \/ secondTimeout \/ callerLeaves \/ callerCancels \/ Tick
         \/ \E c \in Branches : executeRequest(c)
    BY <1>1, Zenon DEF HedgeNext, Race, Cleanup
  <2> QED
    BY <2>2, <2>5, <2>6, <2>8, <2>9, <2>10, <2>11, <2>12, Zenon
<1>2. RaceInv /\ [HedgeNext]_hedgeVars => [LosersFinishCleanly]_hedgeVars
  BY <1>1, Zenon DEF LosersFinishCleanly
<1> QED
  BY <1>2, RaceInductive, PTL DEF HedgeSpec
=============================================================================
