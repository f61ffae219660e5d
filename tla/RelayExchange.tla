---------------------------- MODULE RelayExchange ----------------------------
(***************************************************************************)
(* One protocol request context at work: the relays of a batch run in      *)
(* parallel against the selected endpoint, each is validated, classified   *)
(* and reported to reputation, and the context's observations are replayed *)
(* to reputation a second time when the gateway broadcasts them            *)
(* (protocol/shannon/context.go, error_classification.go, observation.go,  *)
(* fullnode_account_fetcher.go, signer.go, protocol.go, network/http).     *)
(*                                                                         *)
(* An outcome is what the far side did.  A supplier's account exists       *)
(* before its public key does: the key appears on chain with the first     *)
(* transaction it signs, maybe while a relay is in flight, and the account *)
(* cache may hold the keyless account.  The account fetcher and its cache  *)
(* are shared by all relays; currentRelayMinerError by those of the        *)
(* context.  That a health check's signals are marked as a probe's is left *)
(* out.                                                                    *)
(***************************************************************************)
EXTENDS Naturals, FiniteSets, FiniteSetsExt, Sequences, SequencesExt

CONSTANTS
    Payloads,      \* most payloads of a request
    BatchLimits,   \* values of MaxBatchPayloads merged for the service
    ObservationCap \* MaxBatchPayloads of the concurrency configuration

Relay == 1 .. Payloads

VARIABLES
    kind,          \* "user" or "hedge" (may lose the race and finish late)
    target,        \* what the selected endpoint is: "supplier" or "fallback"
    relay,         \* the relays; account is what the last lookup returned and by
                   \* whose fetch that was, retried that it was dropped once
    answered,      \* what HandleServiceRequest returned: "none", "responses" or "error"
    minerError,    \* currentRelayMinerError holds an over-servicing rejection
    observations,  \* endpointObservations
    broadcast,     \* the gateway has replayed the observations
    signals,       \* history: what was recorded to reputation
    published,     \* the supplier's key is on chain
    cached,        \* account cache: "none", "key" or "keyless"
    cachedBy,      \* history: the relay that stored it, 0 for an earlier request's
    nilTracked,    \* within nilPubkeyRetryInterval of a keyless account
    blacklisted, exhausted

request == <<kind, target, relay, answered, minerError, observations, broadcast, signals>>
keys == <<published, cached, cachedBy, nilTracked>>
vars == <<kind, target, relay, answered, minerError, observations, broadcast, signals,
          published, cached, cachedBy, nilTracked, blacklisted, exhausted>>

-----------------------------------------------------------------------------
(* Classification.  The tables name one representative per class of error  *)
(* text.                                                                   *)

HttpOutcome == {"http4xx", "http5xx", "http204", "refused", "timeout", "cancelled"}
RawOutcome == {"overserviced", "mismatch", "misconfigured", "malformed"} \* no relay response
HeuristicOutcome == {"limited", "capability", "empty", "blockchain"}     \* inside a valid one

Verdict(errorType, signal) == [errorType |-> errorType, signal |-> signal]

\* A 2xx status other than 200 gets past the HTTP client and is refused here.
classifyNon2XXStatusCode == Verdict("http_unknown", "minor")

\* The HTTP client turns every status outside 2xx into ErrRelayEndpointHTTPError,
\* which is tested first.
classifyHttpErrorAsSignal(o) ==
    CASE o \in {"http4xx", "http5xx"} -> Verdict("non2xx", "critical")
      [] o = "http204" -> classifyNon2XXStatusCode
      [] o \in {"refused", "timeout"} -> Verdict(o, "major")
      [] o = "cancelled" -> Verdict("http_unknown", "minor")

classifyHeuristicErrorAsSignal(o) ==
    CASE o = "empty" -> Verdict("unexpected_eof", "critical")
      [] o = "blockchain" -> Verdict("backend_service", "minor")

\* The texts of a payload that is not a relay response.
rawPayloadVerdict(o) ==
    CASE o = "mismatch" -> Verdict("session_mismatch", "success")
      [] o = "misconfigured" -> Verdict("service_not_configured", "fatal")
      [] o = "malformed" -> Verdict("payload_unknown", "minor")

\* Over-servicing and capability texts are exempted before the reason counts.
classifyMalformedPayloadAsSignal(o) ==
    CASE o \in {"overserviced", "limited", "capability"} -> Verdict("unspecified", "success")
      [] o \in HeuristicOutcome \ {"limited", "capability"} -> classifyHeuristicErrorAsSignal(o)
      [] OTHER -> rawPayloadVerdict(o)

classifyErrorAsSignal(o) ==
    CASE o \in HttpOutcome -> classifyHttpErrorAsSignal(o)
      [] o \in RawOutcome \cup HeuristicOutcome -> classifyMalformedPayloadAsSignal(o)
      [] o \in {"signature", "nilkey", "nokey"} -> Verdict(o, "critical")
      [] o = "undecodable" -> Verdict("unknown", "minor")

\* Mutation: the replay knows no error type for what is no fault.
signalByErrorType(errorType) ==
    CASE errorType = "service_not_configured" -> "fatal"
      [] errorType \in {"non2xx", "backend_service", "signature", "nilkey", "nokey"} -> "critical"
      [] errorType \in {"refused", "timeout", "unexpected_eof"} -> "major"
      [] OTHER -> "minor"

\* The signal the replay derives from an observation's error type alone.
errorTypeToSignal(errorType) ==
    CASE errorType = "unspecified" -> "success"
      [] errorType = "service_not_configured" -> "fatal"
      [] errorType \in {"non2xx", "backend_service", "signature", "nilkey", "nokey"} -> "critical"
      [] errorType \in {"refused", "timeout", "unexpected_eof"} -> "major"
      [] OTHER -> "minor"   \* http_unknown, payload_unknown, unknown and session_mismatch

isSupplierValidationError(o) == o \in RawOutcome \cup {"signature", "nilkey", "nokey"}
isFailure(o) ==
    o \in HttpOutcome \cup RawOutcome \cup HeuristicOutcome
            \cup {"signature", "nilkey", "nokey", "undecodable"}
isPubkeyRelatedError(o) == o \in {"signature", "nilkey", "nokey"}

-----------------------------------------------------------------------------
Init ==
    /\ kind \in {"user", "hedge"} /\ target \in {"supplier", "fallback"}
    /\ relay = [p \in Relay |-> [pc |-> "todo", outcome |-> "none", signed |-> FALSE, retried |-> FALSE,
                                account |-> "none", by |-> 0]]
    /\ answered = "none" /\ minerError = FALSE /\ observations = <<>>
    /\ broadcast = FALSE /\ signals = {}
    /\ published \in BOOLEAN
    /\ cached \in {"none", "keyless"} \cup (IF published THEN {"key"} ELSE {})
    /\ cachedBy = 0 /\ nilTracked \in {FALSE, cached = "keyless"} /\ blacklisted = FALSE /\ exhausted = FALSE

RecordSignal(new) == signals' = signals \cup new
Signal(p, source, class) == [relay |-> p, source |-> source, class |-> class]

\* The request fails before anything is sent.
handleInternalError ==
    /\ relay' = [p \in Relay |-> [relay[p] EXCEPT !.pc = "done"]]
    /\ answered' = "error"

\* Every payload becomes a task of the shared relay pool.
handleParallelRelayRequests(n) ==
    /\ relay' = [p \in Relay |-> [relay[p] EXCEPT !.pc = IF p <= n THEN "sent" ELSE "done"]]
    /\ UNCHANGED answered

\* No payloads, or more than one and over the limit, is an internal error.
HandleServiceRequest(n, limit) ==
    /\ \A p \in Relay : relay[p].pc = "todo"
    /\ IF n = 0 \/ (n > 1 /\ n > limit) THEN handleInternalError
       ELSE handleParallelRelayRequests(n)
    /\ UNCHANGED <<kind, target, minerError, observations, broadcast, signals, keys,
                   blacklisted, exhausted>>

\* SendHTTPRelay gives no answer, a refused status, or bytes with status 200.
sendHTTPRequest(p, o, afterwards) ==
    relay' = [relay EXCEPT ![p].pc = IF o \in HttpOutcome THEN "failed" ELSE afterwards,
                           ![p].outcome = o, ![p].signed = (o = "genuine")]

\* A fallback endpoint's answer is taken as it is: no signature, no heuristics.
sendFallbackRelay(p, o) ==
    /\ o \in HttpOutcome \cup {"ok", "slow"} /\ sendHTTPRequest(p, o, "succeeded")
    /\ UNCHANGED <<minerError, blacklisted>>

\* trackRelayMinerError: kept for the whole context, never cleared.
trackRelayMinerError(o) == minerError' = (minerError \/ o = "overserviced")

\* A supplier's answer is a relay response to validate; bytes that are none
\* blacklist the supplier at once.
sendProtocolRelay(p, o) ==
    /\ o \in HttpOutcome \cup RawOutcome \cup {"genuine", "forged"}
    /\ sendHTTPRequest(p, o, IF o \in RawOutcome THEN "failed" ELSE "validate")
    /\ trackRelayMinerError(o)
    /\ blacklisted' = (blacklisted \/ isSupplierValidationError(o))

executeRelayRequestStrategy(p, o) ==
    /\ relay[p].pc = "sent"
    /\ IF target = "fallback" THEN sendFallbackRelay(p, o) ELSE sendProtocolRelay(p, o)
    /\ UNCHANGED <<kind, target, answered, observations, broadcast, signals, keys, exhausted>>

-----------------------------------------------------------------------------
(* Validation against the supplier's account.                              *)

\* Account: the cached account, else the full node's, or none when that fetch
\* fails.
Account(p) ==
    /\ relay[p].pc = "validate"
    /\ \/ /\ cached # "none"
          /\ relay' = [relay EXCEPT ![p].pc = "found", ![p].account = cached, ![p].by = cachedBy]
       \/ /\ cached = "none"
          /\ \E account \in {IF published THEN "key" ELSE "keyless", "none"} :
               relay' = [relay EXCEPT ![p].pc = "fetched", ![p].account = account, ![p].by = p]
    /\ UNCHANGED <<kind, target, answered, minerError, observations, broadcast, signals, keys,
                   blacklisted, exhausted>>

\* A fetched account is stored when the full node's answer arrives.
\* accountHasValidPubkey looks at the account's bytes, not for a key in them:
\* a keyless account is cached like any other.
CacheAccount(p) ==
    IF relay[p].pc = "fetched" /\ relay[p].account # "none"
    THEN cached' = relay[p].account /\ cachedBy' = p
    ELSE UNCHANGED <<cached, cachedBy>>

InvalidateCache == cached' = "none" /\ cachedBy' = 0
ShouldRetryNilPubkey == ~nilTracked
TrackNilPubkey == nilTracked' = TRUE

\* What the SDK's ValidateRelayResponse makes of the response.
ValidateRelayResponse(p) ==
    CASE relay[p].account = "none" -> "nokey"
      [] relay[p].account = "keyless" -> "nilkey"
      [] relay[p].account = "key" -> IF relay[p].signed THEN "valid" ELSE "signature"

\* The account is forgotten with the validation.
Settled(p, pc, o) ==
    relay' = [relay EXCEPT ![p].pc = pc, ![p].outcome = o, ![p].account = "none", ![p].by = 0]

\* A valid response is deserialized, which may fail, and analysed by the
\* heuristics, which may reject it.
deserializeRelayResponse(p, o) ==
    Settled(p, IF o \in HeuristicOutcome \cup {"undecodable"} THEN "failed" ELSE "succeeded", o)
Rejected(p, o) == Settled(p, "failed", o) /\ blacklisted' = TRUE

\* First try: every error of this kind is one of the supplier's key.
validateAndProcessResponse(p, o) ==
    LET verdict == ValidateRelayResponse(p)
    IN  /\ relay[p].pc \in {"found", "fetched"} /\ ~relay[p].retried
        /\ CacheAccount(p)
        /\ \/ verdict = "valid" /\ deserializeRelayResponse(p, o)
           \/ isPubkeyRelatedError(verdict) /\ Settled(p, "retry", verdict)
        /\ UNCHANGED <<kind, target, answered, minerError, observations, broadcast, signals,
                       published, nilTracked, blacklisted, exhausted>>

\* Mutation: the retry reads the account as it was.
retryWithoutInvalidation(p) ==
    /\ relay[p].pc = "retry"
    /\ relay' = [relay EXCEPT ![p].pc = "validate", ![p].retried = TRUE]
    /\ UNCHANGED <<kind, target, answered, minerError, observations, broadcast, signals, keys,
                   blacklisted, exhausted>>

\* The cached account is dropped before the retry; for a keyless account there
\* is one only once per interval.
retryValidationWithCacheInvalidation(p) ==
    /\ relay[p].pc = "retry"
    /\ IF relay[p].outcome = "nilkey" /\ ~ShouldRetryNilPubkey
       THEN Rejected(p, relay[p].outcome) /\ UNCHANGED <<cached, cachedBy>>
       ELSE /\ InvalidateCache /\ UNCHANGED blacklisted
            /\ relay' = [relay EXCEPT ![p].pc = "validate", ![p].retried = TRUE]
    /\ UNCHANGED <<kind, target, answered, minerError, observations, broadcast, signals,
                   published, nilTracked, exhausted>>

\* The retry itself.  When it fails too, the first error is the one reported.
Revalidate(p, o) ==
    LET verdict == ValidateRelayResponse(p)
    IN  /\ relay[p].pc \in {"found", "fetched"} /\ relay[p].retried
        /\ CacheAccount(p)
        /\ \/ /\ verdict = "valid" /\ deserializeRelayResponse(p, o)
              /\ UNCHANGED <<blacklisted, nilTracked>>
           \/ /\ verdict # "valid" /\ Rejected(p, relay[p].outcome)
              /\ IF relay[p].outcome = "nilkey" /\ verdict = "nilkey" THEN TrackNilPubkey
                 ELSE UNCHANGED nilTracked
        /\ UNCHANGED <<kind, target, answered, minerError, observations, broadcast, signals,
                       published, exhausted>>

-----------------------------------------------------------------------------
(* The end of a relay: sendSingleRelay hands it to one of two handlers.    *)

recordEndpointObservation(p, errorType) ==
    observations' = IF Len(observations) >= ObservationCap THEN observations
                    ELSE Append(observations, [relay |-> p, errorType |-> errorType])

\* A blacklisted supplier's error is not reported.
handleEndpointError(p) ==
    LET verdict == classifyErrorAsSignal(relay[p].outcome)
    IN  /\ relay[p].pc = "failed"
        /\ exhausted' = (\/ exhausted
                         \/ target = "supplier"
                            /\ (minerError \/ relay[p].outcome \in {"overserviced", "limited"}))
        /\ recordEndpointObservation(p, verdict.errorType)
        /\ RecordSignal(IF blacklisted THEN {} ELSE {Signal(p, "relay", verdict.signal)})
        /\ relay' = [relay EXCEPT ![p].pc = "done"]
        /\ UNCHANGED <<kind, target, answered, minerError, broadcast, keys, blacklisted>>

\* A slow answer costs a penalty beside the success, unless it lost a race.
recordLatencyPenaltySignalsIfNeeded(p) ==
    IF relay[p].outcome = "slow" /\ kind # "hedge" THEN {Signal(p, "latency", "slow")} ELSE {}

\* A backend 5xx is reported as an error; the observation says success in
\* every case.
handleEndpointSuccess(p) ==
    LET failed == relay[p].outcome = "backend5xx"
    IN  /\ relay[p].pc = "succeeded"
        /\ recordEndpointObservation(p, "unspecified")
        /\ RecordSignal({Signal(p, "relay", IF failed THEN "critical" ELSE "success")}
                        \cup recordLatencyPenaltySignalsIfNeeded(p))
        /\ relay' = [relay EXCEPT ![p].pc = "done"]
        /\ UNCHANGED <<kind, target, answered, minerError, broadcast, keys, blacklisted, exhausted>>

sendSingleRelay(p) == handleEndpointError(p) \/ handleEndpointSuccess(p)

\* findFirstError and convertResultsToResponses, once the task group is done.
convertResultsToResponses ==
    /\ answered = "none" /\ \A p \in Relay : relay[p].pc = "done"
    /\ answered' = IF \E p \in Relay : isFailure(relay[p].outcome) THEN "error" ELSE "responses"
    /\ UNCHANGED <<kind, target, relay, minerError, observations, broadcast, signals, keys,
                   blacklisted, exhausted>>

\* The context's observations as they stand when the gateway asks for them,
\* after the response was sent; a hedge that lost may still be running.
GetObservations ==
    IF kind = "hedge" \/ answered # "none" THEN {Range(observations)} ELSE {}

\* recordSignalFromObservation: a signal by error type.
recordSignalFromObservation(o) == Signal(o.relay, "replay", errorTypeToSignal(o.errorType))

ApplyHTTPObservations ==
    /\ ~broadcast
    /\ \E obs \in GetObservations : RecordSignal({recordSignalFromObservation(o) : o \in obs})
    /\ broadcast' = TRUE
    /\ UNCHANGED <<kind, target, relay, answered, minerError, observations, keys, blacklisted, exhausted>>

-----------------------------------------------------------------------------
(* The rest of the system.                                                 *)

\* A passed health check or the end of the blacklisting.
Unblacklist ==
    /\ blacklisted /\ blacklisted' = FALSE
    /\ UNCHANGED <<request, keys, exhausted>>
\* The supplier signs its first transaction while relays are under way.
PublishKey ==
    /\ ~published /\ published' = TRUE
    /\ \E p \in Relay : relay[p].pc \notin {"todo", "done"}
    /\ UNCHANGED <<request, cached, cachedBy, nilTracked, blacklisted, exhausted>>
RetryIntervalPasses ==
    /\ nilTracked /\ nilTracked' = FALSE
    /\ UNCHANGED <<request, published, cached, cachedBy, blacklisted, exhausted>>

Next ==
    \/ \E n \in 0 .. Payloads, limit \in BatchLimits : HandleServiceRequest(n, limit)
    \/ \E p \in Relay :
        \/ \E o \in HttpOutcome \cup RawOutcome \cup {"genuine", "forged", "ok", "slow"} :
              executeRelayRequestStrategy(p, o)
        \/ Account(p) \/ retryValidationWithCacheInvalidation(p)
        \/ \E o \in HeuristicOutcome \cup {"ok", "slow", "backend5xx", "undecodable"} :
              validateAndProcessResponse(p, o) \/ Revalidate(p, o)
        \/ sendSingleRelay(p)
    \/ convertResultsToResponses \/ ApplyHTTPObservations
    \/ Unblacklist \/ PublishKey \/ RetryIntervalPasses

Spec == Init /\ [][Next]_vars /\ WF_vars(Next)

-----------------------------------------------------------------------------
\* A genuine answer is rejected on account of the supplier's key only for an
\* account without one that was read after the cached account had been dropped:
\* by the retry itself, or by another relay that put it back into the cache in
\* between; or when a keyless account was met less than nilPubkeyRetryInterval
\* ago, so that no retry is made.  An account cached before the supplier
\* published its key costs it nothing else (retryValidationWithCacheInvalidation).
StaleKeysAreForgiven ==
    \A p \in Relay :
        (/\ relay[p].signed /\ relay[p].pc # "failed"
         /\ relay'[p].pc = "failed" /\ isPubkeyRelatedError(relay'[p].outcome)) =>
            \/ relay[p].pc = "retry" /\ nilTracked
            \/ /\ relay[p].retried /\ relay[p].account # "key"
               /\ relay[p].pc = "fetched" \/ relay[p].by \notin {0, p}

\* That the application's allowance is used up or the node lacks the state asked
\* for is no fault: neither the signal recorded at once nor the one derived from
\* the observation, which knows only the error type, penalises the supplier
\* (classifyMalformedPayloadAsSignal: "NOT supplier faults").
LimitsAreNoFault ==
    \A s \in signals :
        relay[s.relay].outcome \in {"overserviced", "limited", "capability"} => s.class = "success"
=============================================================================
