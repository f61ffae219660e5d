----------------------------- MODULE RelayOutcome -----------------------------
(***************************************************************************)
(* What the retry loops of gateway/http_request_context_handle_request.go    *)
(* share: the outcome of one relay attempt, the verdicts the loops draw from  *)
(* it, and endpoint rotation.                                               *)
(*                                                                         *)
(* An outcome has the error the protocol layer returned, the class of the    *)
(* HTTP status, and what the gateway's own heuristic analysis said of a 2xx   *)
(* body.  Text matching is replaced by what the text says.                   *)
(***************************************************************************)
EXTENDS Integers, Sequences, FiniteSets

CONSTANTS
  Endpoints,
  Host,         \* hostname of each endpoint
  Operator,     \* registrable domain of each endpoint, its host if it has none
  MaxRetries,   \* retry_config.max_retries, 0 when retries are disabled
  RetryOn       \* subset of {"5xx", "timeout", "connection"}

NoEndpoint == "none"

ASSUME RelayAssumption ==
  /\ NoEndpoint \notin Endpoints
  /\ DOMAIN Host = Endpoints /\ DOMAIN Operator = Endpoints
  /\ MaxRetries \in Nat
  /\ RetryOn \subseteq {"5xx", "timeout", "connection"}

\* What HandleServiceRequest can answer while its context is alive. Error "status" is an HTTP
\* status of the relay miner itself; a 4xx or 5xx of the backend behind it is no error.
Outcomes ==
  [err : {"none"}, status : {"2xx"}, heuristic : {"none", "fault", "capability"}]
  \cup [err : {"none"}, status : {"4xx", "5xx"}, heuristic : {"none"}]
  \cup [err : {"timeout", "connection"}, status : {"none"}, heuristic : {"none"}]
  \cup [err : {"fault", "capability", "overserviced"}, status : {"2xx"}, heuristic : {"none"}]
  \cup [err : {"status"}, status : {"4xx", "5xx"}, heuristic : {"none"}]

\* What it answers once its context is cancelled.
Canceled == [err |-> "canceled", status |-> "none", heuristic |-> "none"]

AnyOutcome == Outcomes \cup {Canceled}

checkResponseSuccess(o) == o.err = "none" /\ o.status = "2xx" /\ o.heuristic = "none"

\* 4xx, capability limitations and over-servicing are no fault of the domain.
shouldCircuitBreak(o) ==
  /\ o.status # "4xx"
  /\ IF o.heuristic # "none" THEN o.heuristic # "capability"
                             ELSE o.err \notin {"capability", "overserviced"}

isCapabilityLimitationFailure(o) == o.heuristic = "capability" \/ o.err = "capability"

\* noteCapabilityFailure stops at this many capability failures.
capabilityAttemptBudget == 2

\* slow: the attempt took longer than max_retry_latency.
shouldRetry(o, slow) ==
  /\ MaxRetries > 0 /\ ~slow
  /\ \/ o.status = "5xx" /\ "5xx" \in RetryOn
     \/ o.heuristic # "none"
     \/ o.err = "timeout" /\ "timeout" \in RetryOn
     \/ o.err # "none" /\ "connection" \in RetryOn
          /\ (o.err = "connection" \/ o.status = "none")

-----------------------------------------------------------------------------
(* Rotation: tried endpoints, and tried domains at two granularities         *)

\* Mutation: rotation by hostname, as circuit breaking is.
markHostTried(domains, ep) == domains \cup (IF ep = NoEndpoint THEN {} ELSE {Host[ep]})

markDomainTried(domains, ep) == domains \cup (IF ep = NoEndpoint THEN {} ELSE {Operator[ep]})

filterEndpoints(available, tried, domains) ==
  {ep \in available : ep \notin tried /\ Host[ep] \notin domains /\ Operator[ep] \notin domains}

\* Initial attempts avoid broken hosts unless that leaves nothing.
filterEndpointsByBrokenDomains(available, broken) ==
  LET healthy == {ep \in available : Host[ep] \notin broken}
  IN  IF healthy = {} THEN available ELSE healthy
=============================================================================
