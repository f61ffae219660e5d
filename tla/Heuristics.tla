----------------------------- MODULE Heuristics -----------------------------
(***************************************************************************)
(* What the gateway makes of a response body (qos/heuristic), in the two    *)
(* places it looks: the protocol layer, which flattens its finding into an  *)
(* error text, and the gateway, which keeps it structured. Both then decide *)
(* whether the supplier is at fault.                                        *)
(*                                                                         *)
(* A body is the features the byte scans look for: its structure, the       *)
(* JSON-RPC fields found in the inspected prefix, the error code, and the   *)
(* known phrases it contains.  Confidences are hundredths.                  *)
(***************************************************************************)
EXTENDS Integers, Sequences, FiniteSets, FiniteSetsExt, TLC

CONSTANTS Phrases,      \* the phrases a body may contain
          MaxPhrases    \* at most so many at once

VARIABLES
    req,        \* [rpc, method]: heuristic RPC type, JSON-RPC method or path
    resp,       \* the response
    native,     \* sent through a relay miner, not to a fallback endpoint
    stage,      \* "relay" -> "gateway" -> "done"
    err,        \* reason carried in the protocol layer's error, or "none"
    verdict     \* [success, signal, breaks] the attempt ends with

vars == <<req, resp, native, stage, err, verdict>>

-----------------------------------------------------------------------------
(* Phrases *)

\* errorPatterns, one phrase for each group of interchangeable ones, in the
\* order of the table.
errorPatterns == <<
    [phrase |-> "bad gateway",           category |-> "http_error",       confidence |-> 95],
    [phrase |-> "connection refused",    category |-> "connection_error", confidence |-> 95],
    [phrase |-> "certificate",           category |-> "connection_error", confidence |-> 70],
    [phrase |-> "rate limit",            category |-> "rate_limit",       confidence |-> 95],
    [phrase |-> "relay limit reached",   category |-> "rate_limit",       confidence |-> 99],
    [phrase |-> "unauthorized",          category |-> "auth_error",       confidence |-> 90],
    [phrase |-> "invalid api key",       category |-> "auth_error",       confidence |-> 95],
    [phrase |-> "supplier",              category |-> "service_error",    confidence |-> 60],
    [phrase |-> "illegal wiretype",      category |-> "protocol_error",   confidence |-> 95],
    [phrase |-> "mdbx_panic",            category |-> "blockchain_error", confidence |-> 98],
    [phrase |-> "is pruned",             category |-> "blockchain_error", confidence |-> 95],
    [phrase |-> "excluded from indexes", category |-> "blockchain_error", confidence |-> 95],
    [phrase |-> "node is behind",        category |-> "blockchain_error", confidence |-> 90] >>

IsArchivalRelatedError(p) == p = "is pruned"

IsCapabilityLimitationError(p) ==
    IsArchivalRelatedError(p) \/ p \in {"capability_limitation", "excluded from indexes"}

IsProviderAuthError(p) == p = "invalid api key"

IsOverServicedError(text) == "relay limit reached" \in text

isCapabilityLimitationText(text) == "lite fullnode" \in text

\* Mutant: the reason of an honest JSON-RPC error to a REST request is not
\* among the substrings.
ArchivalPhrasesOnly(text, reason) ==
    text \cap {"is pruned", "lowest height", "lite fullnode", "excluded from indexes"} # {}

\* capabilityLimitationSubstrings: the error text holds the body and the
\* heuristic's reason.
ErrorContainsArchivalPattern(text, reason) ==
    \/ text \cap {"is pruned", "lowest height", "lite fullnode", "excluded from indexes"} # {}
    \/ reason = "rest_protocol_mismatch_error"

Result(retry, confidence, reason, matched) ==
    [retry |-> retry, confidence |-> confidence, reason |-> reason, matched |-> matched]

\* The most confident phrase of the table, the first of equals.
IndicatorAnalysis(text) ==
    LET hits == {i \in DOMAIN errorPatterns : errorPatterns[i].phrase \in text}
        best == {i \in hits : \A j \in hits : errorPatterns[j].confidence <= errorPatterns[i].confidence}
    IN  IF hits = {} THEN [phrase |-> "none", category |-> "none", confidence |-> 0]
                     ELSE errorPatterns[Min(best)]

IndicatorAnalysisToResult(i) ==
    Result(TRUE, i.confidence, "error_indicator", i.phrase)

-----------------------------------------------------------------------------
(* Tiers 1 and 2 *)

StructuralAnalysis(r) ==
    CASE r.shape = "empty" -> Result(TRUE, 100, "empty_response", "none")
      [] r.shape = "html" -> Result(TRUE, 99, "html_error_page", "none")
      [] r.shape = "xml" -> Result(TRUE, 95, "xml_response", "none")
      [] r.shape = "malformed" -> Result(TRUE, 90, "malformed_json", "none")
      [] r.shape = "text" ->
           IF "invalid api key" \in r.text
           THEN Result(TRUE, 95, "non_json_provider_auth_error", "invalid api key")
           ELSE IF isCapabilityLimitationText(r.text)
           THEN Result(TRUE, 95, "non_json_capability_limitation", "capability_limitation")
           ELSE Result(TRUE, 95, "non_json_response", "none")
      [] OTHER -> Result(FALSE, 0, "valid_structure", "none")

isCometBFTMethod(m) == m \in {"health", "/health"}
isCometBFTPath(m) == m = "/health"
emptyArrayValid(m) == m = "eth_getLogs"
isRESTEmptyObjectValid(m) == m = "/wallet/getaccount"

\* Mutant: "result":null beside an error counts as a result.
hasResultLiterally(r) == r.result # "absent"

\* A null result beside an error is no result.
hasResult(r) == r.result # "absent" /\ ~(r.result = "null" /\ r.error # "absent")

\* A result and no error: empty containers are valid for some methods only.
emptyResultVerdict(r, q) ==
    CASE r.result = "{}" /\ q.rpc # "comet_bft" /\ ~isCometBFTMethod(q.method)
           -> Result(TRUE, 95, "jsonrpc_empty_object_result", "none")
      [] r.result = "[]" /\ q.rpc = "comet_bft"
           -> Result(TRUE, 95, "cometbft_invalid_empty_array", "none")
      [] r.result = "[]" /\ q.rpc # "comet_bft" /\ q.method # "" /\ ~emptyArrayValid(q.method)
           -> Result(TRUE, 95, "jsonrpc_invalid_empty_array", "none")
      [] OTHER -> Result(FALSE, 0, "jsonrpc_success", "none")

\* An error and no result, in a JSON-RPC envelope.
errorVerdict(r) ==
    CASE r.code = -32700 -> Result(TRUE, 98, "jsonrpc_fabricated_parse_error", "none")
      [] r.code = -32603 /\ r.text \cap {"bad gateway", "connection refused"} # {}
           -> Result(TRUE, 95, "jsonrpc_wrapped_service_error", "none")
      [] OTHER -> Result(FALSE, 0, "jsonrpc_valid_error", "none")

analyzeJSONRPC(r, q) ==
    CASE hasResult(r) /\ r.error = "absent" -> emptyResultVerdict(r, q)
      [] ~hasResult(r) /\ r.error # "absent" /\ r.version -> errorVerdict(r)
      [] hasResult(r) /\ r.error = "object"
           -> Result(TRUE, 95, "jsonrpc_both_result_and_error", "none")
      [] hasResult(r) /\ r.error = "string" -> Result(FALSE, 0, "jsonrpc_success", "none")
      [] ~hasResult(r) /\ r.error # "absent" /\ ~r.version
           -> Result(TRUE, 80, "error_without_jsonrpc_version", "none")
      [] OTHER ->
           CASE r.version /\ r.size # "large"
                  -> Result(TRUE, 85, "jsonrpc_missing_result_and_error", "none")
             [] ~r.version /\ r.size = "small" -> Result(TRUE, 70, "small_no_result", "none")
             [] OTHER -> Result(FALSE, 30, "large_no_result_in_prefix", "none")

\* "error" is found near the start; a code and a message without data are
\* what a small Cosmos error body has.
analyzeREST(r, q) ==
    LET honest == r.error # "absent" /\ r.result \in {"absent", "null"}
        blank == r.result = "absent" /\ r.error = "absent" /\ ~r.version /\ r.text = {}
    IN  CASE r.size = "small" /\ blank /\ ~isRESTEmptyObjectValid(q.method)
               -> Result(TRUE, 80, "rest_empty_object", "none")
          [] r.version /\ ~isCometBFTPath(q.method) /\ honest
               -> Result(TRUE, 95, "rest_protocol_mismatch_error", "capability_limitation")
          [] r.version /\ ~isCometBFTPath(q.method) /\ ~honest
               -> Result(TRUE, 95, "rest_protocol_mismatch", "none")
          [] (~r.version \/ isCometBFTPath(q.method)) /\ r.error # "absent"
               -> Result(TRUE, 85, "rest_error_field", "none")
          [] ~r.version /\ r.error = "absent" /\ r.text # {} /\ r.size # "large"
               -> Result(TRUE, 75, "rest_code_message_error", "none")
          [] OTHER -> Result(FALSE, 0, "rest_no_error_indicator", "none")

ProtocolAnalysis(r, q) ==
    CASE q.rpc = "rest" -> analyzeREST(r, q)
      [] q.rpc = "unknown" -> Result(FALSE, 0, "unknown_protocol", "none")
      [] OTHER -> analyzeJSONRPC(r, q)

-----------------------------------------------------------------------------
(* The analyzer *)

analyzeHTTPStatus(status) ==
    CASE status \in 400..499 -> Result(TRUE, 100, "http_4xx", "none")
      [] status >= 500 -> Result(TRUE, 100, "http_5xx", "none")
      [] OTHER -> Result(FALSE, 0, "http_success", "none")

isBodylessHTTPStatus(status) == status \in {204, 205, 304}

ConfidenceThreshold == 50

\* Analyze, once the structure is JSON and the status is not conclusive.
analyzeContent(r, q) ==
    LET p == ProtocolAnalysis(r, q)
        i == IndicatorAnalysis(r.text)
    IN  CASE r.status \in 400..499 ->
               IF p.reason \in {"jsonrpc_valid_error", "jsonrpc_success"}
               THEN p ELSE analyzeHTTPStatus(r.status)
          [] r.status \notin 400..499 /\ p.confidence >= ConfidenceThreshold -> p
          [] r.status \notin 400..499 /\ p.reason = "jsonrpc_valid_error" ->
               IF i.category = "blockchain_error" \/ IsProviderAuthError(i.phrase)
               THEN IndicatorAnalysisToResult(i) ELSE p
          [] r.status \notin 400..499 /\ p.reason = "jsonrpc_success" -> p
          [] OTHER ->
               IF i.confidence >= ConfidenceThreshold
               THEN IndicatorAnalysisToResult(i)
               ELSE Result(FALSE, 0, "likely_valid", "none")

Analyze(r, q) ==
    CASE r.status >= 500 \/ r.status = 429 -> analyzeHTTPStatus(r.status)
      [] r.shape = "empty" /\ isBodylessHTTPStatus(r.status)
           -> Result(FALSE, 0, "no_body_expected", "none")
      [] r.status < 500 /\ r.status # 429 /\ r.shape # "json"
           /\ ~(r.shape = "empty" /\ isBodylessHTTPStatus(r.status)) -> StructuralAnalysis(r)
      [] OTHER -> analyzeContent(r, q)

\* A null id answers a request that had one: the supplier made it up.
CheckRequestIDMismatch(r) == r.shape = "json" /\ r.nullID

-----------------------------------------------------------------------------
(* What a finding costs *)

isDeceptiveResponsePattern(reason) ==
    reason \in {"jsonrpc_invalid_empty_array", "jsonrpc_empty_object_result",
                "rest_protocol_mismatch", "cometbft_invalid_empty_array",
                "jsonrpc_fabricated_parse_error", "jsonrpc_wrapped_service_error",
                "jsonrpc_id_mismatch"}

\* recordHeuristicErrorToReputation, on a structured finding.
heuristicSignal(f) ==
    CASE IsCapabilityLimitationError(f.matched) \/ IsOverServicedError({f.matched}) -> "none"
      [] ~IsCapabilityLimitationError(f.matched) /\ ~IsOverServicedError({f.matched})
           /\ f.confidence >= 95 ->
           IF isDeceptiveResponsePattern(f.reason) \/ IsProviderAuthError(f.matched)
           THEN "critical" ELSE "major"
      [] OTHER -> "minor"

\* classifyMalformedPayloadAsSignal: is the flattened finding anyone's fault?
flattenedIsFault(r, reason) ==
    ~IsOverServicedError(r.text) /\ ~ErrorContainsArchivalPattern(r.text, reason)

\* shouldCircuitBreak, with a structured finding and with an error text only.
breaksOnFinding(r, f) ==
    r.status \notin 400..499 /\ ~IsCapabilityLimitationError(f.matched)
        /\ ~IsOverServicedError({f.matched})

breaksOnError(r, reason) == r.status \notin 400..499 /\ flattenedIsFault(r, reason)

-----------------------------------------------------------------------------
(* The attempt *)

Texts == UNION {kSubset(k, Phrases) : k \in 0..MaxPhrases}

Unparsed ==
    [shape : {"empty", "html", "xml", "malformed"}, text : {{}}]
    \union [shape : {"text"}, text : Texts]

Parsed ==
    {b \in [result : {"absent", "null", "{}", "[]", "value"},
            error : {"absent", "string", "object"}, version : BOOLEAN, nullID : BOOLEAN,
            code : {0, -32700, -32603}, size : {"small", "medium", "large"}, text : Texts] :
        /\ b.error # "object" => b.code = 0
        /\ b.error = "string" => b.result = "value"
        /\ b.error = "absent" => Cardinality(b.text) <= 1
        /\ b.nullID => b.version
        /\ b.size = "small" => b.text = {}}

Plain == [result |-> "absent", error |-> "absent", version |-> FALSE, nullID |-> FALSE,
          code |-> 0, size |-> "medium"]

Init ==
    /\ req \in [rpc : {"json_rpc"}, method : {"", "eth_blockNumber", "eth_getLogs", "health"}]
         \union [rpc : {"comet_bft"}, method : {"health"}]
         \union [rpc : {"rest"}, method : {"/health", "/wallet/getaccount", "/other"}]
         \union [rpc : {"unknown"}, method : {""}]
    /\ \E status \in {200, 204, 400, 429, 502} :
         \/ \E b \in Unparsed : resp = Plain @@ b @@ [status |-> status]
         \/ \E b \in Parsed : status \in {200, 400}
              /\ resp = b @@ [shape |-> "json", status |-> status]
    /\ native \in BOOLEAN
    /\ stage = "relay"
    /\ err = "none"
    /\ verdict = [success |-> FALSE, signal |-> "none", breaks |-> FALSE]

\* sendProtocolRelay analyzes a 2xx answer of a relay miner; sendFallbackRelay
\* analyzes nothing.
sendRelay ==
    /\ stage = "relay"
    /\ LET f == Analyze(resp, req)
       IN  err' = IF native /\ resp.status \in 200..299 /\ f.retry THEN f.reason ELSE "none"
    /\ stage' = "gateway"
    /\ UNCHANGED <<req, resp, native, verdict>>

\* checkResponseSuccess, then the penalty and the circuit breaker.
checkResponseSuccess ==
    /\ stage = "gateway"
    /\ stage' = "done"
    /\ LET f == Analyze(resp, req)
           fabricated == Result(TRUE, 99, "jsonrpc_id_mismatch", "none")
           found == IF f.retry THEN f ELSE fabricated
       IN  verdict' =
             CASE err # "none" ->
                    [success |-> FALSE, breaks |-> breaksOnError(resp, err),
                     signal |-> IF flattenedIsFault(resp, err) THEN "fault" ELSE "none"]
               [] err = "none" /\ resp.status \notin 200..299 ->
                    [success |-> FALSE, breaks |-> resp.status >= 500, signal |-> "none"]
               [] err = "none" /\ resp.status \in 200..299
                    /\ (f.retry \/ (req.rpc = "json_rpc" /\ CheckRequestIDMismatch(resp))) ->
                    [success |-> FALSE, breaks |-> breaksOnFinding(resp, found),
                     signal |-> heuristicSignal(found)]
               [] OTHER -> [success |-> TRUE, breaks |-> FALSE, signal |-> "none"]
    /\ UNCHANGED <<req, resp, native, err>>

Next == sendRelay \/ checkResponseSuccess

Spec == Init /\ [][Next]_vars

-----------------------------------------------------------------------------
(* Properties *)

\* Phrases that tell of a node or supplier fault in a JSON-RPC error.
FaultPhrases == {"mdbx_panic", "is pruned", "excluded from indexes", "node is behind", "invalid api key"}

\* What the JSON-RPC convention calls an answer to the request: an envelope
\* with a result the method can return, or with an error of the node's own.
Answers(r, q) ==
    /\ r.shape = "json" /\ r.version /\ ~r.nullID
    /\ \/ r.error = "absent" /\ r.result \in {"value", "null"}
       \/ r.error = "absent" /\ r.result = "[]" /\ q.method = "eth_getLogs"
       \/ r.error = "absent" /\ r.result = "{}" /\ q.method = "health"
       \/ r.error = "object" /\ r.result \in {"absent", "null"} /\ r.code = 0
            /\ r.text \cap FaultPhrases = {}

\* An honest JSON-RPC answer, be it a revert or an empty log list, reaches
\* the client: no tier takes it for a supplier error (analyzer.go, "prevents
\* indicator analysis from overriding valid JSON-RPC error detection").
HonestAnswersPass ==
    (stage = "done" /\ resp.status = 200 /\ req.rpc \in {"json_rpc", "comet_bft"} /\ Answers(resp, req))
        => verdict.success

\* The two layers classify the same body on their own; whatever the gateway
\* exempts from penalty, the protocol layer must exempt too ("mirror it
\* here", classifyMalformedPayloadAsSignal).
ExemptionsAgree ==
    stage = "done" =>
        LET f == Analyze(resp, req)
        IN  (native /\ resp.status \in 200..299 /\ f.retry /\ heuristicSignal(f) = "none") =>
              verdict.signal = "none" /\ ~verdict.breaks
=============================================================================
