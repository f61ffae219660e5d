----------------------------- MODULE QosContext -----------------------------
(***************************************************************************)
(* One client request as the QoS packages see it: the body is parsed into  *)
(* payloads, the endpoints' answers are recorded in the order the gateway  *)
(* hands them over, and the client's answer is put together.  The four     *)
(* flavours (evm, cosmos, solana and the pass-through noop) differ in what *)
(* they accept and in how they rebuild a JSON-RPC batch.                   *)
(*                                                                         *)
(* An id is the integer 1, the string "1", the integer 2 or null; two ids  *)
(* have the same value when they print the same.  An endpoint's answer is  *)
(* told apart by what can be read of its id, never by its text.            *)
(***************************************************************************)
EXTENDS Integers, FiniteSets, Sequences, SequencesExt, FiniteSetsExt

CONSTANTS Flavours,     \* the QoS packages of this instance
          Apis,         \* the RPC types a cosmos service may be set up with
          MaxItems,     \* longest batch
          MaxAttempts,  \* most answers recorded for a request of one payload
          Statuses      \* HTTP statuses of endpoint answers, 0 when there was none

ID == {"int1", "str1", "int2", "null"}
Bodies == {"own", "null", "foreign", "noid", "invalid", "empty"}

VARIABLES flavour,   \* the package that serves the request
          supported, \* the RPC types of the service (cosmos)
          request,   \* [kind, items, detected]: the body as received
          payloads,  \* positions of the items that became a payload
          responses, \* rawResponses: what UpdateWithResponse recorded
          answer,    \* what GetHTTPResponse returned
          stage

vars == <<flavour, supported, request, payloads, responses, answer, stage>>

Items == UNION {[1..n -> [id: ID, method: {"comet", "plain"}]] : n \in 0..MaxItems}

\* "rest" is any body that does not hold the word jsonrpc, or is not a POST.
Requests ==
    [kind: {"unreadable", "blank", "malformed", "rest"}, items: {<<>>},
     detected: {"UNKNOWN", "JSON_RPC", "REST", "COMET_BFT"}]
    \cup [kind: {"batch"}, items: Items, detected: {"UNKNOWN", "JSON_RPC", "COMET_BFT"}]
    \cup [kind: {"single"}, items: {s \in Items : Len(s) = 1},
          detected: {"UNKNOWN", "JSON_RPC", "REST", "COMET_BFT"}]

\* ID.String: the integer 1 and the string "1" print alike.
Value(id) == CASE id \in {"int1", "str1"} -> "1"
               [] id = "int2" -> "2"
               [] OTHER -> "null"

NoAnswer == [shape |-> "none", status |-> 0, id |-> "null", array |-> <<>>, error |-> "none"]

\* An error object PATH makes up itself; -31001 and -31002 map to 500, -32600
\* to 400 (GetRecommendedHTTPStatusCode).
Failure(id, status, error) ==
    [NoAnswer EXCEPT !.shape = "error", !.status = status, !.id = id, !.error = error]

-----------------------------------------------------------------------------
(* Parsing.                                                                *)

IsBatch == request.kind = "batch"

\* The map as it would be, keyed by what an id prints.
MapByValue(items) ==
    {i \in DOMAIN items : \A j \in DOMAIN items : Value(items[j].id) = Value(items[i].id) => j <= i}

\* The map is keyed by the ID struct: its pointers keep equal ids apart, except
\* for unset ids, whose struct is the same key for every item.
validateAndMapRequests(items) ==
    {i \in DOMAIN items :
        \/ items[i].id # "null"
        \/ \A j \in DOMAIN items : (items[j].id = "null") => j <= i}

\* An array is tried before a single object; anything else is a parse error.
parseRequestsFromBody == IF request.kind \in {"single", "batch"} THEN request.items ELSE <<>>

ParseJSONRPCFromRequestBody ==
    IF parseRequestsFromBody = <<>> THEN {} ELSE validateAndMapRequests(parseRequestsFromBody)

detectJSONRPCServiceType(item) == IF item.method = "comet" THEN "COMET_BFT" ELSE "JSON_RPC"

\* CometBFT methods may be served by a JSON_RPC backend, nothing else falls back.
buildJSONRPCServicePayloadsFromRequests(positions) ==
    \A i \in positions :
        LET type == detectJSONRPCServiceType(request.items[i])
        IN  type \in supported \/ (type = "COMET_BFT" /\ "JSON_RPC" \in supported)

isJSONRPCRequest == request.kind \in {"single", "batch"}

\* cosmos picks its validator from the type the gateway detected, else from the
\* body; a CometBFT request posted as JSON-RPC is a JSON-RPC request.
cosmosValidator ==
    CASE request.detected = "JSON_RPC" -> "jsonrpc"
      [] request.detected = "REST" -> "rest"
      [] request.detected = "COMET_BFT" /\ isJSONRPCRequest -> "jsonrpc"
      [] request.detected = "COMET_BFT" -> "rest"
      [] OTHER -> IF isJSONRPCRequest THEN "jsonrpc" ELSE "rest"

\* A path is CometBFT's or plain REST; its type must be one the service offers.
RestTypes == {"REST", "COMET_BFT"}

Refuse(failure) ==
    /\ answer' = failure
    /\ stage' = "answered"
    /\ UNCHANGED payloads

Accept(positions) ==
    /\ payloads' = positions
    /\ stage' = "relaying"
    /\ UNCHANGED answer

createHTTPBodyReadFailureContext == Refuse(Failure("null", 500, "body"))
createRequestUnmarshalingFailureContext == Refuse(Failure("null", 400, "parse"))

evmValidateHTTPRequest ==
    IF ParseJSONRPCFromRequestBody = {}
    THEN createRequestUnmarshalingFailureContext
    ELSE Accept(ParseJSONRPCFromRequestBody)

validateJSONRPCRequest ==
    LET positions == ParseJSONRPCFromRequestBody
        errorID == IF Cardinality(positions) = 1
                   THEN request.items[Max(positions)].id ELSE "null"
    IN  IF positions = {} THEN createRequestUnmarshalingFailureContext
        ELSE IF ~buildJSONRPCServicePayloadsFromRequests(positions)
        THEN Refuse(Failure(errorID, 500, "unsupported"))
        ELSE Accept(positions)

\* A REST request is one payload, whatever its body.
validateRESTRequest ==
    \E type \in RestTypes :
        IF type \in supported THEN Accept({1})
        ELSE Refuse(Failure("null", 400, "unsupported"))

cosmosValidateHTTPRequest ==
    IF cosmosValidator = "jsonrpc" THEN validateJSONRPCRequest ELSE validateRESTRequest

\* solana keeps every item of a batch in order, an empty batch included; noop
\* splits a batch of two or more and passes anything else through as it came.
solanaValidateHTTPRequest ==
    IF request.kind \in {"single", "batch"} THEN Accept(DOMAIN request.items)
    ELSE createRequestUnmarshalingFailureContext

noopSplits == IsBatch /\ request.detected = "JSON_RPC" /\ Len(request.items) > 1

noopParse == Accept(IF noopSplits THEN DOMAIN request.items ELSE {1})

\* A REST payload goes by a dummy id; a body passed through has none.
IsRest == flavour = "cosmos" /\ cosmosValidator = "rest"

Id(i) == CASE IsRest -> "rest_request"
           [] i \in DOMAIN request.items /\ (flavour # "noop" \/ noopSplits) -> request.items[i].id
           [] OTHER -> "null"

ParseHTTPRequest ==
    /\ stage = "received"
    /\ IF request.kind = "unreadable" THEN createHTTPBodyReadFailureContext
       ELSE \/ flavour = "evm" /\ evmValidateHTTPRequest
            \/ flavour = "cosmos" /\ cosmosValidateHTTPRequest
            \/ flavour = "solana" /\ solanaValidateHTTPRequest
            \/ flavour = "noop" /\ noopParse
    /\ UNCHANGED <<flavour, supported, request, responses>>

-----------------------------------------------------------------------------
(* Answers arriving.  A request of one payload records every attempt the   *)
(* gateway hands over; with more payloads each one records its last.       *)

Single == Cardinality(payloads) = 1
Recorded == {responses[k].owner : k \in DOMAIN responses}

UpdateWithResponse ==
    /\ stage = "relaying"
    /\ \E i \in payloads, body \in Bodies, status \in Statuses :
        /\ IF Single THEN Len(responses) < MaxAttempts ELSE i \notin Recorded
        /\ responses' = Append(responses, [owner |-> i, body |-> body, status |-> status])
    /\ UNCHANGED <<flavour, supported, request, payloads, answer, stage>>

-----------------------------------------------------------------------------
(* Rebuilding a batch: ReconcileBatchResponses and the two checks after it. *)

\* responseIDOf: the id value, "?" when it cannot be read.
responseIDOf(r) ==
    CASE r.body = "own" -> Value(Id(r.owner))
      [] r.body = "foreign" -> "9"
      [] r.body = "null" -> "null"
      [] OTHER -> "?"

Asked(v) == Cardinality({i \in payloads : Value(Id(i)) = v})

\* The k-th answer with a null id finds an id-less request, or is a wildcard.
IsWildcard(rs, k) ==
    \/ rs[k].body = "noid"
    \/ /\ responseIDOf(rs[k]) = "null"
       /\ Cardinality({j \in 1..(k - 1) : responseIDOf(rs[j]) = "null"}) >= Asked("null")

Carrying(rs, v) == {k \in DOMAIN rs : responseIDOf(rs[k]) = v /\ ~IsWildcard(rs, k)}

TrimLatest(rs, v) ==
    {k \in Carrying(rs, v) : Cardinality({j \in Carrying(rs, v) : j < k}) >= Asked(v)}

\* Surplus answers for an id are trimmed from the front: the latest are kept.
Surplus(rs, v) ==
    {k \in Carrying(rs, v) : Cardinality({j \in Carrying(rs, v) : j > k}) >= Asked(v)}

Dropped(rs) ==
    {k \in DOMAIN rs : rs[k].body = "invalid"}
    \cup UNION {Surplus(rs, v) : v \in {"1", "2", "9", "null"}}

Wildcards(rs) == Cardinality({k \in DOMAIN rs : IsWildcard(rs, k)})

\* One entry per request still without an answer, in the order of the keys.
Missing(rs) ==
    FlattenSeq([n \in 1..3 |->
        LET v == <<"1", "2", "null">>[n]
            lack == Asked(v) - Cardinality(Carrying(rs, v) \ Surplus(rs, v))
        IN  [k \in 1..lack |-> v]])

Kept(rs) ==
    LET keep == SetToSortSeq(DOMAIN rs \ Dropped(rs), <)
    IN  [n \in DOMAIN keep |-> [id |-> responseIDOf(rs[keep[n]]), from |-> rs[keep[n]]]]

Filled(v) == [id |-> v, from |-> [owner |-> 0, body |-> "own", status |-> 0]]

ReconcileEverything(rs) ==
    Kept(rs) \o [n \in DOMAIN Missing(rs) |-> Filled(Missing(rs)[n])]

\* Wildcards stand in for missing requests before an error object is made up.
ReconcileBatchResponses(rs) ==
    LET uncovered == SubSeq(Missing(rs), Wildcards(rs) + 1, Len(Missing(rs)))
    IN  Kept(rs) \o [n \in DOMAIN uncovered |-> Filled(uncovered[n])]

validateResponseLength(array) == Len(array) = Cardinality(payloads)

validateResponseIDs(array) ==
    LET ids == {array[k].id : k \in DOMAIN array}
        nulls == Cardinality({k \in DOMAIN array : array[k].id \in {"?", "null"}})
        unmatched == Cardinality({i \in payloads : Value(Id(i)) \notin ids \ {"null"}})
    IN  unmatched <= nulls

NonEmpty == SelectSeq(responses, LAMBDA r : r.body # "empty")

Array(array, status) == [NoAnswer EXCEPT !.shape = "array", !.status = status, !.array = array]

OrOK(status) == IF status = 0 THEN 200 ELSE status

ValidateAndBuildBatchResponse ==
    LET array == ReconcileBatchResponses(NonEmpty)
    IN  IF validateResponseLength(array) /\ validateResponseIDs(array)
        THEN Array(array, OrOK(responses[1].status))
        ELSE Failure("null", 500, "batch")

\* Nothing to put in the array: evm answers with an empty body, cosmos with an
\* empty object.
Nothing == [NoAnswer EXCEPT !.shape = "empty", !.status = 200]

evmGetBatchHTTPResponse ==
    IF NonEmpty = <<>> THEN Nothing ELSE ValidateAndBuildBatchResponse

cosmosGetBatchHTTPResponse ==
    IF NonEmpty = <<>> THEN Nothing ELSE ValidateAndBuildBatchResponse

-----------------------------------------------------------------------------
(* The client's answer.                                                    *)

Latest == responses[Len(responses)]

Raw == [NoAnswer EXCEPT !.shape = "raw", !.status = OrOK(Latest.status),
                        !.array = <<[id |-> responseIDOf(Latest), from |-> Latest]>>]

getJsonRpcIDForErrorResponse == IF Single THEN Id(Max(payloads)) ELSE "null"

responseNone(protocolError) ==
    Failure(getJsonRpcIDForErrorResponse, 500, IF protocolError THEN "protocol" ELSE "none")

evmHTTPResponse(protocolError) ==
    {IF responses = <<>> THEN responseNone(protocolError)
     ELSE IF IsBatch THEN evmGetBatchHTTPResponse
     ELSE IF Latest.body = "empty" THEN responseNone(protocolError)
     ELSE Raw}

\* With a protocol error cosmos takes the id of whichever payload the map yields
\* first, otherwise the id its validator prepared: null for REST.
buildProtocolErrorResponse == {Failure(Id(i), 500, "protocol") : i \in payloads}

cosmosHTTPResponse(protocolError) ==
    IF responses = <<>>
    THEN IF protocolError
         THEN buildProtocolErrorResponse
         ELSE {Failure(IF IsRest THEN "null" ELSE getJsonRpcIDForErrorResponse, 500, "none")}
    ELSE IF IsBatch THEN {cosmosGetBatchHTTPResponse}
    ELSE {Raw}

\* solana rebuilds the array from every answer recorded; one that does not
\* parse becomes an error object with the request's id.
solanaObject(r) ==
    [id |-> IF r.body \in {"own", "foreign", "null"} THEN responseIDOf(r)
            ELSE Value(Id(r.owner)),
     from |-> r]

solanaBatchHTTPResponse(protocolError) ==
    IF responses = <<>>
    THEN Failure("null", 500, IF protocolError THEN "protocol" ELSE "none")
    ELSE Array([k \in DOMAIN responses |-> solanaObject(responses[k])], 200)

solanaSingleHTTPResponse(protocolError) ==
    IF responses = <<>>
    THEN Failure(Id(1), 500, IF protocolError THEN "protocol" ELSE "none")
    ELSE Raw

solanaHTTPResponse(protocolError) ==
    {IF IsBatch THEN solanaBatchHTTPResponse(protocolError)
     ELSE solanaSingleHTTPResponse(protocolError)}

noopHTTPResponse(protocolError) ==
    {IF responses = <<>>
     THEN Failure("null", 500, IF protocolError THEN "protocol" ELSE "none")
     ELSE IF noopSplits
     THEN IF NonEmpty = <<>> THEN Failure("null", 500, "none")
          ELSE LET array == ReconcileBatchResponses(NonEmpty) IN Array(array, 200)
     ELSE Raw}

\* The gateway answers once its relays are over; before any relay it may have
\* found no endpoint at all.
GetHTTPResponse ==
    /\ stage = "relaying"
    /\ Single \/ responses = <<>> \/ Recorded = payloads
    /\ \E protocolError \in BOOLEAN :
        \/ flavour = "evm" /\ answer' \in evmHTTPResponse(protocolError)
        \/ flavour = "cosmos" /\ answer' \in cosmosHTTPResponse(protocolError)
        \/ flavour = "solana" /\ answer' \in solanaHTTPResponse(protocolError)
        \/ flavour = "noop" /\ answer' \in noopHTTPResponse(protocolError)
    /\ stage' = "answered"
    /\ UNCHANGED <<flavour, supported, request, payloads, responses>>

-----------------------------------------------------------------------------

Init ==
    /\ flavour \in Flavours
    /\ supported \in (IF flavour = "cosmos" THEN SUBSET Apis ELSE {Apis})
    /\ request \in Requests
    \* Only cosmos looks at methods, only cosmos and noop at the detected type.
    /\ flavour # "cosmos" => \A i \in DOMAIN request.items : request.items[i].method = "plain"
    /\ flavour \in {"evm", "solana"} => request.detected = "JSON_RPC"
    /\ payloads = {}
    /\ responses = <<>>
    /\ answer = NoAnswer
    /\ stage = "received"

Next == ParseHTTPRequest \/ UpdateWithResponse \/ GetHTTPResponse

Spec == Init /\ [][Next]_vars

-----------------------------------------------------------------------------
(* Properties.                                                             *)

Batched == stage = "answered" /\ IsBatch /\ NonEmpty # <<>>

\* The answers that carry a request's own id, oldest first.
OwnAnswers(v) == {k \in DOMAIN responses :
                    responses[k].body = "own" /\ Value(Id(responses[k].owner)) = v}

\* The items of the client's batch with this id; evm and cosmos fold the items
\* without an id into one (validateAndMapRequests).
Sent(v) == Cardinality({i \in DOMAIN request.items : Value(request.items[i].id) = v})
Expected(v) == IF v = "null" /\ flavour \in {"evm", "cosmos"} THEN Min({1, Sent(v)}) ELSE Sent(v)

\* A batch reaches the client item by item.  evm and cosmos answer with exactly
\* one object per item the client sent, items without an id counting as one:
\* none has an id that was not asked for, or has it more often than asked (so what
\* lacks an answer is covered by an object with no id to tell), and a real one is
\* taken from the latest answers for its id (ReconcileBatchResponses).  They refuse
\* the batch as a whole only when more unattributable answers came back than items
\* were left without one.  solana and noop leave no item out.
BatchAnswersLineUp ==
    Batched =>
        /\ flavour \in {"evm", "cosmos"} /\ answer.shape = "array" =>
            /\ Len(answer.array) = Expected("1") + Expected("2") + Expected("null")
            /\ \A v \in {"1", "2", "9"} :
                LET objects == {k \in DOMAIN answer.array : answer.array[k].id = v}
                    real == {answer.array[k].from : k \in {n \in objects : answer.array[n].from.owner # 0}}
                    own == OwnAnswers(v)
                IN  /\ Cardinality(objects) <= Expected(v)
                    /\ \A r \in real : \E k \in own :
                        /\ responses[k] = r
                        /\ Cardinality({j \in own : j > k}) < Expected(v)
        /\ flavour \in {"evm", "cosmos"} /\ answer.shape # "array" =>
            Wildcards(NonEmpty) > Len(Missing(NonEmpty))
        /\ flavour = "solana" \/ (flavour = "noop" /\ noopSplits) =>
            answer.shape = "array" /\ Len(answer.array) >= Len(request.items)
=============================================================================
