-------------------------- MODULE RequestRouting --------------------------
(***************************************************************************)
(* The way of one service request through the gateway: the router's        *)
(* middleware (router/router.go), the choice between the HTTP and the      *)
(* websocket handler (gateway.go, request_type.go), the capture of the     *)
(* body, the service lookup, RPC-type detection and validation             *)
(* (rpc_type_detector.go, rpc_type_validator.go), QoS parsing, and the     *)
(* deferred answer and observation broadcast (http_request_context.go).    *)
(*                                                                         *)
(* A body is what the detector tells apart and whether it is longer than   *)
(* the 100 KB it inspects.  A configured RPC type is the type and whether  *)
(* it is written in the lower case of the constants.                       *)
(***************************************************************************)
EXTENDS Integers, FiniteSets

CONSTANTS Request       \* the requests and services of the instance; see RequestType

HTTPTypes == {"json_rpc", "rest", "comet_bft"}
RPCTypes == HTTPTypes \cup {"websocket", "grpc"}
Unknown == "unknown"

RequestType ==
    [method      : {"GET", "POST", "OPTIONS"},
     path        : {"/", "/rest", "/status", "/static"},   \* after any prefix
     app         : {"none", "header", "path", "both"},     \* where the portal app is named
     service     : {"missing", "unlisted", "listed"},
     types       : SUBSET RPCTypes,                     \* what the service lists
     lower       : BOOLEAN,                             \* ... in lower case
     static      : {"none", "service", "default"},      \* who defines the route /static
     upgrade     : {"none", "websocket"},
     connection  : {"none", "Upgrade", "keep-alive, Upgrade"},
     contentType : {"json", "grpc"},
     rpcHeader   : RPCTypes \cup {"none", "invalid"},
     body        : {"empty", "jsonrpc", "comet", "batch", "plain"},
     size        : {"small", "large", "overLimit"}]

VARIABLES
    req,        \* the request, which no step changes
    stage,      \* where it is
    path,       \* its URL path; "/app" stands for one that still has the app in front
    body,       \* what the next reader of the body gets: "whole", "prefix" or "error"
    captured,   \* what the observation queue keeps of it
    detected,   \* detectedRPCType
    response,   \* presetFailureHTTPResponse, or who answers
    gatewayErr, \* RequestError of the gateway observations
    published   \* observations handed to the metrics reporter

vars == <<req, stage, path, body, captured, detected, response, gatewayErr, published>>

Init ==
    /\ req \in Request
    /\ stage = "router"
    /\ path = IF req.app \in {"path", "both"} THEN "/app" ELSE req.path
    /\ body = "whole" /\ captured = "none"
    /\ detected = Unknown
    /\ response = "none" /\ gatewayErr = "none" /\ published = 0

Reply(who, next) == response' = who /\ stage' = next

-----------------------------------------------------------------------------
(***************************************************************************)
(* The router.                                                             *)
(***************************************************************************)
\* A preflight is answered at once.
corsMiddleware ==
    /\ stage = "router"
    /\ IF req.method = "OPTIONS" THEN Reply("cors", "done")
       ELSE stage' = "prefix" /\ UNCHANGED response
    /\ UNCHANGED <<req, path, body, captured, detected, gatewayErr, published>>

\* The version prefix goes, and the portal app in front if the header names it.
removeGrovePortalPrefixMiddleware ==
    /\ stage = "prefix" /\ stage' = "static"
    /\ path' = IF req.app = "both" THEN req.path ELSE path
    /\ UNCHANGED <<req, body, captured, detected, response, gatewayErr, published>>

\* The routes of the service come before the defaults; only an exact path matches.
matchStaticRoute(owner) == path = "/static" /\ req.static = owner
ResolveStaticResponse ==
    \/ req.service = "listed" /\ matchStaticRoute("service")
    \/ matchStaticRoute("default")

\* Any Upgrade header passes by.
staticResponseMiddleware ==
    /\ stage = "static"
    /\ IF req.upgrade = "none" /\ ResolveStaticResponse THEN Reply("static", "done")
       ELSE stage' = "limit" /\ UNCHANGED response
    /\ UNCHANGED <<req, path, body, captured, detected, gatewayErr, published>>

\* MaxBytesReader: a body over the limit cannot be read to its end.
handleServiceRequest ==
    /\ stage = "limit" /\ stage' = "gateway"
    /\ body' = IF req.size = "overLimit" THEN "error" ELSE "whole"
    /\ UNCHANGED <<req, path, captured, detected, response, gatewayErr, published>>

-----------------------------------------------------------------------------
(***************************************************************************)
(* The gateway.                                                            *)
(***************************************************************************)
isWebsocketRequest == req.upgrade = "websocket" /\ req.connection = "Upgrade"

HandleServiceRequest ==
    /\ stage = "gateway"
    /\ IF isWebsocketRequest THEN Reply("websocket", "done")
       ELSE stage' = "capture" /\ UNCHANGED response
    /\ UNCHANGED <<req, path, body, captured, detected, gatewayErr, published>>

\* Reads the body and restores it; a body that cannot be read stays as it is.
captureHTTPRequestMetadata ==
    /\ stage = "capture" /\ stage' = "init"
    /\ captured' = IF body = "whole" THEN "whole" ELSE "none"
    /\ UNCHANGED <<req, path, body, detected, response, gatewayErr, published>>

\* The first error a request meets is the one that is recorded.
updateGatewayObservations(err) == gatewayErr' = IF gatewayErr = "none" THEN err ELSE gatewayErr

\* The parser names the service and its QoS; a service that is not listed has the NoOp one.
getServiceID == req.service # "missing"
GetHTTPErrorResponse == Reply("parser", "respond")
NewServiceNotConfiguredErrorResponse == Reply("notConfigured", "respond")

InitFromHTTPRequest ==
    /\ stage = "init"
    /\ \/ ~getServiceID /\ updateGatewayObservations("missingService") /\ GetHTTPErrorResponse
       \/ /\ getServiceID /\ req.service # "listed"
          /\ updateGatewayObservations("unspecified") /\ NewServiceNotConfiguredErrorResponse
       \/ getServiceID /\ req.service = "listed" /\ stage' = "validate" /\ UNCHANGED <<response, gatewayErr>>
    /\ UNCHANGED <<req, path, body, captured, detected, published>>

-----------------------------------------------------------------------------
(***************************************************************************)
(* RPC-type detection: the type, or Unknown for an error.                  *)
(***************************************************************************)
\* The detector compares without regard to case ...
isTypeAllowed(t) == t \in req.types

checkRPCTypeHeader == IF req.rpcHeader \in RPCTypes /\ isTypeAllowed(req.rpcHeader) THEN req.rpcHeader ELSE Unknown

isWebSocketUpgrade == req.upgrade = "websocket"
isGRPCRequest == req.contentType = "grpc"
easyDetection == IF isWebSocketUpgrade THEN "websocket" ELSE IF isGRPCRequest THEN "grpc" ELSE Unknown

httpTypes == req.types \cap HTTPTypes

EliminateToAny ==
    IF httpTypes # {} THEN CHOOSE t \in httpTypes : TRUE ELSE Unknown

\* The one HTTP type of the service, unless JSON-RPC would have to be a GET.
processOfElimination ==
    IF Cardinality(httpTypes) = 1 /\ ~(httpTypes = {"json_rpc"} /\ req.method # "POST")
    THEN CHOOSE t \in httpTypes : TRUE ELSE Unknown

\* The inspection reads a prefix of the body, and what is left is restored.
Truncated == body = "whole" /\ req.size = "large"

\* Any of "jsonrpc", "method", "id"; the method only where a whole object was read.
hasJSONRPCStructure == req.body \in {"jsonrpc", "comet", "batch"}
extractJSONRPCMethod == IF req.body = "comet" /\ ~Truncated THEN "status" ELSE ""
isCometBFTMethod(method) == method = "status"
isCometBFTPath == path = "/status"

inspectPayload ==
    CASE body = "error" -> Unknown
      [] hasJSONRPCStructure /\ isTypeAllowed("comet_bft") /\ isCometBFTMethod(extractJSONRPCMethod) -> "comet_bft"
      [] hasJSONRPCStructure /\ isTypeAllowed("json_rpc") -> "json_rpc"
      [] isCometBFTPath /\ isTypeAllowed("comet_bft") -> "comet_bft"
      [] isTypeAllowed("rest") -> "rest"
      [] OTHER -> Unknown

Inspects == req.rpcHeader = "none" /\ easyDetection = Unknown /\ processOfElimination = Unknown

DetectRPCType ==
    CASE req.rpcHeader # "none" -> checkRPCTypeHeader
      [] easyDetection # Unknown -> IF isTypeAllowed(easyDetection) THEN easyDetection ELSE Unknown
      [] processOfElimination # Unknown -> processOfElimination
      [] OTHER -> inspectPayload

\* ... and the validator compares literally.
ValidatorAccepts(t) == req.lower /\ t \in req.types

NewRPCTypeValidationErrorResponse == Reply("rpcType", "respond")

\* A service that lists no types is not checked.  A failed detection leaves 512 bytes of
\* the body, which nobody reads.
ValidateRPCType ==
    /\ stage = "validate"
    /\ \/ req.types = {} /\ stage' = "qos" /\ UNCHANGED <<body, detected, response, gatewayErr>>
       \/ /\ req.types # {} /\ DetectRPCType = Unknown
          /\ updateGatewayObservations("unspecified") /\ NewRPCTypeValidationErrorResponse
          /\ UNCHANGED <<body, detected>>
       \/ /\ req.types # {} /\ DetectRPCType # Unknown
          /\ detected' = DetectRPCType
          /\ body' = IF Inspects /\ Truncated THEN "prefix" ELSE body
          /\ IF ValidatorAccepts(DetectRPCType)
             THEN stage' = "qos" /\ UNCHANGED <<response, gatewayErr>>
             ELSE updateGatewayObservations("unspecified") /\ NewRPCTypeValidationErrorResponse
    /\ UNCHANGED <<req, path, captured, published>>

-----------------------------------------------------------------------------
\* The QoS parses what is left of the body.  It may refuse any; one it cannot read it does.
BuildQoSContextFromHTTP ==
    /\ stage = "qos"
    /\ \/ Reply("qos", "respond") /\ updateGatewayObservations("rejectedByQoS")
       \/ body # "error" /\ Reply("relay", "respond") /\ UNCHANGED gatewayErr
    /\ UNCHANGED <<req, path, body, captured, detected, published>>

\* The deferred function writes the answer, then broadcasts in the background.
WriteHTTPUserResponse ==
    /\ stage = "respond" /\ stage' = "broadcast"
    /\ UNCHANGED <<req, path, body, captured, detected, response, gatewayErr, published>>

\* In a goroutine of its own.
broadcastObservationsInternal ==
    /\ stage = "broadcast" /\ stage' = "done"
    /\ published' = published + 1
    /\ UNCHANGED <<req, path, body, captured, detected, response, gatewayErr>>

Next ==
    \/ corsMiddleware \/ removeGrovePortalPrefixMiddleware \/ staticResponseMiddleware \/ handleServiceRequest
    \/ HandleServiceRequest \/ captureHTTPRequestMetadata
    \/ InitFromHTTPRequest \/ ValidateRPCType \/ BuildQoSContextFromHTTP
    \/ WriteHTTPUserResponse \/ broadcastObservationsInternal

Spec == Init /\ [][Next]_vars

-----------------------------------------------------------------------------
\* What the client meant, for the requests that leave no doubt.
Meant ==
    CASE req.method = "POST" /\ req.path = "/" /\ req.body = "jsonrpc" -> {"json_rpc"}
      [] req.method = "POST" /\ req.path = "/" /\ req.body = "comet" -> {"comet_bft", "json_rpc"}
      [] req.method = "GET" /\ req.body = "empty" /\ req.path = "/rest" -> {"rest"}
      [] req.method = "GET" /\ req.body = "empty" /\ req.path = "/status" -> {"comet_bft", "rest"}
      [] OTHER -> {}

Plain == req.service = "listed" /\ req.app # "path" /\ req.upgrade = "none" /\ req.contentType = "json" /\ req.rpcHeader = "none" /\ req.size = "small"

\* An unambiguous request to a service that lists its type is taken for that type, whatever
\* else the service lists, by elimination or by inspection, and is never refused for its
\* type (DetectRPCType, ValidateRPCType).
TypedAsMeant ==
    (stage \in {"qos", "respond"} /\ Plain /\ req.lower /\ Meant \cap req.types # {}) =>
        /\ detected \in Meant
        /\ response # "rpcType"

\* Detection restores the body for downstream handlers: what the QoS parses is what the
\* client sent and the observation queue kept.
BodyReachesQos == stage = "qos" => (body = "whole" <=> captured = "whole")

\* Every HTTP request that passed the router is published once, with the stage that
\* refused it as the recorded error, or none.
RefusalsAreAttributed ==
    stage = "done" =>
        /\ published = IF response \in {"cors", "static", "websocket"} THEN 0 ELSE 1
        /\ response = "qos" <=> gatewayErr = "rejectedByQoS"
        /\ response \in {"relay", "cors", "static", "websocket"} <=> gatewayErr = "none"
=============================================================================
