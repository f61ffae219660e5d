--------------------------- MODULE MCRequestPath ----------------------------
(***************************************************************************)
(* The path of an HTTP request through the gateway, for TLC: the router,   *)
(* the sessions and the pool of endpoints, the QoS selection and its       *)
(* operator cap, the relay and the answer. The stages hand each other one  *)
(* value each and share no variables, so part explores one of them at a    *)
(* time.                                                                   *)
(***************************************************************************)
EXTENDS SessionCache, Sequences

VARIABLES
    part,
    httpReq, at, path, body, captured, detected, response, gatewayErr, published,
    level, cooling, drained, blacklist, overServiced, session, selection, changes,
    flavour, apis, url, perceived, perceivedEpoch, known, store, acache, marks, redis, urlRedis,
    refuted, choice, steps,
    settings, score, remaining, picked, wanted, outcome,
    kind, target, relay, answered, minerError, observations, broadcast, signals, onChain, cached,
    cachedBy, nilTracked, blacklisted, exhausted,
    package, supported, request, payloads, responses, answer, parsed

\* The requests and services of the routing part: what decides the RPC type, what the headers
\* say, and what the middlewares look at, one group at a time.
RPCTypes == {"json_rpc", "rest", "comet_bft", "websocket", "grpc"}
Base == [method |-> "POST", path |-> "/", app |-> "none", service |-> "listed",
         types |-> {"json_rpc", "websocket"}, lower |-> TRUE, static |-> "none", upgrade |-> "none",
         connection |-> "none", contentType |-> "json", rpcHeader |-> "none",
         body |-> "jsonrpc", size |-> "small"]
Listings == {{}} \cup {{t} : t \in RPCTypes}
    \cup {{"json_rpc", "websocket"}, {"json_rpc", "rest"}, {"rest", "comet_bft"},
          {"json_rpc", "rest", "comet_bft", "websocket"}}
Requests ==
    {[Base EXCEPT !.method = m, !.path = p, !.types = t, !.body = b[1], !.size = b[2], !.lower = l] :
        m \in {"GET", "POST"}, p \in {"/", "/rest", "/status"}, t \in Listings,
        b \in ({"jsonrpc", "comet", "batch", "plain"} \X {"small", "large", "overLimit"})
                \cup {<<"empty", "small">>},
        l \in BOOLEAN}
    \cup
    {[Base EXCEPT !.upgrade = u, !.connection = c, !.contentType = ct, !.rpcHeader = h, !.types = t] :
        u \in {"none", "websocket"}, c \in {"none", "Upgrade", "keep-alive, Upgrade"},
        ct \in {"json", "grpc"}, h \in RPCTypes \cup {"none", "invalid"}, t \in Listings}
    \cup
    {[Base EXCEPT !.method = m, !.path = p, !.app = a, !.service = s, !.static = st, !.upgrade = u] :
        m \in {"GET", "POST", "OPTIONS"}, p \in {"/", "/static"},
        a \in {"none", "header", "path", "both"}, s \in {"missing", "unlisted", "listed"},
        st \in {"none", "service", "default"}, u \in {"none", "websocket"}}

\* Three endpoints, two of them behind one URL, in the sessions of two apps.
Endpoints == {"e1", "e2", "e3"}
SupplierOf == [e1 |-> "s1", e2 |-> "s2", e3 |-> "s3"]
DomainOf == [e1 |-> "x", e2 |-> "x", e3 |-> "y", f |-> "z"]
UrlOf == [e1 |-> "u1", e2 |-> "u1", e3 |-> "u3"]
TypesOf == [e1 |-> {"json", "ws"}, e2 |-> {"json"}, e3 |-> {"json", "comet", "ws"}]
Members == [a |-> <<{"e1", "e2"}, {"e2"}>>, b |-> <<{"e3"}, {"e1", "e3"}>>]

\* Operator a has eight registrations over two backends, b and c have one each, and u1
\* and u2 are endpoints whose operator cannot be told.
Tlds == [a1 |-> "a", a2 |-> "a", a3 |-> "a", a4 |-> "a", a5 |-> "a", a6 |-> "a", a7 |-> "a",
         a8 |-> "a", b1 |-> "b", c1 |-> "c", u1 |-> "", u2 |-> ""]
Backends == [a1 |-> "x", a2 |-> "x", a3 |-> "x", a4 |-> "x", a5 |-> "y", a6 |-> "y", a7 |-> "y",
             a8 |-> "y", b1 |-> "z", c1 |-> "t", u1 |-> "v", u2 |-> "w"]
Flat == [e \in DOMAIN Tlds |-> 9]
Uneven == [Flat EXCEPT !["b1"] = 8, !["a5"] = 6, !["u1"] = 6, !["u2"] = 10]
CapPools ==
    [endpoints : {{"a1", "a2", "a3", "a4", "a5", "a6", "a7", "a8", "b1"}, {"a1", "a2", "a5", "b1", "u1"},
                  {"a1", "a2", "b1", "c1"}, {"a1", "a5", "u1", "u2"}, {"a1", "a2"}, {"b1"}},
     score : {Flat}]
    \cup [endpoints : {{"a1", "a2", "a5", "b1", "u1"}, {"a1", "a5", "u1", "u2"}}, score : {Uneven}]

-----------------------------------------------------------------------------
\* The router, the RPC type and the QoS context of a request.
Routing == INSTANCE RequestRouting WITH
    Request <- Requests, req <- httpReq, stage <- at
routingVars == <<httpReq, at, path, body, captured, detected, response, gatewayErr, published>>

\* The endpoints a request may be sent to, while two things change.
Pool == INSTANCE EndpointPool WITH
    Endpoint <- Endpoints, Fallbacks <- {"f"}, Supplier <- SupplierOf, Domain <- DomainOf,
    Url <- UrlOf, Types <- TypesOf, RpcType <- {"json", "comet", "ws"},
    RpcFallbacks <- [comet |-> "json"], Apps <- <<"a", "b">>, Members <- Members,
    BlockedSuppliers <- {}, Banned <- {}, Insecure <- {}, SendAll <- FALSE, Tiered <- TRUE,
    LocalChecks <- {"json"}, MaxChanges <- 2, req <- selection, score <- level,
    exhausted <- overServiced
poolVars == <<level, cooling, drained, blacklist, overServiced, session, selection, changes>>

\* The QoS selection of every package over two endpoints, apart or behind one URL.
Choice == INSTANCE QosSelection WITH
    Flavours <- {"evm", "cosmos", "solana", "noop"}, Endpoint <- {"a", "b"},
    Urls <- {[a |-> "u", b |-> "u"], [a |-> "a", b |-> "b"]}, Reports <- {2, 5}, SyncAllowance <- 1,
    Epochs <- {1, 2, 3}, SupportedAPIs <- {{"REST", "COMET_BFT"}, {"COMET_BFT"}, {"WEBSOCKET"}},
    MaxSteps <- 3, answer <- choice
choiceVars == <<flavour, apis, url, perceived, perceivedEpoch, known, store, acache, marks, redis,
                urlRedis, refuted, choice, steps>>

\* The operator cap over pools of up to nine endpoints.
Cap == INSTANCE ConcentrationCap WITH
    Pools <- CapPools, Fallback <- {"u2"}, Tld <- Tlds, Backend <- Backends, FleetCaps <- {1},
    ServiceCaps <- {0, 2}, Shares <- {0, 7}, MaxParallel <- 3
capVars == <<settings, score, remaining, picked, wanted, outcome>>

\* The relays of a request of up to two payloads.
Exchange == INSTANCE RelayExchange WITH
    Payloads <- 2, BatchLimits <- {1, 2}, ObservationCap <- 2, published <- onChain
exchangeVars == <<kind, target, relay, answered, minerError, observations, broadcast, signals,
                  onChain, cached, cachedBy, nilTracked, blacklisted, exhausted>>

\* The QoS context of a request, from its body to the answer.
Context == INSTANCE QosContext WITH
    Flavours <- {"evm", "cosmos", "solana", "noop"}, Apis <- {"JSON_RPC", "COMET_BFT"},
    MaxItems <- 2, MaxAttempts <- 2, Statuses <- {0, 500}, flavour <- package, stage <- parsed
contextVars == <<package, supported, request, payloads, responses, answer, parsed>>

\* Batches of two meet a cosmos service by one of the ways of typing them.
OneTyping ==
    package = "cosmos" /\ Len(request.items) = 2 =>
        request.detected = "JSON_RPC" /\ supported # {"JSON_RPC"}

\* The parts share no state. Those that are not explored stay at zero.
routingIdle == 
    /\ httpReq = 0 /\ at = 0 /\ path = 0 /\ body = 0 /\ captured = 0
    /\ detected = 0 /\ response = 0 /\ gatewayErr = 0 /\ published = 0
poolIdle == 
    /\ level = 0 /\ cooling = 0 /\ drained = 0 /\ blacklist = 0 /\ overServiced = 0
    /\ session = 0 /\ selection = 0 /\ changes = 0
choiceIdle == 
    /\ flavour = 0 /\ apis = 0 /\ url = 0 /\ perceived = 0 /\ perceivedEpoch = 0 /\ known = 0 /\ store = 0
    /\ acache = 0 /\ marks = 0 /\ redis = 0 /\ urlRedis = 0 /\ refuted = 0
    /\ choice = 0 /\ steps = 0
capIdle == 
    /\ settings = 0 /\ score = 0 /\ remaining = 0 /\ picked = 0 /\ wanted = 0
    /\ outcome = 0
exchangeIdle == 
    /\ kind = 0 /\ target = 0 /\ relay = 0 /\ answered = 0 /\ minerError = 0
    /\ observations = 0 /\ broadcast = 0 /\ signals = 0 /\ onChain = 0
    /\ cached = 0 /\ cachedBy = 0 /\ nilTracked = 0 /\ blacklisted = 0 /\ exhausted = 0
contextIdle == 
    /\ package = 0 /\ supported = 0 /\ request = 0 /\ payloads = 0 /\ responses = 0
    /\ answer = 0 /\ parsed = 0

InSession(A) == part = "session" /\ A /\ UNCHANGED <<part, routingVars, poolVars, choiceVars,
        capVars, exchangeVars, contextVars>>
InRouting(A) == part = "routing" /\ A /\ UNCHANGED <<part, vars, poolVars, choiceVars, capVars,
        exchangeVars, contextVars>>
InPool(A) == part = "pool" /\ A /\ UNCHANGED <<part, vars, routingVars, choiceVars, capVars,
        exchangeVars, contextVars>>
InChoice(A) == part = "choice" /\ A /\ UNCHANGED <<part, vars, routingVars, poolVars, capVars,
        exchangeVars, contextVars>>
InCap(A) == part = "cap" /\ A /\ UNCHANGED <<part, vars, routingVars, poolVars, choiceVars,
        exchangeVars, contextVars>>
InExchange(A) == part = "exchange" /\ A /\ UNCHANGED <<part, vars, routingVars, poolVars,
        choiceVars, capVars, contextVars>>
InContext(A) == part = "context" /\ A /\ UNCHANGED <<part, vars, routingVars, poolVars, choiceVars,
        capVars, exchangeVars>>

MCInit ==
    /\ part \in {"session", "routing", "pool", "choice", "cap", "exchange", "context"}
    /\ Init
    /\ IF part = "routing" THEN Routing!Init ELSE routingIdle
    /\ IF part = "pool" THEN Pool!Init ELSE poolIdle
    /\ IF part = "choice" THEN Choice!Init ELSE choiceIdle
    /\ IF part = "cap" THEN Cap!Init ELSE capIdle
    /\ IF part = "exchange" THEN Exchange!Init ELSE exchangeIdle
    /\ IF part = "context" THEN Context!Init /\ OneTyping ELSE contextIdle

MCNext ==
    \/ InSession(Next)
    \/ InRouting(Routing!Next)
    \/ InPool(Pool!Next)
    \/ InChoice(Choice!Next)
    \/ InCap(Cap!Next)
    \/ InExchange(Exchange!Next)
    \/ InContext(Context!Next)

mcVars == <<part, vars, routingVars, poolVars, choiceVars, capVars, exchangeVars, contextVars>>
MCSpec == MCInit /\ [][MCNext]_mcVars

-----------------------------------------------------------------------------
\* An unambiguous request to a service that lists its type is taken for that type, whatever
\* else the service lists (DetectRPCType, ValidateRPCType), and every request that passed the
\* router is published once, with the stage that refused it (RecordRequest).
RoutedAsMeant == part = "routing" => Routing!TypedAsMeant /\ Routing!RefusalsAreAttributed

\* Detection "restore[s] body for downstream handlers": the QoS parses what the client sent
\* (inspectPayload).
BodyReachesQos == part = "routing" => Routing!BodyReachesQos

\* Between selecting an endpoint and building its relay the endpoint is refused only because the
\* pool really changed (BuildHTTPRequestContextForEndpoint); a benched endpoint can still be
\* probed, and no bench, drain or exhausted session empties the websocket pool
\* (getSessionsUniqueEndpoints).
EndpointsStayReachable ==
  [][part = "pool" =>
       /\ Pool!SelectionSurvives
       /\ selection.pc = "idle" => Pool!ProbesReachTheBenched /\ Pool!WebsocketPoolSurvives]_mcVars

\* As long as the sessions hold an endpoint that the operator permits and that is not
\* blacklisted, an HTTP request finds one (the pool-collapse guard of filterByReputation).
HttpPoolSurvives == part = "pool" => Pool!HttpPoolSurvives

\* No package picks an endpoint it knows to trail the chain while a clean one within the
\* sync allowance is available, and an endpoint in good standing is selectable (the filters and
\* least-stale fallbacks of the selectors).
StaleIsLastResort == part = "choice" => Choice!StaleIsLastResort /\ Choice!GoodStandingIsSelectable

\* The operator cap moves only the excess: weights still add up, nobody is priced out or
\* handed more than three times its share (waterFillToCap).  The picks of a parallel request
\* go to operators not used yet (SelectEndpointsWithDiversity).
OperatorsShare == [][part = "cap" => Cap!CapMovesOnlyExcess /\ Cap!ParallelPicksSpread]_mcVars

\* A supplier is not rejected on account of a key cached before it published one
\* (retryValidationWithCacheInvalidation) nor penalised for a limit that is not its fault.
SuppliersAreJudgedFairly ==
  [][part = "exchange" => Exchange!StaleKeysAreForgiven /\ Exchange!LimitsAreNoFault']_mcVars

\* A batch reaches the client item by item, with the latest answers to the ids it asked for
\* (ReconcileBatchResponses).
BatchAnswersLineUp == part = "context" => Context!BatchAnswersLineUp
=============================================================================
