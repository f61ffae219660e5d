------------------------ MODULE ObservationPipeline ------------------------
(***************************************************************************)
(* The observation pipeline: a response is sampled into a bounded worker   *)
(* pool (gateway/observation_queue.go), a health check is processed in     *)
(* place, the service's extractor reads the response (qos/types/extractor  *)
(* .go and the extractors of the EVM, Cosmos and Solana packages), and the *)
(* handler stores what it read with the endpoint (observation_handler.go). *)
(*                                                                         *)
(* A request is one of the methods the extractors tell apart.  A response  *)
(* is the shape they look at: whether the body is JSON, whether it is a    *)
(* JSON-RPC envelope, the class of its error and the kind of its result.   *)
(***************************************************************************)
EXTENDS Integers, Sequences

CONSTANTS
    WorkerCount,    \* goroutines of the pool
    QueueSize,      \* observations waiting beyond those
    MaxObs          \* bound: responses observed

VARIABLES
    family,         \* the service's QoS type
    registered,     \* the service is listed in the unified configuration
    pruned,         \* the endpoint keeps no historical state
    queue,          \* observations accepted and not yet picked up
    running,        \* observations the workers hold
    counting,       \* observations submitted or refused and not yet in the counters
    counters,       \* totalQueued, totalDropped, totalProcessed, totalSkipped
    synced,         \* observations processed in place by health checks
    store,          \* what the QoS instance holds about the endpoint
    seen,           \* the last observation processed and what was read from it
    phase           \* "up", "stopping" or "stopped"

envVars == <<family, registered, pruned>>
poolVars == <<queue, running, counting, counters, synced>>
vars == <<envVars, poolVars, store, seen, phase>>

-----------------------------------------------------------------------------
(***************************************************************************)
(* Requests, responses, and what a correct node answers.                   *)
(***************************************************************************)
NoResult == "absent"
Response == [body   : {"empty", "garbage", "json"},
             rpc    : BOOLEAN,
             error  : {"none", "pruned", "behind", "other", "prunedText", "otherText"},
             result : {NoResult, "null", "hex", "nothex", "zero", "number", "ok", "false", "true",
                       "object", "emptyObject", "emptyArray", "status", "epochInfo", "oldBlock"},
             height : {"none", "tip", "old"}]   \* a "height" field outside any envelope

Json(error, result) ==
    [body |-> "json", rpc |-> TRUE, error |-> error, result |-> result, height |-> "none"]
Rest(error, height) ==
    [body |-> "json", rpc |-> FALSE, error |-> error, result |-> NoResult, height |-> height]
NotJson(body) ==
    [body |-> body, rpc |-> FALSE, error |-> "none", result |-> NoResult, height |-> "none"]

EvmRequests == {"eth_blockNumber", "eth_chainId", "eth_syncing", "eth_getLogs",
                "state@latest", "state@recent", "state@number", "state@earliest", "state@hash"}
CosmosRequests == {"status", "health", "/status", "/query", "eth_getLogs"}
SolanaRequests == {"getEpochInfo", "getBlockHeight", "getHealth", "getSlot", "getBlock"}

Requests == CASE family = "evm" -> EvmRequests
              [] family = "cosmos" -> CosmosRequests
              [] family = "solana" -> SolanaRequests

\* state@number names an old block, state@recent one a few blocks back; /query
\* and getBlock ask for an old one, and their answers carry its height.
OldState == {"state@number", "state@earliest", "state@hash", "/query", "getBlock"}

\* External: what a synced node that follows its protocol answers.
HonestAnswer(req) ==
    CASE req \in OldState /\ pruned ->
             IF req = "/query" THEN Rest("prunedText", "none") ELSE Json("pruned", NoResult)
      [] req = "eth_syncing" -> Json("none", "false")
      [] req = "eth_getLogs" -> Json("none", "emptyArray")
      [] req = "status" -> Json("none", "status")
      [] req = "health" -> Json("none", "emptyObject")
      [] req = "/status" -> Rest("none", "tip")
      [] req = "/query" -> Rest("none", "old")
      [] req = "getEpochInfo" -> Json("none", "epochInfo")
      [] req \in {"getBlockHeight", "getSlot"} -> Json("none", "number")
      [] req = "getHealth" -> Json("none", "ok")
      [] req = "getBlock" -> Json("none", "oldBlock")
      [] OTHER -> Json("none", "hex")

FaultyAnswers ==
    {NotJson("empty"), Json(IF family = "solana" THEN "behind" ELSE "other", NoResult),
     Json("none", "emptyArray")}

Answers(req) == {HonestAnswer(req)} \cup FaultyAnswers

Observation == [req : EvmRequests \cup CosmosRequests \cup SolanaRequests, resp : Response]

-----------------------------------------------------------------------------
(***************************************************************************)
(* EVM.                                                                    *)
(***************************************************************************)
HasError(r) == r.error # "none"
Strings == {"hex", "nothex", "zero", "ok"}
extractStringResult(r) == ~HasError(r) /\ r.result \in Strings
responseHasNonNullResult(r) == r.result \notin {NoResult, "null"}

\* A height is read (the tip's or an old block's), is zero, is reported as unparseable, or the response has none.
evmHeightUngated(req, r) ==
    CASE extractStringResult(r) /\ r.result = "hex" -> "height"
      [] extractStringResult(r) /\ r.result = "zero" -> "zero"
      [] responseHasNonNullResult(r) -> "invalid"
      [] OTHER -> "none"

evmExtractBlockHeight(req, r) ==
    IF req # "eth_blockNumber" THEN "none" ELSE evmHeightUngated(req, r)

evmExtractChainID(req, r) == req = "eth_chainId" /\ extractStringResult(r)

evmIsSyncing(req, r) ==
    CASE req # "eth_syncing" \/ HasError(r) -> "none"
      [] r.result = "false" -> "no"
      [] r.result \in {"true", "object", "emptyObject"} -> "yes"
      [] OTHER -> "none"

stateMethods == {"state@latest", "state@recent", "state@number", "state@earliest", "state@hash"}

anyBlockIsHistorical(req) == TRUE

\* A tag other than earliest, a hash and an omitted parameter carry no depth;
\* any number does.
targetsHistoricalBlock(req) == req \in {"state@recent", "state@number", "state@earliest"}

evmIsArchival(req, r) ==
    CASE req \notin stateMethods -> "none"
      [] r.error = "pruned" -> "no"
      [] HasError(r) \/ ~responseHasNonNullResult(r) -> "none"
      [] targetsHistoricalBlock(req) -> "yes"
      [] OTHER -> "none"

evmIsValidResponse(req, r) ==
    r.body = "json" /\ r.rpc /\ r.result # NoResult /\ ~HasError(r)

-----------------------------------------------------------------------------
(***************************************************************************)
(* Cosmos.                                                                 *)
(***************************************************************************)
extractCometBFTBlockHeight(r) == ~HasError(r) /\ r.result = "status"
extractCosmosRESTBlockHeight(r) == r.height # "none"
jsonrpcEmptyResultType(r) == r.rpc /\ r.result \in {"emptyObject", "emptyArray"}

cosmosExtractBlockHeight(req, r) ==
    CASE extractCometBFTBlockHeight(r) -> "height"
      [] extractCosmosRESTBlockHeight(r) -> IF r.height = "old" THEN "old" ELSE "height"
      [] jsonrpcEmptyResultType(r) -> "invalid"
      [] OTHER -> "none"

cosmosExtractChainID(req, r) == r.result = "status"

cosmosIsSyncing(req, r) == IF ~HasError(r) /\ r.result = "status" THEN "no" ELSE "none"

\* A pruning message, as text or in an object, says no; no error at all says yes.
cosmosIsArchival(req, r) ==
    CASE r.body # "json" -> "none"
      [] r.error \in {"pruned", "prunedText"} -> "no"
      [] HasError(r) -> "none"
      [] OTHER -> "yes"

cosmosIsValidResponse(req, r) ==
    r.body = "json" /\ ~HasError(r) /\ (r.rpc => responseHasNonNullResult(r))

-----------------------------------------------------------------------------
(***************************************************************************)
(* Solana.                                                                 *)
(***************************************************************************)
\* Any result with a blockHeight counts, a getBlock's too. A bare number counts
\* only as the answer to getBlockHeight: getSlot answers one as well.
solanaExtractBlockHeight(req, r) ==
    CASE HasError(r) \/ ~responseHasNonNullResult(r) -> "none"
      [] r.result = "epochInfo" -> "height"
      [] r.result = "oldBlock" -> "old"
      [] req = "getBlockHeight" /\ r.result = "number" -> "height"
      [] OTHER -> "none"

\* Only a getVersion result carries an identifier.
solanaExtractChainID(req, r) == FALSE

solanaIsSyncing(req, r) ==
    CASE req # "getHealth" -> "none"
      [] r.error = "behind" -> "yes"
      [] HasError(r) \/ ~responseHasNonNullResult(r) -> "none"
      [] r.result = "ok" -> "no"
      [] OTHER -> "yes"

solanaIsArchival(req, r) ==
    CASE r.error = "pruned" -> "no"
      [] HasError(r) \/ ~responseHasNonNullResult(r) -> "none"
      [] OTHER -> "yes"

solanaIsValidResponse(req, r) ==
    r.body = "json" /\ r.rpc /\ ~HasError(r) /\ responseHasNonNullResult(r)

-----------------------------------------------------------------------------
(***************************************************************************)
(* The registry and ExtractAll.                                            *)
(***************************************************************************)
\* NoOpDataExtractor: nothing is read, and any body at all is valid.
NoOpData(r) == [height |-> "none", chain |-> FALSE, sync |-> "none", archival |-> "none",
                valid |-> r.body # "empty"]

\* One extractor per listed service, by the type of its QoS.
buildExtractorRegistry == IF registered THEN {family} ELSE {}

\* A service without an extractor falls back to the NoOp one.
Get == IF family \in buildExtractorRegistry THEN family ELSE "noop"

ExtractAll(o) ==
    CASE Get = "noop" -> NoOpData(o.resp)
      [] Get = "evm" ->
           [height |-> evmExtractBlockHeight(o.req, o.resp), chain |-> evmExtractChainID(o.req, o.resp),
            sync |-> evmIsSyncing(o.req, o.resp), archival |-> evmIsArchival(o.req, o.resp),
            valid |-> evmIsValidResponse(o.req, o.resp)]
      [] Get = "cosmos" ->
           [height |-> cosmosExtractBlockHeight(o.req, o.resp), chain |-> cosmosExtractChainID(o.req, o.resp),
            sync |-> cosmosIsSyncing(o.req, o.resp), archival |-> cosmosIsArchival(o.req, o.resp),
            valid |-> cosmosIsValidResponse(o.req, o.resp)]
      [] Get = "solana" ->
           [height |-> solanaExtractBlockHeight(o.req, o.resp), chain |-> solanaExtractChainID(o.req, o.resp),
            sync |-> solanaIsSyncing(o.req, o.resp), archival |-> solanaIsArchival(o.req, o.resp),
            valid |-> solanaIsValidResponse(o.req, o.resp)]

\* What UpdateFromExtractedData stores: a height above zero, or the zero that
\* excludes the endpoint when the extractor called the answer unparseable.
StoredHeight(d, old) ==
    CASE d.height = "height" -> "known"
      [] d.height = "old" -> "behind"
      [] d.height = "invalid" -> "zero"
      [] OTHER -> old

\* Only the EVM store keeps archival status, only the Solana store health.
evmStored(d) ==
    [store EXCEPT !.height = StoredHeight(d, @),
                  !.archival = IF d.archival # "none" THEN d.archival ELSE @]
cosmosStored(d) == [store EXCEPT !.height = StoredHeight(d, @)]
solanaStored(d) ==
    [store EXCEPT !.height = StoredHeight(d, @),
                  !.syncing = IF d.sync # "none" THEN d.sync ELSE @]

UpdateFromExtractedData(d) ==
    CASE family = "evm" -> evmStored(d)
      [] family = "cosmos" -> cosmosStored(d)
      [] family = "solana" -> solanaStored(d)

Unobserved == [height |-> "unknown", archival |-> "none", syncing |-> "none"]
Nothing == [req |-> "none", honest |-> FALSE, data |-> NoOpData(NotJson("empty"))]

\* HandleExtractedData updates the QoS instance and logs what was read.
HandleExtractedData(o) ==
    /\ store' = UpdateFromExtractedData(ExtractAll(o))
    /\ seen' = [req |-> o.req, honest |-> o.resp = HonestAnswer(o.req), data |-> ExtractAll(o)]

processObservation(o) == HandleExtractedData(o)

-----------------------------------------------------------------------------
Init ==
    /\ family \in {"evm", "cosmos", "solana"}
    /\ registered \in BOOLEAN /\ pruned \in BOOLEAN
    /\ queue = <<>> /\ running = <<>> /\ synced = 0
    /\ counting = [queued |-> 0, dropped |-> 0]
    /\ counters = [queued |-> 0, dropped |-> 0, processed |-> 0, skipped |-> 0]
    /\ store = Unobserved /\ seen = Nothing
    /\ phase = "up"

Offered == counters.queued + counters.dropped + counters.skipped + synced
             + counting.queued + counting.dropped

\* External (the pool): TrySubmit takes a task while it runs and has room.
TrySubmit == phase = "up" /\ Len(queue) + Len(running) < WorkerCount + QueueSize

\* Non-blocking: sampled out, queued, or dropped.
TryQueue(o) ==
    /\ Offered < MaxObs /\ phase # "stopped"
    /\ \/ /\ counters' = [counters EXCEPT !.skipped = @ + 1]
          /\ UNCHANGED <<queue, counting>>
       \/ /\ TrySubmit
          /\ queue' = Append(queue, o)
          /\ counting' = [counting EXCEPT !.queued = @ + 1]
          /\ UNCHANGED counters
       \/ /\ ~TrySubmit
          /\ counting' = [counting EXCEPT !.dropped = @ + 1]
          /\ UNCHANGED <<queue, counters>>
    /\ UNCHANGED <<envVars, running, synced, store, seen, phase>>

\* The caller counts what became of it under q.mu, maybe after a worker is done.
CountSubmission ==
    /\ \E c \in {"queued", "dropped"} :
          /\ counting[c] > 0
          /\ counting' = [counting EXCEPT ![c] = @ - 1]
          /\ counters' = [counters EXCEPT ![c] = @ + 1]
    /\ UNCHANGED <<envVars, queue, running, synced, store, seen, phase>>

\* In the caller's goroutine: no queue in between.
ProcessSync(o) ==
    /\ Offered < MaxObs /\ phase = "up"
    /\ synced' = synced + 1
    /\ processObservation(o)
    /\ counters' = [counters EXCEPT !.processed = @ + 1]
    /\ UNCHANGED <<envVars, queue, running, counting, phase>>

\* After a response to a user, and after one to a health check.
tryQueueObservation(req, r) == TryQueue([req |-> req, resp |-> r])
processObservationSync(req, r) == ProcessSync([req |-> req, resp |-> r])

\* External (the pool): a free worker takes the oldest task.
TakeTask ==
    /\ queue # <<>> /\ Len(running) < WorkerCount
    /\ running' = Append(running, Head(queue)) /\ queue' = Tail(queue)
    /\ UNCHANGED <<envVars, counting, counters, synced, store, seen, phase>>

\* A worker finishes; with several of them, not in the order they started.
FinishTask ==
    /\ \E i \in DOMAIN running :
          /\ processObservation(running[i])
          /\ running' = SubSeq(running, 1, i - 1) \o SubSeq(running, i + 1, Len(running))
    /\ counters' = [counters EXCEPT !.processed = @ + 1]
    /\ UNCHANGED <<envVars, queue, counting, synced, phase>>

\* Stop closes the pool; the server behind it still serves requests.
Stop ==
    /\ phase = "up" /\ phase' = "stopping"
    /\ UNCHANGED <<envVars, poolVars, store, seen>>

StopReturnsAtOnce ==
    /\ phase = "stopping" /\ phase' = "stopped"
    /\ UNCHANGED <<envVars, poolVars, store, seen>>

\* StopAndWait returns once nothing is queued or running.
StopAndWait ==
    /\ phase = "stopping" /\ phase' = "stopped"
    /\ queue = <<>> /\ running = <<>>
    /\ UNCHANGED <<envVars, poolVars, store, seen>>

Next ==
    \/ \E req \in EvmRequests \cup CosmosRequests \cup SolanaRequests :
          /\ req \in Requests
          /\ \E r \in Answers(req) : tryQueueObservation(req, r) \/ processObservationSync(req, r)
    \/ CountSubmission \/ TakeTask \/ FinishTask
    \/ Stop \/ StopAndWait

Spec == Init /\ [][Next]_vars

-----------------------------------------------------------------------------
TypeOK ==
    /\ family \in {"evm", "cosmos", "solana"} /\ {registered, pruned} \subseteq BOOLEAN
    /\ queue \in Seq(Observation) /\ running \in Seq(Observation)
    /\ Len(queue) <= QueueSize + WorkerCount /\ Len(running) <= WorkerCount
    /\ store \in [height : {"unknown", "zero", "behind", "known"}, archival : {"none", "yes", "no"},
                  syncing : {"none", "yes", "no"}]
    /\ phase \in {"up", "stopping", "stopped"}

\* An endpoint that answers every request the way its protocol says is never stored
\* with the height zero that excludes it, nor as syncing, nor as behind unless the
\* answer is itself about an old block: EVM and Solana extractors gate on the
\* method, because other methods answer in shapes that look broken or behind ([] for
\* eth_getLogs, a bare number for getBlockHeight). A blockHeight in a Solana result
\* and a height in a REST answer are read whatever was asked.
HonestStaysEligible ==
    seen.honest =>
        /\ seen.data.height = "old" => seen.req \in {"getBlock", "/query"}
        /\ family # "cosmos" => seen.data.height \notin {"invalid", "zero"}
        /\ family = "solana" => seen.data.sync # "yes"

\* The same for Cosmos: the rule that an empty result is garbage should not catch
\* "valid CometBFT responses" (cosmos/extractor.go), and `health` answers {}.
CosmosHonestStaysEligible == (seen.honest /\ family = "cosmos") => seen.data.height # "invalid"

\* A node without historical state is not promoted to archival by serving current
\* state under a tag, and an honest refusal demotes it. A numbered block counts,
\* however recent (evm targetsHistoricalBlock: "a numeric parameter near the tip still
\* reads as archival"), until the next refusal.
CurrentStateProvesNothing ==
    (seen.honest /\ family = "evm" /\ pruned /\ registered) =>
        /\ seen.data.archival = "yes" => seen.req = "state@recent"
        /\ seen.req \in OldState => store.archival = "no"

\* Stop waits: once it has returned, every observation the pool accepted has been
\* processed, also the ones whose callers have yet to count them.
AcceptedAreProcessed ==
    phase = "stopped" => counters.processed = counters.queued + counting.queued + synced
=============================================================================
