---------------------------- MODULE QosSelection ----------------------------
(***************************************************************************)
(* Endpoint selection by the QoS packages of one replica: what each keeps  *)
(* about an endpoint, how an available endpoint is validated against it,   *)
(* and what is picked when every endpoint fails (the least stale one).     *)
(*                                                                         *)
(* The store is fed by the observation pipeline (UpdateFromExtractedData), *)
(* by request observations (ApplyObservations) and by a ticker that copies *)
(* the heights every replica writes to Redis; it is swept of endpoints no  *)
(* session has listed for two hours.  evm also keeps archival marks: one   *)
(* in the store, one in archivalCache, one in the reputation service.      *)
(*                                                                         *)
(* The perceived height is that of module PerceivedHeight: here a report   *)
(* above it may or may not become it.  Windows (5 and 30 minutes, the      *)
(* archival TTL) end at any moment.                                        *)
(***************************************************************************)
EXTENDS Integers, FiniteSets, FiniteSetsExt

CONSTANTS
    Flavours,        \* the QoS packages of the instance
    Endpoint,        \* supplier addresses, each with a URL
    Urls,            \* the assignments of URLs to endpoints of the instance
    Reports,         \* heights an endpoint may report, all above 0
    SyncAllowance,   \* blocks an endpoint may trail by, above 0
    Epochs,          \* epochs an endpoint of solana may report, all above 0
    SupportedAPIs,   \* the sets of RPC types a cosmos service may support
    MaxSteps         \* bound: changes of the store in a behaviour

VARIABLES
    flavour,     \* the package serving this service
    apis,        \* getSupportedAPIs (cosmos)
    url,         \* the URL of every endpoint
    perceived,   \* perceivedBlockNumber
    perceivedEpoch,  \* of solana, 0 until an epoch is observed
    known,       \* endpoints with an entry in the store
    store,       \* their entries
    acache,      \* archivalCache: "none", "valid" or "expired" (evm)
    marks,       \* endpoints the reputation service holds archival-capable
    redis,       \* per-endpoint heights shared by the replicas
    urlRedis,    \* redisURLBlockHeights: the last copy, per URL (evm)
    refuted,     \* endpoints whose latest archival health check failed
    answer,      \* the last selection
    steps

vars == <<flavour, apis, url, perceived, perceivedEpoch, known, store, acache, marks, redis,
          urlRedis, refuted, answer, steps>>
config == <<flavour, apis, url>>

Unknown == -1
Heights == {Unknown, 0} \cup Reports

\* fault: "recent" within the window of a bad response, "forever" for an empty
\* response to cosmos.  health: getHealth (solana), CometBFT health (cosmos).
\* epoch: of the last getEpochInfo, 0 without one (solana).
\* seen: lastSeen is zero, within two hours, or older.
Entry == [height : Heights, fault : {"none", "recent", "forever"},
          health : {"unknown", "ok", "bad"}, archival : BOOLEAN,
          epoch : {0} \cup Epochs, seen : {"never", "now", "old"}]
Blank == [height |-> Unknown, fault |-> "none", health |-> "unknown",
          archival |-> FALSE, epoch |-> 0, seen |-> "never"]

NoAnswer == [avail |-> {}, archival |-> FALSE, multiple |-> FALSE, picked |-> {}]

\* What one response can tell: a height, an unparseable height (0), a sync
\* check, or an archival check.
Data == [height : {0} \cup Reports, sync : {"unknown"}, archival : {"none"}]
        \cup [height : {Unknown}, sync : {"ok", "bad"}, archival : {"none"}]
        \cup [height : {Unknown}, sync : {"unknown"}, archival : {"yes", "no"}]

TypeOK ==
    /\ flavour \in Flavours
    /\ apis \in SupportedAPIs \cup {{}}
    /\ url \in Urls
    /\ perceived \in {0} \cup Reports
    /\ perceivedEpoch \in {0} \cup Epochs
    /\ known \subseteq Endpoint
    /\ store \in [Endpoint -> Entry]
    /\ acache \in [Endpoint -> {"none", "valid", "expired"}]
    /\ marks \subseteq Endpoint
    /\ redis \in [Endpoint -> Heights]
    /\ urlRedis \in [Endpoint -> Heights]
    /\ refuted \subseteq Endpoint
    /\ answer.picked \subseteq answer.avail
    /\ steps \in 0..MaxSteps

Init ==
    /\ flavour \in Flavours
    /\ apis \in IF flavour = "cosmos" THEN SupportedAPIs ELSE {{}}
    /\ url \in Urls
    /\ perceived = 0
    /\ perceivedEpoch = 0
    /\ known = {}
    /\ store = [e \in Endpoint |-> Blank]
    /\ acache = [e \in Endpoint |-> "none"]
    /\ marks = {}
    /\ redis = [e \in Endpoint |-> Unknown]
    /\ urlRedis = [e \in Endpoint |-> Unknown]
    /\ refuted = {}
    /\ answer = NoAnswer
    /\ steps = 0

(***************************************************************************)
(* Validation of an endpoint against what is known of it.                  *)
(***************************************************************************)
MinAllowedBlockNumber ==
    IF perceived > SyncAllowance THEN perceived - SyncAllowance ELSE 0

Lowest(heights) ==
    LET seen == heights \ {Unknown} IN IF seen = {} THEN Unknown ELSE Min(seen)

\* buildURLBlockHeightMap: the lowest height of any endpoint at the URL.  The
\* copy of Redis is kept per endpoint of the URL.
urlBlockHeight(u) ==
    Lowest({store[x].height : x \in {y \in known : url[y] = u}}
           \cup {urlRedis[x] : x \in {y \in Endpoint : url[y] = u}})

staleURL(e) ==
    /\ perceived > 0
    /\ urlBlockHeight(url[e]) \in 0..(MinAllowedBlockNumber - 1)

isBlockNumberValid(h) ==
    perceived > 0 => h # Unknown /\ h >= MinAllowedBlockNumber

markedArchival(e) == (e \in known /\ store[e].archival) \/ acache[e] = "valid"

evmFreshValid(e, archival) ==
    /\ archival /\ (\E x \in Endpoint : acache[x] # "none") => acache[e] = "valid"
    /\ ~staleURL(e)

evmBasicEndpointValidation(e, archival) ==
    /\ store[e].fault = "none"
    /\ isBlockNumberValid(store[e].height)
    /\ archival => markedArchival(e)

\* cosmos: the checks of every supported API.  CometBFT's want an observation of
\* the health method, and GetLatestBlockHeight refuses a missing or zero height;
\* those of REST and JSON_RPC want an observation of the SDK's status and of
\* eth_chainId.  Nothing in the repository produces one of the three.
validateBlockHeightSyncAllowance(h) == perceived > 0 => h >= MinAllowedBlockNumber

cosmosBasicEndpointValidation(e) ==
    /\ store[e].fault = "none"
    /\ "COMET_BFT" \in apis => /\ store[e].health = "ok"
                               /\ store[e].height \notin {Unknown, 0}
                               /\ validateBlockHeightSyncAllowance(store[e].height)
    /\ {"REST", "JSON_RPC"} \cap apis = {}

\* The check as it was before a missing health observation was tolerated.
HealthMustBeObserved(entry) ==
    /\ entry.fault = "none"
    /\ entry.health = "ok"
    /\ entry.height \notin {Unknown, 0}

solanaValidateBasic(entry) ==
    /\ entry.fault = "none"
    /\ entry.health # "bad"
    /\ entry.height \notin {Unknown, 0}

\* The comparison without the epoch of tolerance.
SameEpoch(e) ==
    /\ solanaValidateBasic(store[e])
    /\ store[e].epoch > 0 => store[e].epoch >= perceivedEpoch
    /\ store[e].height >= MinAllowedBlockNumber

\* The epochs are compared, with one of tolerance, when both are observed.
EpochLag(e) == store[e].epoch > 0 /\ perceivedEpoch > 0 /\ store[e].epoch + 1 < perceivedEpoch

solanaValidateEndpoint(e) ==
    /\ solanaValidateBasic(store[e])
    /\ ~EpochLag(e)
    /\ store[e].height >= MinAllowedBlockNumber

noopValid(e) ==
    \/ perceived = 0
    \/ store[e].height \in {Unknown, 0}
    \/ store[e].height >= MinAllowedBlockNumber

\* filterValidEndpoints: an endpoint without an entry is valid (evm: unless its
\* URL is stale or archival capability is asked for).
evmIsValid(e, archival) ==
    IF e \in known THEN evmBasicEndpointValidation(e, archival) ELSE evmFreshValid(e, archival)
cosmosIsValid(e) == e \in known => cosmosBasicEndpointValidation(e)
solanaIsValid(e) == e \in known => solanaValidateEndpoint(e)
noopIsValid(e)   == e \in known => noopValid(e)

IsValid(e, archival) ==
    CASE flavour = "evm"    -> evmIsValid(e, archival)
      [] flavour = "cosmos" -> cosmosIsValid(e)
      [] flavour = "solana" -> solanaIsValid(e)
      [] flavour = "noop"   -> noopIsValid(e)

(***************************************************************************)
(* Fallback when nothing is valid.  evm ranks by the URL's lowest height,  *)
(* cosmos and solana by the endpoint's own; endpoints without data last.   *)
(***************************************************************************)
filterStaleURLEndpoints(avail) ==
    LET kept == {e \in avail : ~staleURL(e)} IN IF kept = {} THEN avail ELSE kept

\* The endpoints of avail the fewest blocks behind, of those whose height is known.
ByStaleness(avail, height(_)) ==
    LET ranked == {e \in avail : height(e) # Unknown}
        behind(e) == IF height(e) >= perceived THEN 0 ELSE perceived - height(e)
    IN  IF ranked = {} THEN avail
        ELSE {e \in ranked : \A f \in ranked : behind(e) <= behind(f)}

ownHeight(e) == IF e \in known /\ store[e].height > 0 THEN store[e].height ELSE Unknown

RandomFallback(avail) == avail

evmSelectLeastStaleEndpoints(avail) ==
    IF perceived = 0 \/ \A e \in Endpoint : urlBlockHeight(url[e]) = Unknown
    THEN filterStaleURLEndpoints(avail)
    ELSE ByStaleness(avail, LAMBDA e : urlBlockHeight(url[e]))

cosmosSelectLeastStaleEndpoints(avail) ==
    IF perceived = 0 THEN avail ELSE ByStaleness(avail, ownHeight)

solanaSelectLeastStaleEndpoints(avail) ==
    IF perceived = 0 THEN avail ELSE ByStaleness(avail, ownHeight)

filterArchivalEndpointsForFallback(avail) == {e \in avail : markedArchival(e)}

(***************************************************************************)
(* The endpoints the first pick may fall on.  SelectWithMetadata (a single *)
(* endpoint) forgets the archival requirement in its fallback.             *)
(***************************************************************************)
SelectWithMetadata(avail, archival) ==
    LET valid == {e \in avail : evmIsValid(e, archival)}
    IN  IF valid # {} THEN valid ELSE evmSelectLeastStaleEndpoints(avail)

SelectMultipleWithArchival(avail, archival) ==
    LET valid    == {e \in avail : evmIsValid(e, archival)}
        archived == IF archival THEN filterArchivalEndpointsForFallback(avail) ELSE avail
    IN  CASE valid # {}    -> valid
          [] archived = {} -> {}
          [] OTHER         -> evmSelectLeastStaleEndpoints(archived)

cosmosSelect(avail) ==
    LET valid == {e \in avail : cosmosIsValid(e)}
    IN  IF valid # {} THEN valid ELSE cosmosSelectLeastStaleEndpoints(avail)

solanaSelect(avail) ==
    LET valid == {e \in avail : solanaIsValid(e)}
    IN  IF valid # {} THEN valid ELSE solanaSelectLeastStaleEndpoints(avail)

noopSelect(avail) ==
    LET valid == {e \in avail : noopIsValid(e)} IN IF valid # {} THEN valid ELSE avail

Pool(avail, archival, multiple) ==
    CASE flavour = "evm" /\ multiple -> SelectMultipleWithArchival(avail, archival)
      [] flavour = "evm"             -> SelectWithMetadata(avail, archival)
      [] flavour = "cosmos"          -> cosmosSelect(avail)
      [] flavour = "solana"          -> solanaSelect(avail)
      [] flavour = "noop"            -> noopSelect(avail)

touchEndpoints(avail) ==
    store' = [e \in Endpoint |->
                IF e \in avail \cap known THEN [store[e] EXCEPT !.seen = "now"] ELSE store[e]]

\* A selection; no pick is an error to the caller.  Only evm reads the archival
\* flag, and only then do its two entry points differ.
Select(avail, archival, multiple) ==
    /\ answer = NoAnswer
    /\ archival => flavour = "evm"
    /\ multiple => archival
    /\ LET pool == Pool(avail, archival, multiple)
       IN  \E picked \in IF pool = {} THEN {{}} ELSE {{e} : e \in pool} :
              answer' = [avail |-> avail, archival |-> archival,
                         multiple |-> multiple, picked |-> picked]
    /\ IF flavour = "noop" /\ perceived = 0 THEN UNCHANGED store ELSE touchEndpoints(avail)
    /\ UNCHANGED <<config, perceived, perceivedEpoch, known, acache, marks, redis,
                   urlRedis, refuted, steps>>

(***************************************************************************)
(* Feeding the store.                                                      *)
(***************************************************************************)
Change == steps < MaxSteps /\ steps' = steps + 1 /\ answer' = NoAnswer

\* Which data a package stores at all, and where.
HeightOf(entry, d) == IF d.height = Unknown THEN entry.height ELSE d.height

evmExtracted(entry, d) ==
    [entry EXCEPT !.height = HeightOf(entry, d),
                  !.archival = IF d.archival = "none" THEN @ ELSE d.archival = "yes"]

cosmosStores(d) == d.height # Unknown
cosmosExtracted(entry, d) == [entry EXCEPT !.height = HeightOf(entry, d)]

solanaStores(d) == d.height # Unknown \/ d.sync # "unknown"
solanaExtracted(entry, d) ==
    [entry EXCEPT !.height = HeightOf(entry, d),
                  !.health = IF d.sync = "unknown" THEN @ ELSE d.sync]

noopStores(d) == d.height > 0
noopExtracted(entry, d) == [entry EXCEPT !.height = HeightOf(entry, d)]

stores(d) ==
    \/ flavour = "evm"
    \/ flavour = "cosmos" /\ cosmosStores(d)
    \/ flavour = "solana" /\ solanaStores(d)
    \/ flavour = "noop" /\ noopStores(d)

Extracted(entry, d) ==
    CASE flavour = "evm"    -> evmExtracted(entry, d)
      [] flavour = "cosmos" -> cosmosExtracted(entry, d)
      [] flavour = "solana" -> solanaExtracted(entry, d)
      [] flavour = "noop"   -> noopExtracted(entry, d)

\* A report may raise the perceived height (evm's median may also lower it).
Perceives(h) ==
    perceived' \in IF h > perceived \/ (flavour = "evm" /\ h > 0)
                   THEN {perceived, h} ELSE {perceived}

Updated(e, d) ==
    IF stores(d)
    THEN /\ store' = [store EXCEPT ![e] = Extracted(@, d)]
         /\ known' = known \cup {e}
         /\ Perceives(d.height)
    ELSE UNCHANGED <<store, known, perceived>>

\* A confirmed archival answer also enters the cache and, by a goroutine, the
\* reputation service; a failed one touches neither.
UpdateFromExtractedData(e, d) ==
    /\ Change
    /\ Updated(e, d)
    /\ IF flavour = "evm" /\ d.archival = "yes"
       THEN /\ acache' = [acache EXCEPT ![e] = "valid"]
            /\ marks' \in {marks, marks \cup {e}}
            /\ refuted' = refuted \ {e}
       ELSE UNCHANGED <<acache, marks, refuted>>
    /\ UNCHANGED <<config, perceivedEpoch, redis, urlRedis>>

\* The update a passed archival check sends lacks ArchivalCheckPerformed: it
\* creates the entry and sets nothing.
markEndpointArchival(e) ==
    /\ flavour = "evm"
    /\ Change
    /\ marks' = marks \cup {e}
    /\ known' = known \cup {e}
    /\ refuted' = refuted \ {e}
    /\ UNCHANGED <<config, perceived, perceivedEpoch, store, acache, redis, urlRedis>>

clearEndpointArchival(e) ==
    /\ flavour = "evm"
    /\ Change
    /\ marks' = marks \ {e}
    /\ Updated(e, [height |-> Unknown, sync |-> "unknown", archival |-> "no"])
    /\ refuted' = refuted \cup {e}
    /\ UNCHANGED <<config, perceivedEpoch, acache, redis, urlRedis>>

\* ApplyObservations: a bad response to a user's request.
evmApplyObservation(fault, empty) == "recent"
cosmosApplyObservation(fault, empty) == IF empty \/ fault = "forever" THEN "forever" ELSE "recent"
solanaApplyObservation(fault, empty) == "recent"

applyObservation(e, empty) ==
    /\ flavour # "noop"
    /\ Change
    /\ store' = [store EXCEPT ![e].fault =
                    CASE flavour = "evm"    -> evmApplyObservation(@, empty)
                      [] flavour = "cosmos" -> cosmosApplyObservation(@, empty)
                      [] flavour = "solana" -> solanaApplyObservation(@, empty)]
    /\ known' = known \cup {e}
    /\ UNCHANGED <<config, perceived, perceivedEpoch, acache, marks, redis, urlRedis, refuted>>

\* A getEpochInfo observation (solana), the only source of an epoch: it replaces
\* the height too, and raises both perceived values together.
applyEpochInfo(e, epoch, h) ==
    LET entry == [store[e] EXCEPT !.height = h, !.epoch = epoch]
    IN  /\ flavour = "solana"
        /\ Change
        /\ store' = [store EXCEPT ![e] = entry]
        /\ known' = known \cup {e}
        /\ \/ UNCHANGED <<perceived, perceivedEpoch>>
           \/ /\ solanaValidateBasic(entry) /\ epoch >= perceivedEpoch /\ h > perceived
              /\ perceived' = h
              /\ perceivedEpoch' = epoch
        /\ UNCHANGED <<config, acache, marks, redis, urlRedis, refuted>>

\* A SetEndpointBlockHeight goroutine of this or another replica lands.
SetEndpointBlockHeight(e, h) ==
    /\ Change
    /\ redis' = [redis EXCEPT ![e] = h]
    /\ UNCHANGED <<config, perceived, perceivedEpoch, known, store, acache, marks, urlRedis, refuted>>

(***************************************************************************)
(* The ticker of StartBackgroundSync: heights of Redis overwrite, endpoints*)
(* missing here are created (not by solana), a missing height is filled    *)
(* from the URL; then entries older than two hours go, here and in Redis.  *)
(***************************************************************************)
urlHeights(e) == Lowest({redis[x] : x \in {y \in Endpoint : url[y] = url[e]}})

\* A height of Redis is taken over; a missing one (missing: the heights that
\* count as missing) is filled from the URL.
FromRedis(e, missing) ==
    CASE redis[e] # Unknown ->
            [store[e] EXCEPT !.height = redis[e], !.seen = IF e \in known THEN @ ELSE "now"]
      [] /\ redis[e] = Unknown /\ urlHeights(e) # Unknown
         /\ e \in known /\ store[e].height \in missing ->
            [store[e] EXCEPT !.height = urlHeights(e)]
      [] OTHER -> store[e]

evmSyncEndpointBlocks(e)    == FromRedis(e, {Unknown})
cosmosSyncEndpointBlocks(e) == FromRedis(e, {Unknown})
noopSyncEndpointBlocks(e)   == FromRedis(e, {Unknown, 0})
solanaSyncEndpointBlocks(e) ==
    IF redis[e] # Unknown /\ store[e].height # Unknown
    THEN [store[e] EXCEPT !.height = redis[e]] ELSE store[e]

syncEndpointBlocksFromRedis(e) ==
    CASE flavour = "evm"    -> evmSyncEndpointBlocks(e)
      [] flavour = "cosmos" -> cosmosSyncEndpointBlocks(e)
      [] flavour = "solana" -> solanaSyncEndpointBlocks(e)
      [] flavour = "noop"   -> noopSyncEndpointBlocks(e)

sweepStaleEndpoints(entries) == {e \in Endpoint : entries[e].seen = "old"}

BackgroundSync ==
    LET synced  == [e \in Endpoint |-> syncEndpointBlocksFromRedis(e)]
        created == IF flavour = "solana" THEN {} ELSE {e \in Endpoint : redis[e] # Unknown}
        swept   == sweepStaleEndpoints(synced)
    IN  /\ Change
        /\ store' = [e \in Endpoint |-> IF e \in swept THEN Blank ELSE synced[e]]
        /\ known' = (known \cup created) \ swept
        /\ redis' = [e \in Endpoint |-> IF e \in swept THEN Unknown ELSE redis[e]]
        /\ urlRedis' = IF flavour = "evm" /\ created # {} THEN redis ELSE urlRedis
        /\ UNCHANGED <<config, perceived, perceivedEpoch, acache, marks, refuted>>

refreshArchivalCacheFromRedis ==
    /\ flavour = "evm"
    /\ marks # {}
    /\ Change
    /\ acache' = [e \in Endpoint |-> IF e \in marks THEN "valid" ELSE acache[e]]
    /\ UNCHANGED <<config, perceived, perceivedEpoch, known, store, marks, redis, urlRedis, refuted>>

Cleanup ==
    /\ \E e \in Endpoint : acache[e] = "expired"
    /\ Change
    /\ acache' = [e \in Endpoint |-> IF acache[e] = "expired" THEN "none" ELSE acache[e]]
    /\ UNCHANGED <<config, perceived, perceivedEpoch, known, store, marks, redis, urlRedis, refuted>>

\* A window ends: of a bad response, of an archival mark, of lastSeen.
Elapse(e) ==
    /\ Change
    /\ \/ /\ store[e].fault = "recent"
          /\ store' = [store EXCEPT ![e].fault = "none"]
          /\ UNCHANGED <<acache, marks>>
       \/ /\ store[e].archival
          /\ store' = [store EXCEPT ![e].archival = FALSE]
          /\ UNCHANGED <<acache, marks>>
       \/ /\ store[e].seen = "now"
          /\ store' = [store EXCEPT ![e].seen = "old"]
          /\ UNCHANGED <<acache, marks>>
       \/ /\ acache[e] = "valid"
          /\ acache' = [acache EXCEPT ![e] = "expired"]
          /\ UNCHANGED <<store, marks>>
       \/ /\ e \in marks
          /\ marks' = marks \ {e}
          /\ UNCHANGED <<store, acache>>
    /\ UNCHANGED <<config, perceived, perceivedEpoch, known, redis, urlRedis, refuted>>

Next ==
    \/ \E avail \in SUBSET Endpoint, archival, multiple \in BOOLEAN :
          Select(avail, archival, multiple)
    \/ \E e \in Endpoint :
          \/ \E d \in Data : UpdateFromExtractedData(e, d)
          \/ markEndpointArchival(e)
          \/ clearEndpointArchival(e)
          \/ \E empty \in BOOLEAN : applyObservation(e, empty)
          \/ \E epoch \in Epochs, h \in Reports : applyEpochInfo(e, epoch, h)
          \/ \E h \in Reports : SetEndpointBlockHeight(e, h)
          \/ Elapse(e)
    \/ BackgroundSync
    \/ refreshArchivalCacheFromRedis
    \/ Cleanup

Spec == Init /\ [][Next]_vars

(***************************************************************************)
(* Properties.                                                             *)
(***************************************************************************)
Current(e) == e \in known /\ store[e].height > 0 /\ store[e].height >= MinAllowedBlockNumber

Stale(e) ==
    IF e \in known
    THEN store[e].height \in 1..(MinAllowedBlockNumber - 1)
    ELSE flavour = "evm" /\ staleURL(e)

\* Nothing this replica has stored speaks against e.
Clean(e) == store[e].fault = "none" /\ store[e].health # "bad" /\ ~EpochLag(e)

\* Through observations, copies of Redis, sweeps and rotations of suppliers over
\* the same URLs, no package picks an endpoint it knows to trail the chain (a
\* fresh evm supplier: one whose URL does) while an available endpoint with a
\* clean record (of solana: not two epochs behind either) is within the sync
\* allowance: neither the filter nor the least-stale fallback may pass that one
\* over.  A cosmos service compares heights only if it supports CometBFT or REST.
StaleIsLastResort ==
    \A p \in answer.picked :
        Stale(p) /\ ~answer.archival
        /\ (flavour = "cosmos" => apis \cap {"COMET_BFT", "REST"} # {}) =>
            ~\E e \in answer.avail : Current(e) /\ Clean(e)

\* An endpoint of evm, solana or noop whose reports are all good (a height within
\* the allowance, no recent bad response, not seen unhealthy, an epoch at most one
\* behind) is selectable: a probe that has not landed yet, an epoch nobody has
\* reported, or a rollover of the epoch is no reason to reject it.
GoodStandingIsSelectable ==
    \A e \in Endpoint :
        flavour # "cosmos" /\ perceived > 0 /\ Current(e) /\ Clean(e) => IsValid(e, FALSE)
=============================================================================
