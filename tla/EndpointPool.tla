---------------------------- MODULE EndpointPool ----------------------------
(***************************************************************************)
(* Which endpoints the Shannon protocol hands out for a request            *)
(* (protocol/shannon/protocol.go, reputation.go, endpoint_filters.go,      *)
(* endpoint_policy.go, domain_blocklist.go, supplier_blacklist.go,         *)
(* session_exhaustion.go, reputation/selector.go).                         *)
(*                                                                         *)
(* A request asks twice: AvailableHTTPEndpoints lists the pool the QoS     *)
(* selects from, and BuildHTTPRequestContextForEndpoint asks for the same  *)
(* pool again with the selected endpoint named.  Reputation signals,       *)
(* drains, blacklistings, exhausted sessions and session rollovers land    *)
(* between the two.  The filters are sets computed from the current state; *)
(* a score is a level 0..4 (see MinThreshold, Tier2, Tier1), and an endpoint with   *)
(* no stored score has the initial one, which is in the first tier.        *)
(***************************************************************************)
EXTENDS Naturals, FiniteSets, FiniteSetsExt, Sequences, SequencesExt

CONSTANTS
    Endpoint,          \* addresses of the endpoints of all sessions
    Fallbacks,         \* addresses of the configured fallback endpoints
    Supplier, Domain,  \* [Endpoint -> ...]; Domain is defined on Fallbacks too
    Url,               \* [Endpoint -> ...]: what the reputation key keeps of the address
    Types,             \* [Endpoint -> SUBSET RpcType]: the types it has a URL for
    RpcType,           \* json, comet, ws
    RpcFallbacks,      \* partial function of RpcType: rpc_type_fallbacks
    Apps,              \* sequence: the owned apps of the service
    Members,           \* [app -> <<SUBSET Endpoint, ...>>]: its sessions in order
    BlockedSuppliers,  \* blocked_suppliers of the service
    Banned,            \* blocked_domains: <<domain, type>> or <<domain, "all">>
    Insecure,          \* endpoints that fail the endpoint policy
    SendAll,           \* send_all_traffic of the fallback configuration
    Tiered,            \* tiered selection enabled
    LocalChecks,       \* types of the service's enabled local health checks
    MaxChanges         \* bound: changes of the environment

MinThreshold == 2  \* MinThreshold: levels 0 and 1 are below it
Tier2 == 3
Tier1 == 4
InitialScore == 4
None == "none"
Suppliers == {Supplier[e] : e \in Endpoint}
Domains == {Domain[e] : e \in Endpoint}
Keys == {Url[e] : e \in Endpoint} \X RpcType
AppSet == Range(Apps)

VARIABLES
    score,      \* [Keys -> 0..4]
    cooling,    \* keys in cooldown
    drained,    \* <<domain, type>> benched by an admin drain
    blacklist,  \* suppliers blacklisted for a validation error
    exhausted,  \* <<app, session, supplier>> flagged as over-serviced
    session,    \* [app -> index of its active session]
    req,        \* the request: pc, type, allowed suppliers, selected endpoint
    changes

env == <<score, cooling, drained, blacklist, exhausted, session>>
vars == <<score, cooling, drained, blacklist, exhausted, session, req, changes>>

Idle == [pc |-> "idle", type |-> "json", allowed |-> {}, sel |-> None]

Init ==
    /\ score = [k \in Keys |-> InitialScore]
    /\ cooling = {} /\ drained = {} /\ blacklist = {} /\ exhausted = {}
    /\ session = [a \in AppSet |-> 1]
    /\ req = Idle
    /\ changes = 0

-----------------------------------------------------------------------------
(* Filters.                                                                *)

Key(e, t) == <<Url[e], t>>
getOrCreateSessionEndpoints(a) == Members[a][session[a]]

IsBlocked(e, t) == <<Domain[e], t>> \in Banned \/ <<Domain[e], "all">> \in Banned

\* The endpoints of a session that support type t, always keeping the
\* requested one, else those of the configured fallback type.
NativeEndpoints(S, t, requested) == {e \in S : t \in Types[e] \/ e = requested}
getRPCTypeFallback(S, t) ==
    IF t \in DOMAIN RpcFallbacks THEN {e \in S : RpcFallbacks[t] \in Types[e]} ELSE {}

isSupplierConfigBlocked(s) == s \in BlockedSuppliers
IsBlacklisted(s) == s \in blacklist
IsExhausted(a, s) == <<a, session[a], s>> \in exhausted

removeBlockedSuppliers(S) == {e \in S : ~isSupplierConfigBlocked(Supplier[e])}
removeBlockedDomains(S, t) == {e \in S : ~IsBlocked(e, t)}

\* Mutant: the blacklist is applied to every lookup, probes included.
PolicyDropsBlacklisted(S) == {e \in S \ Insecure : ~IsBlacklisted(Supplier[e])}
filterByEndpointPolicy(S) == S \ Insecure
retainAllowedSuppliers(S, allowed, requested) ==
    IF allowed = {} THEN S ELSE {e \in S : Supplier[e] \in allowed \/ e = requested}
removeBlacklistedSuppliers(S, requested) ==
    {e \in S : ~IsBlacklisted(Supplier[e]) \/ e = requested}

\* Mutant: the last suppliers of a session are dropped too.
ExhaustedAreDropped(S, a, requested) ==
    {e \in S : ~IsExhausted(a, Supplier[e]) \/ e = requested}

filterExhaustedSuppliers(S, a, requested) ==
    LET spent == {e \in S : IsExhausted(a, Supplier[e]) /\ e # requested}
    IN  IF spent = S THEN S ELSE S \ spent

\* Endpoints benched by an admin drain, the requested one included, unless
\* that would leave none.
withoutDrained(S, t) ==
    LET kept == {e \in S : <<Domain[e], t>> \notin drained}
    IN  IF kept = {} THEN S ELSE kept

\* A websocket endpoint needs its json_rpc reputation too.
Fit(k) == k \notin cooling /\ score[k] >= MinThreshold
passesHTTPScoreFloor(e, t) == t = "ws" => Fit(Key(e, "json"))

\* The pool-collapse guard: the endpoints at the best score.
leastBad(S, t) ==
    LET best == Max({score[Key(e, t)] : e \in S})
    IN  {e \in S : score[Key(e, t)] = best}

\* Floor, cooldown and threshold spare the requested endpoint.
filterByReputation(S, t, requested) ==
    LET cached == withoutDrained(S, t)
        filtered == {e \in cached : e = requested \/ (passesHTTPScoreFloor(e, t) /\ Fit(Key(e, t)))}
    IN  IF filtered # {} \/ cached = {} THEN filtered ELSE leastBad(cached, t)

\* Mutant: the requested endpoint is held to the highest tier too.
TierOnly(S, t, requested, toProbation) ==
    LET Above(n) == {e \in S : score[Key(e, t)] >= n}
    IN  IF Above(Tier1) # {} THEN Above(Tier1)
        ELSE IF Above(Tier2) # {} THEN Above(Tier2) ELSE Above(MinThreshold)

TierForScore(v) == IF v >= Tier1 THEN 1 ELSE IF v >= Tier2 THEN 2 ELSE IF v >= MinThreshold THEN 3 ELSE 0
GroupByTier(S, t, n) == {e \in S : TierForScore(score[Key(e, t)]) = n}

\* Empty when every score is below the minimum.
highestTier(S, t) ==
    LET tiers == {n \in 1..3 : GroupByTier(S, t, n) # {}}
    IN  IF tiers = {} THEN {} ELSE GroupByTier(S, t, Min(tiers))

\* A share of the requests may also go to the endpoints in probation.
routedToProbation(S, t, toProbation) == IF toProbation THEN GroupByTier(S, t, 3) ELSE {}

\* The requested endpoint is kept at any tier.
filterToHighestTier(S, t, requested, toProbation) ==
    IF highestTier(S, t) = {} THEN {}
    ELSE highestTier(S, t) \cup routedToProbation(S, t, toProbation)
         \cup {e \in S \cap {requested} : TierForScore(score[Key(e, t)]) > 0}

shouldApplyTieredSelection(q) == q.byRep /\ q.allowed = {} /\ q.type # "ws" /\ Tiered

-----------------------------------------------------------------------------
(* A lookup q: type, allowed suppliers, requested endpoint, and byRep      *)
(* (false for a health check).  The type that a fallback switches to is    *)
(* carried from one session to the next, as the code's actualRPCType is.   *)

\* The type in use, and the endpoints that have a URL for it.
actualRPCType(acc, S, q) ==
    IF NativeEndpoints(S, q.type, q.requested) = {} /\ getRPCTypeFallback(S, q.type) # {}
    THEN RpcFallbacks[q.type] ELSE acc.type
filteredEndpoints(S, q) ==
    LET native == NativeEndpoints(S, q.type, q.requested)
    IN  IF native # {} THEN native ELSE getRPCTypeFallback(S, q.type)

\* What the operator's configuration and the request's header permit.
permittedEndpoints(S, q, actual) ==
    retainAllowedSuppliers(
        filterByEndpointPolicy(removeBlockedDomains(removeBlockedSuppliers(S), actual)),
        q.allowed, q.requested)

usableEndpoints(S, a, q) ==
    IF q.byRep
    THEN filterExhaustedSuppliers(removeBlacklistedSuppliers(S, q.requested), a, q.requested)
    ELSE S

\* Reputation is last; it never empties the websocket pool of a session.
qualifiedEndpoints(S, q) ==
    LET reputable == filterByReputation(S, q.type, q.requested)
    IN  IF ~q.byRep \/ q.allowed # {} \/ (reputable = {} /\ q.type = "ws") THEN S ELSE reputable

\* One session's contribution to the pool.
SessionEndpoints(acc, a, q) ==
    LET S == getOrCreateSessionEndpoints(a)
        actual == actualRPCType(acc, S, q)
        permitted == permittedEndpoints(filteredEndpoints(S, q), q, actual)
    IN  [pool |-> acc.pool \cup qualifiedEndpoints(usableEndpoints(permitted, a, q), q),
         type |-> actual]

getSessionsUniqueEndpoints(q, toProbation) ==
    LET all == FoldLeft(LAMBDA acc, a : SessionEndpoints(acc, a, q),
                        [pool |-> {}, type |-> q.type], Apps)
    IN  IF all.pool # {} /\ shouldApplyTieredSelection(q)
        THEN [all EXCEPT !.pool = filterToHighestTier(@, q.type, q.requested, toProbation)]
        ELSE all

getServiceFallbackEndpoints(t) == removeBlockedDomains(Fallbacks, t)

getUniqueEndpoints(q, toProbation) ==
    LET fallback == [pool |-> getServiceFallbackEndpoints(q.type), type |-> q.type]
        found == getSessionsUniqueEndpoints(q, toProbation)
    IN  IF SendAll /\ fallback.pool # {} THEN fallback
        ELSE IF found.pool # {} THEN found ELSE fallback

Lookup(t, allowed, requested, byRep) ==
    [type |-> t, allowed |-> allowed, requested |-> requested, byRep |-> byRep]

\* The endpoints of the sessions still valid (live), and the fallbacks, that
\* some configured check may probe; reputation does not enter.
getHealthCheckRPCTypes == IF LocalChecks = {} THEN {"json"} ELSE LocalChecks
healthCheckTypeSupport(e, t) == (e \in Endpoint => t \in Types[e]) /\ ~IsBlocked(e, t)
GetEndpointsForHealthCheck(live) ==
    {e \in Fallbacks \cup UNION {getOrCreateSessionEndpoints(a) : a \in live} :
        \E t \in getHealthCheckRPCTypes : healthCheckTypeSupport(e, t)}

-----------------------------------------------------------------------------
(* Requests.                                                               *)

\* The Target-Suppliers header: absent, or one supplier.
parseAllowedSuppliersHeader == {{}} \cup {{s} : s \in Suppliers}

\* The pool, and the gateway's choice of one endpoint of it.
Available(t, allowed) == \E toProbation \in BOOLEAN :
    LET pool == getUniqueEndpoints(Lookup(t, allowed, None, TRUE), toProbation).pool
    IN  /\ req.pc = "idle"
        /\ \/ pool = {} /\ req' = [Idle EXCEPT !.pc = "nothing", !.type = t]
           \/ \E e \in pool : req' = [pc |-> "selected", type |-> t, allowed |-> allowed, sel |-> e]
        /\ UNCHANGED <<env, changes>>
AvailableHTTPEndpoints(t, allowed) == t # "ws" /\ Available(t, allowed)
AvailableWebsocketEndpoints(allowed) == Available("ws", allowed)

\* The selected endpoint is looked up again, now exempt from most filters.
Build(types) == \E toProbation \in BOOLEAN :
    LET pool == getUniqueEndpoints(Lookup(req.type, req.allowed, req.sel, TRUE), toProbation).pool
    IN  /\ req.pc = "selected" /\ req.type \in types
        /\ req' = [req EXCEPT !.pc = IF req.sel \in pool THEN "built" ELSE "refused"]
        /\ UNCHANGED <<env, changes>>
BuildHTTPRequestContextForEndpoint == Build(RpcType \ {"ws"})
getPreSelectedEndpoint == Build({"ws"})

Done == req.pc \in {"nothing", "built", "refused"} /\ req' = Idle /\ UNCHANGED <<env, changes>>

-----------------------------------------------------------------------------
(* What happens between the lookups.                                       *)

Change(A) == changes < MaxChanges /\ changes' = changes + 1 /\ A /\ UNCHANGED req

\* The outcome of RecordSignal and of an admin drain, modelled in
\* ReputationScore and ReputationDrains: here any value may appear.
Signal(k, v) == Change(/\ score[k] # v /\ score' = [score EXCEPT ![k] = v]
                       /\ UNCHANGED <<cooling, drained, blacklist, exhausted, session>>)
Cool(k) == Change(/\ k \notin cooling /\ cooling' = cooling \cup {k}
                  /\ UNCHANGED <<score, drained, blacklist, exhausted, session>>)
Drain(d, t) == Change(/\ <<d, t>> \notin drained /\ drained' = drained \cup {<<d, t>>}
                      /\ UNCHANGED <<score, cooling, blacklist, exhausted, session>>)

Blacklist(s) == Change(/\ s \notin blacklist /\ blacklist' = blacklist \cup {s}
                       /\ UNCHANGED <<score, cooling, drained, exhausted, session>>)

\* A passed check un-blacklists the supplier; so does the entry's expiry.
Cleanup(s) == Change(/\ IsBlacklisted(s) /\ blacklist' = blacklist \ {s}
                     /\ UNCHANGED <<score, cooling, drained, exhausted, session>>)
UnblacklistSupplier(e) ==
    Change(/\ IsBlacklisted(Supplier[e])
           /\ e \in GetEndpointsForHealthCheck(AppSet)
           /\ e \in getUniqueEndpoints(Lookup("json", {}, e, FALSE), FALSE).pool
           /\ blacklist' = blacklist \ {Supplier[e]}
           /\ UNCHANGED <<score, cooling, drained, exhausted, session>>)

\* sessionExhaustionTracker.Mark after an over-servicing rejection.
Mark(a, e) == Change(/\ e \in getOrCreateSessionEndpoints(a)
                     /\ ~IsExhausted(a, Supplier[e])
                     /\ exhausted' = exhausted \cup {<<a, session[a], Supplier[e]>>}
                     /\ UNCHANGED <<score, cooling, drained, blacklist, session>>)

\* A mark outlives its TTL.
reap(x) == Change(/\ x \in exhausted /\ exhausted' = exhausted \ {x}
                  /\ UNCHANGED <<score, cooling, drained, blacklist, session>>)

Rollover(a) == Change(/\ session[a] < Len(Members[a])
                      /\ session' = [session EXCEPT ![a] = @ + 1]
                      /\ UNCHANGED <<score, cooling, drained, blacklist, exhausted>>)

Next ==
    \/ \E t \in RpcType, allowed \in parseAllowedSuppliersHeader : AvailableHTTPEndpoints(t, allowed)
    \/ \E allowed \in parseAllowedSuppliersHeader : AvailableWebsocketEndpoints(allowed)
    \/ BuildHTTPRequestContextForEndpoint \/ getPreSelectedEndpoint
    \/ Done
    \/ \E k \in Keys, v \in {0, 1, MinThreshold, Tier2} : Signal(k, v)
    \/ \E k \in Keys : Cool(k)
    \/ \E d \in Domains, t \in RpcType : Drain(d, t)
    \/ \E s \in Suppliers : Blacklist(s) \/ Cleanup(s)
    \/ \E e \in Endpoint : UnblacklistSupplier(e)
    \/ \E a \in AppSet, e \in Endpoint : Mark(a, e)
    \/ \E a \in AppSet, n \in 1..2, s \in Suppliers : reap(<<a, n, s>>)
    \/ \E a \in AppSet : Rollover(a)

Spec == Init /\ [][Next]_vars

-----------------------------------------------------------------------------
TypeOK ==
    /\ score \in [Keys -> 0..4] /\ cooling \subseteq Keys
    /\ drained \subseteq (Domains \X RpcType) /\ blacklist \subseteq Suppliers
    /\ session \in [AppSet -> Nat]
    /\ req.pc \in {"idle", "nothing", "selected", "built", "refused"}
    /\ changes \in 0..MaxChanges

Current == UNION {getOrCreateSessionEndpoints(a) : a \in AppSet}

\* An endpoint that was offered and selected is refused by
\* BuildHTTPRequestContextForEndpoint only for a reason that leaves no
\* choice: its session rolled over, an admin drained its domain, its score
\* fell below the minimum, or it is a fallback endpoint and the session pool
\* came back.  Cooldown, a blacklisting, an exhausted session or a better
\* tier appearing in between never take it away (the requested-endpoint
\* exemptions of getSessionsUniqueEndpoints and filterToHighestTier).
SelectionSurvives ==
    req.pc = "selected" /\ req'.pc = "refused" =>
        \/ req.sel \in Fallbacks
        \/ req.sel \notin Current
        \/ <<Domain[req.sel], req.type>> \in drained
        \/ score[Key(req.sel, req.type)] < MinThreshold

\* Every endpoint a check may probe can also be reached by the check: a
\* lookup without the reputation filter keeps blacklisted, cooled,
\* exhausted, drained and low-scored endpoints, which have no other way to
\* recover (the filterByReputation=false path).
ProbesReachTheBenched ==
    \A e \in GetEndpointsForHealthCheck(AppSet) \ Fallbacks :
        (e \notin Insecure /\ ~isSupplierConfigBlocked(Supplier[e])) =>
            e \in getSessionsUniqueEndpoints(Lookup("json", {}, e, FALSE), FALSE).pool

\* As long as the sessions hold an endpoint for the type that the operator
\* permits and that is not blacklisted, the pool is not empty.
PoolSurvives(t) ==
    (\E e \in Current : /\ t \in Types[e] /\ ~IsBlocked(e, t) /\ e \notin Insecure
                        /\ Supplier[e] \notin BlockedSuppliers \cup blacklist)
        => getSessionsUniqueEndpoints(Lookup(t, {}, None, TRUE), FALSE).pool # {}

\* Reputation, drains and exhausted sessions never empty the websocket pool
\* (the safety nets of filterByReputation and filterExhaustedSuppliers).
WebsocketPoolSurvives == PoolSurvives("ws")

\* The same for HTTP, as the pool-collapse guard of filterByReputation
\* promises.
HttpPoolSurvives == PoolSurvives("json")
=============================================================================
