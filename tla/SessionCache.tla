--------------------------- MODULE SessionCache ---------------------------
(***************************************************************************)
(* Which session a request is bound to: the caching full node             *)
(* (protocol/shannon/fullnode_cache.go) over the lazy one                  *)
(* (fullnode_lazy.go), the rollover window (fullnode_session_rollover.go), *)
(* the two gateway modes that choose the sessions of a request             *)
(* (gateway_mode.go, mode_centralized.go, mode_delegated.go, session.go).  *)
(*                                                                         *)
(* A session is named by its first block.  The block height, the shared    *)
(* parameters and the sessions sit in three caches that expire and refresh *)
(* independently of each other, so a request decides from values of        *)
(* different ages.                                                         *)
(***************************************************************************)
EXTENDS Integers, FiniteSets

CONSTANTS
    BlocksPerSession,   \* shared parameter NumBlocksPerSession
    Grace,              \* shared parameter GracePeriodEndOffsetBlocks
    ScaledGrace,        \* int(Grace * gracePeriodScaleDownFactor)
    RolloverBlocks,     \* sessionRolloverBlocks
    Lag,                \* blocks produced within the TTL of the height cache
    MonitorLag,         \* bound on how late the block monitor reports a height
    FirstHeight,        \* the height of the chain when the gateway starts
    MaxHeight           \* bound on the chain's height

\* The grace period is shorter than a session, and scaling it down leaves room
\* for the blocks a cached height may be behind.
ASSUME SessionAssumption ==
    /\ BlocksPerSession \in Nat \ {0} /\ MaxHeight \in Nat \ {0}
    /\ FirstHeight \in 1 .. MaxHeight
    /\ Grace \in Nat /\ ScaledGrace \in Nat /\ Lag \in Nat
    /\ Grace < BlocksPerSession
    /\ ScaledGrace + Lag <= Grace

VARIABLES
    height,     \* the chain's latest block
    hcache,     \* blockHeightCache: 0 when there is no entry
    params,     \* sharedParamsCache holds the parameters
    scache,     \* sessionCache: [key height -> session], 0 when absent
    roll,       \* sessionRolloverState
    req         \* the request being served

vars == <<height, hcache, params, scache, roll, req>>

Heights == 1 .. MaxHeight
StartOf(h) == h - ((h - 1) % BlocksPerSession)
EndOf(s) == s + BlocksPerSession - 1
Sessions == {StartOf(h) : h \in Heights}

Idle == [pc |-> "idle", mode |-> "centralized", force |-> FALSE, inRollover |-> FALSE,
         began |-> 0, cur |-> 0, served |-> {}]

TypeOK ==
    /\ height \in Heights /\ hcache \in 0 .. MaxHeight /\ params \in BOOLEAN
    /\ scache \in [Heights -> Sessions \union {0}]
    /\ roll \in [known: 0 .. MaxHeight, start: Nat, end: Nat, in: BOOLEAN]
    /\ req.pc \in {"idle", "current", "fallback", "check", "again", "extended", "done"}
    /\ req.cur \in Sessions \union {0} /\ req.served \subseteq Sessions

Init ==
    /\ height = FirstHeight /\ hcache = 0 /\ params = FALSE
    /\ scache = [h \in Heights |-> 0]
    /\ roll = [known |-> 0, start |-> 0, end |-> 0, in |-> FALSE]
    /\ req = Idle

-----------------------------------------------------------------------------
(* The rollover window. *)

calculateRolloverStatus(r) ==
    /\ r.known # 0 /\ r.start # 0 /\ r.end # 0
    /\ r.known \in r.start .. r.end

WithStatus(r) == [r EXCEPT !.in = calculateRolloverStatus(r)]

\* A height from the block monitor, possibly late: only a newer one counts.
updateWithBlockHeight(h) ==
    /\ h > roll.known
    /\ roll' = WithStatus([roll EXCEPT !.known = h])
    /\ UNCHANGED <<height, hcache, params, scache, req>>

\* The window of a session fetched from the full node replaces a window that
\* has passed, never one that is still ahead.
updateSessionRolloverBoundaries(r, s) ==
    WithStatus(IF r.end = 0 \/ r.known > r.end
               THEN [r EXCEPT !.start = EndOf(s) - 1, !.end = EndOf(s) + RolloverBlocks]
               ELSE r)

-----------------------------------------------------------------------------
(* The lazy full node asks the chain; "fail" is the set of queries that fail. *)

GetCurrentBlockHeight(fail) ==
    IF hcache # 0 THEN hcache ELSE IF "height" \in fail THEN 0 ELSE height

GetSharedParams(fail) == params \/ "params" \notin fail

\* LazyFullNode.GetSessionWithExtendedValidity: the previous session while the
\* chain is within the on-chain grace period, else the current one.
LazyExtended(fail) ==
    LET cur == StartOf(height)
        prevEnd == cur - 1
    IN  IF /\ {"params", "height", "previous"} \intersect fail = {}
           /\ prevEnd >= 1 /\ height <= prevEnd + Grace
        THEN StartOf(prevEnd) ELSE cur

getSessionStartHeight(h, haveParams) == IF haveParams THEN StartOf(h) ELSE h

\* Mutant: a key without the height.
KeyWithoutHeight(h) == 1

\* The cache key of the session of height h.
getSessionCacheKey(h) == h

\* cachingFullNode.GetSession: 0 when it fails.
GetSession(fail) ==
    LET h == GetCurrentBlockHeight(fail)
        key == getSessionCacheKey(getSessionStartHeight(h, GetSharedParams(fail)))
    IN  IF h = 0 THEN [s |-> 0, key |-> 0, fetched |-> FALSE]
        ELSE IF scache[key] # 0 THEN [s |-> scache[key], key |-> key, fetched |-> FALSE]
        ELSE IF "session" \in fail THEN [s |-> 0, key |-> key, fetched |-> FALSE]
        ELSE [s |-> StartOf(height), key |-> key, fetched |-> TRUE]

\* The caches after a GetSession whose outcome is g.
AfterGet(g, fail) ==
    /\ hcache' = GetCurrentBlockHeight(fail)
    /\ params' = (IF hcache' = 0 THEN params ELSE GetSharedParams(fail))
    /\ scache' = IF g.fetched THEN [scache EXCEPT ![g.key] = g.s] ELSE scache
    /\ roll' = IF g.fetched THEN updateSessionRolloverBoundaries(roll, g.s) ELSE roll

-----------------------------------------------------------------------------
(* Choosing the sessions of a request. *)

\* Mutant: the websocket path asks for grace-period sessions too.
RolloverForAll(force) == roll.in

\* Whether the request asks for the session that may have ended.
centralizedRollover(force) == ~force /\ roll.in

getActiveGatewaySessions(mode, force) ==
    /\ req.pc = "idle"
    /\ req' = [Idle EXCEPT !.pc = "current", !.mode = mode, !.force = force, !.began = height,
                           !.inRollover = mode = "centralized" /\ centralizedRollover(force)]
    /\ UNCHANGED <<height, hcache, params, scache, roll>>

Serve(sessions) == [req EXCEPT !.pc = "done", !.served = sessions]

\* The first GetSession of the request, on its own or inside
\* GetSessionWithExtendedValidity; getSession's delegation checks pass for an
\* owned app.
getCentralizedGatewayModeActiveSessions(fail) ==
    LET g == GetSession(fail) IN
    /\ req.mode = "centralized" /\ req.pc \in {"current", "fallback"}
    /\ AfterGet(g, fail)
    /\ req' = IF g.s = 0
              THEN IF req.pc = "current" /\ req.inRollover
                   THEN [req EXCEPT !.pc = "fallback"] ELSE Serve({})
              ELSE IF req.pc = "current" /\ req.inRollover
                   THEN [req EXCEPT !.pc = "extended", !.cur = g.s] ELSE Serve({g.s})
    /\ UNCHANGED height

getDelegatedGatewayModeActiveSession(fail) ==
    LET g == GetSession(fail) IN
    /\ req.mode = "delegated" /\ req.pc = "current"
    /\ AfterGet(g, fail)
    /\ req' = IF g.s = 0 THEN Serve({})
              ELSE [req EXCEPT !.pc = "check", !.cur = g.s, !.served = {g.s}]
    /\ UNCHANGED height

\* The current session is in hand: the previous one is added during rollover.
delegatedRolloverCheck ==
    /\ req.pc = "check"
    /\ req' = IF centralizedRollover(req.force) THEN [req EXCEPT !.pc = "again"]
              ELSE [req EXCEPT !.pc = "done"]
    /\ UNCHANGED <<height, hcache, params, scache, roll>>

delegatedExtended(fail) ==
    LET g == GetSession(fail) IN
    /\ req.pc = "again"
    /\ AfterGet(g, fail)
    /\ req' = IF g.s = 0 THEN [req EXCEPT !.pc = "done"]
              ELSE [req EXCEPT !.pc = "extended", !.cur = g.s]
    /\ UNCHANGED height

\* The rest of cachingFullNode.GetSessionWithExtendedValidity: the cached
\* height decides whether the previous session is still worth asking for.
GetSessionWithExtendedValidity(fail) ==
    LET h == GetCurrentBlockHeight(fail)
        prevEnd == req.cur - 1
        key == getSessionCacheKey(prevEnd)
        wanted == /\ GetSharedParams(fail) /\ h # 0
                  /\ h <= prevEnd + Grace /\ h <= prevEnd + ScaledGrace
                  /\ prevEnd >= 1
        s == IF ~wanted THEN req.cur
             ELSE IF scache[key] # 0 THEN scache[key]
             ELSE IF "session" \in fail THEN 0 ELSE LazyExtended(fail)
        fetched == wanted /\ scache[key] = 0 /\ s # 0
    IN
    /\ req.pc = "extended"
    /\ params' = GetSharedParams(fail)
    /\ hcache' = IF params' THEN h ELSE hcache
    /\ scache' = IF fetched THEN [scache EXCEPT ![key] = s] ELSE scache
    /\ roll' = IF fetched THEN updateSessionRolloverBoundaries(roll, StartOf(height)) ELSE roll
    /\ req' = IF s = 0
              THEN IF req.mode = "centralized" THEN [req EXCEPT !.pc = "fallback"]
                   ELSE [req EXCEPT !.pc = "done"]
              ELSE Serve(req.served \union {s})
    /\ UNCHANGED height

-----------------------------------------------------------------------------
(* The chain and the caches' own clocks. *)

\* The request goes on with the sessions it was given, or with the error.
Answered ==
    /\ req.pc = "done"
    /\ req' = Idle
    /\ UNCHANGED <<height, hcache, params, scache, roll>>

\* A block; a cached height older than its TTL allows is gone, and so is a
\* session entry no later request asks for.
Block ==
    /\ height < MaxHeight
    /\ height' = height + 1
    /\ hcache' = IF hcache + Lag < height' THEN 0 ELSE hcache
    /\ scache' = [k \in Heights |-> IF EndOf(StartOf(k)) + Grace + Lag < height'
                                   THEN 0 ELSE scache[k]]
    /\ UNCHANGED <<params, roll, req>>

\* An entry of a session key expires, or is refreshed early by the fetch of the
\* request that reads it: previous sessions are kept under their last block.
ExpireSession(key) ==
    /\ scache[key] # 0
    /\ scache' = [scache EXCEPT ![key] = 0]
    /\ UNCHANGED <<height, hcache, params, roll, req>>

RefreshSession(key) ==
    /\ scache[key] # 0
    /\ \/ scache' = [scache EXCEPT ![key] = StartOf(height)]
       \/ /\ key = EndOf(StartOf(key))
          /\ scache' = [scache EXCEPT ![key] = LazyExtended({})]
    /\ roll' = updateSessionRolloverBoundaries(roll, StartOf(height))
    /\ UNCHANGED <<height, hcache, params, req>>

ExpireParams ==
    /\ params
    /\ params' = FALSE
    /\ UNCHANGED <<height, hcache, scache, roll, req>>

RefreshHeight ==
    /\ hcache # 0 /\ hcache # height
    /\ hcache' = height
    /\ UNCHANGED <<height, params, scache, roll, req>>

Queries == {"height", "params", "session", "previous"}
Fails == {{}} \union {{q} : q \in Queries}

Next ==
    \/ Block \/ ExpireParams \/ RefreshHeight \/ Answered \/ delegatedRolloverCheck
    \/ \E late \in 0 .. MonitorLag : updateWithBlockHeight(height - late)
    \/ \E k \in Heights : ExpireSession(k)
    \/ \E k \in Heights : RefreshSession(k)
    \/ \E m \in {"centralized", "delegated"}, f \in BOOLEAN : getActiveGatewaySessions(m, f)
    \/ \E q \in Fails : getCentralizedGatewayModeActiveSessions(q)
    \/ \E q \in Fails : getDelegatedGatewayModeActiveSession(q)
    \/ \E q \in Fails : delegatedExtended(q)
    \/ \E q \in Fails : GetSessionWithExtendedValidity(q)

Spec == Init /\ [][Next]_vars

-----------------------------------------------------------------------------
\* A relay is worth a claim only while its session runs or is in the on-chain
\* grace period.  Whatever the ages of the three caches, the sessions handed to
\* a request were within it when the request began (fullnode_cache.go: the
\* previous session is served "as long as the supplier's own grace").
ServedSessionIsClaimable ==
    req'.pc = "done" => \A s \in req'.served : req'.began <= EndOf(s) + Grace

\* A websocket binds for the life of its session, so its requests force the
\* current session (gateway_mode.go): the one served had not ended at any
\* height the cache may still hold.
ForcedIsCurrent ==
    req'.pc = "done" /\ req'.force => \A s \in req'.served : req'.began - Lag <= EndOf(s)

\* The sessions a request is given can be served, and a forced one is current.
SessionsAreUsable == [][ServedSessionIsClaimable /\ ForcedIsCurrent]_vars
=============================================================================
