----------------------------- MODULE CacheProofs -----------------------------
(***************************************************************************)
(* What a pod keeps in memory within bounds.  The sessions handed to a      *)
(* request are usable whatever the ages of the three caches, for every       *)
(* session length, grace period and cache lag that SessionAssumption allows. *)
(* The slots of a metric are counted exactly and given up by idle tuples     *)
(* alone, for any recorders, tuples and limit.                              *)
(***************************************************************************)
EXTENDS SessionCache, CardinalityGuard, FiniteSetTheorems, TLAPS

-----------------------------------------------------------------------------
(* Sessions (SessionCache)                                                  *)

Request ==
    [pc: {"idle", "current", "fallback", "check", "again", "extended", "done"},
     mode: {"centralized", "delegated"}, force: BOOLEAN, inRollover: BOOLEAN,
     began: 0 .. MaxHeight, cur: Sessions \union {0}, served: SUBSET Sessions]

\* The caches' types, and the request's.
Typed ==
    /\ height \in Heights /\ hcache \in 0 .. MaxHeight /\ params \in BOOLEAN
    /\ scache \in [Heights -> Sessions \union {0}]
    /\ req \in Request

\* A cached height is at most Lag blocks behind the chain.
HeightIsFresh == hcache # 0 => hcache <= height /\ height <= hcache + Lag

\* Session s may be kept under key k: neither is ahead of the chain, and s ends
\* no earlier than the session k lies in.
MayHold(k, s) == k <= height /\ s <= height /\ EndOf(StartOf(k)) <= EndOf(s)

EntriesAreFresh == \A k \in Heights : scache[k] # 0 => MayHold(k, scache[k])

\* What a request has been given so far is still usable, and a forced request
\* never leaves the path of the current session.
RequestIsSound ==
    /\ req.began <= height /\ req.cur <= height
    /\ req.cur # 0 => req.began <= EndOf(req.cur) + Lag
    /\ req.pc = "extended" => req.cur # 0
    /\ req.force => ~req.inRollover /\ req.pc \notin {"fallback", "again", "extended"}
    /\ \A s \in req.served : /\ req.began <= EndOf(s) + Grace
                             /\ req.force => req.began <= EndOf(s) + Lag

IInv == Typed /\ HeightIsFresh /\ EntriesAreFresh /\ RequestIsSound

-----------------------------------------------------------------------------
(* Session arithmetic. *)

\* Quotient and remainder, as the session boundaries use them.
LEMMA DivMod ==
  ASSUME NEW n \in Nat, NEW b \in Nat \ {0}
  PROVE  /\ n % b \in 0 .. b - 1
         /\ n \div b \in Nat
         /\ n = b * (n \div b) + (n % b)
BY SMTT(30)

\* Multiplication by a natural number keeps the order.
LEMMA TimesMonotone ==
  ASSUME NEW x \in Nat, NEW y \in Nat, NEW b \in Nat, x <= y
  PROVE  b * x <= b * y
OBVIOUS

\* Division by a positive number keeps the order.
LEMMA DivMonotone ==
  ASSUME NEW m \in Nat, NEW n \in Nat, NEW b \in Nat \ {0}, m <= n
  PROVE  m \div b <= n \div b
<1>. DEFINE p == m \div b
            q == n \div b
<1>1. SUFFICES ASSUME q < p PROVE FALSE
  BY DivMod
<1>2. q + 1 <= p /\ p \in Nat /\ q \in Nat
  BY <1>1, DivMod
<1>3. b * (q + 1) <= b * p
  BY <1>2, TimesMonotone
<1>4. b * (q + 1) = b * q + b
  BY <1>2
<1>. QED BY <1>3, <1>4, DivMod

\* A multiple divides without a remainder.
LEMMA MultipleMod ==
  ASSUME NEW q \in Nat, NEW b \in Nat \ {0}
  PROVE  (b * q) % b = 0
OBVIOUS

\* A session starts at a multiple of its length, after block 1.
LEMMA StartOfForm ==
  ASSUME NEW h \in Nat \ {0}
  PROVE  StartOf(h) = BlocksPerSession * ((h - 1) \div BlocksPerSession) + 1
BY DivMod, SessionAssumption DEF StartOf

\* A height lies in the session StartOf gives it, which is its own start.
LEMMA StartOfFacts ==
  ASSUME NEW h \in Nat \ {0}
  PROVE  /\ StartOf(h) \in Nat \ {0}
         /\ StartOf(h) <= h /\ h <= EndOf(StartOf(h))
         /\ StartOf(StartOf(h)) = StartOf(h)
<1>. DEFINE q == (h - 1) \div BlocksPerSession
<1>0. h - 1 \in Nat /\ BlocksPerSession \in Nat \ {0}
  BY SessionAssumption
<1>1. /\ h - 1 \in Nat /\ q \in Nat
      /\ (h - 1) % BlocksPerSession \in 0 .. BlocksPerSession - 1
      /\ h - 1 = BlocksPerSession * q + ((h - 1) % BlocksPerSession)
  BY <1>0, DivMod, Zenon
<1>2. /\ StartOf(h) = BlocksPerSession * q + 1
      /\ BlocksPerSession * q \in Nat
  BY <1>1, StartOfForm, SessionAssumption
<1>3. (BlocksPerSession * q) % BlocksPerSession = 0
  BY <1>1, MultipleMod, SessionAssumption, Zenon
<1>4. StartOf(StartOf(h)) = StartOf(h)
  <2>. HIDE DEF q
  <2>1. StartOf(h) - 1 = BlocksPerSession * q
    BY <1>2
  <2>. QED BY <2>1, <1>2, <1>3 DEF StartOf
<1>. QED BY <1>1, <1>2, <1>4, SessionAssumption DEF StartOf, EndOf

\* A later height is in no earlier session.
LEMMA StartOfMonotone ==
  ASSUME NEW h \in Nat \ {0}, NEW j \in Nat \ {0}, h <= j
  PROVE  StartOf(h) <= StartOf(j)
<1>. DEFINE p == (h - 1) \div BlocksPerSession
            q == (j - 1) \div BlocksPerSession
<1>1. p \in Nat /\ q \in Nat /\ p <= q
  BY DivMod, DivMonotone, SessionAssumption
<1>2. BlocksPerSession * p <= BlocksPerSession * q
  BY <1>1, TimesMonotone, SessionAssumption, Zenon
<1>. QED BY <1>1, <1>2, StartOfForm, SessionAssumption

\* What the theorems use of Sessions: each is a height that starts a session.
LEMMA SessionFacts ==
  ASSUME NEW s \in Sessions
  PROVE  s \in Heights /\ StartOf(s) = s
<1>1. PICK h \in Heights : s = StartOf(h)
  BY Zenon DEF Sessions
<1>2. h \in Nat \ {0} /\ h <= MaxHeight
  BY SessionAssumption DEF Heights
<1>. QED BY <1>1, <1>2, StartOfFacts, SessionAssumption DEF Heights

-----------------------------------------------------------------------------
(* What the full node answers. *)

\* The session of the chain's own height may be kept under any key that is not
\* ahead of the chain.
LEMMA CurrentSession ==
  ASSUME Typed, NEW k \in Heights, k <= height
  PROVE  /\ StartOf(height) \in Sessions /\ StartOf(height) # 0
         /\ height <= EndOf(StartOf(height))
         /\ MayHold(k, StartOf(height))
<1>1. height \in Nat \ {0} /\ k \in Nat \ {0} /\ height \in Heights
  BY SessionAssumption DEF Typed, Heights
<1>2. /\ StartOf(height) \in Nat \ {0} /\ StartOf(height) <= height
      /\ height <= EndOf(StartOf(height))
  BY <1>1, StartOfFacts, Zenon
<1>3. StartOf(k) \in Nat \ {0} /\ StartOf(k) <= StartOf(height)
  BY <1>1, StartOfFacts, StartOfMonotone, Zenon
<1>. QED BY <1>1, <1>2, <1>3, SessionAssumption DEF MayHold, EndOf, Sessions

\* GetCurrentBlockHeight is at most Lag blocks behind the chain, or fails.
LEMMA HeightAnswer ==
  ASSUME Typed, HeightIsFresh, NEW fail,
         GetCurrentBlockHeight(fail) # 0
  PROVE  /\ GetCurrentBlockHeight(fail) \in Heights
         /\ GetCurrentBlockHeight(fail) <= height
         /\ height <= GetCurrentBlockHeight(fail) + Lag
BY SessionAssumption DEF Typed, HeightIsFresh, GetCurrentBlockHeight, Heights

\* GetSession answers with a session that ended at most Lag blocks ago.
LEMMA SessionAnswer ==
  ASSUME Typed, HeightIsFresh, EntriesAreFresh, NEW fail
  PROVE  LET g == GetSession(fail) IN
         /\ g.s \in Sessions \union {0}
         /\ g.s # 0 => g.s <= height /\ height <= EndOf(g.s) + Lag
         /\ g.fetched \in BOOLEAN
         /\ g.fetched => g.key \in Heights /\ g.s # 0 /\ MayHold(g.key, g.s)
<1>. DEFINE h == GetCurrentBlockHeight(fail)
            key == getSessionStartHeight(h, GetSharedParams(fail))
            g == GetSession(fail)
<1>1. CASE h = 0
  BY <1>1, Zenon DEF GetSession
<1>2. CASE h # 0
  <2>1. h \in Heights /\ h <= height /\ height <= h + Lag
    BY <1>2, HeightAnswer, Zenon
  <2>2. h \in Nat \ {0} /\ height \in Nat \ {0} /\ h <= MaxHeight
    BY <2>1, SessionAssumption DEF Typed, Heights
  <2>3. /\ StartOf(h) \in Nat \ {0} /\ StartOf(h) <= h
        /\ h <= EndOf(StartOf(h)) /\ StartOf(StartOf(h)) = StartOf(h)
    BY <2>2, StartOfFacts, Zenon
  <2>4. /\ key \in Heights /\ key <= height
        /\ StartOf(key) = StartOf(h)
    BY <2>1, <2>2, <2>3, SessionAssumption DEF getSessionStartHeight, Heights
  <2>. HIDE DEF h, key
  <2>5. CASE scache[key] # 0
    <3>1. g = [s |-> scache[key], key |-> key, fetched |-> FALSE]
      BY <1>2, <2>5, Zenon DEF GetSession, getSessionCacheKey, h, key
    <3>2. scache[key] \in Sessions /\ MayHold(key, scache[key])
      BY <2>4, <2>5, Zenon DEF Typed, EntriesAreFresh
    <3>3. scache[key] \in Nat
      BY <3>2, SessionFacts, SessionAssumption DEF Heights
    <3>4. /\ scache[key] <= height
          /\ EndOf(StartOf(h)) <= EndOf(scache[key])
      BY <3>2, <2>4, Zenon DEF MayHold
    <3>5. height <= EndOf(scache[key]) + Lag
      BY <3>3, <3>4, <2>1, <2>2, <2>3, SessionAssumption DEF EndOf
    <3>. QED BY <3>1, <3>2, <3>4, <3>5
  <2>6. CASE scache[key] = 0 /\ "session" \in fail
    <3>1. g = [s |-> 0, key |-> key, fetched |-> FALSE]
      BY <1>2, <2>6, Zenon DEF GetSession, getSessionCacheKey, h, key
    <3>. QED BY <3>1
  <2>7. CASE scache[key] = 0 /\ "session" \notin fail
    <3>1. g = [s |-> StartOf(height), key |-> key, fetched |-> TRUE]
      BY <1>2, <2>7, Zenon DEF GetSession, getSessionCacheKey, h, key
    <3>2. /\ StartOf(height) \in Sessions /\ StartOf(height) # 0
          /\ height <= EndOf(StartOf(height)) /\ MayHold(key, StartOf(height))
      BY <2>4, CurrentSession, Zenon
    <3>3. StartOf(height) \in Nat /\ StartOf(height) <= height
      BY <2>2, StartOfFacts, Zenon
    <3>4. height <= EndOf(StartOf(height)) + Lag
      BY <3>2, <3>3, <2>2, SessionAssumption DEF EndOf
    <3>. QED BY <3>1, <3>2, <3>3, <3>4, <2>4
  <2>. QED BY <2>5, <2>6, <2>7, Zenon
<1>. QED BY <1>1, <1>2, Zenon

\* GetSessionWithExtendedValidity of the lazy node answers with a session that
\* is within its grace period, and that may be kept under a key in it or
\* before it.
LEMMA ExtendedAnswer ==
  ASSUME Typed, NEW fail, NEW k \in Heights, k <= height,
         \/ k <= StartOf(height) - 1
         \/ k = EndOf(StartOf(k))
  PROVE  /\ LazyExtended(fail) \in Sessions /\ LazyExtended(fail) # 0
         /\ height <= EndOf(LazyExtended(fail)) + Grace
         /\ MayHold(k, LazyExtended(fail))
<1>. DEFINE cur == StartOf(height)
            prev == StartOf(cur - 1)
<1>1. height \in Nat \ {0} /\ height <= MaxHeight /\ k \in Nat \ {0}
  BY SessionAssumption DEF Typed, Heights
<1>2. /\ cur \in Nat \ {0} /\ cur <= height /\ StartOf(cur) = cur
      /\ cur \in Sessions /\ height <= EndOf(cur) /\ MayHold(k, cur)
  BY <1>1, StartOfFacts, CurrentSession, Zenon
<1>3. CASE LazyExtended(fail) = cur
  <2>. HIDE DEF cur
  <2>1. height <= EndOf(cur) + Grace
    BY <1>1, <1>2, SessionAssumption DEF EndOf
  <2>. QED BY <1>2, <1>3, <2>1, Zenon
<1>4. CASE /\ LazyExtended(fail) = prev
           /\ cur - 1 >= 1 /\ height <= cur - 1 + Grace
  <2>1. cur - 1 \in Nat \ {0} /\ cur - 1 \in Heights
    BY <1>1, <1>2, <1>4, SessionAssumption DEF Heights
  <2>2. /\ prev \in Nat \ {0} /\ prev <= cur - 1 /\ cur - 1 <= EndOf(prev)
        /\ prev \in Sessions
    BY <2>1, StartOfFacts, Zenon DEF Sessions
  <2>3. StartOf(k) \in Nat \ {0} /\ StartOf(k) <= k
    BY <1>1, StartOfFacts, Zenon
  <2>4. k <= cur - 1
    <3>1. SUFFICES ASSUME cur <= k, k = EndOf(StartOf(k)) PROVE FALSE
      BY <1>1, <1>2
    <3>2. cur <= StartOf(k)
      BY <3>1, <1>1, <1>2, StartOfMonotone, Zenon
    <3>. HIDE DEF cur
    <3>. QED BY <3>1, <3>2, <2>3, <1>1, <1>2, <1>4, SessionAssumption DEF EndOf
  <2>5. StartOf(k) <= prev
    BY <2>1, <2>4, <1>1, StartOfMonotone, Zenon
  <2>. HIDE DEF cur, prev
  <2>6. height <= EndOf(prev) + Grace
    BY <2>2, <1>1, <1>2, <1>4, SessionAssumption DEF EndOf
  <2>7. MayHold(k, prev)
    BY <2>2, <2>3, <2>5, <1>1, <1>2, SessionAssumption DEF MayHold, EndOf
  <2>. QED BY <1>4, <2>2, <2>6, <2>7, Zenon
<1>. QED BY <1>3, <1>4, Zenon DEF LazyExtended

\* The caches stay fresh through a GetSession, whatever fails in it.
LEMMA CachesAfterGet ==
  ASSUME Typed, HeightIsFresh, EntriesAreFresh, NEW fail,
         AfterGet(GetSession(fail), fail), height' = height
  PROVE  /\ hcache' \in 0 .. MaxHeight /\ params' \in BOOLEAN
         /\ scache' \in [Heights -> Sessions \union {0}]
         /\ HeightIsFresh' /\ EntriesAreFresh'
<1>. DEFINE g == GetSession(fail)
<1>1. /\ g.s \in Sessions \union {0}
      /\ g.fetched \in BOOLEAN
      /\ g.fetched => g.key \in Heights /\ g.s # 0 /\ MayHold(g.key, g.s)
  BY SessionAnswer, Zenon
<1>2. /\ hcache' = GetCurrentBlockHeight(fail)
      /\ scache' = IF g.fetched THEN [scache EXCEPT ![g.key] = g.s] ELSE scache
  BY Zenon DEF AfterGet
<1>3. params' \in BOOLEAN
  BY Zenon DEF AfterGet, GetSharedParams, Typed
<1>4. hcache' \in 0 .. MaxHeight /\ HeightIsFresh'
  BY <1>2, HeightAnswer, SessionAssumption DEF HeightIsFresh, Heights
<1>. HIDE DEF g
<1>5. scache' \in [Heights -> Sessions \union {0}]
  BY <1>1, <1>2, Zenon DEF Typed
<1>6. EntriesAreFresh'
  BY <1>1, <1>2, Zenon DEF EntriesAreFresh, MayHold, Typed
<1>. QED BY <1>3, <1>4, <1>5, <1>6, Zenon

-----------------------------------------------------------------------------
(* The invariant is inductive. *)

\* The caches start empty and no request is being served.
LEMMA InitIInv == Init => IInv
<1>. SUFFICES ASSUME Init PROVE IInv
  OBVIOUS
<1>1. req = Idle /\ Idle \in Request
  BY SessionAssumption DEF Init, Idle, Request
<1>2. Typed
  <2>1. height \in Heights /\ hcache \in 0 .. MaxHeight
    BY SessionAssumption DEF Init, Heights
  <2>2. params \in BOOLEAN
    BY Zenon DEF Init
  <2>3. scache \in [Heights -> Sessions \union {0}]
    BY Zenon DEF Init
  <2>. QED BY <1>1, <2>1, <2>2, <2>3, Zenon DEF Typed
<1>3. RequestIsSound
  BY <1>1, SessionAssumption DEF Init, RequestIsSound, Idle
<1>. QED BY <1>2, <1>3, Zenon DEF Init, IInv, HeightIsFresh, EntriesAreFresh

\* A step that leaves the request alone keeps it sound, as the chain only grows.
LEMMA RequestKept ==
  ASSUME IInv, req' = req, height' \in Heights, height <= height'
  PROVE  req' \in Request /\ RequestIsSound'
<1>1. req \in Request /\ height \in Nat /\ height' \in Nat
  BY SessionAssumption DEF IInv, Typed, Heights
<1>2. req.began \in Nat /\ req.cur \in Nat
  BY <1>1, SessionFacts, SessionAssumption DEF Request, Heights
<1>. QED BY <1>1, <1>2, SMTT(30) DEF IInv, RequestIsSound

\* A step that leaves the caches and the chain alone keeps them fresh.
LEMMA CachesKept ==
  ASSUME IInv, UNCHANGED <<height, hcache, params, scache>>
  PROVE  /\ height' \in Heights /\ hcache' \in 0 .. MaxHeight /\ params' \in BOOLEAN
         /\ scache' \in [Heights -> Sessions \union {0}]
         /\ HeightIsFresh' /\ EntriesAreFresh'
BY Zenon DEF IInv, Typed, HeightIsFresh, EntriesAreFresh, MayHold

\* A new block: the entries that a late reader could still use are kept.
LEMMA BlockStep == IInv /\ Block => IInv'
<1>. SUFFICES ASSUME IInv, Block PROVE IInv'
  OBVIOUS
<1>1. /\ height \in Nat \ {0} /\ height' = height + 1 /\ height' \in Heights
      /\ hcache \in Nat /\ hcache <= MaxHeight
  BY SessionAssumption, SMTT(30) DEF IInv, Typed, Block, Heights
<1>2. hcache' \in 0 .. MaxHeight /\ HeightIsFresh'
  BY <1>1, SessionAssumption DEF IInv, HeightIsFresh, Block
<1>3. \A k \in Heights : scache'[k] \in {0, scache[k]}
  BY Zenon DEF Block
<1>4. scache' \in [Heights -> Sessions \union {0}]
  BY Zenon DEF Block, IInv, Typed
<1>5. EntriesAreFresh'
  <2>. SUFFICES ASSUME NEW k \in Heights, scache'[k] # 0
                PROVE  MayHold(k, scache[k])' /\ scache'[k] = scache[k]
    BY Zenon DEF EntriesAreFresh
  <2>1. scache'[k] = scache[k] /\ scache[k] # 0
    BY <1>3, Zenon
  <2>2. MayHold(k, scache[k]) /\ scache[k] \in Sessions
    BY <2>1, Zenon DEF IInv, EntriesAreFresh, Typed
  <2>3. scache[k] \in Nat /\ k \in Nat
    BY <2>2, SessionFacts, SessionAssumption DEF Heights
  <2>. QED BY <2>1, <2>2, <2>3, <1>1 DEF MayHold
<1>6. req' \in Request /\ RequestIsSound'
  BY <1>1, RequestKept DEF Block
<1>. QED BY <1>1, <1>2, <1>4, <1>5, <1>6, Zenon DEF IInv, Typed, Block

\* The caches' own clocks: an entry expires or is refreshed.
LEMMA CacheStep ==
  ASSUME IInv,
         \/ ExpireParams \/ RefreshHeight
         \/ \E k \in Heights : ExpireSession(k) \/ RefreshSession(k)
  PROVE  IInv'
<1>1. height' = height /\ req' = req /\ height \in Heights /\ height \in Nat
  BY SessionAssumption
     DEF ExpireParams, RefreshHeight, ExpireSession, RefreshSession, IInv, Typed, Heights
<1>2. req' \in Request /\ RequestIsSound'
  BY <1>1, RequestKept
<1>3. CASE ExpireParams
  BY <1>1, <1>2, <1>3, Zenon DEF ExpireParams, IInv, Typed, HeightIsFresh, EntriesAreFresh, MayHold
<1>4. CASE RefreshHeight
  BY <1>1, <1>2, <1>4, SessionAssumption
     DEF RefreshHeight, IInv, Typed, HeightIsFresh, EntriesAreFresh, MayHold, Heights
<1>5. ASSUME NEW k \in Heights, ExpireSession(k)
      PROVE  IInv'
  BY <1>1, <1>2, <1>5, Zenon DEF ExpireSession, IInv, Typed, HeightIsFresh, EntriesAreFresh, MayHold
<1>6. ASSUME NEW k \in Heights, RefreshSession(k)
      PROVE  IInv'
  <2>1. PICK s : /\ scache' = [scache EXCEPT ![k] = s]
                 /\ \/ s = StartOf(height)
                    \/ k = EndOf(StartOf(k)) /\ s = LazyExtended({})
    BY <1>6, Zenon DEF RefreshSession
  <2>2. k <= height
    BY <1>6, Zenon DEF RefreshSession, IInv, EntriesAreFresh, MayHold
  <2>3. s \in Sessions /\ MayHold(k, s)
    BY <2>1, <2>2, CurrentSession, ExtendedAnswer, Zenon DEF IInv
  <2>4. scache' \in [Heights -> Sessions \union {0}]
    BY <2>1, <2>3, Zenon DEF IInv, Typed
  <2>5. EntriesAreFresh'
    BY <2>1, <2>3, <1>1, Zenon DEF IInv, Typed, EntriesAreFresh, MayHold
  <2>. QED BY <1>1, <1>2, <1>6, <2>4, <2>5, Zenon DEF RefreshSession, IInv, Typed, HeightIsFresh
<1>. QED BY <1>3, <1>4, <1>5, <1>6, Zenon

\* A request begins, is checked for the rollover window, or is answered: the
\* caches are not touched.
LEMMA RequestStep ==
  ASSUME IInv,
         \/ Answered \/ delegatedRolloverCheck
         \/ \E m \in {"centralized", "delegated"}, f \in BOOLEAN : getActiveGatewaySessions(m, f)
  PROVE  IInv'
<1>1. UNCHANGED <<height, hcache, params, scache>>
  BY Zenon DEF Answered, delegatedRolloverCheck, getActiveGatewaySessions
<1>2. req \in Request /\ height \in 0 .. MaxHeight /\ height \in Nat
  BY SessionAssumption DEF IInv, Typed, Heights
<1>3. Idle \in Request
  BY SessionAssumption DEF Idle, Request
<1>4. CASE Answered
  <2>1. req' \in Request /\ RequestIsSound'
    BY <1>1, <1>2, <1>3, <1>4, SMTT(30) DEF Answered, RequestIsSound, Idle
  <2>. QED BY <1>1, <2>1, CachesKept, Zenon DEF IInv, Typed
<1>5. CASE delegatedRolloverCheck
  <2>1. req' \in Request
    BY <1>2, <1>5, Zenon DEF delegatedRolloverCheck, Request
  <2>2. RequestIsSound'
    BY <1>1, <1>2, <1>5, Zenon
       DEF delegatedRolloverCheck, centralizedRollover, IInv, RequestIsSound, Request
  <2>. QED BY <1>1, <2>1, <2>2, CachesKept, Zenon DEF IInv, Typed
<1>6. ASSUME NEW m \in {"centralized", "delegated"}, NEW f \in BOOLEAN,
             getActiveGatewaySessions(m, f)
      PROVE  IInv'
  <2>1. PICK i \in BOOLEAN :
          /\ f => ~i
          /\ req' = [Idle EXCEPT !.pc = "current", !.mode = m, !.force = f,
                                 !.began = height, !.inRollover = i]
    BY <1>6, Zenon DEF getActiveGatewaySessions, centralizedRollover
  <2>2. req' \in Request
    BY <1>2, <1>3, <2>1 DEF Request
  <2>3. RequestIsSound'
    BY <1>1, <1>2, <2>1 DEF RequestIsSound, Idle
  <2>. QED BY <1>1, <2>2, <2>3, CachesKept, Zenon DEF IInv, Typed
<1>. QED BY <1>4, <1>5, <1>6, Zenon

\* The steps of a request that ask for the current session.
LEMMA CurrentStep ==
  ASSUME IInv, NEW fail,
         \/ getCentralizedGatewayModeActiveSessions(fail)
         \/ getDelegatedGatewayModeActiveSession(fail)
         \/ delegatedExtended(fail)
  PROVE  IInv'
<1>. DEFINE g == GetSession(fail)
<1>1. height' = height /\ AfterGet(g, fail)
  BY Zenon DEF getCentralizedGatewayModeActiveSessions, getDelegatedGatewayModeActiveSession,
         delegatedExtended
<1>2. /\ hcache' \in 0 .. MaxHeight /\ params' \in BOOLEAN
      /\ scache' \in [Heights -> Sessions \union {0}]
      /\ HeightIsFresh' /\ EntriesAreFresh'
  BY <1>1, CachesAfterGet, Zenon DEF IInv
<1>3. /\ g.s \in Sessions \union {0}
      /\ g.s # 0 => g.s <= height /\ height <= EndOf(g.s) + Lag
  BY SessionAnswer, Zenon DEF IInv
<1>4. PICK s \in Sessions \union {0} :
        /\ s = g.s
        /\ s # 0 => s <= height /\ height <= EndOf(s) + Lag
  BY <1>3, Zenon
<1>5. req \in Request /\ height \in Nat /\ req.began \in Nat /\ s \in Nat
  BY <1>4, SessionFacts, SessionAssumption DEF IInv, Typed, Request, Heights
<1>6. s # 0 => req.began <= EndOf(s) + Lag /\ req.began <= EndOf(s) + Grace
  BY <1>4, <1>5, SessionAssumption, SMTT(30) DEF IInv, RequestIsSound, EndOf
<1>. HIDE DEF g
<1>7. CASE getCentralizedGatewayModeActiveSessions(fail)
  <2>1. /\ req.pc \in {"current", "fallback"}
        /\ req' = IF s = 0
                  THEN IF req.pc = "current" /\ req.inRollover
                       THEN [req EXCEPT !.pc = "fallback"] ELSE Serve({})
                  ELSE IF req.pc = "current" /\ req.inRollover
                       THEN [req EXCEPT !.pc = "extended", !.cur = s] ELSE Serve({s})
    BY <1>4, <1>7, Zenon DEF getCentralizedGatewayModeActiveSessions, g
  <2>2. req' \in Request
    BY <2>1, <1>5, ZenonT(30) DEF Request, Serve
  <2>3. RequestIsSound'
    BY <2>1, <1>1, <1>4, <1>5, <1>6, Zenon DEF IInv, RequestIsSound, Request, Serve
  <2>. QED BY <1>1, <1>2, <2>2, <2>3, Zenon DEF IInv, Typed
<1>8. CASE getDelegatedGatewayModeActiveSession(fail)
  <2>1. /\ req.pc = "current"
        /\ req' = IF s = 0 THEN Serve({})
                  ELSE [req EXCEPT !.pc = "check", !.cur = s, !.served = {s}]
    BY <1>4, <1>8, Zenon DEF getDelegatedGatewayModeActiveSession, g
  <2>2. req' \in Request
    BY <2>1, <1>5, Zenon DEF Request, Serve
  <2>3. RequestIsSound'
    BY <2>1, <1>1, <1>4, <1>5, <1>6, Zenon DEF IInv, RequestIsSound, Request, Serve
  <2>. QED BY <1>1, <1>2, <2>2, <2>3, Zenon DEF IInv, Typed
<1>9. CASE delegatedExtended(fail)
  <2>1. /\ req.pc = "again"
        /\ req' = IF s = 0 THEN [req EXCEPT !.pc = "done"]
                  ELSE [req EXCEPT !.pc = "extended", !.cur = s]
    BY <1>4, <1>9, Zenon DEF delegatedExtended, g
  <2>2. req' \in Request
    BY <2>1, <1>5, Zenon DEF Request
  <2>3. RequestIsSound'
    BY <2>1, <1>1, <1>4, <1>5, <1>6, Zenon DEF IInv, RequestIsSound, Request
  <2>. QED BY <1>1, <1>2, <2>2, <2>3, Zenon DEF IInv, Typed
<1>. QED BY <1>7, <1>8, <1>9, Zenon

\* The step of a request that asks for the session that may have ended.
LEMMA ExtendedStep ==
  ASSUME IInv, NEW fail, GetSessionWithExtendedValidity(fail)
  PROVE  IInv'
<1>. DEFINE h == GetCurrentBlockHeight(fail)
            k == req.cur - 1
            wanted == /\ GetSharedParams(fail) /\ h # 0
                      /\ h <= k + Grace /\ h <= k + ScaledGrace
                      /\ k >= 1
            s == IF ~wanted THEN req.cur
                 ELSE IF scache[k] # 0 THEN scache[k]
                 ELSE IF "session" \in fail THEN 0 ELSE LazyExtended(fail)
            fetched == wanted /\ scache[k] = 0 /\ s # 0
<1>1. /\ req.pc = "extended" /\ height' = height
      /\ params' = GetSharedParams(fail)
      /\ hcache' = IF params' THEN h ELSE hcache
      /\ scache' = IF fetched THEN [scache EXCEPT ![k] = s] ELSE scache
      /\ req' = IF s = 0
                THEN IF req.mode = "centralized" THEN [req EXCEPT !.pc = "fallback"]
                     ELSE [req EXCEPT !.pc = "done"]
                ELSE Serve(req.served \union {s})
  BY Zenon DEF GetSessionWithExtendedValidity, getSessionCacheKey
<1>2. /\ req \in Request /\ req.cur \in Sessions /\ ~req.force
      /\ req.began \in Nat /\ req.began <= height
      /\ req.cur <= height /\ req.began <= EndOf(req.cur) + Lag
  BY <1>1, SessionAssumption DEF IInv, Typed, Request, RequestIsSound
<1>3. /\ req.cur \in Nat \ {0} /\ StartOf(req.cur) = req.cur /\ req.cur <= MaxHeight
      /\ height \in Nat \ {0}
  BY <1>2, SessionFacts, SessionAssumption DEF IInv, Typed, Heights
<1>4. req.cur <= StartOf(height) /\ StartOf(height) \in Nat
  BY <1>2, <1>3, StartOfMonotone, StartOfFacts, Zenon
<1>5. wanted => /\ k \in Heights /\ k <= height /\ k <= StartOf(height) - 1
                /\ height <= k + Grace
  <2>. SUFFICES ASSUME wanted
                PROVE  /\ k \in Heights /\ k <= height /\ k <= StartOf(height) - 1
                       /\ height <= k + Grace
    OBVIOUS
  <2>1. h \in Heights /\ h <= height /\ height <= h + Lag
    BY HeightAnswer, Zenon DEF IInv
  <2>. HIDE DEF h
  <2>. QED BY <2>1, <1>2, <1>3, <1>4, SessionAssumption DEF Heights
<1>6. wanted /\ scache[k] = 0 /\ "session" \notin fail
        => /\ s \in Sessions /\ MayHold(k, s) /\ height <= EndOf(s) + Grace
  BY <1>5, ExtendedAnswer, Zenon DEF IInv
<1>7. wanted /\ scache[k] # 0 => s \in Sessions /\ height <= EndOf(s) + Grace
  <2>. SUFFICES ASSUME wanted, scache[k] # 0
                PROVE  scache[k] \in Sessions /\ height <= EndOf(scache[k]) + Grace
    BY SMTT(30)
  <2>1. /\ k \in Heights /\ k \in Nat \ {0} /\ height <= k + Grace
    BY <1>5, SessionAssumption DEF Heights
  <2>. HIDE DEF k
  <2>2. scache[k] \in Sessions /\ MayHold(k, scache[k])
    BY <2>1, Zenon DEF IInv, Typed, EntriesAreFresh
  <2>3. scache[k] \in Nat
    BY <2>2, SessionFacts, SessionAssumption DEF Heights
  <2>4. /\ StartOf(k) \in Nat /\ k <= EndOf(StartOf(k))
        /\ EndOf(StartOf(k)) <= EndOf(scache[k])
    BY <2>1, <2>2, StartOfFacts, Zenon DEF MayHold
  <2>. QED BY <2>1, <2>2, <2>3, <2>4, <1>3, SessionAssumption DEF EndOf
<1>8. /\ s \in Sessions \union {0}
      /\ s # 0 => req.began <= EndOf(s) + Grace
  <2>1. CASE ~wanted
    BY <2>1, <1>2, <1>3, SessionAssumption DEF EndOf
  <2>2. CASE wanted
    <3>1. s \in Sessions \union {0} /\ (s # 0 => s \in Nat /\ height <= EndOf(s) + Grace)
      <4>1. \A x \in Sessions : x \in Nat
        BY SessionFacts, SessionAssumption DEF Heights
      <4>2. CASE scache[k] = 0 /\ "session" \in fail
        BY <2>2, <4>2, Zenon
      <4>3. CASE scache[k] # 0 \/ "session" \notin fail
        <5>1. s \in Sessions /\ height <= EndOf(s) + Grace
          BY <2>2, <4>3, <1>6, <1>7, Zenon
        <5>. QED BY <4>1, <5>1, Zenon
      <4>. QED BY <4>2, <4>3, Zenon
    <3>. HIDE DEF s
    <3>. QED BY <3>1, <1>2, <1>3, SessionAssumption, SMTT(30) DEF EndOf
  <2>. QED BY <2>1, <2>2, Zenon
<1>9. fetched => k \in Heights /\ s \in Sessions /\ MayHold(k, s)
  BY <1>5, <1>6, Zenon
<1>10. params' \in BOOLEAN
  BY <1>1, Zenon DEF GetSharedParams, IInv, Typed
<1>11. hcache' \in 0 .. MaxHeight /\ HeightIsFresh'
  BY <1>1, HeightAnswer, SessionAssumption, SMTT(30) DEF IInv, Typed, HeightIsFresh, Heights
<1>. HIDE DEF k, s, fetched, wanted
<1>12. scache' \in [Heights -> Sessions \union {0}]
  BY <1>1, <1>9, Zenon DEF IInv, Typed
<1>13. EntriesAreFresh'
  BY <1>1, <1>9, Zenon DEF IInv, Typed, EntriesAreFresh, MayHold
<1>14. req' \in Request
  BY <1>1, <1>2, <1>8, ZenonT(30) DEF Request, Serve
<1>15. RequestIsSound'
  BY <1>1, <1>2, <1>8, Zenon DEF IInv, RequestIsSound, Request, Serve
<1>. QED BY <1>1, <1>10, <1>11, <1>12, <1>13, <1>14, <1>15, Zenon DEF IInv, Typed

\* Every step keeps the invariant.
LEMMA NextIInv == IInv /\ [Next]_vars => IInv'
<1>. SUFFICES ASSUME IInv, [Next]_vars PROVE IInv'
  OBVIOUS
<1>1. CASE UNCHANGED vars
  BY <1>1, CachesKept, Zenon DEF vars, IInv, Typed, RequestIsSound
<1>2. CASE \E late \in 0 .. MonitorLag : updateWithBlockHeight(height - late)
  <2>1. UNCHANGED <<height, hcache, params, scache, req>>
    BY <1>2, Zenon DEF updateWithBlockHeight
  <2>. QED BY <2>1, CachesKept, Zenon DEF IInv, Typed, RequestIsSound
<1>. QED
  BY <1>1, <1>2, BlockStep, CacheStep, RequestStep, CurrentStep, ExtendedStep, Zenon DEF Next

\* The invariant holds in every reachable state, and with it every session
\* handed to a request is usable: it was claimable when the request began, and
\* current for a request that forces the current session.
THEOREM SessionsUsable == Spec => SessionsAreUsable
<1>1. IInv' => ServedSessionIsClaimable /\ ForcedIsCurrent
  <2>. SUFFICES ASSUME IInv', NEW s \in req'.served
                PROVE  /\ req'.began <= EndOf(s) + Grace
                       /\ req'.force => req'.began - Lag <= EndOf(s)
    BY Zenon DEF ServedSessionIsClaimable, ForcedIsCurrent
  <2>1. req' \in Request /\ req'.began \in Nat /\ s \in Sessions
    BY SessionAssumption DEF IInv, Typed, Request
  <2>2. s \in Nat
    BY <2>1, SessionFacts, SessionAssumption DEF Heights
  <2>. QED BY <2>1, <2>2, SessionAssumption DEF IInv, RequestIsSound, EndOf
<1>2. IInv /\ [Next]_vars => [ServedSessionIsClaimable /\ ForcedIsCurrent]_vars
  BY <1>1, NextIInv, Zenon
<1>. QED BY <1>2, InitIInv, NextIInv, PTL DEF Spec, SessionsAreUsable

-----------------------------------------------------------------------------
(* Slots of a metric (CardinalityGuard)                                     *)

Steps == {"idle", "touch", "stamp", "lock", "sweep", "range", "admit", "record"}

GuardTyped ==
    /\ DOMAIN seen \in SUBSET Tuple /\ IsFiniteSet(DOMAIN seen)
    /\ seen \in [DOMAIN seen -> Nat]
    /\ count \in Int /\ gen \in Nat /\ nextSweep \in Int /\ guardNow \in Nat
    /\ addMu \in Recorder \cup {Nobody, Janitor}
    /\ sweeping \in [todo : SUBSET Tuple, idle : SUBSET Tuple, evicted : Nat]
    /\ pc \in [Recorder -> Steps] /\ arg \in [Recorder -> Tuple] /\ stamp \in [Recorder -> Nat]
    /\ touched \in [Tuple -> Int]

\* Somebody ranges over the entries.
Sweeping == addMu = Janitor \/ \E r \in Recorder : Sweeper(r)

\* addMu is held by the janitor while it sweeps and by a recorder from its second look to its
\* admission; that recorder's tuple holds no slot.
MutexOK ==
    /\ \A r \in Recorder : pc[r] \in {"sweep", "range", "admit"} <=> addMu = r
    /\ \A r \in Recorder : addMu = r => arg[r] \notin DOMAIN seen

\* A slot that was evicted is counted until its sweep ends.
CountOK ==
    /\ count = Cardinality(DOMAIN seen) + sweeping.evicted
    /\ count <= Limit
    /\ ~Sweeping => sweeping = NoSweep
    /\ sweeping.todo \subseteq DOMAIN seen /\ sweeping.idle \subseteq DOMAIN seen
    /\ sweeping.todo \cap sweeping.idle = {}

\* An observation of t that the sweep under way may evict it after.
Evictable(t) == guardNow - touched[t] >= Window \/ touched[t] >= nextSweep - Window

\* An entry without the current generation was last observed before the last sweep ended, and a
\* recorder holds an older generation only in the instant of that sweep.
GenerationsOK ==
    /\ \A t \in DOMAIN seen : seen[t] <= gen /\ touched[t] <= guardNow
    /\ \A r \in Recorder : stamp[r] <= gen
    /\ Armed => nextSweep - Window <= guardNow
    /\ Sweeping => Armed /\ nextSweep - Window = guardNow
    /\ ~Sweeping => \A t \in DOMAIN seen : seen[t] # gen => Armed /\ touched[t] <= nextSweep - Window
    /\ Sweeping => \A t \in DOMAIN seen : seen[t] # gen \/ t \in sweeping.idle => Evictable(t)
    /\ \A r \in Recorder : pc[r] = "stamp" /\ stamp[r] # gen => Armed /\ nextSweep - Window = guardNow

GuardInv == GuardTyped /\ MutexOK /\ CountOK /\ GenerationsOK

-----------------------------------------------------------------------------
(* Slots                                                                    *)

Holding == {"sweep", "range", "admit"}

LEMMA Names ==
    /\ Nobody # Janitor
    /\ \A r \in Recorder : r # Nobody /\ r # Janitor
BY GuardAssumption, Zenon DEF Nobody, Janitor

\* Who sweeps is told by addMu and by the recorders at their Range.
LEMMA SameSweeper ==
    ASSUME UNCHANGED addMu, \A r \in Recorder : pc'[r] = "range" <=> pc[r] = "range"
    PROVE  Sweeping' <=> Sweeping
BY Zenon DEF Sweeping, Sweeper

LEMMA OneSlotMore ==
    ASSUME NEW f, IsFiniteSet(DOMAIN f), f \in [DOMAIN f -> Nat], NEW t, t \notin DOMAIN f, NEW g \in Nat
    PROVE  /\ DOMAIN With(f, t, g) = DOMAIN f \cup {t} /\ IsFiniteSet(DOMAIN With(f, t, g))
           /\ With(f, t, g) \in [DOMAIN With(f, t, g) -> Nat]
           /\ Cardinality(DOMAIN With(f, t, g)) = Cardinality(DOMAIN f) + 1
           /\ With(f, t, g)[t] = g /\ \A x \in DOMAIN f : With(f, t, g)[x] = f[x]
<1>1. DOMAIN With(f, t, g) = DOMAIN f \cup {t}
  BY Zenon DEF With
<1>2. IsFiniteSet(DOMAIN f \cup {t}) /\ Cardinality(DOMAIN f \cup {t}) = Cardinality(DOMAIN f) + 1
  BY FS_AddElement, Zenon
<1> QED
  BY <1>1, <1>2, Zenon DEF With

LEMMA OneSlotLess ==
    ASSUME NEW f, IsFiniteSet(DOMAIN f), f \in [DOMAIN f -> Nat], NEW t \in DOMAIN f
    PROVE  /\ DOMAIN Without(f, t) = DOMAIN f \ {t} /\ IsFiniteSet(DOMAIN Without(f, t))
           /\ Without(f, t) \in [DOMAIN Without(f, t) -> Nat]
           /\ Cardinality(DOMAIN Without(f, t)) = Cardinality(DOMAIN f) - 1
           /\ \A x \in DOMAIN f \ {t} : Without(f, t)[x] = f[x]
<1>1. DOMAIN Without(f, t) = DOMAIN f \ {t}
  BY Zenon DEF Without
<1>2. IsFiniteSet(DOMAIN f \ {t}) /\ Cardinality(DOMAIN f \ {t}) = Cardinality(DOMAIN f) - 1
  BY FS_RemoveElement, Zenon
<1> QED
  BY <1>1, <1>2, Zenon DEF Without

-----------------------------------------------------------------------------
(* The recorders                                                            *)

\* A recorder moves on outside addMu and leaves the guard alone.
LEMMA QuietKeeps ==
    ASSUME GuardInv, NEW r \in Recorder, NEW p \in Steps \ Holding, NEW a \in Tuple, NEW g \in Nat,
           UNCHANGED <<seen, count, gen, nextSweep, addMu, sweeping, guardNow, touched>>,
           pc[r] \notin Holding, g <= gen, p = "stamp" => g = gen,
           pc' = [pc EXCEPT ![r] = p], arg' = [arg EXCEPT ![r] = a], stamp' = [stamp EXCEPT ![r] = g]
    PROVE  GuardInv'
<1>1. /\ pc \in [Recorder -> Steps] /\ arg \in [Recorder -> Tuple] /\ stamp \in [Recorder -> Nat]
      /\ addMu # r
  BY Zenon DEF GuardInv, GuardTyped, MutexOK, Holding
<1>2. /\ pc' \in [Recorder -> Steps] /\ arg' \in [Recorder -> Tuple] /\ stamp' \in [Recorder -> Nat]
      /\ pc'[r] = p /\ stamp'[r] = g
      /\ \A q \in Recorder \ {r} : pc'[q] = pc[q] /\ arg'[q] = arg[q] /\ stamp'[q] = stamp[q]
  BY <1>1, Zenon
<1>3. \A q \in Recorder : pc'[q] \in Holding <=> pc[q] \in Holding
  BY <1>2, Zenon
<1>4. Sweeping' <=> Sweeping
  BY <1>2, SameSweeper, Zenon DEF Holding
<1>5. GuardTyped'
  BY <1>2, Zenon DEF GuardInv, GuardTyped
<1>6. MutexOK'
  BY <1>1, <1>2, <1>3, Zenon DEF GuardInv, MutexOK, Holding
<1>7. CountOK'
  BY <1>4, Zenon DEF GuardInv, CountOK
<1>8. GenerationsOK'
  <2>1. \A q \in Recorder : stamp'[q] <= gen
    BY <1>2, Zenon DEF GuardInv, GenerationsOK
  <2>2. \A q \in Recorder : pc'[q] = "stamp" /\ stamp'[q] # gen => Armed /\ nextSweep - Window = guardNow
    BY <1>2, Zenon DEF GuardInv, GenerationsOK
  <2> QED
    BY <1>4, <2>1, <2>2, Zenon DEF GuardInv, GenerationsOK, Armed, Evictable
<1> QED
  BY <1>5, <1>6, <1>7, <1>8, Zenon DEF GuardInv

LEMMA RecorderKeeps ==
    ASSUME GuardInv, NEW r \in Recorder,
           touch(r) \/ Record(r) \/ \E t \in Tuple : Load(r, t)
    PROVE  GuardInv'
<1>1. /\ pc \in [Recorder -> Steps] /\ arg \in [Recorder -> Tuple] /\ stamp \in [Recorder -> Nat]
      /\ gen \in Nat /\ stamp[r] <= gen
  BY Zenon DEF GuardInv, GuardTyped, GenerationsOK
<1>2. arg[r] \in Tuple /\ arg = [arg EXCEPT ![r] = arg[r]] /\ stamp[r] \in Nat /\ stamp = [stamp EXCEPT ![r] = stamp[r]]
  BY <1>1, Zenon
<1>3. CASE touch(r)
  <2>1. /\ pc[r] = "touch" /\ pc' = [pc EXCEPT ![r] = "stamp"] /\ stamp' = [stamp EXCEPT ![r] = gen]
        /\ UNCHANGED <<seen, count, gen, nextSweep, addMu, sweeping, guardNow, touched, arg>>
    BY <1>3, Zenon DEF touch, Goto, slotVars, sweepVars
  <2>2. "stamp" \in Steps \ Holding /\ pc[r] \notin Holding
    BY <2>1, Zenon DEF Steps, Holding
  <2>3. arg' = [arg EXCEPT ![r] = arg[r]] /\ gen <= gen
    BY <1>1, <1>2, <2>1
  <2> HIDE <1>3
  <2> QED
    BY <1>1, <1>2, <2>1, <2>2, <2>3, QuietKeeps, Zenon
<1>4. CASE Record(r)
  <2>1. /\ pc[r] = "record" /\ pc' = [pc EXCEPT ![r] = "idle"]
        /\ UNCHANGED <<seen, count, gen, nextSweep, addMu, sweeping, guardNow, touched, arg, stamp>>
    BY <1>4, Zenon DEF Record, Goto, slotVars, sweepVars
  <2>2. "idle" \in Steps \ Holding /\ pc[r] \notin Holding /\ "idle" # "stamp"
    BY <2>1, Zenon DEF Steps, Holding
  <2> QED
    BY <1>1, <1>2, <2>1, <2>2, QuietKeeps, Zenon
<1>5. ASSUME NEW t \in Tuple, Load(r, t) PROVE GuardInv'
  <2> DEFINE p == IF t \in DOMAIN seen THEN "touch" ELSE "lock"
  <2>1. /\ pc[r] = "idle" /\ pc' = [pc EXCEPT ![r] = p] /\ arg' = [arg EXCEPT ![r] = t]
        /\ UNCHANGED <<seen, count, gen, nextSweep, addMu, sweeping, guardNow, touched, stamp>>
    BY <1>5, Zenon DEF Load, Goto, slotVars, sweepVars
  <2>2. p \in Steps \ Holding /\ pc[r] \notin Holding /\ p # "stamp"
    BY <2>1, Zenon DEF Steps, Holding
  <2> HIDE DEF p
  <2> QED
    BY <1>1, <1>2, <2>1, <2>2, QuietKeeps, Zenon
<1> QED
  BY <1>3, <1>4, <1>5, Zenon

\* An entry is stamped with generation g, in this very instant.
LEMMA ObserveKeeps ==
    ASSUME GuardInv, NEW t \in Tuple, NEW g \in Nat, g <= gen, Observe(t, g),
           g # gen => Armed /\ nextSweep - Window = guardNow,
           UNCHANGED <<gen, nextSweep, sweeping, guardNow>>, Sweeping' <=> Sweeping
    PROVE  /\ DOMAIN seen' = DOMAIN seen /\ seen' \in [DOMAIN seen -> Nat] /\ touched' \in [Tuple -> Int]
           /\ \A x \in DOMAIN seen : seen'[x] <= gen /\ touched'[x] <= guardNow
           /\ ~Sweeping => \A x \in DOMAIN seen : seen'[x] # gen => Armed /\ touched'[x] <= nextSweep - Window
           /\ Sweeping => \A x \in DOMAIN seen : seen'[x] # gen \/ x \in sweeping.idle => Evictable(x)'
<1>1. /\ seen \in [DOMAIN seen -> Nat] /\ touched \in [Tuple -> Int] /\ DOMAIN seen \in SUBSET Tuple
      /\ gen \in Nat /\ guardNow \in Nat /\ nextSweep \in Int
  BY Zenon DEF GuardInv, GuardTyped
<1>2. /\ \A x \in DOMAIN seen : seen[x] <= gen /\ touched[x] <= guardNow
      /\ ~Sweeping => \A x \in DOMAIN seen : seen[x] # gen => Armed /\ touched[x] <= nextSweep - Window
      /\ Sweeping => \A x \in DOMAIN seen : seen[x] # gen \/ x \in sweeping.idle => Evictable(x)
      /\ Sweeping => nextSweep - Window = guardNow
  BY Zenon DEF GuardInv, GenerationsOK
<1>3. CASE t \notin DOMAIN seen
  <2>1. UNCHANGED <<seen, touched>>
    BY <1>3, Zenon DEF Observe
  <2> QED
    BY <1>1, <1>2, <2>1, Zenon DEF Evictable
<1>4. CASE t \in DOMAIN seen
  <2>1. seen' = [seen EXCEPT ![t] = g] /\ touched' = [touched EXCEPT ![t] = guardNow]
    BY <1>4, Zenon DEF Observe
  <2>2. /\ DOMAIN seen' = DOMAIN seen /\ seen' \in [DOMAIN seen -> Nat] /\ touched' \in [Tuple -> Int]
        /\ seen'[t] = g /\ touched'[t] = guardNow
        /\ \A x \in DOMAIN seen \ {t} : seen'[x] = seen[x] /\ touched'[x] = touched[x]
    BY <1>1, <1>4, <2>1
  <2>3. \A x \in DOMAIN seen : seen'[x] <= gen /\ touched'[x] <= guardNow
    BY <1>1, <1>2, <2>2, SMTT(30)
  <2>4. ASSUME ~Sweeping, NEW x \in DOMAIN seen, seen'[x] # gen PROVE Armed /\ touched'[x] <= nextSweep - Window
    BY <1>1, <1>2, <2>2, <2>4
  <2>5. ASSUME Sweeping, NEW x \in DOMAIN seen, seen'[x] # gen \/ x \in sweeping.idle PROVE Evictable(x)'
    <3>1. CASE x = t
      BY <1>1, <1>2, <2>2, <2>5, <3>1 DEF Evictable
    <3>2. CASE x # t
      BY <1>1, <1>2, <2>2, <2>5, <3>2, Zenon DEF Evictable
    <3> QED
      BY <3>1, <3>2, Zenon
  <2> QED
    BY <2>2, <2>3, <2>4, <2>5, Zenon
<1> QED
  BY <1>3, <1>4, Zenon

\* A recorder outside addMu stamps its tuple's entry and goes on to record.
LEMMA StampingKeeps ==
    ASSUME GuardInv, NEW r \in Recorder, NEW g \in Nat, NEW s \in Nat, g <= gen, s <= gen,
           pc[r] \notin Holding, g # gen => Armed /\ nextSweep - Window = guardNow, Observe(arg[r], g),
           pc' = [pc EXCEPT ![r] = "record"], stamp' = [stamp EXCEPT ![r] = s],
           UNCHANGED <<count, gen, nextSweep, addMu, sweeping, guardNow, arg>>
    PROVE  GuardInv'
<1>1. pc \in [Recorder -> Steps] /\ stamp \in [Recorder -> Nat] /\ arg[r] \in Tuple
  BY Zenon DEF GuardInv, GuardTyped
<1>2. /\ pc' \in [Recorder -> Steps] /\ stamp' \in [Recorder -> Nat]
      /\ pc'[r] = "record" /\ stamp'[r] = s
      /\ \A q \in Recorder \ {r} : pc'[q] = pc[q] /\ stamp'[q] = stamp[q]
  BY <1>1, Zenon DEF Steps
<1>3. \A q \in Recorder : pc'[q] \in Holding <=> pc[q] \in Holding
  BY <1>2, Zenon DEF Holding
<1>4. Sweeping' <=> Sweeping
  BY <1>2, SameSweeper, Zenon DEF Holding
<1>5. /\ DOMAIN seen' = DOMAIN seen /\ seen' \in [DOMAIN seen -> Nat] /\ touched' \in [Tuple -> Int]
      /\ \A x \in DOMAIN seen : seen'[x] <= gen /\ touched'[x] <= guardNow
      /\ ~Sweeping => \A x \in DOMAIN seen : seen'[x] # gen => Armed /\ touched'[x] <= nextSweep - Window
      /\ Sweeping => \A x \in DOMAIN seen : seen'[x] # gen \/ x \in sweeping.idle => Evictable(x)'
  BY <1>1, <1>4, ObserveKeeps, Zenon
<1>6. GuardTyped'
  BY <1>2, <1>5, Zenon DEF GuardInv, GuardTyped
<1>7. MutexOK'
  BY <1>2, <1>3, <1>5, Zenon DEF GuardInv, MutexOK, Holding
<1>8. CountOK'
  BY <1>4, <1>5, Zenon DEF GuardInv, CountOK
<1>9. GenerationsOK'
  <2>1. \A q \in Recorder : stamp'[q] <= gen
    BY <1>2, Zenon DEF GuardInv, GenerationsOK
  <2>2. \A q \in Recorder : pc'[q] = "stamp" /\ stamp'[q] # gen => Armed /\ nextSweep - Window = guardNow
    BY <1>2, Zenon DEF GuardInv, GenerationsOK
  <2>3. /\ Armed => nextSweep - Window <= guardNow
        /\ Sweeping => Armed /\ nextSweep - Window = guardNow
    BY Zenon DEF GuardInv, GenerationsOK
  <2> QED
    BY <1>4, <1>5, <2>1, <2>2, <2>3, Zenon DEF GenerationsOK, Armed
<1> QED
  BY <1>6, <1>7, <1>8, <1>9, Zenon DEF GuardInv

LEMMA StampKeeps ==
    ASSUME GuardInv, NEW r \in Recorder, Stamp(r)
    PROVE  GuardInv'
<1>1. /\ pc[r] = "stamp" /\ pc' = [pc EXCEPT ![r] = "record"] /\ stamp' = [stamp EXCEPT ![r] = 0]
      /\ Observe(arg[r], stamp[r])
      /\ UNCHANGED <<count, gen, nextSweep, addMu, sweeping, guardNow, arg>>
  BY Zenon DEF Stamp, Goto, sweepVars
<1>2. /\ stamp[r] \in Nat /\ stamp[r] <= gen /\ gen \in Nat /\ 0 <= gen
      /\ stamp[r] # gen => Armed /\ nextSweep - Window = guardNow
  BY <1>1 DEF GuardInv, GuardTyped, GenerationsOK
<1>3. pc[r] \notin Holding
  BY <1>1, Zenon DEF Holding
<1> QED
  BY <1>1, <1>2, <1>3, StampingKeeps, Zenon

\* While nobody ranges, addMu may change hands between the recorders and nobody.
LEMMA HandOver ==
    ASSUME GuardInv, ~Sweeping, ~Sweeping', MutexOK', addMu' \in Recorder \cup {Nobody, Janitor},
           pc' \in [Recorder -> Steps], \A q \in Recorder : pc'[q] = "stamp" => pc[q] = "stamp",
           UNCHANGED <<seen, count, gen, nextSweep, sweeping, guardNow, touched, arg, stamp>>
    PROVE  GuardInv'
<1>1. GuardTyped'
  BY Zenon DEF GuardInv, GuardTyped
<1>2. CountOK'
  BY Zenon DEF GuardInv, CountOK
<1>3. GenerationsOK'
  BY Zenon DEF GuardInv, GenerationsOK, Armed
<1> QED
  BY <1>1, <1>2, <1>3, Zenon DEF GuardInv

LEMMA LockKeeps ==
    ASSUME GuardInv, NEW r \in Recorder, Lock(r)
    PROVE  GuardInv'
<1>1. /\ pc[r] = "lock" /\ addMu = Nobody
      /\ UNCHANGED <<count, gen, nextSweep, sweeping, guardNow, arg, stamp>>
  BY Zenon DEF Lock
<1>2. pc \in [Recorder -> Steps] /\ stamp \in [Recorder -> Nat] /\ gen \in Nat /\ stamp[r] <= gen
  BY Zenon DEF GuardInv, GuardTyped, GenerationsOK
<1>3. CASE arg[r] \in DOMAIN seen
  <2>1. Observe(arg[r], gen) /\ pc' = [pc EXCEPT ![r] = "record"] /\ UNCHANGED addMu
    BY <1>3, Zenon DEF Lock, Goto
  <2>2. stamp' = [stamp EXCEPT ![r] = stamp[r]] /\ stamp[r] \in Nat /\ gen <= gen /\ pc[r] \notin Holding
    BY <1>1, <1>2 DEF Holding
  <2> QED
    BY <1>1, <1>2, <2>1, <2>2, StampingKeeps, Zenon
<1>4. CASE arg[r] \notin DOMAIN seen
  <2>1. UNCHANGED <<seen, touched>> /\ pc' = [pc EXCEPT ![r] = "sweep"] /\ addMu' = r
    BY <1>4, Zenon DEF Lock, Goto
  <2>2. /\ pc' \in [Recorder -> Steps] /\ pc'[r] = "sweep" /\ \A q \in Recorder \ {r} : pc'[q] = pc[q]
    BY <1>2, <2>1, Zenon DEF Steps
  <2>3. \A q \in Recorder \ {r} : pc[q] \notin Holding
    BY <1>1, Names, Zenon DEF GuardInv, MutexOK, Holding
  <2>4. ~Sweeping /\ ~Sweeping'
    BY <1>1, <2>1, <2>2, Names, Zenon DEF Sweeping, Sweeper
  <2>5. MutexOK'
    BY <1>1, <1>4, <2>1, <2>2, <2>3, Zenon DEF MutexOK, Holding
  <2> QED
    BY <1>1, <2>1, <2>2, <2>4, <2>5, HandOver, Zenon
<1> QED
  BY <1>3, <1>4, Zenon

-----------------------------------------------------------------------------
(* The sweep                                                                *)

\* sweepLocked before its Range: the entries a due sweep may evict have been idle for a window.
LEMMA StartKeeps ==
    ASSUME GuardInv, ~Sweeping, StartSweep, Sweeping' <=> SweepDue,
           \A q \in Recorder : pc'[q] = "stamp" => pc[q] = "stamp",
           UNCHANGED <<seen, count, gen, guardNow, touched, stamp>>
    PROVE  /\ nextSweep' \in Int /\ sweeping' \in [todo : SUBSET Tuple, idle : SUBSET Tuple, evicted : Nat]
           /\ CountOK' /\ GenerationsOK'
<1>1. /\ DOMAIN seen \in SUBSET Tuple /\ gen \in Nat /\ guardNow \in Nat /\ nextSweep \in Int
      /\ seen \in [DOMAIN seen -> Nat] /\ touched \in [Tuple -> Int] /\ IsFiniteSet(DOMAIN seen)
  BY Zenon DEF GuardInv, GuardTyped
<1>2. count = Cardinality(DOMAIN seen) /\ count <= Limit /\ Cardinality(DOMAIN seen) \in Nat
  <2>1. sweeping = NoSweep /\ count = Cardinality(DOMAIN seen) + sweeping.evicted /\ count <= Limit
    BY Zenon DEF GuardInv, CountOK
  <2>2. Cardinality(DOMAIN seen) \in Nat
    BY <1>1, FS_CardinalityType, Zenon
  <2> QED
    BY <2>1, <2>2, SMTT(30) DEF NoSweep
<1>3. /\ \A t \in DOMAIN seen : seen[t] <= gen /\ touched[t] <= guardNow
      /\ \A r \in Recorder : stamp[r] <= gen
      /\ Armed => nextSweep - Window <= guardNow
      /\ \A t \in DOMAIN seen : seen[t] # gen => Armed /\ touched[t] <= nextSweep - Window
      /\ \A r \in Recorder : pc'[r] = "stamp" /\ stamp[r] # gen => Armed /\ nextSweep - Window = guardNow
  BY Zenon DEF GuardInv, GenerationsOK
<1>4. CASE SweepDue
  <2>1. nextSweep' = guardNow + Window /\ sweeping' = [todo |-> DOMAIN seen, idle |-> {}, evicted |-> 0]
    BY <1>4, Zenon DEF StartSweep, NoSweep
  <2>2. nextSweep' \in Int /\ nextSweep' - Window = guardNow /\ Armed'
    BY <1>1, <2>1 DEF Window, Armed
  <2>3. CountOK'
    BY <1>2, <1>4, <2>1 DEF CountOK
  <2>4. \A t \in DOMAIN seen : seen[t] # gen => Evictable(t)'
    <3>1. guardNow >= nextSweep
      BY <1>4, Zenon DEF SweepDue
    <3> QED
      BY <1>1, <1>3, <3>1 DEF Evictable, Window
  <2>5. GenerationsOK'
    BY <1>1, <1>3, <1>4, <2>1, <2>2, <2>4 DEF GenerationsOK
  <2> QED
    BY <1>1, <2>1, <2>2, <2>3, <2>5, Zenon
<1>5. CASE ~SweepDue
  <2>1. sweeping' = NoSweep /\ sweeping' = [todo |-> {}, idle |-> {}, evicted |-> 0]
    BY <1>5, Zenon DEF StartSweep, NoSweep
  <2>2. CountOK'
    BY <1>2, <1>5, <2>1, SMTT(30) DEF CountOK
  <2>3. CASE Armed
    <3>1. nextSweep' = nextSweep
      BY <1>5, <2>3, Zenon DEF StartSweep
    <3>2. GenerationsOK'
      BY <1>3, <1>5, <3>1, Zenon DEF GenerationsOK, Armed
    <3> QED
      BY <1>1, <2>1, <2>2, <3>1, <3>2
  <2>4. CASE ~Armed
    <3>1. nextSweep' = guardNow + Window
      BY <1>5, <2>4, Zenon DEF StartSweep
    <3>2. nextSweep' \in Int /\ nextSweep' - Window = guardNow
      BY <1>1, <3>1 DEF Window
    <3>3. GenerationsOK'
      BY <1>1, <1>3, <1>5, <2>4, <3>2 DEF GenerationsOK
    <3> QED
      BY <1>1, <2>1, <2>2, <3>2, <3>3
  <2> QED
    BY <2>3, <2>4, Zenon
<1> QED
  BY <1>4, <1>5, Zenon

LEMMA SlowSweepKeeps ==
    ASSUME GuardInv, NEW r \in Recorder, SlowSweep(r)
    PROVE  GuardInv'
<1> DEFINE p == IF SweepDue THEN "range" ELSE "admit"
<1>1. /\ pc[r] = "sweep" /\ addMu = r /\ StartSweep /\ pc' = [pc EXCEPT ![r] = p]
      /\ UNCHANGED <<seen, count, gen, addMu, arg, stamp, guardNow, touched>>
  BY Zenon DEF SlowSweep, Goto
<1>2. pc \in [Recorder -> Steps] /\ p \in Steps /\ p \in Holding /\ (p = "range" <=> SweepDue) /\ p # "stamp"
  BY Zenon DEF GuardInv, GuardTyped, Steps, Holding
<1> HIDE DEF p
<1>3. pc' \in [Recorder -> Steps] /\ pc'[r] = p /\ \A q \in Recorder \ {r} : pc'[q] = pc[q]
  BY <1>1, <1>2, Zenon
<1>4. ~Sweeping /\ (Sweeping' <=> SweepDue)
  BY <1>1, <1>2, <1>3, Names, Zenon DEF Sweeping, Sweeper
<1>5. /\ nextSweep' \in Int /\ sweeping' \in [todo : SUBSET Tuple, idle : SUBSET Tuple, evicted : Nat]
      /\ CountOK' /\ GenerationsOK'
  BY <1>1, <1>2, <1>3, <1>4, StartKeeps, Zenon
<1>6. GuardTyped'
  BY <1>1, <1>3, <1>5, Zenon DEF GuardInv, GuardTyped
<1>7. MutexOK'
  BY <1>1, <1>2, <1>3, Zenon DEF GuardInv, MutexOK, Holding
<1> QED
  BY <1>5, <1>6, <1>7, Zenon DEF GuardInv

LEMMA JanitorKeeps ==
    ASSUME GuardInv, sweep
    PROVE  GuardInv'
<1>1. /\ addMu = Nobody /\ StartSweep /\ addMu' = IF SweepDue THEN Janitor ELSE Nobody
      /\ UNCHANGED <<seen, count, gen, pc, arg, stamp, guardNow, touched>>
  BY Zenon DEF sweep, recVars
<1>2. ~Sweeping /\ (Sweeping' <=> SweepDue)
  BY <1>1, Names, Zenon DEF Sweeping, Sweeper
<1>3. /\ nextSweep' \in Int /\ sweeping' \in [todo : SUBSET Tuple, idle : SUBSET Tuple, evicted : Nat]
      /\ CountOK' /\ GenerationsOK'
  BY <1>1, <1>2, StartKeeps, Zenon
<1>4. GuardTyped'
  BY <1>1, <1>3, Zenon DEF GuardInv, GuardTyped
<1>5. MutexOK'
  BY <1>1, Names, Zenon DEF GuardInv, MutexOK
<1> QED
  BY <1>3, <1>4, <1>5, Zenon DEF GuardInv

\* A sweep with something left to visit or to evict is under way.
LEMMA WorkIsSwept ==
    ASSUME GuardInv, sweeping.todo # {} \/ sweeping.idle # {}
    PROVE  Sweeping
BY DEF GuardInv, CountOK, NoSweep

LEMMA CheckEntryKeeps ==
    ASSUME GuardInv, NEW t \in Tuple, CheckEntry(t)
    PROVE  GuardInv'
<1> DEFINE found == IF seen[t] = gen THEN {} ELSE {t}
<1>1. /\ t \in sweeping.todo
      /\ UNCHANGED <<seen, count, gen, nextSweep, addMu, pc, arg, stamp, guardNow, touched>>
  BY Zenon DEF CheckEntry, slotVars, recVars
<1>2. sweeping \in [todo : SUBSET Tuple, idle : SUBSET Tuple, evicted : Nat]
  BY Zenon DEF GuardInv, GuardTyped
<1>3. sweeping' = [sweeping EXCEPT !.todo = sweeping.todo \ {t}, !.idle = sweeping.idle \cup found]
  BY <1>2, Zenon DEF CheckEntry
<1>4. /\ found \subseteq {t} /\ (t \in found => seen[t] # gen)
  OBVIOUS
<1> HIDE DEF found
<1>5. /\ sweeping'.todo = sweeping.todo \ {t} /\ sweeping'.idle = sweeping.idle \cup found
      /\ sweeping'.evicted = sweeping.evicted
      /\ sweeping' \in [todo : SUBSET Tuple, idle : SUBSET Tuple, evicted : Nat]
  BY <1>2, <1>3, <1>4, Zenon
<1>6. Sweeping /\ Sweeping'
  BY <1>1, WorkIsSwept, SameSweeper, Zenon
<1>7. GuardTyped'
  BY <1>1, <1>5, Zenon DEF GuardInv, GuardTyped
<1>8. MutexOK'
  BY <1>1, Zenon DEF GuardInv, MutexOK
<1>9. CountOK'
  BY <1>1, <1>4, <1>5, <1>6, Zenon DEF GuardInv, CountOK
<1>10. GenerationsOK'
  <2>1. \A x \in DOMAIN seen : seen[x] # gen \/ x \in sweeping'.idle => Evictable(x)
    BY <1>4, <1>5, <1>6, Zenon DEF GuardInv, GenerationsOK
  <2> QED
    BY <1>1, <1>6, <2>1, Zenon DEF GuardInv, GenerationsOK, Armed, Evictable
<1> QED
  BY <1>7, <1>8, <1>9, <1>10, Zenon DEF GuardInv

LEMMA EvictKeeps ==
    ASSUME GuardInv, NEW t \in Tuple, Evict(t)
    PROVE  GuardInv' /\ Evictable(t) /\ DOMAIN seen \ DOMAIN seen' = {t}
<1>1. /\ t \in sweeping.idle /\ seen' = Without(seen, t)
      /\ UNCHANGED <<count, gen, nextSweep, addMu, pc, arg, stamp, guardNow, touched>>
  BY Zenon DEF Evict, recVars
<1>2. /\ sweeping \in [todo : SUBSET Tuple, idle : SUBSET Tuple, evicted : Nat]
      /\ IsFiniteSet(DOMAIN seen) /\ seen \in [DOMAIN seen -> Nat] /\ DOMAIN seen \in SUBSET Tuple
  BY Zenon DEF GuardInv, GuardTyped
<1>3. sweeping' = [sweeping EXCEPT !.idle = sweeping.idle \ {t}, !.evicted = sweeping.evicted + 1]
  BY <1>2, Zenon DEF Evict
<1>4. /\ sweeping'.todo = sweeping.todo /\ sweeping'.idle = sweeping.idle \ {t}
      /\ sweeping'.evicted = sweeping.evicted + 1
      /\ sweeping' \in [todo : SUBSET Tuple, idle : SUBSET Tuple, evicted : Nat]
  <2> DEFINE n == sweeping.evicted + 1
  <2>1. n \in Nat /\ sweeping' = [sweeping EXCEPT !.idle = sweeping.idle \ {t}, !.evicted = n]
    BY <1>2, <1>3
  <2> HIDE DEF n
  <2>2. /\ sweeping'.todo = sweeping.todo /\ sweeping'.idle = sweeping.idle \ {t} /\ sweeping'.evicted = n
        /\ sweeping' \in [todo : SUBSET Tuple, idle : SUBSET Tuple, evicted : Nat]
    BY <1>2, <2>1, Zenon
  <2> QED
    BY <2>2, Zenon DEF n
<1>5. t \in DOMAIN seen /\ t \notin sweeping.todo
  BY <1>1, Zenon DEF GuardInv, CountOK
<1>6. /\ DOMAIN seen' = DOMAIN seen \ {t} /\ IsFiniteSet(DOMAIN seen')
      /\ seen' \in [DOMAIN seen' -> Nat]
      /\ Cardinality(DOMAIN seen') = Cardinality(DOMAIN seen) - 1
      /\ \A x \in DOMAIN seen \ {t} : seen'[x] = seen[x]
  BY <1>1, <1>2, <1>5, OneSlotLess
<1>7. Sweeping /\ Sweeping'
  BY <1>1, WorkIsSwept, SameSweeper, Zenon
<1>8. GuardTyped'
  BY <1>1, <1>2, <1>4, <1>6, Zenon DEF GuardInv, GuardTyped
<1>9. MutexOK'
  BY <1>1, <1>6, Zenon DEF GuardInv, MutexOK
<1>10. CountOK'
  <2>1. Cardinality(DOMAIN seen) \in Nat
    BY <1>2, FS_CardinalityType, Zenon
  <2>2. count' = Cardinality(DOMAIN seen') + sweeping'.evicted
    BY <1>1, <1>2, <1>4, <1>6, <2>1 DEF GuardInv, CountOK
  <2> QED
    BY <1>1, <1>4, <1>5, <1>6, <1>7, <2>2, Zenon DEF GuardInv, CountOK
<1>11. GenerationsOK'
  <2>1. \A x \in DOMAIN seen' : seen'[x] # gen \/ x \in sweeping'.idle => Evictable(x)
    BY <1>4, <1>6, <1>7, Zenon DEF GuardInv, GenerationsOK
  <2>2. \A x \in DOMAIN seen' : seen'[x] <= gen /\ touched[x] <= guardNow
    BY <1>6, Zenon DEF GuardInv, GenerationsOK
  <2> QED
    BY <1>1, <1>7, <2>1, <2>2, Zenon DEF GuardInv, GenerationsOK, Armed, Evictable
<1>12. Evictable(t)
  BY <1>1, <1>5, <1>7, Zenon DEF GuardInv, GenerationsOK
<1> QED
  BY <1>5, <1>6, <1>8, <1>9, <1>10, <1>11, <1>12, Zenon DEF GuardInv

\* The slots of the evicted go back, and every entry is older than the generation that opens.
LEMMA EndSweepKeeps ==
    ASSUME GuardInv, EndSweep
    PROVE  GuardInv'
<1>1. /\ count' = count - sweeping.evicted /\ gen' = gen + 1 /\ sweeping' = NoSweep
      /\ UNCHANGED <<seen, nextSweep, arg, stamp, guardNow, touched>>
  BY Zenon DEF EndSweep
<1>2. /\ pc \in [Recorder -> Steps] /\ sweeping.evicted \in Nat /\ gen \in Nat /\ count \in Int
      /\ IsFiniteSet(DOMAIN seen) /\ seen \in [DOMAIN seen -> Nat] /\ DOMAIN seen \in SUBSET Tuple
      /\ stamp \in [Recorder -> Nat] /\ nextSweep \in Int /\ guardNow \in Nat /\ touched \in [Tuple -> Int]
  BY Zenon DEF GuardInv, GuardTyped
<1>3. /\ Sweeping /\ ~Sweeping' /\ pc' \in [Recorder -> Steps] /\ addMu' \in Recorder \cup {Nobody, Janitor}
      /\ \A q \in Recorder : pc'[q] = "stamp" => pc[q] = "stamp"
      /\ MutexOK'
  <2>1. CASE addMu = Janitor /\ addMu' = Nobody /\ UNCHANGED pc
    <3>1. MutexOK'
      BY <1>1, <2>1, Names, Zenon DEF GuardInv, MutexOK
    <3> QED
      BY <1>2, <2>1, <3>1, Names, Zenon DEF Sweeping, Sweeper
  <2>2. ASSUME NEW r \in Recorder, Sweeper(r), Goto(r, "admit"), UNCHANGED addMu
        PROVE  <1>3!:
    <3>1. /\ addMu = r /\ pc[r] = "range" /\ pc' = [pc EXCEPT ![r] = "admit"]
      BY <2>2, Zenon DEF Sweeper, Goto
    <3>2. pc' \in [Recorder -> Steps] /\ pc'[r] = "admit" /\ \A q \in Recorder \ {r} : pc'[q] = pc[q]
      BY <1>2, <3>1, Zenon DEF Steps
    <3>3. MutexOK'
      BY <1>1, <2>2, <3>1, <3>2, Zenon DEF GuardInv, MutexOK
    <3>4. Sweeping /\ ~Sweeping'
      BY <2>2, <3>1, <3>2, Names, Zenon DEF Sweeping, Sweeper
    <3> QED
      BY <2>2, <3>1, <3>2, <3>3, <3>4, Zenon
  <2> QED
    BY <2>1, <2>2, Zenon DEF EndSweep
<1>4. count' = Cardinality(DOMAIN seen) /\ Cardinality(DOMAIN seen) \in Nat /\ count' <= Limit
  <2>1. Cardinality(DOMAIN seen) \in Nat
    BY <1>2, FS_CardinalityType, Zenon
  <2>2. count = Cardinality(DOMAIN seen) + sweeping.evicted /\ count <= Limit
    BY Zenon DEF GuardInv, CountOK
  <2> QED
    BY <1>1, <1>2, <2>1, <2>2, GuardAssumption
<1>5. sweeping'.todo = {} /\ sweeping'.idle = {} /\ sweeping'.evicted = 0
      /\ sweeping' \in [todo : SUBSET Tuple, idle : SUBSET Tuple, evicted : Nat]
  BY <1>1, Zenon DEF NoSweep
<1>6. GuardTyped'
  BY <1>1, <1>2, <1>3, <1>4, <1>5, SMTT(30) DEF GuardInv, GuardTyped
<1>7. CountOK'
  BY <1>1, <1>4, <1>5 DEF CountOK
<1>8. GenerationsOK'
  <2>1. /\ \A x \in DOMAIN seen : seen[x] <= gen /\ touched[x] <= guardNow
        /\ \A q \in Recorder : stamp[q] <= gen
        /\ Armed /\ nextSweep - Window = guardNow
    BY <1>3, Zenon DEF GuardInv, GenerationsOK
  <2>2. Armed'
    BY <1>1, <2>1, Zenon DEF Armed
  <2>3. /\ \A x \in DOMAIN seen : seen[x] <= gen' /\ touched[x] <= nextSweep - Window
        /\ \A q \in Recorder : stamp[q] <= gen'
        /\ nextSweep - Window <= guardNow
    BY <1>1, <1>2, <2>1
  <2> QED
    BY <1>1, <1>3, <2>1, <2>2, <2>3, Zenon DEF GenerationsOK
<1> QED
  BY <1>3, <1>6, <1>7, <1>8, Zenon DEF GuardInv

-----------------------------------------------------------------------------
(* Admission and time                                                       *)

LEMMA AdmitKeeps ==
    ASSUME GuardInv, NEW r \in Recorder, Admit(r)
    PROVE  GuardInv' /\ DOMAIN seen \subseteq DOMAIN seen'
<1>1. /\ pc[r] = "admit" /\ addMu = r /\ addMu' = Nobody
      /\ UNCHANGED <<gen, nextSweep, sweeping, arg, stamp, guardNow>>
  BY Zenon DEF Admit
<1>2. /\ pc \in [Recorder -> Steps] /\ arg[r] \in Tuple /\ gen \in Nat /\ count \in Int
      /\ IsFiniteSet(DOMAIN seen) /\ seen \in [DOMAIN seen -> Nat] /\ DOMAIN seen \in SUBSET Tuple
      /\ nextSweep \in Int /\ guardNow \in Nat /\ touched \in [Tuple -> Int]
  BY Zenon DEF GuardInv, GuardTyped
<1>3. arg[r] \notin DOMAIN seen /\ \A q \in Recorder \ {r} : pc[q] \notin Holding
  BY <1>1, Zenon DEF GuardInv, MutexOK, Holding
<1>4. ~Sweeping /\ ~Sweeping'
  BY <1>1, Names, Zenon DEF Sweeping, Sweeper
<1>5. CASE count >= Limit
  <2>1. pc' = [pc EXCEPT ![r] = "idle"] /\ UNCHANGED <<seen, count, touched>>
    BY <1>5, Zenon DEF Admit, Goto
  <2>2. pc' \in [Recorder -> Steps] /\ pc'[r] = "idle" /\ \A q \in Recorder \ {r} : pc'[q] = pc[q]
    BY <1>2, <2>1, Zenon DEF Steps
  <2>3. MutexOK'
    BY <1>1, <1>3, <2>2, Names, Zenon DEF MutexOK, Holding
  <2>4. GuardInv'
    BY <1>1, <1>4, <2>1, <2>2, <2>3, HandOver, Zenon
  <2> QED
    BY <2>1, <2>4, Zenon
<1>6. CASE ~(count >= Limit)
  <2>1. /\ pc' = [pc EXCEPT ![r] = "record"] /\ seen' = With(seen, arg[r], gen) /\ count' = count + 1
        /\ touched' = [touched EXCEPT ![arg[r]] = guardNow]
    BY <1>6, Zenon DEF Admit, Goto
  <2>2. pc' \in [Recorder -> Steps] /\ pc'[r] = "record" /\ \A q \in Recorder \ {r} : pc'[q] = pc[q]
    BY <1>2, <2>1, Zenon DEF Steps
  <2>3. /\ DOMAIN seen' = DOMAIN seen \cup {arg[r]} /\ IsFiniteSet(DOMAIN seen')
        /\ seen' \in [DOMAIN seen' -> Nat]
        /\ Cardinality(DOMAIN seen') = Cardinality(DOMAIN seen) + 1
        /\ seen'[arg[r]] = gen /\ \A x \in DOMAIN seen : seen'[x] = seen[x]
    <3> DEFINE t == arg[r]
    <3>1. t \notin DOMAIN seen /\ seen' = With(seen, t, gen)
      BY <1>3, <2>1, Zenon
    <3> HIDE DEF t
    <3>2. /\ DOMAIN With(seen, t, gen) = DOMAIN seen \cup {t} /\ IsFiniteSet(DOMAIN With(seen, t, gen))
          /\ With(seen, t, gen) \in [DOMAIN With(seen, t, gen) -> Nat]
          /\ Cardinality(DOMAIN With(seen, t, gen)) = Cardinality(DOMAIN seen) + 1
          /\ With(seen, t, gen)[t] = gen /\ \A x \in DOMAIN seen : With(seen, t, gen)[x] = seen[x]
      <4>1. IsFiniteSet(DOMAIN seen) /\ seen \in [DOMAIN seen -> Nat] /\ t \notin DOMAIN seen /\ gen \in Nat
        BY <1>2, <3>1, Zenon
      <4> QED
        BY ONLY <4>1, OneSlotMore, SMTT(30)
    <3> QED
      BY <3>1, <3>2, Zenon DEF t
  <2>4. /\ touched' \in [Tuple -> Int] /\ touched'[arg[r]] = guardNow
        /\ \A x \in Tuple \ {arg[r]} : touched'[x] = touched[x]
    BY <1>2, <2>1
  <2>5. GuardTyped'
    <3>1. DOMAIN seen' \in SUBSET Tuple
      BY <1>2, <2>3, Zenon
    <3>2. count' \in Int
      BY <1>2, <2>1
    <3> QED
      BY <1>1, <2>2, <2>3, <2>4, <3>1, <3>2, Zenon DEF GuardInv, GuardTyped
  <2>6. MutexOK'
    BY <1>1, <1>3, <2>2, Names, Zenon DEF MutexOK, Holding
  <2>7. CountOK'
    <3>1. sweeping = NoSweep /\ count = Cardinality(DOMAIN seen) + sweeping.evicted
      BY <1>4, Zenon DEF GuardInv, CountOK
    <3>2. Cardinality(DOMAIN seen) \in Nat /\ sweeping.evicted = 0 /\ sweeping.todo = {} /\ sweeping.idle = {}
      BY <1>2, <3>1, FS_CardinalityType, Zenon DEF NoSweep
    <3>3. count' = Cardinality(DOMAIN seen') + sweeping.evicted /\ count' <= Limit
      BY <1>2, <1>6, <2>1, <2>3, <3>1, <3>2, GuardAssumption, SMTT(30)
    <3> QED
      BY <1>1, <3>1, <3>2, <3>3, Zenon DEF CountOK
  <2>8. GenerationsOK'
    <3>1. /\ \A x \in DOMAIN seen' : seen'[x] <= gen /\ touched'[x] <= guardNow
          /\ \A x \in DOMAIN seen' : seen'[x] # gen => Armed /\ touched'[x] <= nextSweep - Window
      <4>1. /\ \A x \in DOMAIN seen : seen[x] <= gen /\ touched[x] <= guardNow
            /\ \A x \in DOMAIN seen : seen[x] # gen => Armed /\ touched[x] <= nextSweep - Window
        BY <1>4, Zenon DEF GuardInv, GenerationsOK
      <4> QED
        BY <1>2, <1>3, <2>3, <2>4, <4>1
    <3>2. \A q \in Recorder : pc'[q] = "stamp" => pc[q] = "stamp"
      BY <2>2, Zenon
    <3> QED
      BY <1>1, <1>4, <3>1, <3>2, Zenon DEF GuardInv, GenerationsOK, Armed
  <2> QED
    BY <2>3, <2>5, <2>6, <2>7, <2>8, Zenon DEF GuardInv
<1> QED
  BY <1>5, <1>6, Zenon

LEMMA GuardTickKeeps ==
    ASSUME GuardInv, GuardTick
    PROVE  GuardInv'
<1>1. /\ guardNow' = guardNow + 1 /\ addMu = Nobody /\ \A r \in Recorder : pc[r] = "idle"
      /\ UNCHANGED <<seen, count, gen, nextSweep, addMu, sweeping, pc, arg, stamp, touched>>
  BY Zenon DEF GuardTick, slotVars, sweepVars, recVars
<1>2. ~Sweeping /\ ~Sweeping'
  BY <1>1, Names, Zenon DEF Sweeping, Sweeper
<1>3. /\ guardNow \in Nat /\ nextSweep \in Int /\ touched \in [Tuple -> Int] /\ DOMAIN seen \in SUBSET Tuple
  BY Zenon DEF GuardInv, GuardTyped
<1>4. GuardTyped'
  BY <1>1 DEF GuardInv, GuardTyped
<1>5. MutexOK' /\ CountOK'
  BY <1>1, <1>2, Zenon DEF GuardInv, MutexOK, CountOK
<1>6. GenerationsOK'
  <2>1. /\ \A t \in DOMAIN seen : seen[t] <= gen /\ touched[t] <= guardNow + 1
        /\ Armed => nextSweep - Window <= guardNow + 1
    BY <1>3, SMTT(30) DEF GuardInv, GenerationsOK, Window
  <2> QED
    BY <1>1, <1>2, <2>1, Zenon DEF GuardInv, GenerationsOK, Armed
<1> QED
  BY <1>4, <1>5, <1>6, Zenon DEF GuardInv

-----------------------------------------------------------------------------
(* Theorems                                                                 *)

LEMMA GuardStarts ==
    ASSUME GuardInit
    PROVE  GuardInv
<1>1. /\ DOMAIN seen = {} /\ count = 0 /\ gen = 0 /\ nextSweep = -1 /\ addMu = Nobody /\ sweeping = NoSweep
      /\ guardNow = 0 /\ touched = [t \in Tuple |-> -1]
      /\ pc = [r \in Recorder |-> "idle"] /\ stamp = [r \in Recorder |-> 0]
      /\ arg \in [Recorder -> {CHOOSE t \in Tuple : TRUE}] /\ seen = [t \in {} |-> 0]
  BY Zenon DEF GuardInit
<1>2. IsFiniteSet(DOMAIN seen) /\ Cardinality(DOMAIN seen) = 0
  BY <1>1, FS_EmptySet, Zenon
<1>3. sweeping.todo = {} /\ sweeping.idle = {} /\ sweeping.evicted = 0
      /\ sweeping \in [todo : SUBSET Tuple, idle : SUBSET Tuple, evicted : Nat]
  BY <1>1, Zenon DEF NoSweep
<1>4. ~Sweeping
  BY <1>1, Names, Zenon DEF Sweeping, Sweeper
<1>5. arg \in [Recorder -> Tuple]
  <2>1. (CHOOSE t \in Tuple : TRUE) \in Tuple
    BY GuardAssumption, Zenon
  <2> QED
    BY <1>1, <2>1, Zenon
<1>6. GuardTyped
  BY <1>1, <1>2, <1>3, <1>5 DEF GuardTyped, Steps
<1>7. MutexOK
  BY <1>1, Names, Zenon DEF MutexOK
<1>8. CountOK
  BY <1>1, <1>2, <1>3, GuardAssumption DEF CountOK
<1>9. GenerationsOK
  BY <1>1, <1>4 DEF GenerationsOK, Armed
<1> QED
  BY <1>6, <1>7, <1>8, <1>9, Zenon DEF GuardInv

LEMMA GuardKeeps ==
    ASSUME GuardInv, [GuardNext]_guardVars
    PROVE  GuardInv'
<1>1. CASE UNCHANGED guardVars
  BY <1>1, Zenon DEF guardVars, slotVars, sweepVars, recVars, GuardInv, GuardTyped, MutexOK, CountOK,
              GenerationsOK, Sweeping, Sweeper, Armed, Evictable
<1>2. ASSUME NEW r \in Recorder, touch(r) \/ Stamp(r) \/ Lock(r) \/ SlowSweep(r) \/ Admit(r) \/ Record(r)
      PROVE  GuardInv'
  BY <1>2, RecorderKeeps, StampKeeps, LockKeeps, SlowSweepKeeps, AdmitKeeps, Zenon
<1>3. ASSUME NEW r \in Recorder, NEW t \in Tuple, Load(r, t) PROVE GuardInv'
  BY <1>3, RecorderKeeps, Zenon
<1>4. ASSUME NEW t \in Tuple, CheckEntry(t) \/ Evict(t) PROVE GuardInv'
  BY <1>4, CheckEntryKeeps, EvictKeeps, Zenon
<1>5. CASE sweep \/ EndSweep \/ GuardTick
  BY <1>5, JanitorKeeps, EndSweepKeeps, GuardTickKeeps, Zenon
<1> QED
  BY <1>1, <1>2, <1>3, <1>4, <1>5, Zenon DEF GuardNext

\* A slot is given up by an eviction and by nothing else.
LEMMA GivenUp ==
    ASSUME GuardInv, [GuardNext]_guardVars
    PROVE  OnlyIdleAreEvicted
<1>1. ASSUME NEW t \in Tuple, Evict(t) PROVE OnlyIdleAreEvicted
  BY <1>1, EvictKeeps, Zenon DEF OnlyIdleAreEvicted, Evictable
<1>2. ASSUME DOMAIN seen \subseteq DOMAIN seen' PROVE OnlyIdleAreEvicted
  BY <1>2, Zenon DEF OnlyIdleAreEvicted
<1>3. ASSUME NEW t, NEW g, Observe(t, g) PROVE DOMAIN seen \subseteq DOMAIN seen'
  BY <1>3, Zenon DEF Observe
<1>4. ASSUME NEW r \in Recorder, Stamp(r) PROVE DOMAIN seen \subseteq DOMAIN seen'
  BY <1>3, <1>4, Zenon DEF Stamp
<1>5. ASSUME NEW r \in Recorder, Lock(r) PROVE DOMAIN seen \subseteq DOMAIN seen'
  BY <1>3, <1>5, Zenon DEF Lock
<1>6. ASSUME NEW r \in Recorder, Admit(r) PROVE DOMAIN seen \subseteq DOMAIN seen'
  BY <1>6, AdmitKeeps, Zenon
<1>7. ASSUME NEW r \in Recorder, touch(r) \/ SlowSweep(r) \/ Record(r) \/ \E t \in Tuple : Load(r, t)
      PROVE  DOMAIN seen \subseteq DOMAIN seen'
  BY <1>7, Zenon DEF touch, SlowSweep, Record, Load, slotVars
<1>8. ASSUME NEW t \in Tuple, CheckEntry(t) PROVE DOMAIN seen \subseteq DOMAIN seen'
  BY <1>8, Zenon DEF CheckEntry, slotVars
<1>9. CASE sweep \/ EndSweep \/ GuardTick \/ UNCHANGED guardVars
  <2>1. UNCHANGED seen
    BY <1>9, Zenon DEF sweep, EndSweep, GuardTick, guardVars, slotVars
  <2> QED
    BY <1>2, <2>1, Zenon
<1> QED
  BY <1>1, <1>2, <1>4, <1>5, <1>6, <1>7, <1>8, <1>9, Zenon DEF GuardNext

\* Whenever addMu is free, the atomic count beside the map is the number of slots held and within
\* the limit, for any recorders, tuples and sweeps (allow, sweepLocked).
THEOREM CountExact == GuardSpec => []CountIsExact
<1>1. GuardInit => GuardInv
  BY GuardStarts, Zenon
<1>2. GuardInv /\ [GuardNext]_guardVars => GuardInv'
  BY GuardKeeps, Zenon
<1>3. GuardInv => CountIsExact
  <2> SUFFICES ASSUME GuardInv, addMu = Nobody PROVE count = Cardinality(DOMAIN seen) /\ count <= Limit
    BY Zenon DEF CountIsExact
  <2>1. ~Sweeping
    BY Names, Zenon DEF Sweeping, Sweeper
  <2>2. sweeping.evicted = 0 /\ count = Cardinality(DOMAIN seen) + sweeping.evicted /\ count <= Limit
    BY <2>1 DEF GuardInv, CountOK, NoSweep
  <2>3. Cardinality(DOMAIN seen) \in Nat
    BY FS_CardinalityType, Zenon DEF GuardInv, GuardTyped
  <2> QED
    BY <2>2, <2>3
<1> QED
  BY <1>1, <1>2, <1>3, PTL DEF GuardSpec

\* A sweep evicts only tuples that went unobserved for the whole window, or that were observed
\* while this sweep was at work, and the count stays exact (sweepLocked).
THEOREM SlotsSound == GuardSpec => SlotsAreSound
<1>1. GuardInit => GuardInv
  BY GuardStarts, Zenon
<1>2. GuardInv /\ [GuardNext]_guardVars => GuardInv'
  BY GuardKeeps, Zenon
<1>3. GuardInv /\ [GuardNext]_guardVars => OnlyIdleAreEvicted
  BY GivenUp, Zenon
<1>4. GuardInv /\ [GuardNext]_guardVars => [OnlyIdleAreEvicted]_guardVars
  BY <1>3, Zenon
<1> QED
  BY <1>1, <1>2, <1>3, CountExact, PTL DEF GuardSpec, SlotsAreSound
=============================================================================
