-------------------- MODULE DomainCircuitBreakerProofs --------------------
(***************************************************************************)
(* Breaks are earned, bounded and kept by merges, for any pods, domains,    *)
(* number of concurrent calls, windows and TTLs.                           *)
(***************************************************************************)
EXTENDS DomainCircuitBreaker, FiniteSetTheorems, TLAPS

Entry == [exists : BOOLEAN, domains : [Domains -> Break], refreshAt : Nat]
Window == [known : BOOLEAN, windowStart : Nat, failures : Nat, successes : Nat,
           lastEpisodeAt : Nat, lastHitCount : Nat]
MarkCall == [pc : {"gate", "install", "publish"}, domain : Domains, at : Nat, hitCount : Nat]
RefreshCall == [pc : {"reap", "merge", "iterate"}, at : Nat, broken : [Domains -> Break],
                expired : SUBSET Domains, shared : BOOLEAN]

\* A break ends within the TTL of the hit count it carries.
Within(b) == b # NoBreak => b.expiry <= now + escalatedTTL(b.hitCount)

CacheOK ==
  /\ cache \in [Pods -> Entry]
  /\ \A p \in Pods, d \in Domains :
       /\ ~ cache[p].exists => cache[p].domains[d] = NoBreak
       /\ Within(cache[p].domains[d])

RedisOK ==
  /\ redis \in [Domains -> Break]
  /\ \A d \in Domains :
       redis[d] # NoBreak =>
         redis[d].expiry * TicksPerSecond <= now + escalatedTTL(redis[d].hitCount)

\* A MarkBroken call goes on with a time it read earlier.
MarkOK ==
  /\ mark \in [Pods -> [Marks -> MarkCall \cup {NoMark}]]
  /\ \A p \in Pods, i \in Marks : mark[p][i] # NoMark => mark[p][i].at <= now

\* So does a refresh, and the breaks it read have not grown since.
RefreshOK ==
  /\ refresh \in [Pods -> [Refreshes -> RefreshCall \cup {NoRefresh}]]
  /\ \A p \in Pods, j \in Refreshes :
       refresh[p][j] # NoRefresh =>
         /\ refresh[p][j].at <= now
         /\ \A d \in Domains : Within(refresh[p][j].broken[d])

\* The failures in times that fall in a window.
Since(times, start) == {k \in DOMAIN times : times[k] >= start}

\* A window counts no failure that was not recorded since it started.
Counted(w, times) ==
  /\ ~ w.known => w.failures = 0
  /\ w.failures <= Cardinality(Since(times, w.windowStart))

StatsOK ==
  /\ stats \in [Pods -> [Domains -> Window]]
  /\ failedAt \in [Pods -> [Domains -> Seq(Nat)]]
  /\ \A p \in Pods, d \in Domains :
       /\ stats[p][d].windowStart <= now
       /\ Counted(stats[p][d], failedAt[p][d])

IInv == now \in Nat \ {0} /\ CacheOK /\ RedisOK /\ MarkOK /\ RefreshOK /\ StatsOK

-----------------------------------------------------------------------------
(* Arithmetic. *)

\* The constants, one by one.
LEMMA ConstantTypes ==
  /\ TicksPerSecond \in Nat \ {0} /\ DefaultTTL \in Nat \ {0} /\ MaxTTL \in Nat \ {0}
  /\ MinFailures \in Nat \ {0} /\ CacheTTL \in Nat /\ FailureWindow \in Nat
  /\ DefaultTTL <= MaxTTL
BY BreakerAssumption, Zenon

\* The escalated TTL is at most the cap, whatever the hit count.
LEMMA EscalatedTTLBound ==
  ASSUME NEW h \in Nat
  PROVE  escalatedTTL(h) \in Nat /\ escalatedTTL(h) <= MaxTTL
<1>. DEFINE shift == IF h - 1 > 5 THEN 5 ELSE h - 1
            ttl == DefaultTTL * 2 ^ shift
<1>1. CASE h <= 1
  BY <1>1, ConstantTypes, Zenon DEF escalatedTTL
<1>2. CASE h > 1
  <2>1. shift = 1 \/ shift = 2 \/ shift = 3 \/ shift = 4 \/ shift = 5
    BY <1>2
  <2>. HIDE DEF shift
  <2>2. 2 ^ shift \in Nat
    <3>1. 2 ^ 1 \in Nat /\ 2 ^ 2 \in Nat /\ 2 ^ 3 \in Nat /\ 2 ^ 4 \in Nat /\ 2 ^ 5 \in Nat
      OBVIOUS
    <3>. QED BY <2>1, <3>1, Zenon
  <2>3. ttl \in Nat
    BY <2>2, ConstantTypes
  <2>4. escalatedTTL(h) = IF ttl > MaxTTL THEN MaxTTL ELSE ttl
    BY <1>2 DEF escalatedTTL, shift
  <2>. HIDE DEF ttl
  <2>. QED BY <2>3, <2>4, ConstantTypes
<1>. QED BY <1>1, <1>2

\* Storing an expiry in whole seconds never lengthens it.
LEMMA UnixBound ==
  ASSUME NEW t \in Nat
  PROVE  Unix(t) \in Nat /\ Unix(t) * TicksPerSecond <= t
BY ConstantTypes DEF Unix

-----------------------------------------------------------------------------
(* What time alone does: each part of the invariant survives a later clock. *)

\* A break within its TTL now is within it later.
LEMMA WithinLater ==
  ASSUME NEW b \in Break, now \in Nat, now' \in Nat, now <= now', Within(b)
  PROVE  b # NoBreak => b.expiry <= now' + escalatedTTL(b.hitCount)
<1>1. b.expiry \in Nat /\ b.hitCount \in Nat
  BY Zenon DEF Break
<1>2. escalatedTTL(b.hitCount) \in Nat
  BY <1>1, EscalatedTTLBound, Zenon
<1>. QED BY <1>1, <1>2 DEF Within

\* The caches, untouched.
LEMMA CacheKept ==
  ASSUME CacheOK, now \in Nat, now' \in Nat, now <= now', cache' = cache
  PROVE  CacheOK'
<1>1. \A p \in Pods, d \in Domains : cache[p].domains[d] \in Break
  BY Zenon DEF CacheOK, Entry
<1>. QED BY <1>1, WithinLater, Zenon DEF CacheOK, Within

\* The hash in Redis, untouched.
LEMMA RedisKept ==
  ASSUME RedisOK, now \in Nat, now' \in Nat, now <= now', redis' = redis
  PROVE  RedisOK'
<1>. SUFFICES ASSUME NEW d \in Domains, redis[d] # NoBreak
              PROVE  redis[d].expiry * TicksPerSecond <= now' + escalatedTTL(redis[d].hitCount)
  BY Zenon DEF RedisOK
<1>1. redis[d].expiry * TicksPerSecond \in Nat /\ redis[d].hitCount \in Nat
  BY ConstantTypes DEF RedisOK, Break
<1>2. escalatedTTL(redis[d].hitCount) \in Nat
  BY <1>1, EscalatedTTLBound, Zenon
<1>3. redis[d].expiry * TicksPerSecond <= now + escalatedTTL(redis[d].hitCount)
  BY Zenon DEF RedisOK
<1>. QED BY <1>1, <1>2, <1>3

\* The MarkBroken calls, untouched.
LEMMA MarkKept ==
  ASSUME MarkOK, now \in Nat, now' \in Nat, now <= now', mark' = mark
  PROVE  MarkOK'
<1>1. \A p \in Pods, i \in Marks : mark[p][i] # NoMark => mark[p][i].at \in Nat
  BY Zenon DEF MarkOK, MarkCall
<1>. QED BY <1>1 DEF MarkOK

\* The refreshes, untouched.
LEMMA RefreshKept ==
  ASSUME RefreshOK, now \in Nat, now' \in Nat, now <= now', refresh' = refresh
  PROVE  RefreshOK'
<1>. SUFFICES ASSUME NEW p \in Pods, NEW j \in Refreshes, refresh[p][j] # NoRefresh
              PROVE  /\ refresh[p][j].at <= now'
                     /\ \A d \in Domains : Within(refresh[p][j].broken[d])'
  BY Zenon DEF RefreshOK, Within
<1>1. refresh[p][j] \in RefreshCall
  BY Zenon DEF RefreshOK
<1>2. refresh[p][j].at \in Nat /\ \A d \in Domains : refresh[p][j].broken[d] \in Break
  BY <1>1, Zenon DEF RefreshCall
<1>3. refresh[p][j].at <= now /\ \A d \in Domains : Within(refresh[p][j].broken[d])
  BY Zenon DEF RefreshOK
<1>. QED BY <1>2, <1>3, WithinLater DEF Within

\* The failure windows, untouched.
LEMMA StatsKept ==
  ASSUME StatsOK, now \in Nat, now' \in Nat, now <= now', UNCHANGED <<stats, failedAt>>
  PROVE  StatsOK'
<1>1. \A p \in Pods, d \in Domains : stats[p][d].windowStart \in Nat
  BY Zenon DEF StatsOK, Window
<1>. QED BY <1>1 DEF StatsOK

-----------------------------------------------------------------------------
(* What a step at one instant leaves alone, and what it changes. *)

\* A step that takes no MarkBroken call through the gate, and ends no merge.
NoGate == \A p \in Pods, i \in Marks : mark[p][i].pc = "gate" => mark'[p][i].pc # "install"
NoMerge ==
  \A p \in Pods, j \in Refreshes : refresh[p][j].pc = "merge" => refresh'[p][j].pc # "iterate"

\* What a step does not touch keeps its part of the invariant.
LEMMA Untouched ==
  ASSUME IInv, now' = now
  PROVE  /\ now' \in Nat \ {0}
         /\ cache' = cache => CacheOK'
         /\ redis' = redis => RedisOK'
         /\ mark' = mark => MarkOK' /\ NoGate
         /\ refresh' = refresh => RefreshOK' /\ NoMerge
         /\ stats' = stats /\ failedAt' = failedAt => StatsOK'
<1>1. now \in Nat \ {0} /\ now' \in Nat \ {0} /\ now \in Nat /\ now' \in Nat /\ now <= now'
  BY DEF IInv
<1>2. cache' = cache => CacheOK'
  BY <1>1, CacheKept, Zenon DEF IInv
<1>3. redis' = redis => RedisOK'
  BY <1>1, RedisKept, Zenon DEF IInv
<1>4. mark' = mark => MarkOK'
  BY <1>1, MarkKept, Zenon DEF IInv
<1>5. refresh' = refresh => RefreshOK'
  BY <1>1, RefreshKept, Zenon DEF IInv
<1>6. stats' = stats /\ failedAt' = failedAt => StatsOK'
  BY <1>1, StatsKept, Zenon DEF IInv
<1>7. (mark' = mark => NoGate) /\ (refresh' = refresh => NoMerge)
  BY Zenon DEF NoGate, NoMerge
<1>. QED BY <1>1, <1>2, <1>3, <1>4, <1>5, <1>6, <1>7, Zenon

\* The MarkBroken calls, some of them changed.
LEMMA MarkChange ==
  ASSUME IInv, now' = now, mark' \in [Pods -> [Marks -> MarkCall \cup {NoMark}]],
         \A q \in Pods, k \in Marks :
           mark'[q][k] \in {mark[q][k], NoMark} \/ mark'[q][k].at <= now
  PROVE  MarkOK'
<1>. SUFFICES ASSUME NEW q \in Pods, NEW k \in Marks, mark'[q][k] # NoMark
              PROVE  mark'[q][k].at <= now
  BY Zenon DEF MarkOK
<1>1. mark[q][k] # NoMark => mark[q][k].at <= now
  BY Zenon DEF IInv, MarkOK
<1>. QED BY <1>1, Zenon

\* The refreshes, some of them changed.
LEMMA RefreshChange ==
  ASSUME IInv, now' = now, refresh' \in [Pods -> [Refreshes -> RefreshCall \cup {NoRefresh}]],
         \A q \in Pods, k \in Refreshes :
           \/ refresh'[q][k] \in {refresh[q][k], NoRefresh}
           \/ /\ refresh'[q][k].at <= now
              /\ \A d \in Domains : Within(refresh'[q][k].broken[d])
  PROVE  RefreshOK'
<1>. SUFFICES ASSUME NEW q \in Pods, NEW k \in Refreshes, refresh'[q][k] # NoRefresh
              PROVE  /\ refresh'[q][k].at <= now
                     /\ \A d \in Domains : Within(refresh'[q][k].broken[d])
  BY Zenon DEF RefreshOK, Within
<1>1. refresh[q][k] # NoRefresh => /\ refresh[q][k].at <= now
                                  /\ \A d \in Domains : Within(refresh[q][k].broken[d])
  BY Zenon DEF IInv, RefreshOK
<1>. QED BY <1>1, Zenon

\* The failure windows, some of them changed.
LEMMA StatsChange ==
  ASSUME IInv, now' = now, stats' \in [Pods -> [Domains -> Window]],
         failedAt' \in [Pods -> [Domains -> Seq(Nat)]],
         \A q \in Pods, e \in Domains :
           \/ stats'[q][e] = stats[q][e] /\ failedAt'[q][e] = failedAt[q][e]
           \/ stats'[q][e].windowStart <= now /\ Counted(stats'[q][e], failedAt'[q][e])
  PROVE  StatsOK'
<1>. SUFFICES ASSUME NEW q \in Pods, NEW e \in Domains
              PROVE  stats'[q][e].windowStart <= now /\ Counted(stats'[q][e], failedAt'[q][e])
  BY Zenon DEF StatsOK
<1>1. stats[q][e].windowStart <= now /\ Counted(stats[q][e], failedAt[q][e])
  BY Zenon DEF IInv, StatsOK
<1>. QED BY <1>1, Zenon

\* One pod's cache, changed.
LEMMA CacheChange ==
  ASSUME IInv, now' = now, NEW p \in Pods, NEW entry \in Entry,
         cache' = [cache EXCEPT ![p] = entry],
         \A d \in Domains : /\ ~ entry.exists => entry.domains[d] = NoBreak
                            /\ Within(entry.domains[d])
  PROVE  CacheOK'
<1>1. cache \in [Pods -> Entry]
  BY Zenon DEF IInv, CacheOK
<1>2. /\ cache' \in [Pods -> Entry] /\ cache'[p] = entry
      /\ \A q \in Pods : q # p => cache'[q] = cache[q]
  BY <1>1, Zenon
<1>. SUFFICES ASSUME NEW q \in Pods, NEW d \in Domains
              PROVE  /\ ~ cache'[q].exists => cache'[q].domains[d] = NoBreak
                     /\ Within(cache'[q].domains[d])
  BY <1>2, Zenon DEF CacheOK, Within
<1>3. /\ ~ cache[q].exists => cache[q].domains[d] = NoBreak
      /\ Within(cache[q].domains[d])
  BY Zenon DEF IInv, CacheOK
<1>. QED BY <1>2, <1>3, Zenon

-----------------------------------------------------------------------------
(* The failure window. *)

\* The failures since a time are finitely many.
LEMMA SinceFinite ==
  ASSUME NEW times \in Seq(Nat), NEW start \in Int
  PROVE  IsFiniteSet(Since(times, start)) /\ Cardinality(Since(times, start)) \in Nat
<1>1. Since(times, start) \subseteq 1 .. Len(times) /\ Len(times) \in Nat
  BY DEF Since
<1>2. IsFiniteSet(1 .. Len(times))
  BY <1>1, FS_Interval
<1>. QED BY <1>1, <1>2, FS_Subset, FS_CardinalityType, Zenon

\* There are at least as many since an earlier time.
LEMMA SinceEarlier ==
  ASSUME NEW times \in Seq(Nat), NEW a \in Int, NEW b \in Int, a <= b
  PROVE  Cardinality(Since(times, b)) <= Cardinality(Since(times, a))
<1>1. Since(times, b) \subseteq Since(times, a)
  <2>1. \A k \in DOMAIN times : times[k] \in Nat
    OBVIOUS
  <2>. QED BY <2>1 DEF Since
<1>. QED BY <1>1, SinceFinite, FS_Subset, Zenon

\* Recording a failure in the window adds one.
LEMMA SinceAppend ==
  ASSUME NEW times \in Seq(Nat), NEW start \in Int, NEW t \in Nat, start <= t
  PROVE  Cardinality(Since(Append(times, t), start)) = Cardinality(Since(times, start)) + 1
<1>1. /\ DOMAIN times = 1 .. Len(times) /\ Len(times) \in Nat
      /\ DOMAIN Append(times, t) = 1 .. Len(times) + 1
      /\ Append(times, t)[Len(times) + 1] = t
      /\ \A i \in 1 .. Len(times) : Append(times, t)[i] = times[i]
  OBVIOUS
<1>2. 1 .. Len(times) + 1 = (1 .. Len(times)) \cup {Len(times) + 1}
  BY <1>1
<1>3. Since(Append(times, t), start) = Since(times, start) \cup {Len(times) + 1}
  BY <1>1, <1>2, Zenon DEF Since
<1>4. Len(times) + 1 \notin Since(times, start)
  BY <1>1 DEF Since
<1>. QED BY <1>3, <1>4, SinceFinite, FS_AddElement, Zenon

\* windowLocked leaves a window that counts only failures recorded since it
\* started, and no longer than FailureWindow before the call, even when the
\* call's time is older than the window.
LEMMA WindowLockedCounts ==
  ASSUME now \in Nat, NEW w \in Window, NEW times \in Seq(Nat), NEW at \in Nat, at <= now,
         w.windowStart <= now, Counted(w, times)
  PROVE  LET v == windowLocked(w, at) IN
         /\ v \in Window /\ v.known /\ v.windowStart <= now
         /\ v.failures <= Cardinality(Since(times, v.windowStart))
         /\ v.failures <= Cardinality(Since(times, at - FailureWindow))
<1>. DEFINE v == windowLocked(w, at)
<1>1. /\ w.windowStart \in Nat /\ w.failures \in Nat /\ w.known \in BOOLEAN
      /\ FailureWindow \in Nat /\ at - FailureWindow \in Int
  BY ConstantTypes DEF Window
<1>2. \A start \in Int : Cardinality(Since(times, start)) \in Nat
  BY SinceFinite, Zenon
<1>3. CASE ~ w.known
  <2>1. v = [w EXCEPT !.known = TRUE, !.windowStart = at] /\ w.failures = 0
    BY <1>3, Zenon DEF windowLocked, Counted
  <2>2. v \in Window /\ v.known /\ v.windowStart = at /\ v.failures = 0
    BY <2>1, Zenon DEF Window
  <2>. HIDE DEF v
  <2>. QED BY <2>2, <1>1, <1>2 DEF v
<1>4. CASE w.known /\ at - w.windowStart > FailureWindow
  <2>1. v = [w EXCEPT !.windowStart = at, !.failures = 0, !.successes = 0]
    BY <1>4, Zenon DEF windowLocked
  <2>. HIDE DEF v
  <2>2. v \in Window /\ v.windowStart = at /\ v.failures = 0 /\ v.known = w.known
    BY <2>1, Zenon DEF Window
  <2>. QED BY <2>2, <1>1, <1>2, <1>4 DEF v
<1>5. CASE w.known /\ ~ (at - w.windowStart > FailureWindow)
  <2>1. v = w
    BY <1>5, Zenon DEF windowLocked
  <2>2. at - FailureWindow <= w.windowStart
    BY <1>1, <1>5
  <2>. DEFINE a == at - FailureWindow
              b == w.windowStart
  <2>3. a \in Int /\ b \in Int /\ a <= b
    BY <2>2, <1>1
  <2>. HIDE DEF a, b
  <2>4. /\ Cardinality(Since(times, b)) <= Cardinality(Since(times, a))
        /\ Cardinality(Since(times, a)) \in Nat /\ Cardinality(Since(times, b)) \in Nat
    BY <2>3, <1>2, SinceEarlier, Zenon
  <2>5. w.failures <= Cardinality(Since(times, w.windowStart))
    BY Zenon DEF Counted
  <2>6. w.failures <= Cardinality(Since(times, at - FailureWindow))
    BY <2>5, <2>4, <1>1 DEF a, b
  <2>. QED BY <2>1, <2>5, <2>6, <1>5, Zenon
<1>. QED BY <1>1, <1>3, <1>4, <1>5, Zenon

\* There is a number of failures even when none was recorded.
LEMMA SinceNone ==
  ASSUME NEW start \in Int
  PROVE  Cardinality(Since(<< >>, start)) \in Nat
<1>1. << >> \in Seq(Nat)
  OBVIOUS
<1>. QED BY <1>1, SinceFinite, Zenon

\* One more outcome leaves a window a window, with the same start.
LEMMA OneMore ==
  ASSUME NEW v \in Window
  PROVE  /\ [v EXCEPT !.successes = @ + 1] \in Window
         /\ [v EXCEPT !.successes = @ + 1].windowStart = v.windowStart
         /\ [v EXCEPT !.successes = @ + 1].failures = v.failures
         /\ v.known => [v EXCEPT !.successes = @ + 1].known
         /\ [v EXCEPT !.failures = @ + 1] \in Window
         /\ [v EXCEPT !.failures = @ + 1].windowStart = v.windowStart
         /\ [v EXCEPT !.failures = @ + 1].failures = v.failures + 1
         /\ v.known => [v EXCEPT !.failures = @ + 1].known
         /\ v.failures \in Nat /\ v.windowStart \in Nat
<1>1. v.successes + 1 \in Nat /\ v.failures + 1 \in Nat
  BY DEF Window
<1>2. [v EXCEPT !.successes = @ + 1] \in Window /\ [v EXCEPT !.failures = @ + 1] \in Window
  BY <1>1, Zenon DEF Window
<1>3. v.failures \in Nat /\ v.windowStart \in Nat
  BY Zenon DEF Window
<1>4. /\ [v EXCEPT !.successes = @ + 1].windowStart = v.windowStart
      /\ [v EXCEPT !.successes = @ + 1].failures = v.failures
      /\ [v EXCEPT !.failures = @ + 1].windowStart = v.windowStart
      /\ [v EXCEPT !.failures = @ + 1].failures = v.failures + 1
  BY Zenon DEF Window
<1>5. /\ v.known => [v EXCEPT !.successes = @ + 1].known
      /\ v.known => [v EXCEPT !.failures = @ + 1].known
  BY Zenon DEF Window
<1>. QED BY <1>2, <1>3, <1>4, <1>5, Zenon

\* g is f with c for its entry at a and b.
Changed(A, B, C, f, a, b, c, g) ==
  /\ g \in [A -> [B -> C]] /\ g[a][b] = c
  /\ \A x \in A, y \in B : (x # a \/ y # b) => g[x][y] = f[x][y]

\* Changing one entry of a table of two indices.
LEMMA ChangeEntry ==
  ASSUME NEW A, NEW B, NEW C, NEW f \in [A -> [B -> C]], NEW a \in A, NEW b \in B, NEW c \in C,
         NEW g, g = [f EXCEPT ![a][b] = c]
  PROVE  Changed(A, B, C, f, a, b, c, g)
<1>1. g \in [A -> [B -> C]] /\ g[a][b] = c
  OBVIOUS
<1>2. ASSUME NEW x \in A, NEW y \in B, x # a \/ y # b
      PROVE  g[x][y] = f[x][y]
  BY <1>2, Zenon
<1>. QED BY <1>1, <1>2, Zenon DEF Changed

\* One pod's failure window of one domain, changed with the failures it counts.
LEMMA WindowChange ==
  ASSUME IInv, now' = now, NEW p \in Pods, NEW d \in Domains,
         NEW w \in Window, NEW times \in Seq(Nat),
         stats' = [stats EXCEPT ![p][d] = w], failedAt' = [failedAt EXCEPT ![p][d] = times],
         w.windowStart <= now, Counted(w, times)
  PROVE  StatsOK'
<1>1. stats \in [Pods -> [Domains -> Window]] /\ failedAt \in [Pods -> [Domains -> Seq(Nat)]]
  BY Zenon DEF IInv, StatsOK
<1>2. /\ stats' \in [Pods -> [Domains -> Window]] /\ stats'[p][d] = w
      /\ \A q \in Pods, e \in Domains : (q # p \/ e # d) => stats'[q][e] = stats[q][e]
  <2>1. Changed(Pods, Domains, Window, stats, p, d, w, stats')
    BY <1>1, ChangeEntry, Zenon
  <2>. QED BY <2>1, Zenon DEF Changed
<1>3. /\ failedAt' \in [Pods -> [Domains -> Seq(Nat)]] /\ failedAt'[p][d] = times
      /\ \A q \in Pods, e \in Domains : (q # p \/ e # d) => failedAt'[q][e] = failedAt[q][e]
  <2>1. Changed(Pods, Domains, Seq(Nat), failedAt, p, d, times, failedAt')
    BY <1>1, ChangeEntry, Zenon
  <2>. QED BY <2>1, Zenon DEF Changed
<1>4. ASSUME NEW q \in Pods, NEW e \in Domains
      PROVE  \/ stats'[q][e] = stats[q][e] /\ failedAt'[q][e] = failedAt[q][e]
             \/ stats'[q][e].windowStart <= now /\ Counted(stats'[q][e], failedAt'[q][e])
  <2>1. CASE q = p /\ e = d
    BY <1>2, <1>3, <2>1, ZenonT(30)
  <2>2. CASE q # p \/ e # d
    BY <1>2, <1>3, <2>2, Zenon
  <2>. QED BY <2>1, <2>2, Zenon
<1>. QED BY <1>2, <1>3, <1>4, StatsChange, Zenon

-----------------------------------------------------------------------------
(* The invariant is inductive. *)

\* Nothing is broken, recorded or under way at the start.
LEMMA InitIInv == Init => IInv
<1>. SUFFICES ASSUME Init PROVE IInv
  OBVIOUS
<1>1. CacheOK
  BY Zenon DEF Init, CacheOK, Entry, NoEntry, NoBreak, Break, Within
<1>2. RedisOK
  BY Zenon DEF Init, RedisOK, NoBreak, Break
<1>3. MarkOK /\ RefreshOK
  BY Zenon DEF Init, MarkOK, RefreshOK
<1>4. StatsOK
  <2>1. /\ stats \in [Pods -> [Domains -> Window]]
        /\ failedAt \in [Pods -> [Domains -> Seq(Nat)]]
    BY DEF Init, NoWindow, Window
  <2>2. Cardinality(Since(<< >>, 0)) \in Nat
    BY SinceNone
  <2>3. \A p \in Pods, d \in Domains : stats[p][d] = NoWindow /\ failedAt[p][d] = << >>
    BY Zenon DEF Init
  <2>. QED BY <2>1, <2>2, <2>3 DEF Init, StatsOK, Counted, NoWindow
<1>. QED BY <1>1, <1>2, <1>3, <1>4 DEF Init, IInv

\* A relay that succeeded is counted in its window.
LEMMA RecordSuccessStep ==
  ASSUME IInv, NEW p \in Pods, NEW d \in Domains, RecordSuccess(p, d)
  PROVE  IInv'
<1>. DEFINE v == windowLocked(stats[p][d], now)
            w == [v EXCEPT !.successes = @ + 1]
<1>1. now \in Nat /\ now' = now /\ UNCHANGED <<cache, redis, mark, refresh, failedAt>>
  BY Zenon DEF IInv, RecordSuccess
<1>2. stats' = [stats EXCEPT ![p][d] = w]
  BY Zenon DEF RecordSuccess
<1>3. /\ v \in Window /\ v.known /\ v.windowStart <= now
      /\ v.failures <= Cardinality(Since(failedAt[p][d], v.windowStart))
  <2>1. /\ stats[p][d] \in Window /\ failedAt[p][d] \in Seq(Nat)
        /\ stats[p][d].windowStart <= now /\ Counted(stats[p][d], failedAt[p][d])
    BY Zenon DEF IInv, StatsOK
  <2>. QED BY <1>1, <2>1, WindowLockedCounts
<1>. HIDE DEF v
<1>4. /\ w \in Window /\ w.windowStart = v.windowStart
      /\ w.failures = v.failures /\ w.known
  BY <1>3, OneMore, Zenon
<1>. HIDE DEF w
<1>7. StatsOK'
  <2>. DEFINE times == failedAt[p][d]
  <2>1. w.windowStart <= now /\ Counted(w, times)
    BY <1>3, <1>4, Zenon DEF Counted
  <2>2. times \in Seq(Nat) /\ failedAt' = [failedAt EXCEPT ![p][d] = times]
    BY <1>1, Zenon DEF IInv, StatsOK
  <2>. HIDE DEF times
  <2>. QED BY <1>1, <1>2, <1>4, <2>1, <2>2, WindowChange, Zenon
<1>8. now' \in Nat \ {0} /\ CacheOK' /\ RedisOK' /\ MarkOK' /\ RefreshOK'
  BY <1>1, Untouched, Zenon
<1>. QED BY <1>7, <1>8, Zenon DEF IInv

\* A failed relay enters MarkBroken with the time it read.
LEMMA MarkBrokenStep ==
  ASSUME IInv, NEW p \in Pods, NEW i \in Marks, NEW d \in Domains, MarkBroken(p, i, d)
  PROVE  IInv'
<1>. DEFINE m == [pc |-> "gate", domain |-> d, at |-> now, hitCount |-> 0]
<1>1. now \in Nat /\ now' = now /\ UNCHANGED <<cache, redis, stats, refresh, failedAt>>
  BY Zenon DEF IInv, MarkBroken
<1>2. mark' = [mark EXCEPT ![p][i] = m] /\ m \in MarkCall /\ m.at = now
  BY <1>1, Zenon DEF MarkBroken, MarkCall
<1>. HIDE DEF m
<1>3. mark \in [Pods -> [Marks -> MarkCall \cup {NoMark}]]
  BY Zenon DEF IInv, MarkOK
<1>4. /\ mark' \in [Pods -> [Marks -> MarkCall \cup {NoMark}]] /\ mark'[p][i] = m
      /\ \A q \in Pods, k \in Marks : (q # p \/ k # i) => mark'[q][k] = mark[q][k]
  <2>1. Changed(Pods, Marks, MarkCall \cup {NoMark}, mark, p, i, m, mark')
    BY <1>2, <1>3, ChangeEntry, Zenon
  <2>. QED BY <2>1, Zenon DEF Changed
<1>5. MarkOK'
  BY <1>1, <1>2, <1>4, MarkChange
<1>6. now' \in Nat \ {0} /\ CacheOK' /\ RedisOK' /\ StatsOK' /\ RefreshOK'
  BY <1>1, Untouched, Zenon
<1>. QED BY <1>5, <1>6, Zenon DEF IInv

\* The window, the failures it counts and the call after the gate; and, when the
\* gate says yes, the failures that earned it.
LEMMA ShouldBreakStep ==
  ASSUME IInv, NEW p \in Pods, NEW i \in Marks, shouldBreak(p, i)
  PROVE  /\ IInv'
         /\ mark'[p][i].pc = "install" =>
              Cardinality(Since(failedAt[p][mark[p][i].domain], mark[p][i].at - FailureWindow)) + 1
                >= MinFailures
         /\ \A q \in Pods, k \in Marks : (q # p \/ k # i) => mark'[q][k] = mark[q][k]
<1>. DEFINE m == mark[p][i]
            d == m.domain
            times == failedAt[p][d]
            w0 == windowLocked(stats[p][d], m.at)
            w == [w0 EXCEPT !.failures = @ + 1]
            hit == IF RecentlyBroken(w, m.at) THEN w.lastHitCount + 1 ELSE 1
            broken == [known |-> TRUE, windowStart |-> m.at, failures |-> 0, successes |-> 0,
                       lastEpisodeAt |-> m.at, lastHitCount |-> hit]
<1>1. now \in Nat /\ now' = now /\ UNCHANGED <<cache, redis, refresh>> /\ m.pc = "gate"
  BY Zenon DEF IInv, shouldBreak
<1>2. m \in MarkCall /\ d \in Domains /\ m.at \in Nat /\ m.at <= now
  BY <1>1 DEF IInv, MarkOK, MarkCall, NoMark
<1>3. \/ /\ ExceedsRate(w, m.at)
         /\ stats' = [stats EXCEPT ![p][d] = broken]
         /\ mark' = [mark EXCEPT ![p][i].pc = "install", ![p][i].hitCount = hit]
         /\ failedAt' = [failedAt EXCEPT ![p][d] = << >>]
      \/ /\ stats' = [stats EXCEPT ![p][d] = w]
         /\ mark' = [mark EXCEPT ![p][i] = NoMark]
         /\ failedAt' = [failedAt EXCEPT ![p][d] = Append(@, now)]
  BY Zenon DEF shouldBreak
<1>4. times \in Seq(Nat) /\ stats[p][d] \in Window
  BY <1>2, Zenon DEF IInv, StatsOK
<1>5. /\ w0 \in Window /\ w0.known /\ w0.windowStart <= now
      /\ w0.failures <= Cardinality(Since(times, w0.windowStart))
      /\ w0.failures <= Cardinality(Since(times, m.at - FailureWindow))
  <2>1. stats[p][d].windowStart <= now /\ Counted(stats[p][d], times)
    BY <1>2, Zenon DEF IInv, StatsOK
  <2>. QED BY <1>1, <1>2, <1>4, <2>1, WindowLockedCounts, Zenon
<1>6. /\ stats \in [Pods -> [Domains -> Window]] /\ failedAt \in [Pods -> [Domains -> Seq(Nat)]]
      /\ mark \in [Pods -> [Marks -> MarkCall \cup {NoMark}]]
  BY Zenon DEF IInv, StatsOK, MarkOK
<1>. HIDE DEF w0
<1>7. /\ w \in Window /\ w.windowStart = w0.windowStart /\ w.known
      /\ w.failures = w0.failures + 1 /\ w0.failures \in Nat /\ w0.windowStart \in Nat
  BY <1>5, OneMore, Zenon
<1>8. hit \in Nat
  BY <1>7 DEF Window
<1>. HIDE DEF w, hit
<1>9. CASE /\ ExceedsRate(w, m.at)
           /\ stats' = [stats EXCEPT ![p][d] = broken]
           /\ mark' = [mark EXCEPT ![p][i].pc = "install", ![p][i].hitCount = hit]
           /\ failedAt' = [failedAt EXCEPT ![p][d] = << >>]
  <2>1. broken \in Window /\ broken.windowStart = m.at /\ broken.failures = 0 /\ broken.known
    BY <1>2, <1>8, Zenon DEF Window
  <2>. HIDE DEF broken
  <2>5. Counted(broken, << >>) /\ broken.windowStart <= now
    <3>1. broken.windowStart \in Int /\ broken.windowStart <= now
      BY <1>2, <2>1
    <3>2. Cardinality(Since(<< >>, broken.windowStart)) \in Nat
      BY <3>1, SinceNone, Zenon
    <3>3. broken.failures <= Cardinality(Since(<< >>, broken.windowStart))
      BY <2>1, <3>2
    <3>. QED BY <2>1, <3>1, <3>3, Zenon DEF Counted
  <2>6. StatsOK'
    <3>1. /\ << >> \in Seq(Nat) /\ failedAt' = [failedAt EXCEPT ![p][d] = << >>]
          /\ stats' = [stats EXCEPT ![p][d] = broken]
      BY <1>9
    <3>. HIDE DEF m, d
    <3>. QED BY <1>1, <1>2, <2>1, <2>5, <3>1, WindowChange, Zenon
  <2>. DEFINE n == [m EXCEPT !.pc = "install", !.hitCount = hit]
  <2>7. n \in MarkCall /\ n.at = m.at /\ mark' = [mark EXCEPT ![p][i] = n]
    BY <1>2, <1>6, <1>8, <1>9, Zenon DEF MarkCall
  <2>. HIDE DEF n
  <2>8. /\ mark' \in [Pods -> [Marks -> MarkCall \cup {NoMark}]] /\ mark'[p][i] = n
        /\ \A q \in Pods, k \in Marks : (q # p \/ k # i) => mark'[q][k] = mark[q][k]
    <3>1. Changed(Pods, Marks, MarkCall \cup {NoMark}, mark, p, i, n, mark')
      BY <1>6, <2>7, ChangeEntry, Zenon
    <3>. QED BY <3>1, Zenon DEF Changed
  <2>9. MarkOK'
    BY <1>1, <1>2, <2>7, <2>8, MarkChange, Zenon
  <2>10. w.failures >= MinFailures
    BY <1>9, Zenon DEF ExceedsRate
  <2>11. Cardinality(Since(times, m.at - FailureWindow)) \in Nat
    <3>1. m.at - FailureWindow \in Int
      BY <1>2, ConstantTypes
    <3>. QED BY <3>1, <1>4, SinceFinite, Zenon
  <2>12. Cardinality(Since(times, m.at - FailureWindow)) + 1 >= MinFailures
    <3>1. w0.failures \in Nat /\ w0.failures + 1 >= MinFailures
      BY <1>7, <2>10, Zenon
    <3>2. w0.failures <= Cardinality(Since(times, m.at - FailureWindow))
      BY <1>5, Zenon
    <3>3. MinFailures \in Nat
      BY ConstantTypes, Zenon
    <3>. QED BY ONLY <2>11, <3>1, <3>2, <3>3, SMTT(30)
  <2>13. now' \in Nat \ {0} /\ CacheOK' /\ RedisOK' /\ RefreshOK'
    BY <1>1, Untouched, Zenon
  <2>14. IInv'
    BY <2>6, <2>9, <2>13, Zenon DEF IInv
  <2>. QED BY <2>8, <2>12, <2>14, Zenon
<1>10. CASE /\ stats' = [stats EXCEPT ![p][d] = w]
            /\ mark' = [mark EXCEPT ![p][i] = NoMark]
            /\ failedAt' = [failedAt EXCEPT ![p][d] = Append(@, now)]
  <2>1. Append(times, now) \in Seq(Nat)
    BY <1>1, <1>4
  <2>2. stats' = [stats EXCEPT ![p][d] = w] /\ failedAt' = [failedAt EXCEPT ![p][d] = Append(times, now)]
    BY <1>10, Zenon
  <2>3. /\ Cardinality(Since(Append(times, now), w.windowStart))
             = Cardinality(Since(times, w.windowStart)) + 1
        /\ Cardinality(Since(times, w.windowStart)) \in Nat
    <3>. DEFINE start == w.windowStart
    <3>1. start \in Int /\ start <= now
      BY <1>5, <1>7
    <3>. HIDE DEF start, times
    <3>2. /\ Cardinality(Since(Append(times, now), start))
               = Cardinality(Since(times, start)) + 1
          /\ Cardinality(Since(times, start)) \in Nat
      BY <3>1, <1>1, <1>4, SinceAppend, SinceFinite, Zenon
    <3>. QED BY <3>2, Zenon DEF start
  <2>. HIDE DEF times
  <2>4. Counted(w, Append(times, now)) /\ w.windowStart <= now
    BY <1>5, <1>7, <2>3 DEF Counted
  <2>5. StatsOK'
    <3>. DEFINE more == Append(times, now)
    <3>1. more \in Seq(Nat) /\ Counted(w, more) /\ failedAt' = [failedAt EXCEPT ![p][d] = more]
      BY <2>1, <2>2, <2>4, Zenon
    <3>. HIDE DEF m, d, more
    <3>. QED BY <1>1, <1>2, <1>7, <2>2, <2>4, <3>1, WindowChange, Zenon
  <2>6. /\ mark'[p][i] = NoMark /\ mark' \in [Pods -> [Marks -> MarkCall \cup {NoMark}]]
        /\ \A q \in Pods, k \in Marks : (q # p \/ k # i) => mark'[q][k] = mark[q][k]
    <3>1. mark' = [mark EXCEPT ![p][i] = NoMark] /\ NoMark \in MarkCall \cup {NoMark}
      BY <1>10, Zenon
    <3>2. Changed(Pods, Marks, MarkCall \cup {NoMark}, mark, p, i, NoMark, mark')
      BY <1>6, <3>1, ChangeEntry, Zenon
    <3>. QED BY <3>2, Zenon DEF Changed
  <2>7. MarkOK'
    BY <1>1, <2>6, MarkChange
  <2>8. mark'[p][i].pc # "install"
    BY <2>6 DEF NoMark
  <2>9. now' \in Nat \ {0} /\ CacheOK' /\ RedisOK' /\ RefreshOK'
    BY <1>1, Untouched, Zenon
  <2>10. IInv'
    BY <2>5, <2>7, <2>9, Zenon DEF IInv
  <2>. QED BY <2>6, <2>8, <2>10, Zenon
<1>. QED BY <1>3, <1>9, <1>10, Zenon

\* The break MarkBroken computes is within the TTL of its hit count.
LEMMA NewBreak ==
  ASSUME now \in Nat, NEW m \in MarkCall, m.at <= now
  PROVE  LET b == [expiry |-> m.at + escalatedTTL(m.hitCount), hitCount |-> m.hitCount]
             e == [expiry |-> Unix(m.at + escalatedTTL(m.hitCount)), hitCount |-> m.hitCount]
         IN /\ b \in Break /\ Within(b)
            /\ e \in Break /\ e.expiry * TicksPerSecond <= now + escalatedTTL(e.hitCount)
<1>. DEFINE ttl == escalatedTTL(m.hitCount)
<1>1. m.at \in Nat /\ m.hitCount \in Nat
  BY Zenon DEF MarkCall
<1>2. ttl \in Nat
  BY <1>1, EscalatedTTLBound, Zenon
<1>. HIDE DEF ttl
<1>3. /\ Unix(m.at + ttl) \in Nat
      /\ Unix(m.at + ttl) * TicksPerSecond <= m.at + ttl
  BY <1>1, <1>2, UnixBound
<1>4. Unix(m.at + ttl) * TicksPerSecond <= now + ttl
  <2>. DEFINE u == Unix(m.at + ttl) * TicksPerSecond
  <2>1. u \in Nat
    BY <1>3, ConstantTypes
  <2>. HIDE DEF u
  <2>2. u <= m.at + ttl
    BY <1>3, Zenon DEF u
  <2>3. u <= now + ttl
    BY <2>1, <2>2, <1>1, <1>2
  <2>. QED BY <2>3, Zenon DEF u
<1>. QED BY <1>1, <1>2, <1>3, <1>4 DEF Break, Within, ttl

\* The break is installed in the pod's cache, over whatever is there by then.
LEMMA InstallStep ==
  ASSUME IInv, NEW p \in Pods, NEW i \in Marks, install(p, i)
  PROVE  IInv' /\ NoGate /\ NoMerge
<1>. DEFINE m == mark[p][i]
            b == [expiry |-> m.at + escalatedTTL(m.hitCount), hitCount |-> m.hitCount]
            domains == [cache[p].domains EXCEPT ![m.domain] = b]
            refreshAt == IF cache[p].exists THEN cache[p].refreshAt ELSE m.at + CacheTTL
            entry == [exists |-> TRUE, domains |-> domains, refreshAt |-> refreshAt]
            n == [m EXCEPT !.pc = "publish"]
<1>1. /\ now \in Nat /\ now' = now /\ UNCHANGED <<redis, stats, refresh, failedAt>>
      /\ m.pc = "install"
      /\ cache' = [cache EXCEPT ![p] = entry]
      /\ mark' = [mark EXCEPT ![p][i].pc = "publish"]
  BY Zenon DEF IInv, install
<1>2. /\ mark \in [Pods -> [Marks -> MarkCall \cup {NoMark}]] /\ cache \in [Pods -> Entry]
  BY Zenon DEF IInv, MarkOK, CacheOK
<1>3. m \in MarkCall /\ m.at <= now
  BY <1>1 DEF IInv, MarkOK, NoMark
<1>4. n \in MarkCall /\ n.at = m.at /\ n.pc = "publish" /\ mark' = [mark EXCEPT ![p][i] = n]
  BY <1>1, <1>2, <1>3, Zenon DEF MarkCall
<1>. HIDE DEF n
<1>5. /\ mark' \in [Pods -> [Marks -> MarkCall \cup {NoMark}]] /\ mark'[p][i] = n
      /\ \A q \in Pods, k \in Marks : (q # p \/ k # i) => mark'[q][k] = mark[q][k]
  <2>1. Changed(Pods, Marks, MarkCall \cup {NoMark}, mark, p, i, n, mark')
    BY <1>2, <1>4, ChangeEntry, Zenon
  <2>. QED BY <2>1, Zenon DEF Changed
<1>6. MarkOK' /\ NoGate
  <2>1. MarkOK'
    BY <1>1, <1>3, <1>4, <1>5, MarkChange
  <2>2. NoGate
    BY <1>4, <1>5, Zenon DEF NoGate
  <2>. QED BY <2>1, <2>2, Zenon
<1>7. b \in Break /\ Within(b)
  BY <1>1, <1>3, NewBreak, Zenon
<1>8. /\ cache[p].domains \in [Domains -> Break] /\ cache[p].refreshAt \in Nat
      /\ m.domain \in Domains /\ m.at \in Nat
  BY <1>2, <1>3, Zenon DEF Entry, MarkCall
<1>. HIDE DEF b, m
<1>9. /\ domains \in [Domains -> Break] /\ refreshAt \in Nat
      /\ \A d \in Domains : domains[d] = b \/ domains[d] = cache[p].domains[d]
  BY <1>7, <1>8, ConstantTypes
<1>. HIDE DEF domains, refreshAt
<1>10. entry \in Entry /\ entry.exists /\ entry.domains = domains
  BY <1>9, Zenon DEF Entry
<1>. HIDE DEF entry
<1>11. \A d \in Domains : Within(entry.domains[d])
  BY <1>7, <1>9, <1>10, Zenon DEF IInv, CacheOK
<1>12. CacheOK'
  BY <1>1, <1>10, <1>11, CacheChange, Zenon
<1>13. now' \in Nat \ {0} /\ RedisOK' /\ StatsOK' /\ RefreshOK' /\ NoMerge
  BY <1>1, Untouched, Zenon
<1>. QED BY <1>6, <1>12, <1>13, Zenon DEF IInv

\* The HSET, with the expiry in whole seconds, or its failure.
LEMMA PublishStep ==
  ASSUME IInv, NEW p \in Pods, NEW i \in Marks, publish(p, i)
  PROVE  IInv' /\ NoGate /\ NoMerge
<1>. DEFINE m == mark[p][i]
            e == [expiry |-> Unix(m.at + escalatedTTL(m.hitCount)), hitCount |-> m.hitCount]
<1>1. /\ now \in Nat /\ now' = now /\ UNCHANGED <<cache, stats, refresh, failedAt>>
      /\ m.pc = "publish"
      /\ mark' = [mark EXCEPT ![p][i] = NoMark]
      /\ redis' = redis \/ redis' = [redis EXCEPT ![m.domain] = e]
  BY Zenon DEF IInv, publish
<1>2. mark \in [Pods -> [Marks -> MarkCall \cup {NoMark}]] /\ redis \in [Domains -> Break]
  BY Zenon DEF IInv, MarkOK, RedisOK
<1>3. m \in MarkCall /\ m.at <= now /\ m.domain \in Domains
  BY <1>1 DEF IInv, MarkOK, NoMark, MarkCall
<1>4. /\ mark' \in [Pods -> [Marks -> MarkCall \cup {NoMark}]] /\ mark'[p][i] = NoMark
      /\ \A q \in Pods, k \in Marks : (q # p \/ k # i) => mark'[q][k] = mark[q][k]
  <2>1. Changed(Pods, Marks, MarkCall \cup {NoMark}, mark, p, i, NoMark, mark')
    BY <1>1, <1>2, ChangeEntry, Zenon
  <2>. QED BY <2>1, Zenon DEF Changed
<1>5. MarkOK' /\ NoGate
  <2>1. MarkOK'
    BY <1>1, <1>4, MarkChange, Zenon
  <2>2. NoGate
    BY <1>4 DEF NoGate, NoMark
  <2>. QED BY <2>1, <2>2, Zenon
<1>6. e \in Break /\ e.expiry * TicksPerSecond <= now + escalatedTTL(e.hitCount)
  BY <1>1, <1>3, NewBreak, Zenon
<1>. HIDE DEF e, m
<1>7. RedisOK'
  <2>1. CASE redis' = redis
    BY <1>1, <2>1, Untouched, Zenon
  <2>2. CASE redis' = [redis EXCEPT ![m.domain] = e]
    <3>1. /\ redis' \in [Domains -> Break] /\ redis'[m.domain] = e
          /\ \A d \in Domains : d # m.domain => redis'[d] = redis[d]
      BY <1>2, <1>3, <1>6, <2>2, Zenon
    <3>. QED BY <1>1, <1>6, <3>1, Zenon DEF IInv, RedisOK
  <2>. QED BY <1>1, <2>1, <2>2, Zenon
<1>8. now' \in Nat \ {0} /\ CacheOK' /\ StatsOK' /\ RefreshOK' /\ NoMerge
  BY <1>1, Untouched, Zenon
<1>. QED BY <1>5, <1>7, <1>8, Zenon DEF IInv

\* Redis cannot be read: the pod forgets only what has expired.
LEMMA RefreshLocalStep ==
  ASSUME IInv, NEW p \in Pods, refreshLocal(p)
  PROVE  IInv' /\ NoGate /\ NoMerge
<1>. DEFINE entry == [cache[p] EXCEPT !.domains = Purged(@), !.refreshAt = now + CacheTTL]
<1>1. now \in Nat /\ now' = now /\ UNCHANGED <<redis, stats, mark, refresh, failedAt>>
  BY Zenon DEF IInv, refreshLocal
<1>2. cache \in [Pods -> Entry]
  BY Zenon DEF IInv, CacheOK
<1>. SUFFICES CacheOK'
  <2>1. /\ now' \in Nat \ {0} /\ RedisOK' /\ StatsOK' /\ MarkOK' /\ RefreshOK'
        /\ NoGate /\ NoMerge
    BY <1>1, Untouched, Zenon
  <2>. QED BY <2>1, Zenon DEF IInv
<1>3. CASE cache' = cache
  BY <1>1, <1>3, Untouched, Zenon
<1>4. CASE /\ cache[p].exists
           /\ cache' = [cache EXCEPT ![p].domains = Purged(@), ![p].refreshAt = now + CacheTTL]
  <2>1. cache' = [cache EXCEPT ![p] = entry]
    BY <1>2, <1>4, Zenon
  <2>2. /\ Purged(cache[p].domains) \in [Domains -> Break] /\ now + CacheTTL \in Nat
        /\ \A d \in Domains : Purged(cache[p].domains)[d] \in {NoBreak, cache[p].domains[d]}
    BY <1>1, <1>2, ConstantTypes DEF Purged, Entry, Break, NoBreak
  <2>3. entry \in Entry /\ entry.exists /\ entry.domains = Purged(cache[p].domains)
    BY <1>2, <1>4, <2>2, Zenon DEF Entry
  <2>. HIDE DEF entry
  <2>4. \A d \in Domains : Within(entry.domains[d])
    BY <2>2, <2>3, SMTT(30) DEF IInv, CacheOK, Within
  <2>. QED BY <1>1, <2>1, <2>3, <2>4, CacheChange, Zenon
<1>. QED BY <1>3, <1>4, Zenon DEF refreshLocal

\* A refresh changes one call: the rest of the invariant is untouched.
LEMMA OneRefresh ==
  ASSUME IInv, NEW p \in Pods, NEW j \in Refreshes, NEW r \in RefreshCall \cup {NoRefresh},
         refresh' = [refresh EXCEPT ![p][j] = r], now' = now,
         r # NoRefresh => r.at <= now /\ \A d \in Domains : Within(r.broken[d])
  PROVE  /\ RefreshOK'
         /\ r.pc # "iterate" => NoMerge
         /\ \A q \in Pods, k \in Refreshes : (q # p \/ k # j) => refresh'[q][k] = refresh[q][k]
<1>1. refresh \in [Pods -> [Refreshes -> RefreshCall \cup {NoRefresh}]]
  BY Zenon DEF IInv, RefreshOK
<1>2. /\ refresh' \in [Pods -> [Refreshes -> RefreshCall \cup {NoRefresh}]]
      /\ refresh'[p][j] = r
      /\ \A q \in Pods, k \in Refreshes : (q # p \/ k # j) => refresh'[q][k] = refresh[q][k]
  <2>1. Changed(Pods, Refreshes, RefreshCall \cup {NoRefresh}, refresh, p, j, r, refresh')
    BY <1>1, ChangeEntry, Zenon
  <2>. QED BY <2>1, Zenon DEF Changed
<1>3. RefreshOK'
  BY <1>2, RefreshChange
<1>4. r.pc # "iterate" => NoMerge
  BY <1>2, Zenon DEF NoMerge
<1>. QED BY <1>2, <1>3, <1>4, Zenon

\* HGETALL: what is read is within its TTL, back in ticks.
LEMMA RefreshFromRedisStep ==
  ASSUME IInv, NEW p \in Pods, NEW j \in Refreshes, refreshFromRedis(p, j)
  PROVE  IInv' /\ NoGate /\ NoMerge
<1>. DEFINE expired == {d \in Domains : redis[d] # NoBreak /\ redis[d].expiry <= Unix(now)}
            read(d) == [redis[d] EXCEPT !.expiry = @ * TicksPerSecond]
            broken == [d \in Domains |-> IF redis[d].expiry > Unix(now) THEN read(d) ELSE NoBreak]
            r == [pc |-> IF expired = {} THEN "merge" ELSE "reap", at |-> now, shared |-> FALSE,
                  broken |-> broken, expired |-> expired]
<1>1. /\ now \in Nat /\ now' = now /\ UNCHANGED <<cache, redis, stats, mark, failedAt>>
      /\ refresh' = [refresh EXCEPT ![p][j] = r]
  BY Zenon DEF IInv, refreshFromRedis
<1>2. redis \in [Domains -> Break] /\ Unix(now) \in Nat
  BY <1>1, UnixBound, Zenon DEF IInv, RedisOK
<1>3. ASSUME NEW d \in Domains
      PROVE  broken[d] \in Break /\ Within(broken[d])
  <2>1. CASE redis[d].expiry > Unix(now)
    <3>1. redis[d].expiry \in Nat /\ redis[d].hitCount \in Nat /\ redis[d] # NoBreak
      BY <1>2, <2>1 DEF Break, NoBreak
    <3>2. redis[d].expiry * TicksPerSecond \in Nat
      BY <3>1, ConstantTypes
    <3>3. /\ read(d) \in Break /\ read(d).expiry = redis[d].expiry * TicksPerSecond
          /\ read(d).hitCount = redis[d].hitCount
      BY <1>2, <3>2, Zenon DEF Break
    <3>4. read(d).expiry <= now + escalatedTTL(read(d).hitCount)
      BY <3>1, <3>3, Zenon DEF IInv, RedisOK
    <3>. QED BY <2>1, <3>3, <3>4, Zenon DEF Within
  <2>2. CASE ~ (redis[d].expiry > Unix(now))
    BY <2>2, Zenon DEF Break, NoBreak, Within
  <2>. QED BY <2>1, <2>2, Zenon
<1>. HIDE DEF broken
<1>4. broken \in [Domains -> Break]
  BY <1>3, Zenon DEF broken
<1>5. r \in RefreshCall /\ r.at = now /\ r.broken = broken /\ r.pc # "iterate"
  BY <1>1, <1>4, Zenon DEF RefreshCall
<1>. HIDE DEF r
<1>6. /\ r \in RefreshCall \cup {NoRefresh}
      /\ r.at <= now /\ \A d \in Domains : Within(r.broken[d])
  BY <1>1, <1>3, <1>5
<1>7. RefreshOK' /\ NoMerge
  BY <1>1, <1>5, <1>6, OneRefresh, Zenon
<1>8. now' \in Nat \ {0} /\ CacheOK' /\ RedisOK' /\ StatsOK' /\ MarkOK' /\ NoGate
  BY <1>1, Untouched, Zenon
<1>. QED BY <1>7, <1>8, Zenon DEF IInv

\* The entries Redis keeps when it drops others are still within their TTL.
LEMMA RedisShrinks ==
  ASSUME IInv, now' = now, redis' \in [Domains -> Break],
         \A d \in Domains : redis'[d] \in {NoBreak, redis[d]}
  PROVE  RedisOK'
BY Zenon DEF IInv, RedisOK

\* HDEL of what had expired when it was read, or its failure.
LEMMA ReapStep ==
  ASSUME IInv, NEW p \in Pods, NEW j \in Refreshes, reap(p, j)
  PROVE  IInv' /\ NoGate /\ NoMerge
<1>. DEFINE r == refresh[p][j]
            n == [r EXCEPT !.pc = "merge", !.expired = {}]
<1>1. /\ now \in Nat /\ now' = now /\ UNCHANGED <<cache, stats, mark, failedAt>>
      /\ r.pc = "reap"
      /\ refresh' = [refresh EXCEPT ![p][j].pc = "merge", ![p][j].expired = {}]
      /\ \/ redis' = redis
         \/ redis' = [d \in Domains |-> IF d \in r.expired THEN NoBreak ELSE redis[d]]
  BY Zenon DEF IInv, reap
<1>2. /\ refresh \in [Pods -> [Refreshes -> RefreshCall \cup {NoRefresh}]]
      /\ redis \in [Domains -> Break] /\ NoBreak \in Break
  BY Zenon DEF IInv, RefreshOK, RedisOK, NoBreak, Break
<1>3. r \in RefreshCall /\ r.at <= now /\ \A d \in Domains : Within(r.broken[d])
  BY <1>1 DEF IInv, RefreshOK, NoRefresh
<1>4. refresh' = [refresh EXCEPT ![p][j] = n]
  BY <1>1, <1>2
<1>5. n \in RefreshCall /\ n.at = r.at /\ n.broken = r.broken /\ n.pc # "iterate"
  BY <1>3, Zenon DEF RefreshCall
<1>. HIDE DEF n
<1>6. /\ n \in RefreshCall \cup {NoRefresh}
      /\ n.at <= now /\ \A d \in Domains : Within(n.broken[d])
  BY <1>3, <1>5, Zenon
<1>7. RefreshOK' /\ NoMerge
  <2>1. now' = now /\ n.pc # "iterate"
    BY <1>1, <1>5, Zenon
  <2>. HIDE DEF r
  <2>. QED BY <2>1, <1>4, <1>6, OneRefresh, Zenon
<1>8. RedisOK'
  BY <1>1, <1>2, RedisShrinks, Zenon DEF IInv
<1>9. now' \in Nat \ {0} /\ CacheOK' /\ StatsOK' /\ MarkOK' /\ NoGate
  BY <1>1, Untouched, Zenon
<1>. QED BY <1>7, <1>8, <1>9, Zenon DEF IInv

\* The refresh has read the map it published.
LEMMA IterateStep ==
  ASSUME IInv, NEW p \in Pods, NEW j \in Refreshes, iterate(p, j)
  PROVE  IInv' /\ NoGate /\ NoMerge
<1>1. /\ now \in Nat /\ now' = now /\ UNCHANGED <<cache, redis, stats, mark, failedAt>>
      /\ refresh' = [refresh EXCEPT ![p][j] = NoRefresh]
  BY Zenon DEF IInv, iterate
<1>2. NoRefresh \in RefreshCall \cup {NoRefresh} /\ NoRefresh.pc # "iterate"
  BY Zenon DEF NoRefresh
<1>3. RefreshOK' /\ NoMerge
  BY <1>1, <1>2, OneRefresh, Zenon
<1>4. now' \in Nat \ {0} /\ CacheOK' /\ RedisOK' /\ StatsOK' /\ MarkOK' /\ NoGate
  BY <1>1, Untouched, Zenon
<1>. QED BY <1>3, <1>4, Zenon DEF IInv

\* The merge keeps, for each domain, the later of the local break and the stored
\* one; and it is the only step of this call that ends a merge.
LEMMA MergeStep ==
  ASSUME IInv, NEW p \in Pods, NEW j \in Refreshes, merge(p, j)
  PROVE  /\ IInv' /\ NoGate
         /\ \A q \in Pods, k \in Refreshes :
              (q # p \/ k # j) => refresh'[q][k].pc = refresh[q][k].pc
         /\ \A d \in Domains :
              LET after == cache'[p].domains[d].expiry
              IN /\ d \in filterExpiredDomains(p) => after >= cache[p].domains[d].expiry
                 /\ refresh[p][j].broken[d].expiry > now => after >= refresh[p][j].broken[d].expiry
<1>. DEFINE r == refresh[p][j]
            local(d) == IF cache[p].exists THEN cache[p].domains[d] ELSE NoBreak
            domains == [d \in Domains |-> Merged(local(d), r.broken[d], r.at)]
            entry == [exists |-> TRUE, refreshAt |-> r.at + CacheTTL, domains |-> domains]
            n == [r EXCEPT !.pc = "iterate", !.shared = TRUE, !.at = 1,
                           !.broken = [d \in Domains |-> NoBreak]]
            calls == [k \in Refreshes |->
                        IF k = j THEN n
                        ELSE IF refresh[p][k] = NoRefresh THEN NoRefresh
                             ELSE [refresh[p][k] EXCEPT !.shared = FALSE]]
<1>1. /\ now \in Nat \ {0} /\ now' = now /\ UNCHANGED <<redis, stats, mark, failedAt>>
      /\ r.pc = "merge"
  BY Zenon DEF IInv, merge
<1>2. cache' = [cache EXCEPT ![p] = entry]
  BY Zenon DEF merge
<1>3. refresh' = [refresh EXCEPT ![p] = calls]
  BY Zenon DEF merge, IInv, RefreshOK
<1>4. /\ cache \in [Pods -> Entry]
      /\ refresh \in [Pods -> [Refreshes -> RefreshCall \cup {NoRefresh}]]
      /\ NoBreak \in Break
  BY Zenon DEF IInv, CacheOK, RefreshOK, NoBreak, Break
<1>5. r \in RefreshCall /\ r.at <= now /\ \A d \in Domains : Within(r.broken[d])
  BY <1>1, SMTT(30) DEF IInv, RefreshOK, NoRefresh
<1>6. r.at \in Nat /\ r.broken \in [Domains -> Break] /\ r.expired \in SUBSET Domains
  BY <1>5, Zenon DEF RefreshCall
<1>7. \A d \in Domains : local(d) = cache[p].domains[d] /\ local(d) \in Break /\ Within(local(d))
  BY <1>4 DEF IInv, CacheOK, Entry
<1>. HIDE DEF local
<1>8. \A d \in Domains : domains[d] \in {local(d), r.broken[d]}
  BY Zenon DEF Merged
<1>9. domains \in [Domains -> Break] /\ \A d \in Domains : Within(domains[d])
  BY <1>5, <1>6, <1>7, <1>8, Zenon
<1>10. ASSUME NEW d \in Domains
       PROVE  /\ d \in filterExpiredDomains(p) => domains[d].expiry >= cache[p].domains[d].expiry
              /\ r.broken[d].expiry > now => domains[d].expiry >= r.broken[d].expiry
  <2>. DEFINE l == local(d)
              t == r.broken[d]
  <2>1. l \in Break /\ t \in Break /\ domains[d] = Merged(l, t, r.at) /\ l = cache[p].domains[d]
    BY <1>6, <1>7, Zenon
  <2>2. d \in filterExpiredDomains(p) => l.expiry > now
    BY <2>1, Zenon DEF filterExpiredDomains, IsBroken
  <2>. HIDE DEF l, t, r, domains
  <2>3. l.expiry \in Nat /\ t.expiry \in Nat /\ (t = NoBreak => t.expiry = 0)
    <3>1. l.expiry \in Nat /\ t.expiry \in Nat
      BY <2>1, Zenon DEF Break
    <3>2. NoBreak.expiry = 0
      BY Zenon DEF NoBreak
    <3>. QED BY <3>1, <3>2, Zenon
  <2>4. /\ l.expiry > now => Merged(l, t, r.at).expiry >= l.expiry
        /\ t.expiry > now => Merged(l, t, r.at).expiry >= t.expiry
    BY <1>1, <1>5, <1>6, <2>3 DEF Merged
  <2>. QED BY <2>1, <2>2, <2>4, Zenon DEF t
<1>. HIDE DEF domains
<1>11. entry \in Entry /\ entry.exists /\ entry.domains = domains
  BY <1>6, <1>9, ConstantTypes DEF Entry
<1>. HIDE DEF entry
<1>12. /\ cache' \in [Pods -> Entry] /\ cache'[p] = entry
       /\ \A q \in Pods : q # p => cache'[q] = cache[q]
  BY <1>2, <1>4, <1>11, Zenon
<1>13. CacheOK'
  BY <1>1, <1>2, <1>9, <1>11, CacheChange, Zenon
<1>14. n \in RefreshCall /\ n.at = 1 /\ \A d \in Domains : n.broken[d] = NoBreak
  BY <1>4, <1>5, Zenon DEF RefreshCall
<1>. HIDE DEF n
<1>15. ASSUME NEW k \in Refreshes
       PROVE  /\ calls[k] \in RefreshCall \cup {NoRefresh}
              /\ k # j => calls[k].pc = refresh[p][k].pc
              /\ calls[k] # NoRefresh => /\ calls[k].at <= now
                                         /\ \A d \in Domains : Within(calls[k].broken[d])
  <2>1. CASE k = j
    <3>1. calls[k] = n
      BY <2>1, Zenon
    <3>2. \A d \in Domains : Within(n.broken[d])
      BY <1>14, Zenon DEF Within
    <3>3. n.at <= now
      BY <1>1, <1>14
    <3>. QED BY <1>14, <2>1, <3>1, <3>2, <3>3, Zenon
  <2>2. CASE k # j /\ refresh[p][k] = NoRefresh
    BY <2>2, Zenon
  <2>3. CASE k # j /\ refresh[p][k] # NoRefresh
    <3>. DEFINE c == refresh[p][k]
    <3>1. c \in RefreshCall /\ c.at <= now /\ \A d \in Domains : Within(c.broken[d])
      BY <1>4, <2>3, Zenon DEF IInv, RefreshOK
    <3>2. calls[k] = [c EXCEPT !.shared = FALSE]
      BY <2>3, Zenon
    <3>3. /\ calls[k] \in RefreshCall /\ calls[k].pc = c.pc /\ calls[k].at = c.at
          /\ calls[k].broken = c.broken
      <4>. HIDE DEF c, calls
      <4>. QED BY <3>1, <3>2, Zenon DEF RefreshCall
    <3>. HIDE DEF calls
    <3>. QED BY <3>1, <3>3, Zenon
  <2>. QED BY <2>1, <2>2, <2>3, Zenon
<1>. HIDE DEF calls
<1>16. calls \in [Refreshes -> RefreshCall \cup {NoRefresh}]
  BY <1>15, Zenon DEF calls
<1>17. /\ refresh' \in [Pods -> [Refreshes -> RefreshCall \cup {NoRefresh}]]
       /\ refresh'[p] = calls /\ \A q \in Pods : q # p => refresh'[q] = refresh[q]
  BY <1>3, <1>4, <1>16, Zenon
<1>. HIDE DEF r
<1>18. RefreshOK'
  BY <1>1, <1>15, <1>17, RefreshChange, Zenon
<1>19. \A q \in Pods, k \in Refreshes :
         (q # p \/ k # j) => refresh'[q][k].pc = refresh[q][k].pc
  BY <1>15, <1>17, Zenon
<1>20. IInv' /\ NoGate
  <2>1. now' \in Nat \ {0} /\ RedisOK' /\ StatsOK' /\ MarkOK' /\ NoGate
    BY <1>1, Untouched, Zenon
  <2>. QED BY <1>13, <1>18, <2>1, Zenon DEF IInv
<1>. QED BY <1>10, <1>11, <1>12, <1>19, <1>20, Zenon DEF r

\* ClearService forgets the pod's cache while refreshes are under way.
LEMMA ClearServiceStep ==
  ASSUME IInv, NEW p \in Pods, ClearService(p)
  PROVE  IInv' /\ NoGate /\ NoMerge
<1>. DEFINE calls == [k \in Refreshes |->
                        IF refresh[p][k] = NoRefresh THEN NoRefresh
                        ELSE [refresh[p][k] EXCEPT !.shared = FALSE]]
<1>1. /\ now \in Nat /\ now' = now /\ UNCHANGED <<redis, stats, mark, failedAt>>
      /\ cache' = [cache EXCEPT ![p] = NoEntry]
  BY Zenon DEF IInv, ClearService
<1>2. refresh' = [refresh EXCEPT ![p] = calls]
  BY Zenon DEF ClearService, IInv, RefreshOK
<1>3. /\ cache \in [Pods -> Entry]
      /\ refresh \in [Pods -> [Refreshes -> RefreshCall \cup {NoRefresh}]]
  BY Zenon DEF IInv, CacheOK, RefreshOK
<1>4. NoEntry \in Entry /\ \A d \in Domains : NoEntry.domains[d] = NoBreak
  BY Zenon DEF NoEntry, Entry, NoBreak, Break
<1>5. CacheOK'
  <2>1. \A d \in Domains : Within(NoEntry.domains[d])
    BY <1>4, Zenon DEF Within
  <2>. QED BY <1>1, <1>4, <2>1, CacheChange, Zenon
<1>6. ASSUME NEW k \in Refreshes
      PROVE  /\ calls[k] \in RefreshCall \cup {NoRefresh}
             /\ calls[k].pc = refresh[p][k].pc
             /\ calls[k] # NoRefresh => /\ calls[k].at <= now
                                        /\ \A d \in Domains : Within(calls[k].broken[d])
  <2>1. CASE refresh[p][k] = NoRefresh
    BY <2>1, Zenon
  <2>2. CASE refresh[p][k] # NoRefresh
    <3>. DEFINE c == refresh[p][k]
    <3>1. c \in RefreshCall /\ c.at <= now /\ \A d \in Domains : Within(c.broken[d])
      BY <1>3, <2>2, Zenon DEF IInv, RefreshOK
    <3>2. calls[k] = [c EXCEPT !.shared = FALSE]
      BY <2>2, Zenon
    <3>3. /\ calls[k] \in RefreshCall /\ calls[k].pc = c.pc /\ calls[k].at = c.at
          /\ calls[k].broken = c.broken
      <4>. HIDE DEF c, calls
      <4>. QED BY <3>1, <3>2, Zenon DEF RefreshCall
    <3>. HIDE DEF calls
    <3>. QED BY <3>1, <3>3, Zenon
  <2>. QED BY <2>1, <2>2, Zenon
<1>. HIDE DEF calls
<1>7. calls \in [Refreshes -> RefreshCall \cup {NoRefresh}]
  BY <1>6, Zenon DEF calls
<1>8. /\ refresh' \in [Pods -> [Refreshes -> RefreshCall \cup {NoRefresh}]]
      /\ refresh'[p] = calls /\ \A q \in Pods : q # p => refresh'[q] = refresh[q]
  BY <1>2, <1>3, <1>7, Zenon
<1>9. RefreshOK'
  BY <1>1, <1>6, <1>8, RefreshChange, Zenon
<1>10. NoMerge
  BY <1>6, <1>8, Zenon DEF NoMerge
<1>11. now' \in Nat \ {0} /\ RedisOK' /\ StatsOK' /\ MarkOK' /\ NoGate
  BY <1>1, Untouched, Zenon
<1>. QED BY <1>5, <1>9, <1>10, <1>11, Zenon DEF IInv

\* Then it forgets the pod's windows, and with them the failures they counted.
LEMMA ClearStatsStep ==
  ASSUME IInv, NEW p \in Pods, clearStats(p)
  PROVE  IInv' /\ NoGate /\ NoMerge
<1>. DEFINE none == [d \in Domains |-> NoWindow]
            quiet == [d \in Domains |-> << >>]
<1>1. /\ now \in Nat /\ now' = now /\ UNCHANGED <<cache, redis, mark, refresh>>
      /\ stats' = [stats EXCEPT ![p] = none] /\ failedAt' = [failedAt EXCEPT ![p] = quiet]
  BY Zenon DEF IInv, clearStats
<1>2. none \in [Domains -> Window] /\ quiet \in [Domains -> Seq(Nat)]
  BY DEF NoWindow, Window
<1>3. \A d \in Domains : none[d] = NoWindow /\ quiet[d] = << >>
  OBVIOUS
<1>. HIDE DEF none, quiet
<1>4. /\ stats' \in [Pods -> [Domains -> Window]] /\ stats'[p] = none
      /\ failedAt' \in [Pods -> [Domains -> Seq(Nat)]] /\ failedAt'[p] = quiet
      /\ \A q \in Pods : q # p => stats'[q] = stats[q] /\ failedAt'[q] = failedAt[q]
  BY <1>1, <1>2, Zenon DEF IInv, StatsOK
<1>5. Counted(NoWindow, << >>) /\ NoWindow.windowStart <= now
  BY <1>1, SinceNone DEF Counted, NoWindow
<1>6. StatsOK'
  BY <1>1, <1>3, <1>4, <1>5, StatsChange, Zenon
<1>7. /\ now' \in Nat \ {0} /\ CacheOK' /\ RedisOK' /\ RefreshOK' /\ MarkOK'
      /\ NoGate /\ NoMerge
  BY <1>1, Untouched, Zenon
<1>. QED BY <1>6, <1>7, Zenon DEF IInv

\* And the hash, unless Redis fails.
LEMMA ClearRedisStep ==
  ASSUME IInv, NEW p \in Pods, clearRedis(p)
  PROVE  IInv' /\ NoGate /\ NoMerge
<1>1. /\ now \in Nat /\ now' = now /\ UNCHANGED <<cache, stats, mark, refresh, failedAt>>
      /\ redis' = redis \/ redis' = [d \in Domains |-> NoBreak]
  BY Zenon DEF IInv, clearRedis
<1>2. redis \in [Domains -> Break] /\ NoBreak \in Break
  BY Zenon DEF IInv, RedisOK, NoBreak, Break
<1>3. RedisOK'
  BY <1>1, <1>2, RedisShrinks, Zenon DEF IInv
<1>4. /\ now' \in Nat \ {0} /\ CacheOK' /\ StatsOK' /\ RefreshOK' /\ MarkOK'
      /\ NoGate /\ NoMerge
  BY <1>1, Untouched, Zenon
<1>. QED BY <1>3, <1>4, Zenon DEF IInv

\* Time passes.
LEMMA TickStep ==
  ASSUME IInv, Tick
  PROVE  IInv' /\ NoGate /\ NoMerge
<1>1. /\ now \in Nat /\ now' \in Nat \ {0} /\ now <= now'
      /\ UNCHANGED <<cache, redis, stats, mark, refresh, failedAt>>
  BY DEF IInv, Tick
<1>2. CacheOK' /\ RedisOK' /\ StatsOK' /\ RefreshOK' /\ MarkOK'
  BY <1>1, CacheKept, RedisKept, StatsKept, RefreshKept, MarkKept, Zenon DEF IInv
<1>3. NoGate /\ NoMerge
  BY <1>1, Zenon DEF NoGate, NoMerge
<1>. QED BY <1>1, <1>2, <1>3, Zenon DEF IInv

\* Every step keeps the invariant, earns the break it makes and merges without
\* loss.
LEMMA NextSafe ==
  ASSUME IInv, Next
  PROVE  IInv' /\ BreakIsEarned /\ MergeKeepsBoth
<1>1. NoGate => BreakIsEarned
  BY Zenon DEF NoGate, BreakIsEarned
<1>2. NoMerge => MergeKeepsBoth
  BY Zenon DEF NoMerge, MergeKeepsBoth
<1>3. ASSUME NEW p \in Pods, NEW d \in Domains, RecordSuccess(p, d)
      PROVE  IInv' /\ NoGate /\ NoMerge
  <2>1. UNCHANGED <<mark, refresh>>
    BY <1>3, Zenon DEF RecordSuccess
  <2>. QED BY <1>3, <2>1, RecordSuccessStep, Zenon DEF NoGate, NoMerge
<1>4. ASSUME NEW p \in Pods, NEW i \in Marks, NEW d \in Domains, MarkBroken(p, i, d)
      PROVE  IInv' /\ NoGate /\ NoMerge
  <2>. DEFINE m == [pc |-> "gate", domain |-> d, at |-> now, hitCount |-> 0]
  <2>1. /\ mark' = [mark EXCEPT ![p][i] = m] /\ refresh' = refresh
        /\ mark \in [Pods -> [Marks -> MarkCall \cup {NoMark}]]
        /\ m \in MarkCall /\ m.pc = "gate"
    BY <1>4, Zenon DEF MarkBroken, IInv, MarkOK, MarkCall
  <2>. HIDE DEF m
  <2>2. /\ mark'[p][i] = m
        /\ \A q \in Pods, k \in Marks : (q # p \/ k # i) => mark'[q][k] = mark[q][k]
    <3>1. Changed(Pods, Marks, MarkCall \cup {NoMark}, mark, p, i, m, mark')
      BY <2>1, ChangeEntry, Zenon
    <3>. QED BY <3>1, Zenon DEF Changed
  <2>3. NoGate /\ NoMerge
    BY <2>1, <2>2 DEF NoGate, NoMerge
  <2>. QED BY <1>4, <2>3, MarkBrokenStep, Zenon
<1>5. ASSUME NEW p \in Pods, NEW i \in Marks, shouldBreak(p, i)
      PROVE  IInv' /\ BreakIsEarned /\ NoMerge
  <2>1. NoMerge
    BY <1>5, Zenon DEF shouldBreak, NoMerge
  <2>2. BreakIsEarned
    <3>. SUFFICES ASSUME NEW q \in Pods, NEW k \in Marks,
                         mark[q][k].pc = "gate", mark'[q][k].pc = "install"
                  PROVE  Cardinality(Since(failedAt[q][mark[q][k].domain],
                                           mark[q][k].at - FailureWindow)) + 1 >= MinFailures
      BY Zenon DEF BreakIsEarned, Since
    <3>1. <<q, k>> = <<p, i>>
      BY <1>5, ShouldBreakStep, Zenon
    <3>. QED BY <1>5, <3>1, ShouldBreakStep, Zenon
  <2>. QED BY <1>5, <2>1, <2>2, ShouldBreakStep, Zenon
<1>6. ASSUME NEW p \in Pods, NEW j \in Refreshes, merge(p, j)
      PROVE  IInv' /\ NoGate /\ MergeKeepsBoth
  <2>1. MergeKeepsBoth
    <3>. SUFFICES ASSUME NEW q \in Pods, NEW k \in Refreshes,
                         refresh[q][k].pc = "merge", refresh'[q][k].pc = "iterate",
                         NEW d \in Domains
                  PROVE  LET after == cache'[q].domains[d].expiry
                         IN /\ d \in filterExpiredDomains(q) => after >= cache[q].domains[d].expiry
                            /\ refresh[q][k].broken[d].expiry > now
                                 => after >= refresh[q][k].broken[d].expiry
      BY Zenon DEF MergeKeepsBoth
    <3>1. <<q, k>> = <<p, j>>
      BY <1>6, MergeStep, Zenon
    <3>. QED BY <1>6, <3>1, MergeStep, Zenon
  <2>. QED BY <1>6, <2>1, MergeStep, Zenon
<1>7. ASSUME NEW p \in Pods, NEW i \in Marks, install(p, i) \/ publish(p, i)
      PROVE  IInv' /\ NoGate /\ NoMerge
  BY <1>7, InstallStep, PublishStep, Zenon
<1>8. ASSUME NEW p \in Pods, refreshLocal(p) \/ ClearService(p) \/ clearStats(p) \/ clearRedis(p)
      PROVE  IInv' /\ NoGate /\ NoMerge
  BY <1>8, RefreshLocalStep, ClearServiceStep, ClearStatsStep, ClearRedisStep, Zenon
<1>9. ASSUME NEW p \in Pods, NEW j \in Refreshes,
             refreshFromRedis(p, j) \/ reap(p, j) \/ iterate(p, j)
      PROVE  IInv' /\ NoGate /\ NoMerge
  BY <1>9, RefreshFromRedisStep, ReapStep, IterateStep, Zenon
<1>. QED
  BY <1>1, <1>2, <1>3, <1>4, <1>5, <1>6, <1>7, <1>8, <1>9, TickStep, Zenon DEF Next

\* What the invariant says of the breaks themselves.
LEMMA IInvBounded == IInv => BreakIsBounded
<1>. SUFFICES ASSUME IInv PROVE BreakIsBounded
  OBVIOUS
<1>1. now \in Nat
  BY Zenon DEF IInv
<1>2. ASSUME NEW p \in Pods, NEW d \in Domains, cache[p].domains[d] # NoBreak
      PROVE  LET b == cache[p].domains[d]
             IN b.expiry <= now + escalatedTTL(b.hitCount) /\ b.expiry <= now + MaxTTL
  <2>. DEFINE b == cache[p].domains[d]
              ttl == escalatedTTL(b.hitCount)
  <2>1. b.expiry \in Nat /\ b.hitCount \in Nat
    BY Zenon DEF IInv, CacheOK, Entry, Break
  <2>2. ttl \in Nat /\ ttl <= MaxTTL
    BY <2>1, EscalatedTTLBound, Zenon
  <2>3. b.expiry <= now + ttl
    BY <1>2, Zenon DEF IInv, CacheOK, Within
  <2>. HIDE DEF b, ttl
  <2>4. b.expiry <= now + MaxTTL
    BY <1>1, <2>1, <2>2, <2>3, ConstantTypes
  <2>. QED BY <2>3, <2>4, Zenon DEF b, ttl
<1>3. ASSUME NEW d \in Domains
      PROVE  redis[d].expiry * TicksPerSecond <= now + MaxTTL
  <2>. DEFINE x == redis[d].expiry * TicksPerSecond
              ttl == escalatedTTL(redis[d].hitCount)
  <2>1. redis[d].expiry \in Nat /\ redis[d].hitCount \in Nat
    BY Zenon DEF IInv, RedisOK, Break
  <2>2. x \in Nat /\ ttl \in Nat /\ ttl <= MaxTTL
    BY <2>1, EscalatedTTLBound, ConstantTypes
  <2>3. redis[d] # NoBreak => x <= now + ttl
    BY Zenon DEF IInv, RedisOK
  <2>4. redis[d] = NoBreak => x = 0
    BY ConstantTypes DEF NoBreak
  <2>. HIDE DEF x, ttl
  <2>5. x <= now + MaxTTL
    BY <1>1, <2>2, <2>3, <2>4, ConstantTypes
  <2>. QED BY <2>5, Zenon DEF x
<1>. QED BY <1>2, <1>3, Zenon DEF BreakIsBounded

\* A break is earned by MinFailures failures of the window, ends within its TTL
\* and is lost by no merge, for any number of pods and of concurrent MarkBroken
\* calls and refreshes, with Redis failing at any step.
THEOREM BreaksSound == Spec => BreaksAreSound
<1>1. IInv /\ [Next]_vars => IInv'
  <2>1. CASE Next
    BY <2>1, NextSafe
  <2>2. ASSUME IInv, UNCHANGED vars PROVE IInv'
    BY <2>2, CacheKept, RedisKept, StatsKept, RefreshKept, MarkKept DEF vars, IInv
  <2>. QED BY <2>1, <2>2, Zenon
<1>2. IInv /\ [Next]_vars => [BreakIsEarned /\ MergeKeepsBoth /\ BreakIsBounded']_vars
  <2>1. IInv' => BreakIsBounded'
    BY IInvBounded, PTL
  <2>. QED BY <1>1, <2>1, NextSafe, Zenon
<1>. QED BY <1>1, <1>2, InitIInv, PTL DEF Spec, BreaksAreSound
===========================================================================
