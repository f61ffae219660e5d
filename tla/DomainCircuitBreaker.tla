------------------------ MODULE DomainCircuitBreaker ------------------------
(***************************************************************************)
(* The domain circuit breaker: gateway/domain_circuit_breaker.go, for one    *)
(* service and several pods that share a Redis hash.                         *)
(*                                                                         *)
(* A failed relay calls MarkBroken: a look at the pod's cache under the read *)
(* lock, the failure-rate gate under statsMu, the cache entry under the      *)
(* write lock and an HSET, four steps other goroutines can come between.     *)
(* GetBrokenDomains refreshes a stale cache from Redis in steps of its own.  *)
(* Times are in ticks; Redis keeps expiries in whole seconds.               *)
(***************************************************************************)
EXTENDS Integers, Sequences, FiniteSets

CONSTANTS
  Pods, Domains,
  MarksPerPod,          \* bound: MarkBroken calls under way in one pod
  RefreshesPerPod,      \* bound: refreshes under way in one pod
  TicksPerSecond,
  DefaultTTL, MaxTTL, CacheTTL, FailureWindow, EscalationMemory,  \* in ticks
  MinFailures,
  ThresholdPct,         \* failureRateThreshold and rebreakMargin, in percent
  MarginPct,
  Fleets,               \* deployments considered: their pods, and as bounds the relay
                        \* outcomes recorded and the admin clears and Redis errors
  MaxTime               \* bound: the clock

Marks == 1 .. MarksPerPod
Refreshes == 1 .. RefreshesPerPod

ASSUME BreakerAssumption ==
  /\ {MarksPerPod, RefreshesPerPod, TicksPerSecond, DefaultTTL, MaxTTL, MinFailures} \subseteq Nat \ {0}
  /\ {CacheTTL, FailureWindow, EscalationMemory, ThresholdPct, MarginPct} \subseteq Nat
  /\ MaxTime \in Nat
  /\ Fleets \subseteq [pods : SUBSET Pods, outcomes : Nat, disruptions : Nat]
  /\ TicksPerSecond <= DefaultTTL /\ DefaultTTL <= MaxTTL

VARIABLES
  now,
  cache,      \* per pod: the circuitCacheEntry, if it exists
  stats,      \* per pod and domain: the domainOutcomeWindow
  redis,      \* the hash: expiry in seconds and hit count
  mark,       \* MarkBroken calls under way
  refresh,    \* refreshFromRedis calls under way
  clear,      \* per pod: what ClearService still has to do
  pods,       \* the pods of this deployment
  outcomes, disruptions,  \* what is left of the bounds
  failedAt    \* history: when the failures since the last break were recorded

counters == <<outcomes, disruptions>>
vars == <<now, cache, stats, redis, mark, refresh, clear, counters, pods, failedAt>>

Break == [expiry : Nat, hitCount : Nat]
NoBreak == [expiry |-> 0, hitCount |-> 0]
NoEntry == [exists |-> FALSE, domains |-> [d \in Domains |-> NoBreak], refreshAt |-> 0]
NoWindow == [known |-> FALSE, windowStart |-> 0, failures |-> 0, successes |-> 0,
             lastEpisodeAt |-> 0, lastHitCount |-> 0]
NoMark == [pc |-> "idle"]
NoRefresh == [pc |-> "idle"]

TypeOK ==
  /\ now \in 1 .. MaxTime
  /\ cache \in [Pods -> [exists : BOOLEAN, domains : [Domains -> Break], refreshAt : Nat]]
  /\ stats \in [Pods -> [Domains ->
       [known : BOOLEAN, windowStart : Nat, failures : Nat,
        successes : Nat, lastEpisodeAt : Nat, lastHitCount : Nat]]]
  /\ pods \subseteq Pods /\ outcomes \in Nat /\ disruptions \in Nat
  /\ redis \in [Domains -> Break]
  /\ \A p \in Pods, i \in Marks :
       \/ mark[p][i] = NoMark
       \/ mark[p][i] \in [pc : {"gate", "install", "publish"}, domain : Domains, at : 1 .. MaxTime,
                          hitCount : Nat]
  /\ \A p \in Pods, j \in Refreshes :
       \/ refresh[p][j] = NoRefresh
       \/ refresh[p][j] \in [pc : {"reap", "merge", "iterate"}, at : 1 .. MaxTime,
                             broken : [Domains -> Break], expired : SUBSET Domains,
                             shared : BOOLEAN]
  /\ clear \in [Pods -> {"idle", "stats", "redis"}]

Init ==
  /\ now = 1
  /\ cache = [p \in Pods |-> NoEntry]
  /\ stats = [p \in Pods |-> [d \in Domains |-> NoWindow]]
  /\ redis = [d \in Domains |-> NoBreak]
  /\ mark = [p \in Pods |-> [i \in Marks |-> NoMark]]
  /\ refresh = [p \in Pods |-> [j \in Refreshes |-> NoRefresh]]
  /\ clear = [p \in Pods |-> "idle"]
  /\ \E f \in Fleets : pods = f.pods /\ outcomes = f.outcomes /\ disruptions = f.disruptions
  /\ failedAt = [p \in Pods |-> [d \in Domains |-> << >>]]

Disrupt == disruptions > 0 /\ disruptions' = disruptions - 1

\* Mutation: the expiry is rounded up to the next second.
UnixUp(t) == (t + TicksPerSecond - 1) \div TicksPerSecond

\* Redis holds an expiry as time.Unix().
Unix(t) == t \div TicksPerSecond

-----------------------------------------------------------------------------
(* The failure-rate gate                                                    *)

\* Mutation: the window is never rolled.
windowLockedForever(w, at) ==
  IF ~ w.known THEN [w EXCEPT !.known = TRUE, !.windowStart = at] ELSE w

\* windowLocked: created, or rolled over when it has elapsed.
windowLocked(w, at) ==
  IF ~ w.known THEN [w EXCEPT !.known = TRUE, !.windowStart = at]
  ELSE IF at - w.windowStart > FailureWindow
       THEN [w EXCEPT !.windowStart = at, !.failures = 0, !.successes = 0]
       ELSE w

RecentlyBroken(w, at) == w.lastEpisodeAt # 0 /\ at - w.lastEpisodeAt <= EscalationMemory

\* The rate is compared with a higher threshold after a recent break.
ExceedsRate(w, at) ==
  /\ w.failures >= MinFailures
  /\ w.failures * 100 >= (w.failures + w.successes)
       * (ThresholdPct + IF RecentlyBroken(w, at) THEN MarginPct ELSE 0)

\* escalatedTTL: doubled per hit, capped.
escalatedTTL(hitCount) ==
  LET shift == IF hitCount - 1 > 5 THEN 5 ELSE hitCount - 1
      ttl == DefaultTTL * 2 ^ shift
  IN IF hitCount <= 1 THEN DefaultTTL ELSE IF ttl > MaxTTL THEN MaxTTL ELSE ttl

RecordSuccess(p, d) ==
  /\ p \in pods /\ outcomes > 0 /\ outcomes' = outcomes - 1
  /\ stats' = [stats EXCEPT ![p][d] =
                 LET w == windowLocked(@, now) IN [w EXCEPT !.successes = @ + 1]]
  /\ UNCHANGED <<pods, now, cache, redis, mark, refresh, clear, disruptions, failedAt>>

-----------------------------------------------------------------------------
(* MarkBroken                                                               *)

IsBroken(p, d, at) == cache[p].domains[d].expiry > at

\* A failed relay on a domain that is not broken goes on to the gate; one on a
\* domain that is broken already is a duplicate and changes nothing.
MarkBroken(p, i, d) ==
  /\ \A k \in 1 .. i : mark[p][k] = NoMark <=> k = i     \* the first free slot
  /\ p \in pods /\ ~ IsBroken(p, d, now)
  /\ outcomes > 0 /\ outcomes' = outcomes - 1
  /\ mark' = [mark EXCEPT ![p][i] = [pc |-> "gate", domain |-> d, at |-> now, hitCount |-> 0]]
  /\ UNCHANGED <<pods, now, cache, stats, redis, refresh, clear, disruptions, failedAt>>

\* shouldBreak, with the time read at the start of the call.
shouldBreak(p, i) ==
  LET m == mark[p][i]
      w0 == windowLocked(stats[p][m.domain], m.at)
      w == [w0 EXCEPT !.failures = @ + 1]
      hit == IF RecentlyBroken(w, m.at) THEN w.lastHitCount + 1 ELSE 1
  IN /\ m.pc = "gate"
     /\ IF ExceedsRate(w, m.at)
        THEN /\ stats' = [stats EXCEPT ![p][m.domain] =
                            [known |-> TRUE, windowStart |-> m.at, failures |-> 0, successes |-> 0,
                             lastEpisodeAt |-> m.at, lastHitCount |-> hit]]
             /\ mark' = [mark EXCEPT ![p][i].pc = "install", ![p][i].hitCount = hit]
             /\ failedAt' = [failedAt EXCEPT ![p][m.domain] = << >>]
        ELSE /\ stats' = [stats EXCEPT ![p][m.domain] = w]
             /\ mark' = [mark EXCEPT ![p][i] = NoMark]
             /\ failedAt' = [failedAt EXCEPT ![p][m.domain] = Append(@, now)]
     /\ UNCHANGED <<pods, now, cache, redis, refresh, clear, counters>>

\* The cache entry, created if ClearService or nobody left one.
install(p, i) ==
  LET m == mark[p][i]
      expiry == m.at + escalatedTTL(m.hitCount)
  IN /\ m.pc = "install"
     /\ cache' = [cache EXCEPT ![p] =
          [exists |-> TRUE,
           domains |-> [@.domains EXCEPT ![m.domain] = [expiry |-> expiry, hitCount |-> m.hitCount]],
           refreshAt |-> IF @.exists THEN @.refreshAt ELSE m.at + CacheTTL]]
     /\ mark' = [mark EXCEPT ![p][i].pc = "publish"]
     /\ UNCHANGED <<pods, now, stats, redis, refresh, clear, counters, failedAt>>

\* HSET, fire and forget.
publish(p, i) ==
  LET m == mark[p][i]
      entry == [expiry |-> Unix(m.at + escalatedTTL(m.hitCount)), hitCount |-> m.hitCount]
  IN /\ m.pc = "publish"
     /\ mark' = [mark EXCEPT ![p][i] = NoMark]
     /\ \/ /\ redis' = [redis EXCEPT ![m.domain] = entry]
           /\ UNCHANGED disruptions
        \/ Disrupt /\ UNCHANGED redis
     /\ UNCHANGED <<pods, now, cache, stats, refresh, clear, outcomes, failedAt>>

-----------------------------------------------------------------------------
(* GetBrokenDomains                                                         *)

\* The domains a request on pod p skips when the cache is fresh.
filterExpiredDomains(p) == {d \in Domains : IsBroken(p, d, now)}

IsStale(p) == p \in pods /\ (~ cache[p].exists \/ now >= cache[p].refreshAt)

Purged(domains) == [d \in Domains |-> IF domains[d].expiry > now THEN domains[d] ELSE NoBreak]

\* refreshLocal, when HGETALL fails.
refreshLocal(p) ==
  /\ IsStale(p) /\ Disrupt
  /\ cache' = IF cache[p].exists
              THEN [cache EXCEPT ![p].domains = Purged(@), ![p].refreshAt = now + CacheTTL]
              ELSE cache
  /\ UNCHANGED <<pods, now, stats, redis, mark, refresh, clear, outcomes, failedAt>>

\* refreshFromRedis, HGETALL and the parsing of the answer.
refreshFromRedis(p, j) ==
  LET expired == {d \in Domains : redis[d] # NoBreak /\ redis[d].expiry <= Unix(now)}
  IN /\ IsStale(p) /\ refresh[p][j] = NoRefresh
     /\ refresh' = [refresh EXCEPT ![p][j] =
          [pc |-> IF expired = {} THEN "merge" ELSE "reap", at |-> now, shared |-> FALSE,
           broken |-> [d \in Domains |->
                         IF redis[d].expiry > Unix(now)
                         THEN [redis[d] EXCEPT !.expiry = @ * TicksPerSecond] ELSE NoBreak],
           expired |-> expired]]
     /\ UNCHANGED <<pods, now, cache, stats, redis, mark, clear, counters, failedAt>>

\* HDEL of the fields the answer showed as expired, fire and forget.
reap(p, j) ==
  /\ refresh[p][j].pc = "reap"
  /\ refresh' = [refresh EXCEPT ![p][j].pc = "merge", ![p][j].expired = {}]
  /\ \/ /\ redis' = [d \in Domains |-> IF d \in refresh[p][j].expired THEN NoBreak ELSE redis[d]]
        /\ UNCHANGED disruptions
     \/ Disrupt /\ UNCHANGED redis
  /\ UNCHANGED <<pods, now, cache, stats, mark, clear, outcomes, failedAt>>

\* Mutation: the entry read from Redis replaces the local one.
MergedStored(local, stored, at) ==
  IF stored # NoBreak THEN stored ELSE IF local.expiry > at THEN local ELSE NoBreak

\* The later of the local entry, if it has not expired, and the stored one.
Merged(local, stored, at) ==
  IF local.expiry > at /\ (stored = NoBreak \/ local.expiry > stored.expiry) THEN local ELSE stored

\* The merge under the write lock. The map it publishes in the cache is the one
\* the refresh goes on to iterate, without the lock.
merge(p, j) ==
  LET r == refresh[p][j]
      local(d) == IF cache[p].exists THEN cache[p].domains[d] ELSE NoBreak
  IN /\ r.pc = "merge"
     /\ cache' = [cache EXCEPT ![p] =
          [exists |-> TRUE, refreshAt |-> r.at + CacheTTL,
           domains |-> [d \in Domains |-> Merged(local(d), r.broken[d], r.at)]]]
     /\ refresh' = [refresh EXCEPT ![p] =
          [k \in Refreshes |->
             IF k = j THEN [r EXCEPT !.pc = "iterate", !.shared = TRUE, !.at = 1,
                                     !.broken = [d \in Domains |-> NoBreak]]
             ELSE IF @[k] = NoRefresh THEN NoRefresh ELSE [@[k] EXCEPT !.shared = FALSE]]]
     /\ UNCHANGED <<pods, now, stats, redis, mark, clear, counters, failedAt>>

\* The gauge and the result, from the map just published.
iterate(p, j) ==
  /\ refresh[p][j].pc = "iterate"
  /\ refresh' = [refresh EXCEPT ![p][j] = NoRefresh]
  /\ UNCHANGED <<pods, now, cache, stats, redis, mark, clear, counters, failedAt>>

-----------------------------------------------------------------------------
(* ClearService                                                             *)

ClearService(p) ==
  /\ p \in pods /\ clear[p] = "idle" /\ Disrupt
  /\ cache' = [cache EXCEPT ![p] = NoEntry]
  /\ refresh' = [refresh EXCEPT ![p] = [j \in Refreshes |->
       IF @[j] = NoRefresh THEN NoRefresh ELSE [@[j] EXCEPT !.shared = FALSE]]]
  /\ clear' = [clear EXCEPT ![p] = "stats"]
  /\ UNCHANGED <<pods, now, stats, redis, mark, outcomes, failedAt>>

clearStats(p) ==
  /\ clear[p] = "stats"
  /\ stats' = [stats EXCEPT ![p] = [d \in Domains |-> NoWindow]]
  /\ failedAt' = [failedAt EXCEPT ![p] = [d \in Domains |-> << >>]]
  /\ clear' = [clear EXCEPT ![p] = "redis"]
  /\ UNCHANGED <<pods, now, cache, redis, mark, refresh, counters>>

clearRedis(p) ==
  /\ clear[p] = "redis"
  /\ clear' = [clear EXCEPT ![p] = "idle"]
  /\ \/ redis' = [d \in Domains |-> NoBreak] /\ UNCHANGED disruptions
     \/ Disrupt /\ UNCHANGED redis
  /\ UNCHANGED <<pods, now, cache, stats, mark, refresh, outcomes, failedAt>>

Tick ==
  /\ now < MaxTime /\ now' = now + 1
  /\ UNCHANGED <<pods, cache, stats, redis, mark, refresh, clear, counters, failedAt>>

Next ==
  \/ Tick
  \/ \E p \in Pods :
       \/ \E d \in Domains : RecordSuccess(p, d)
       \/ \E i \in Marks :
            \/ \E d \in Domains : MarkBroken(p, i, d)
            \/ shouldBreak(p, i)
            \/ install(p, i)
            \/ publish(p, i)
       \/ refreshLocal(p)
       \/ \E j \in Refreshes :
            \/ refreshFromRedis(p, j)
            \/ reap(p, j)
            \/ merge(p, j)
            \/ iterate(p, j)
       \/ ClearService(p)
       \/ clearStats(p)
       \/ clearRedis(p)

Spec == Init /\ [][Next]_vars

-----------------------------------------------------------------------------
(* Properties                                                               *)

\* No break outlives its TTL: what a pod holds for a domain, and what Redis
\* holds, ends within escalatedTTL of the hit count it carries, and within the
\* cap, whichever of MarkBroken, the truncation to seconds, and merges of several
\* pods produced it.
BreakIsBounded ==
  /\ \A p \in Pods, d \in Domains :
       LET b == cache[p].domains[d]
       IN b # NoBreak => /\ b.expiry <= now + escalatedTTL(b.hitCount)
                         /\ b.expiry <= now + MaxTTL
  /\ \A d \in Domains : redis[d].expiry * TicksPerSecond <= now + MaxTTL

\* A break is earned by recent failures of its own: when shouldBreak says yes, at
\* least MinFailures failures, this one included, were recorded on this pod after
\* the previous break or admin clear and no longer than FailureWindow before the
\* call, in whatever order concurrent calls reach the gate with the times they
\* read before it.
BreakIsEarned ==
  \A p \in Pods, i \in Marks :
       (mark[p][i].pc = "gate" /\ mark'[p][i].pc = "install") =>
          LET m == mark[p][i]
              times == failedAt[p][m.domain]
              recent == {k \in DOMAIN times : times[k] >= m.at - FailureWindow}
          IN Cardinality(recent) + 1 >= MinFailures

\* A merge loses neither side: after it the pod skips a domain at least until the
\* local break ends and at least until the break read from Redis ends.
MergeKeepsBoth ==
  \A p \in Pods, j \in Refreshes :
       (refresh[p][j].pc = "merge" /\ refresh'[p][j].pc = "iterate") =>
          \A d \in Domains :
             LET after == cache'[p].domains[d].expiry
             IN /\ d \in filterExpiredDomains(p) => after >= cache[p].domains[d].expiry
                /\ refresh[p][j].broken[d].expiry > now => after >= refresh[p][j].broken[d].expiry

\* A break is earned, bounded, and lost by no merge.
BreaksAreSound == [][BreakIsEarned /\ MergeKeepsBoth /\ BreakIsBounded']_vars

\* Stated by the test TestDomainCircuitBreaker_ConcurrentAccess, "Concurrent writes
\* and reads should not panic": MarkBroken never writes the map a refresh is
\* iterating without the lock, which the Go runtime reports as a fatal concurrent
\* map iteration and map write. Not so: the iterated map is the published one.
NoWriteDuringIteration ==
  \A p \in Pods, i \in Marks, j \in Refreshes :
    ~ /\ mark[p][i].pc = "install"
      /\ refresh[p][j].pc = "iterate" /\ refresh[p][j].shared
=============================================================================
