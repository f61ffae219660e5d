--------------------------- MODULE ReputationDrains ---------------------------
(***************************************************************************)
(* Admin drains: reputation/admin_drain.go and the drain half of the Redis   *)
(* storage.                                                                 *)
(*                                                                         *)
(* A drain benches one operator of one service for one RPC type, or for all  *)
(* of them, until a point in time.  The replica that receives the admin call *)
(* changes its own set first and writes one field of a Redis hash after-    *)
(* wards; every replica replaces its set by the hash when it refreshes.     *)
(* Service and domain are fixed here; what distinguishes drains is the RPC  *)
(* type.  Time is in ticks, TicksPerSecond of them to a second, because the  *)
(* hash keeps whole seconds while the replicas keep exact times.            *)
(***************************************************************************)
EXTENDS Integers

CONSTANTS
  Pods,             \* the replicas of the gateway
  RpcTypes,         \* RPC types a request can have
  AllTypes,         \* the empty RPC type of a drain that covers them all
  TicksPerSecond,
  Durations,        \* durations admin calls ask for; 0 releases
  ScoresMayVanish,  \* whether the score keyspace can be empty
  MaxCalls,         \* bound: admin calls
  MaxErrors,        \* bound: storage writes that report an error
  MaxTime           \* bound: the clock

DrainKeys == RpcTypes \cup {AllTypes}
NoDrain == 0        \* no entry for the key
NoTTL == 0

ASSUME DrainAssumption ==
  /\ TicksPerSecond \in Nat \ {0} /\ Durations \subseteq Nat
  /\ MaxCalls \in Nat /\ MaxErrors \in Nat /\ MaxTime \in Nat \ {0}
  /\ ScoresMayVanish \in BOOLEAN

VARIABLES
  now,
  drainedDomains,   \* each replica's map from DrainKey to expiry
  hash,             \* the Redis hash __drains__
  hashTTL,          \* expiry of the hash itself
  calls,            \* storage writes of admin calls under way
  listing,          \* what a refresh under way has read from the hash
  scoresStored,     \* whether any score is stored
  made,             \* admin calls so far
  errors,           \* storage writes that reported an error
  asked             \* history: the drains admin calls asked for

drainVars == <<now, drainedDomains, hash, hashTTL, calls, listing, scoresStored, made,
  errors, asked>>

Drains == [DrainKeys -> Nat]
Call == [id : 1 .. MaxCalls, key : DrainKeys, until : Nat]
Listing == [drains : Drains, expired : SUBSET DrainKeys, reaped : BOOLEAN]

DrainTypeOK ==
  /\ now \in 1 .. MaxTime
  /\ drainedDomains \in [Pods -> Drains]
  /\ hash \in Drains /\ hashTTL \in Nat
  /\ calls \subseteq Call
  /\ listing \in [Pods -> SUBSET Listing]
  /\ scoresStored \in BOOLEAN /\ made \in 0 .. MaxCalls /\ errors \in 0 .. MaxErrors
  /\ asked \subseteq [key : DrainKeys, until : Nat]

NothingDrained == [k \in DrainKeys |-> NoDrain]

DrainInit ==
  /\ now = 1
  /\ drainedDomains = [r \in Pods |-> NothingDrained]
  /\ hash = NothingDrained /\ hashTTL = NoTTL
  /\ calls = {} /\ listing = [r \in Pods |-> {}]
  /\ scoresStored = TRUE /\ made = 0 /\ errors = 0
  /\ asked = {}

-----------------------------------------------------------------------------
(* now.Before(until)                                                        *)
InForce(until) == now < until

\* What endpoint selection asks.
IsDomainDrained(r, rpcType) ==
  \E k \in {rpcType, AllTypes} : InForce(drainedDomains[r][k])

\* Mutations: the expiry is rounded up, or one second too far down.
RFC3339Up(t) == t + ((- t) % TicksPerSecond)
\* RFC 3339 keeps whole seconds.
RFC3339(t) == t - (t % TicksPerSecond)

\* EXPIRE ... GT of a key: one without a TTL counts as having an infinite one.
ExpireGT(ttl, t) == IF ttl # NoTTL /\ t > ttl THEN t ELSE ttl

-----------------------------------------------------------------------------
\* DrainDomain changes the local set, purging what has expired ...
DrainDomain(r, k, duration) ==
  LET until == now + duration
      kept == [x \in DrainKeys |->
                 IF InForce(drainedDomains[r][x]) THEN drainedDomains[r][x] ELSE NoDrain]
  IN /\ made < MaxCalls /\ made' = made + 1
     /\ drainedDomains' = [drainedDomains EXCEPT ![r] =
                             [kept EXCEPT ![k] = IF duration = 0 THEN NoDrain ELSE until]]
     /\ calls' = calls \cup {[id |-> made + 1, key |-> k,
                              until |-> IF duration = 0 THEN NoDrain ELSE until]}
     /\ asked' = IF duration = 0 THEN asked ELSE asked \cup {[key |-> k, until |-> until]}
     /\ UNCHANGED <<now, hash, hashTTL, listing, scoresStored, errors>>

\* ... and then DeleteDrain removes the field, or SetDrain writes it and asks for
\* a TTL of the hash. Its two commands are one step here: what the second does
\* depends only on the TTL, which no other command touches.
Write(c) ==
  /\ c \in calls
  /\ hash' = [hash EXCEPT ![c.key] = RFC3339(c.until)]
  /\ hashTTL' = IF c.until = NoDrain THEN hashTTL ELSE ExpireGT(hashTTL, c.until)
  /\ calls' = calls \ {c}
  /\ UNCHANGED <<now, drainedDomains, listing, scoresStored, made, errors, asked>>

\* The write fails: DrainDomain only reports it.
WriteFails(c) ==
  /\ c \in calls
  /\ errors < MaxErrors /\ errors' = errors + 1
  /\ calls' = calls \ {c}
  /\ UNCHANGED <<now, drainedDomains, hash, hashTTL, listing, scoresStored, made, asked>>

-----------------------------------------------------------------------------
\* refreshFromStorage reaches refreshDrains only if some score is stored.
\* ListDrains reads the whole hash and splits it by the clock ...
RefreshList(r) ==
  /\ scoresStored /\ listing[r] = {}
  /\ listing' = [listing EXCEPT ![r] =
       {[drains |-> [k \in DrainKeys |-> IF InForce(hash[k]) THEN hash[k] ELSE NoDrain],
         expired |-> {k \in DrainKeys : hash[k] # NoDrain /\ ~ InForce(hash[k])},
         reaped |-> FALSE]}]
  /\ UNCHANGED <<now, drainedDomains, hash, hashTTL, calls, scoresStored, made, errors, asked>>

\* ... deletes the fields it found expired ...
Reap(r) ==
  /\ \E l \in listing[r] :
       /\ ~ l.reaped
       /\ hash' = [k \in DrainKeys |-> IF k \in l.expired THEN NoDrain ELSE hash[k]]
       /\ listing' = [listing EXCEPT ![r] = {[l EXCEPT !.reaped = TRUE]}]
  /\ UNCHANGED <<now, drainedDomains, hashTTL, calls, scoresStored, made, errors, asked>>

\* Mutation: the refresh merges instead of replacing.
RefreshMergeDrains(r) ==
  /\ \E l \in listing[r] :
       /\ l.reaped
       /\ drainedDomains' = [drainedDomains EXCEPT ![r] = [k \in DrainKeys |->
                               IF l.drains[k] = NoDrain THEN @[k] ELSE l.drains[k]]]
  /\ listing' = [listing EXCEPT ![r] = {}]
  /\ UNCHANGED <<now, hash, hashTTL, calls, scoresStored, made, errors, asked>>

\* ... and refreshDrains replaces the local set by what is left.
RefreshReplace(r) ==
  /\ \E l \in listing[r] :
       /\ l.reaped
       /\ drainedDomains' = [drainedDomains EXCEPT ![r] = l.drains]
  /\ listing' = [listing EXCEPT ![r] = {}]
  /\ UNCHANGED <<now, hash, hashTTL, calls, scoresStored, made, errors, asked>>

\* The stored scores run out, or the first one is stored again.
ScoresComeAndGo ==
  /\ ScoresMayVanish /\ scoresStored' = ~ scoresStored
  /\ UNCHANGED <<now, drainedDomains, hash, hashTTL, calls, listing, made, errors, asked>>

ClockTicks ==
  /\ now < MaxTime /\ now' = now + 1
  /\ UNCHANGED <<drainedDomains, hash, hashTTL, calls, listing, scoresStored, made, errors,
                 asked>>

DrainNext ==
  \/ \E r \in Pods, k \in DrainKeys, d \in Durations : DrainDomain(r, k, d)
  \/ \E c \in calls : Write(c) \/ WriteFails(c)
  \/ \E r \in Pods : RefreshList(r) \/ Reap(r) \/ RefreshReplace(r)
  \/ ScoresComeAndGo \/ ClockTicks

DrainSpec == DrainInit /\ [][DrainNext]_drainVars

Refresh(r) == RefreshList(r) \/ Reap(r) \/ RefreshReplace(r)

\* Admin calls finish and every replica keeps refreshing.
DrainFairSpec ==
  /\ DrainSpec
  /\ WF_drainVars(\E c \in calls : Write(c))
  /\ \A r \in Pods : SF_drainVars(Refresh(r))

-----------------------------------------------------------------------------
(* Properties                                                               *)

\* Selection benches an operator for an RPC type only while a drain somebody
\* asked for, of that type or of all types, has not run out: neither stale
\* reads, nor the conversion to seconds, nor the refresh extend or widen one.
BenchWasAskedFor ==
  \A r \in Pods, t \in RpcTypes :
    IsDomainDrained(r, t) => \E a \in asked : a.key \in {t, AllTypes} /\ now < a.until

\* Covered(k, until): an admin call asked for a drain of k at least that long.
Covered(k, until) ==
  until # NoDrain => \E a \in asked : a.key = k /\ until <= a.until

\* Every copy of a drain, on its way, in the hash, in a listing or in a replica,
\* stems from an admin call and ends no later than it said.
EveryCopyWasAskedFor ==
  /\ \A c \in calls : Covered(c.key, c.until)
  /\ \A k \in DrainKeys : Covered(k, hash[k])
  /\ \A r \in Pods : \A l \in listing[r] : \A k \in DrainKeys : Covered(k, l.drains[k])
  /\ \A r \in Pods, k \in DrainKeys : Covered(k, drainedDomains[r][k])

\* Once no more calls are made, every replica benches exactly what the shared
\* hash benches, so a drain and a release both reach the whole fleet, as long as
\* the score keyspace, which gates the refresh, is not empty for good.
FleetFollowsStorage ==
  []<>scoresStored => <>[](\A r \in Pods, k \in DrainKeys : InForce(drainedDomains[r][k]) <=> InForce(hash[k]))
=============================================================================
