------------------------------ MODULE RedisProofs ------------------------------
(***************************************************************************)
(* What the replicas of a gateway share through single Redis keys: the       *)
(* lease of the leader (LeaderElection, for any instances and any lease) and *)
(* the hash of drains (ReputationDrains: no replica ever benches an operator *)
(* longer, or for more RPC types, than an admin call asked for, for any      *)
(* replicas, RPC types and durations).                                     *)
(***************************************************************************)
EXTENDS LeaderElection, ReputationDrains, TLAPS

\* What AtMostOneLeader rests on: an instance that acts on a grant still owns
\* the key, with the part of the lease that has not been used up.
LeaseInv ==
  /\ \A i \in Relying : owner = i /\ ttl = LeaseTicks - age[i]
  /\ \A i \in Instances : status[i] = "down" => call[i] = "none" /\ ~isLeader[i]

IInv == TypeOK /\ LeaseInv

\* The lease, rounded down to seconds, is a natural number of ticks.
LEMMA LeaseTicksNat == LeaseTicks \in Nat
<1>1. LeaseDuration \div Second \in Nat
  BY ConstantsAssumption
<1> DEFINE q == LeaseDuration \div Second
<1>2. \A a, b \in Nat : a * b \in Nat
  OBVIOUS
<1> QED BY <1>1, <1>2, ConstantsAssumption, Zenon DEF LeaseTicks

\* The initial states are well typed.
LEMMA TypeInit == Init => TypeOK
<1> SUFFICES ASSUME Init PROVE TypeOK
  OBVIOUS
<1>1. stray \in BOOLEAN BY Zenon DEF Init
<1>2. isLeader \in [Instances -> BOOLEAN] /\ checking \in [Instances -> BOOLEAN]
  BY Zenon DEF Init
<1>3. /\ owner \in Instances \cup {Nobody, Ghost}
      /\ ttl \in 0 .. LeaseTicks \cup {NoExpiry}
      /\ age \in [Instances -> 0 .. MaxAge]
      /\ disruptions \in 0 .. MaxDisruptions
  BY LeaseTicksNat, ConstantsAssumption DEF Init
<1>4. /\ status \in [Instances -> {"down", "up", "releasing", "released", "stopped"}]
      /\ call \in [Instances -> {"none", "acquire", "renew", "yes", "no", "error"}]
  BY Zenon DEF Init
<1> QED BY <1>1, <1>2, <1>3, <1>4, Zenon DEF TypeOK

\* The type invariant is inductive on its own.
LEMMA TypeStep == TypeOK /\ [Next]_vars => TypeOK'
<1> SUFFICES ASSUME TypeOK, [Next]_vars PROVE TypeOK'
  OBVIOUS
<1> USE LeaseTicksNat, ConstantsAssumption DEF TypeOK, NoExpiry
<1>1. ASSUME NEW i \in Instances, Step(i) PROVE TypeOK'
  <2>1. CASE Start(i) BY <2>1, Zenon DEF Start
  <2>2. CASE SendAttempt(i) BY <2>2, Zenon DEF SendAttempt
  <2>3. CASE ExecGranted(i) BY <2>3 DEF ExecGranted, SetNX, ExtendLease, Disrupt
  <2>4. CASE ExecDenied(i) BY <2>4, Zenon DEF ExecDenied
  <2>5. CASE ExecFailed(i) BY <2>5 DEF ExecFailed, Disrupt
  <2>6. CASE StoreReply(i)
    <3>1. (call[i] = "yes") \in BOOLEAN OBVIOUS
    <3> QED BY <2>6, <3>1, Zenon DEF StoreReply
  <2>7. CASE Stop(i) BY <2>7 DEF Stop, Disrupt
  <2>8. CASE ExecRelease(i) BY <2>8 DEF ExecRelease
  <2>9. CASE FinishStop(i) BY <2>9, Zenon DEF FinishStop
  <2>10. CASE Exit(i) BY <2>10 DEF Exit, Disrupt
  <2>11. CASE BeginCycle(i) BY <2>11, Zenon DEF BeginCycle
  <2>12. CASE EndCycle(i) BY <2>12, Zenon DEF EndCycle
  <2> QED BY <1>1, <2>1, <2>2, <2>3, <2>4, <2>5, <2>6, <2>7, <2>8, <2>9, <2>10, <2>11, <2>12, Zenon DEF Step
<1>2. CASE ExecStray
  <2>1. stray' \in BOOLEAN BY <1>2, Zenon DEF ExecStray
  <2>2. owner' \in Instances \cup {Nobody, Ghost} /\ ttl' \in 0 .. LeaseTicks \cup {NoExpiry}
    BY <1>2 DEF ExecStray, SetNX
  <2> QED BY <1>2, <2>1, <2>2, Zenon DEF ExecStray
<1>3. CASE Tick
  <2>1. age' \in [Instances -> 0 .. MaxAge] BY <1>3 DEF Tick, Relying
  <2> QED BY <1>3, <2>1 DEF Tick
<1>4. CASE UNCHANGED vars BY <1>4, Zenon DEF vars
<1> QED BY <1>1, <1>2, <1>3, <1>4, Zenon DEF Next

\* One step preserves the lease invariant: the heart of the argument is that a
\* grant needs a free key, which no relying instance leaves, and that Tick
\* cannot expire the key of a relying instance because MaxAge < LeaseTicks.
LEMMA LeaseStep ==
  ASSUME MaxAge < LeaseTicks
  PROVE  IInv /\ [Next]_vars => LeaseInv'
<1> SUFFICES ASSUME IInv, [Next]_vars PROVE LeaseInv'
  OBVIOUS
<1> USE LeaseTicksNat, ConstantsAssumption DEF IInv, TypeOK, LeaseInv, Relying, Up
<1>1. ASSUME NEW i \in Instances, Step(i) PROVE LeaseInv'
  <2>1. CASE Start(i) BY <2>1, Zenon DEF Start
  <2>2. CASE SendAttempt(i) BY <2>2, Zenon DEF SendAttempt
  <2>3. CASE ExecGranted(i)
    BY <2>3 DEF ExecGranted, SetNX, ExtendLease, Disrupt
  <2>4. CASE ExecDenied(i) BY <2>4, Zenon DEF ExecDenied
  <2>5. CASE ExecFailed(i) BY <2>5, Zenon DEF ExecFailed, Disrupt
  <2>6. CASE StoreReply(i) BY <2>6 DEF StoreReply
  <2>7. CASE Stop(i) BY <2>7, Zenon DEF Stop, Disrupt
  <2>8. CASE ExecRelease(i) BY <2>8 DEF ExecRelease
  <2>9. CASE FinishStop(i) BY <2>9 DEF FinishStop
  <2>10. CASE Exit(i) BY <2>10 DEF Exit, Disrupt
  <2>11. CASE BeginCycle(i) BY <2>11, Zenon DEF BeginCycle, Leading
  <2>12. CASE EndCycle(i) BY <2>12, Zenon DEF EndCycle
  <2> QED BY <1>1, <2>1, <2>2, <2>3, <2>4, <2>5, <2>6, <2>7, <2>8, <2>9, <2>10, <2>11, <2>12, Zenon DEF Step
<1>2. CASE ExecStray BY <1>2 DEF ExecStray, SetNX
<1>3. CASE Tick BY <1>3 DEF Tick
<1>4. CASE UNCHANGED vars BY <1>4, Zenon DEF vars
<1> QED BY <1>1, <1>2, <1>3, <1>4, Zenon DEF Next

\* health_check_leader.go never reaches a state outside its declared types.
THEOREM TypeCorrect == Spec => []TypeOK
BY TypeInit, TypeStep, PTL DEF Spec

\* For any number of instances, any lease and any number of disruptions: while
\* a leader hears from Redis more often than its lease runs out, no two serving
\* instances believe they lead, and the one that does holds the key.
THEOREM LeaderExclusive ==
  ASSUME MaxAge < LeaseTicks
  PROVE  Spec => [](AtMostOneLeader /\ LeaderHoldsLease)
<1>1. Init => IInv
  BY TypeInit, Zenon DEF Init, IInv, LeaseInv, Relying, Up
<1>2. IInv /\ [Next]_vars => IInv'
  BY TypeStep, LeaseStep, Zenon DEF IInv
<1>3. IInv => AtMostOneLeader /\ LeaderHoldsLease
  BY DEF IInv, LeaseInv, Relying, AtMostOneLeader, LeaderHoldsLease, Leading
<1> QED BY <1>1, <1>2, <1>3, PTL DEF Spec

-----------------------------------------------------------------------------
(* Leases and their holders                                                  *)

\* A key with a lease of at least a second is never set without an expiry.
LEMMA KeysExpire ==
  ASSUME LeaseTicks > 0
  PROVE  Spec => []((owner \in Instances \cup {Nobody, Ghost}) /\ ttl \in 0 .. LeaseTicks)
<1> DEFINE I == (owner \in Instances \cup {Nobody, Ghost}) /\ ttl \in 0 .. LeaseTicks
<1>1. Init => I
  BY LeaseTicksNat DEF Init
<1>2. I /\ [Next]_vars => I'
  <2> SUFFICES ASSUME I, [Next]_vars PROVE I'
    OBVIOUS
  <2> USE LeaseTicksNat
  <2>1. ASSUME NEW i \in Instances, Step(i) PROVE I'
    <3>1. CASE ExecGranted(i) BY <3>1 DEF ExecGranted, SetNX, ExtendLease
    <3>2. CASE ExecRelease(i) BY <3>2 DEF ExecRelease
    <3>3. CASE Exit(i) BY <3>3, Zenon DEF Exit
    <3>4. CASE UNCHANGED <<owner, ttl>> BY <3>4, Zenon
    <3> QED BY <2>1, <3>1, <3>2, <3>3, <3>4, Zenon DEF Step, Start, SendAttempt, ExecDenied, ExecFailed,
               StoreReply, Stop, FinishStop, BeginCycle, EndCycle
  <2>2. CASE ExecStray BY <2>2 DEF ExecStray, SetNX
  <2>3. CASE Tick BY <2>3 DEF Tick
  <2>4. CASE UNCHANGED vars BY <2>4, Zenon DEF vars
  <2> QED BY <2>1, <2>2, <2>3, <2>4, Zenon DEF Next
<1> QED BY <1>1, <1>2, PTL DEF Spec

\* Nobody touches another's lease, for any instances and any lease of at least a second:
\* its time to live grows only by its holder's renewal, no SET NX replaces it, and before
\* it runs out only its holder's release script frees it.
THEOREM LeaseIsTheHolders == ASSUME LeaseTicks > 0 PROVE Spec => LeaseBelongsToItsHolder
<1> DEFINE I == (owner \in Instances \cup {Nobody, Ghost}) /\ ttl \in 0 .. LeaseTicks
           A == owner # Nobody =>
                  /\ ttl' > ttl => \E i \in Instances :
                                     owner = i /\ call[i] = "renew" /\ call'[i] # "renew"
                  /\ owner' \in {owner, Nobody, Ghost}
                  /\ owner' = Nobody /\ ttl # 1 =>
                       \E i \in Instances : owner = i /\ status[i] = "releasing"
<1>1. TypeOK /\ I /\ Next => A
  <2> SUFFICES ASSUME TypeOK, I, Next, owner # Nobody PROVE A
    OBVIOUS
  <2> USE LeaseTicksNat
  <2>1. CASE UNCHANGED <<owner, ttl>> BY <2>1
  <2>2. ASSUME NEW i \in Instances, Step(i) PROVE A
    <3>1. CASE ExecGranted(i)
      <4>1. /\ owner = i /\ call[i] = "renew" /\ owner' = owner
            /\ call' = [call EXCEPT ![i] = "yes"] \/ call' = [call EXCEPT ![i] = "error"]
        BY <3>1 DEF ExecGranted, SetNX, ExtendLease
      <4>2. call'[i] # "renew"
        BY <4>1, Zenon DEF TypeOK
      <4> QED BY <4>1, <4>2, Zenon
    <3>2. CASE ExecRelease(i) BY <3>2 DEF ExecRelease
    <3>3. CASE Exit(i) BY <3>3, ConstantsAssumption DEF Exit
    <3> QED BY <2>1, <2>2, <3>1, <3>2, <3>3, Zenon DEF Step, Start, SendAttempt, ExecDenied, ExecFailed,
               StoreReply, Stop, FinishStop, BeginCycle, EndCycle
  <2>3. CASE ExecStray BY <2>3 DEF ExecStray, SetNX
  <2>4. CASE Tick BY <2>4 DEF Tick
  <2> QED BY <2>2, <2>3, <2>4, Zenon DEF Next
<1>2. TypeOK /\ I /\ [Next]_vars => [A]_vars
  BY <1>1, Zenon
<1> QED BY <1>2, TypeCorrect, KeysExpire, PTL DEF Spec, LeaseBelongsToItsHolder

-----------------------------------------------------------------------------
(* The drains of admin calls                                                *)

\* Writing an expiry in whole seconds never postpones it.
LEMMA RFC3339NotLater ==
  ASSUME NEW t \in Nat
  PROVE  RFC3339(t) \in Nat /\ RFC3339(t) <= t
<1>1. t % TicksPerSecond \in Nat /\ t % TicksPerSecond <= t
  BY DrainAssumption DEF DrainAssumption
<1>. QED BY <1>1 DEF RFC3339

\* The initial state is well-typed.
LEMMA DrainTypeInit == DrainInit => DrainTypeOK
<1>. SUFFICES ASSUME DrainInit PROVE DrainTypeOK
  OBVIOUS
<1>1. scoresStored \in BOOLEAN
  BY Zenon DEF DrainInit
<1>2. /\ now \in 1 .. MaxTime /\ made \in 0 .. MaxCalls /\ errors \in 0 .. MaxErrors
  BY DrainAssumption DEF DrainInit, DrainAssumption
<1>3. NothingDrained \in Drains
  BY Zenon DEF NothingDrained, Drains, NoDrain
<1>. QED BY <1>1, <1>2, <1>3, Zenon DEF DrainInit, DrainTypeOK, NoTTL

\* A well-typed listing.
LEMMA ListingShape ==
  ASSUME DrainTypeOK, NEW r \in Pods, NEW l \in listing[r]
  PROVE  /\ l.drains \in Drains /\ l.expired \in SUBSET DrainKeys
         /\ [l EXCEPT !.reaped = TRUE] \in Listing
         /\ [l EXCEPT !.reaped = TRUE].drains = l.drains
<1>1. l \in Listing
  BY Zenon DEF DrainTypeOK
<1>. QED BY <1>1, Zenon DEF Listing

\* Every action keeps the types.
LEMMA DrainTypeStep == DrainTypeOK /\ [DrainNext]_drainVars => DrainTypeOK'
<1>. SUFFICES ASSUME DrainTypeOK, [DrainNext]_drainVars PROVE DrainTypeOK'
  OBVIOUS
<1>. USE DrainAssumption DEF DrainAssumption
<1>1. ASSUME NEW r \in Pods, NEW k \in DrainKeys, NEW d \in Durations, DrainDomain(r, k, d)
      PROVE  DrainTypeOK'
  <2>. DEFINE until == now + d
              kept == [x \in DrainKeys |->
                         IF InForce(drainedDomains[r][x]) THEN drainedDomains[r][x] ELSE NoDrain]
              entry == IF d = 0 THEN NoDrain ELSE until
  <2>1. until \in Nat /\ entry \in Nat
    BY DEF DrainTypeOK, NoDrain
  <2>2. kept \in Drains
    BY DEF DrainTypeOK, Drains, NoDrain
  <2>3. drainedDomains' = [drainedDomains EXCEPT ![r] = [kept EXCEPT ![k] = entry]]
    BY <1>1, Zenon DEF DrainDomain
  <2>4. drainedDomains' \in [Pods -> Drains]
    <3>. HIDE DEF kept, entry, until
    <3>1. [kept EXCEPT ![k] = entry] \in Drains
      BY <2>1, <2>2, Zenon DEF Drains
    <3>. QED BY <2>3, <3>1, Zenon DEF DrainTypeOK
  <2>5. made < MaxCalls /\ made' = made + 1 /\ made' \in 0 .. MaxCalls
    BY <1>1 DEF DrainDomain, DrainTypeOK
  <2>6. calls' \subseteq Call
    <3>1. calls' = calls \cup {[id |-> made + 1, key |-> k, until |-> entry]}
      BY <1>1, Zenon DEF DrainDomain
    <3>2. made + 1 \in 1 .. MaxCalls
      BY <2>5 DEF DrainTypeOK
    <3>3. [id |-> made + 1, key |-> k, until |-> entry] \in Call
      BY <2>1, <3>2, Zenon DEF Call
    <3>. QED BY <3>1, <3>3, Zenon DEF DrainTypeOK
  <2>7. asked' \subseteq [key : DrainKeys, until : Nat]
    <3>1. asked' = asked \/ asked' = asked \cup {[key |-> k, until |-> until]}
      BY <1>1, Zenon DEF DrainDomain
    <3>2. [key |-> k, until |-> until] \in [key : DrainKeys, until : Nat]
      BY <2>1, Zenon
    <3>. QED BY <3>1, <3>2, Zenon DEF DrainTypeOK
  <2>8. UNCHANGED <<now, hash, hashTTL, listing, scoresStored, errors>>
    BY <1>1, Zenon DEF DrainDomain
  <2>. QED BY <2>4, <2>5, <2>6, <2>7, <2>8, Zenon DEF DrainTypeOK
<1>2. ASSUME NEW c \in calls, Write(c) PROVE DrainTypeOK'
  <2>1. c \in Call
    BY Zenon DEF DrainTypeOK
  <2>2. RFC3339(c.until) \in Nat
    BY <2>1, RFC3339NotLater, Zenon DEF Call
  <2>3. hash' \in Drains
    BY <1>2, <2>1, <2>2, Zenon DEF Write, DrainTypeOK, Drains, Call
  <2>4. hashTTL' \in Nat
    BY <1>2, <2>1, Zenon DEF Write, ExpireGT, DrainTypeOK, Call
  <2>5. calls' \subseteq Call
    BY <1>2, Zenon DEF Write, DrainTypeOK
  <2>. QED BY <1>2, <2>3, <2>4, <2>5, Zenon DEF Write, DrainTypeOK
<1>3. ASSUME NEW c \in calls, WriteFails(c) PROVE DrainTypeOK'
  BY <1>3 DEF WriteFails, DrainTypeOK
<1>5. ASSUME NEW r \in Pods, RefreshList(r) PROVE DrainTypeOK'
  <2>. DEFINE l == [drains |-> [k \in DrainKeys |-> IF InForce(hash[k]) THEN hash[k] ELSE NoDrain],
                    expired |-> {k \in DrainKeys : hash[k] # NoDrain /\ ~ InForce(hash[k])},
                    reaped |-> FALSE]
  <2>1. l \in Listing
    BY Zenon DEF Listing, Drains, DrainTypeOK, NoDrain
  <2>2. listing' = [listing EXCEPT ![r] = {l}]
    BY <1>5, Zenon DEF RefreshList
  <2>3. listing' \in [Pods -> SUBSET Listing]
    <3>. HIDE DEF l
    <3>. QED BY <2>1, <2>2, Zenon DEF DrainTypeOK
  <2>. QED BY <1>5, <2>3, Zenon DEF RefreshList, DrainTypeOK
<1>6. ASSUME NEW r \in Pods, Reap(r) PROVE DrainTypeOK'
  <2>1. PICK l \in listing[r] :
          /\ hash' = [k \in DrainKeys |-> IF k \in l.expired THEN NoDrain ELSE hash[k]]
          /\ listing' = [listing EXCEPT ![r] = {[l EXCEPT !.reaped = TRUE]}]
    BY <1>6, Zenon DEF Reap
  <2>2. hash' \in Drains
    BY <2>1, Zenon DEF DrainTypeOK, Drains, NoDrain
  <2>3. listing' \in [Pods -> SUBSET Listing]
    BY <2>1, ListingShape DEF DrainTypeOK
  <2>. QED BY <1>6, <2>2, <2>3, Zenon DEF Reap, DrainTypeOK
<1>7. ASSUME NEW r \in Pods, RefreshReplace(r) PROVE DrainTypeOK'
  <2>1. PICK l \in listing[r] : drainedDomains' = [drainedDomains EXCEPT ![r] = l.drains]
    BY <1>7, Zenon DEF RefreshReplace
  <2>2. drainedDomains' \in [Pods -> Drains]
    BY <2>1, ListingShape, Zenon DEF DrainTypeOK
  <2>. QED BY <1>7, <2>2, Zenon DEF RefreshReplace, DrainTypeOK
<1>8. CASE ScoresComeAndGo
  <2>1. scoresStored' \in BOOLEAN
    BY <1>8, Zenon DEF ScoresComeAndGo
  <2>. QED BY <1>8, <2>1, Zenon DEF ScoresComeAndGo, DrainTypeOK
<1>9. CASE ClockTicks
  BY <1>9 DEF ClockTicks, DrainTypeOK
<1>10. CASE UNCHANGED drainVars
  BY <1>10, Zenon DEF drainVars, DrainTypeOK
<1>. QED BY <1>1, <1>2, <1>3, <1>5, <1>6, <1>7, <1>8, <1>9, <1>10, Zenon DEF DrainNext

\* Every action keeps every copy of a drain within what was asked for.
LEMMA CopiesStep == DrainTypeOK /\ EveryCopyWasAskedFor /\ [DrainNext]_drainVars => EveryCopyWasAskedFor'
<1>. SUFFICES ASSUME DrainTypeOK, EveryCopyWasAskedFor, [DrainNext]_drainVars PROVE EveryCopyWasAskedFor'
  OBVIOUS
<1>. USE DrainAssumption DEF DrainAssumption
<1>1. ASSUME NEW r \in Pods, NEW k \in DrainKeys, NEW d \in Durations, DrainDomain(r, k, d)
      PROVE  EveryCopyWasAskedFor'
  <2>. DEFINE until == now + d
              kept == [x \in DrainKeys |->
                         IF InForce(drainedDomains[r][x]) THEN drainedDomains[r][x] ELSE NoDrain]
              entry == IF d = 0 THEN NoDrain ELSE until
              req == [id |-> made + 1, key |-> k, until |-> entry]
              Ok(x, u) == u # NoDrain => \E a \in asked' : a.key = x /\ u <= a.until
  <2>1. until \in Nat /\ asked \subseteq asked'
    BY <1>1 DEF DrainTypeOK, DrainDomain
  <2>2. entry # NoDrain => [key |-> k, until |-> until] \in asked' /\ entry = until
    BY <1>1, Zenon DEF DrainDomain, NoDrain
  <2>3. Ok(k, entry)
    <3>. HIDE DEF entry, until
    <3>1. until <= until
      BY <2>1
    <3>. QED BY <2>2, <3>1, Zenon
  <2>4. ASSUME NEW x, NEW u, Covered(x, u) PROVE Ok(x, u)
    BY <2>1, <2>4, Zenon DEF Covered
  <2>5. drainedDomains' = [drainedDomains EXCEPT ![r] = [kept EXCEPT ![k] = entry]]
    BY <1>1, Zenon DEF DrainDomain
  <2>6. \A x \in DrainKeys : Covered(x, kept[x])
    BY DEF EveryCopyWasAskedFor, Covered, NoDrain
  <2>7. kept \in [DrainKeys -> Nat] /\ req.key = k /\ req.until = entry
    BY Zenon DEF DrainTypeOK, Drains, NoDrain
  <2>8. calls' = calls \cup {req}
    BY <1>1, Zenon DEF DrainDomain
  <2>. HIDE DEF entry, until, kept, req, Ok
  <2>9. \A q \in Pods, x \in DrainKeys : Ok(x, drainedDomains'[q][x])
    <3>. SUFFICES ASSUME NEW q \in Pods, NEW x \in DrainKeys
                  PROVE  Ok(x, drainedDomains'[q][x])
      OBVIOUS
    <3>1. CASE q = r /\ x = k
      <4>1. drainedDomains'[q][x] = entry
        BY <2>5, <2>7, <3>1, Zenon DEF DrainTypeOK
      <4>. QED BY <2>3, <3>1, <4>1, Zenon
    <3>2. CASE q = r /\ x # k
      <4>1. drainedDomains'[q][x] = kept[x]
        BY <2>5, <2>7, <3>2, Zenon DEF DrainTypeOK
      <4>. QED BY <2>4, <2>6, <4>1, Zenon
    <3>3. CASE q # r
      <4>1. drainedDomains'[q][x] = drainedDomains[q][x]
        BY <2>5, <3>3, Zenon DEF DrainTypeOK
      <4>. QED BY <2>4, <4>1, Zenon DEF EveryCopyWasAskedFor
    <3>. QED BY <3>1, <3>2, <3>3, Zenon
  <2>10. \A c \in calls' : Ok(c.key, c.until)
    BY <2>3, <2>4, <2>7, <2>8, Zenon DEF EveryCopyWasAskedFor
  <2>11. UNCHANGED <<hash, listing>>
    BY <1>1, Zenon DEF DrainDomain
  <2>12. /\ \A x \in DrainKeys : Ok(x, hash'[x])
         /\ \A q \in Pods : \A l \in listing'[q] : \A x \in DrainKeys : Ok(x, l.drains[x])
    BY <2>4, <2>11, Zenon DEF EveryCopyWasAskedFor
  <2>. QED BY <2>9, <2>10, <2>12, Zenon DEF Ok, Covered, EveryCopyWasAskedFor
<1>2. ASSUME NEW c \in calls, Write(c) PROVE EveryCopyWasAskedFor'
  <2>1. c \in Call /\ c.until \in Nat /\ c.key \in DrainKeys
    BY Zenon DEF DrainTypeOK, Call
  <2>2. Covered(c.key, RFC3339(c.until))
    <3>1. CASE c.until = NoDrain
      BY <2>1, <3>1, RFC3339NotLater DEF Covered, NoDrain
    <3>2. CASE c.until # NoDrain
      <4>1. PICK a \in asked : a.key = c.key /\ c.until <= a.until
        BY <3>2, Zenon DEF EveryCopyWasAskedFor, Covered
      <4>2. a.until \in Nat
        BY Zenon DEF DrainTypeOK
      <4>. QED BY <2>1, <4>1, <4>2, RFC3339NotLater DEF Covered
    <3>. QED BY <3>1, <3>2, Zenon
  <2>3. hash' = [hash EXCEPT ![c.key] = RFC3339(c.until)] /\ UNCHANGED <<asked, drainedDomains, listing>>
    BY <1>2, Zenon DEF Write
  <2>4. \A k \in DrainKeys : Covered(k, hash[k])'
    BY <2>1, <2>2, <2>3 DEF Covered, EveryCopyWasAskedFor, DrainTypeOK, Drains
  <2>5. \A x \in calls' : Covered(x.key, x.until)'
    <3>1. calls' \subseteq calls
      BY <1>2, Zenon DEF Write
    <3>. QED BY <2>3, <3>1, Zenon DEF Covered, EveryCopyWasAskedFor
  <2>. QED BY <2>3, <2>4, <2>5 DEF Covered, EveryCopyWasAskedFor
<1>3. ASSUME NEW c \in calls, WriteFails(c) PROVE EveryCopyWasAskedFor'
  <2>1. calls' \subseteq calls /\ UNCHANGED <<asked, hash, drainedDomains, listing>>
    BY <1>3, Zenon DEF WriteFails
  <2>. QED BY <2>1 DEF Covered, EveryCopyWasAskedFor
<1>5. ASSUME NEW r \in Pods, RefreshList(r) PROVE EveryCopyWasAskedFor'
  <2>. DEFINE ds == [k \in DrainKeys |-> IF InForce(hash[k]) THEN hash[k] ELSE NoDrain]
              l == [drains |-> ds,
                    expired |-> {k \in DrainKeys : hash[k] # NoDrain /\ ~ InForce(hash[k])},
                    reaped |-> FALSE]
  <2>1. listing' = [listing EXCEPT ![r] = {l}] /\ UNCHANGED <<asked, hash, drainedDomains, calls>>
    BY <1>5, Zenon DEF RefreshList
  <2>2. \A k \in DrainKeys : Covered(k, ds[k])
    BY Zenon DEF EveryCopyWasAskedFor, Covered, NoDrain
  <2>3. l.drains = ds
    OBVIOUS
  <2>. HIDE DEF l, ds
  <2>4. \A q \in Pods : \A x \in listing'[q] : \A k \in DrainKeys : Covered(k, x.drains[k])
    BY <2>1, <2>2, <2>3, Zenon DEF EveryCopyWasAskedFor, DrainTypeOK
  <2>. QED BY <2>1, <2>4 DEF Covered, EveryCopyWasAskedFor
<1>6. ASSUME NEW r \in Pods, Reap(r) PROVE EveryCopyWasAskedFor'
  <2>1. PICK l \in listing[r] :
          /\ hash' = [k \in DrainKeys |-> IF k \in l.expired THEN NoDrain ELSE hash[k]]
          /\ listing' = [listing EXCEPT ![r] = {[l EXCEPT !.reaped = TRUE]}]
    BY <1>6, Zenon DEF Reap
  <2>2. UNCHANGED <<asked, drainedDomains, calls>>
    BY <1>6, Zenon DEF Reap
  <2>3. \A k \in DrainKeys : Covered(k, hash'[k])
    BY <2>1, Zenon DEF EveryCopyWasAskedFor, Covered, NoDrain
  <2>4. \A q \in Pods : \A x \in listing'[q] : \A k \in DrainKeys : Covered(k, x.drains[k])
    <3>1. [l EXCEPT !.reaped = TRUE].drains = l.drains
      BY ListingShape, Zenon
    <3>. QED BY <2>1, <3>1, Zenon DEF EveryCopyWasAskedFor, DrainTypeOK
  <2>. QED BY <2>2, <2>3, <2>4 DEF Covered, EveryCopyWasAskedFor
<1>7. ASSUME NEW r \in Pods, RefreshReplace(r) PROVE EveryCopyWasAskedFor'
  <2>1. PICK l \in listing[r] : drainedDomains' = [drainedDomains EXCEPT ![r] = l.drains]
    BY <1>7, Zenon DEF RefreshReplace
  <2>2. listing' = [listing EXCEPT ![r] = {}] /\ UNCHANGED <<asked, hash, calls>>
    BY <1>7, Zenon DEF RefreshReplace
  <2>3. \A q \in Pods, k \in DrainKeys : Covered(k, drainedDomains'[q][k])
    BY <2>1, Zenon DEF EveryCopyWasAskedFor, DrainTypeOK
  <2>4. \A q \in Pods : listing'[q] \subseteq listing[q]
    BY <2>2, Zenon DEF DrainTypeOK
  <2>. QED BY <2>2, <2>3, <2>4 DEF Covered, EveryCopyWasAskedFor
<1>8. CASE ScoresComeAndGo \/ ClockTicks \/ UNCHANGED drainVars
  <2>1. UNCHANGED <<asked, hash, calls, drainedDomains, listing>>
    BY <1>8, Zenon DEF ScoresComeAndGo, ClockTicks, drainVars
  <2>. QED BY <2>1 DEF Covered, EveryCopyWasAskedFor
<1>. QED BY <1>1, <1>2, <1>3, <1>5, <1>6, <1>7, <1>8, Zenon DEF DrainNext

\* Every reachable state is well-typed.
THEOREM DrainTypeCorrect == DrainSpec => []DrainTypeOK
BY DrainTypeInit, DrainTypeStep, PTL DEF DrainSpec

\* Selection benches an operator only while a drain that an admin call asked
\* for, of the request's RPC type or of all types, has not run out.
THEOREM BenchesOnlyWhatWasAsked == DrainSpec => []BenchWasAskedFor
<1>1. DrainInit => EveryCopyWasAskedFor
  BY DEF DrainInit, EveryCopyWasAskedFor, NothingDrained, Covered
<1>2. DrainTypeOK /\ EveryCopyWasAskedFor => BenchWasAskedFor
  <2>. SUFFICES ASSUME DrainTypeOK, EveryCopyWasAskedFor, NEW r \in Pods, NEW t \in RpcTypes,
                       IsDomainDrained(r, t)
                PROVE  \E a \in asked : a.key \in {t, AllTypes} /\ now < a.until
    BY Zenon DEF BenchWasAskedFor
  <2>1. PICK k \in {t, AllTypes} : now < drainedDomains[r][k]
    BY Zenon DEF IsDomainDrained, InForce
  <2>2. k \in DrainKeys /\ drainedDomains[r][k] \in Nat /\ drainedDomains[r][k] # NoDrain
    BY <2>1, DrainAssumption DEF DrainKeys, DrainTypeOK, Drains, NoDrain, DrainAssumption
  <2>3. PICK a \in asked : a.key = k /\ drainedDomains[r][k] <= a.until
    BY <2>2, Zenon DEF EveryCopyWasAskedFor, Covered
  <2>4. a.until \in Nat /\ now \in Nat
    BY DrainAssumption DEF DrainTypeOK, DrainAssumption
  <2>. QED BY <2>1, <2>2, <2>3, <2>4
<1>. QED BY <1>1, <1>2, DrainTypeInit, DrainTypeStep, CopiesStep, PTL DEF DrainSpec
==============================================================================
