---------------------------- MODULE ServiceConfig ----------------------------
(***************************************************************************)
(* Which setting a service is really served under: the service overrides   *)
(* of the unified configuration, the defaults they inherit, the parent     *)
(* gateway configuration, and the health-check rules loaded from outside.  *)
(*                                                                         *)
(* gateway/unified_service_config.go, gateway/health_check_config.go,      *)
(* gateway/health_check_executor.go (configuration part), cmd/qos.go and   *)
(* the wiring of cmd/main.go and protocol/shannon/protocol.go.             *)
(*                                                                         *)
(* Two instances of UnifiedServicesConfig exist.  NewProtocol receives its *)
(* configuration by value, so the instance that serves requests, "serving",*)
(* is a copy of the one main() hands to the QoS instances, the router and  *)
(* the health-check executor, "wiring".  The copies share whatever hangs   *)
(* off a pointer: the backing array of Services and the nested override    *)
(* blocks of each service.                                                 *)
(***************************************************************************)
EXTENDS Integers, FiniteSets, SequencesExt

CONSTANTS
    Listed,       \* services with an entry under gateway_config.services
    Served        \* services of the owned applications, the listed ones included

(***************************************************************************)
(* Settings of a nested block, one per way of inheriting a value:          *)
(*   flag     a Boolean: the parent always provides it                     *)
(*   amount   a number: the parent provides it when it is positive         *)
(*   batch    hedge_max_batch_size: provided, or else shipped right there  *)
(*   private  no parent setting (relay_timeout, initial_score, ...)        *)
(***************************************************************************)
Setting == {"flag", "amount", "batch", "private"}
Unset == "unset"
Values == {"own", "yaml", "parent", "shipped"}
Instance == {"serving", "wiring"}

\* Sync allowances are told apart by where they come from.
NoAllowance == 0
OwnAllowance == 1
LocalAllowance == 2
GatewayAllowance == 3
DefaultSyncAllowance == 5
RuleAllowances == {8, 9}

VARIABLES
    phase,      \* how far main() has come
    own,        \* the override block of a service as parsed from the YAML
    block,      \* [Setting -> value]: that block now (shared by the two instances)
    hasBlock,   \* the service has such a block at all
    defaults,   \* [Instance -> [Setting -> value]]
    parent,     \* [Setting -> value]: the gateway-level settings
    reputation, \* reputation_config.enabled
    hc,         \* [Instance -> [Served -> entry]]: the HealthChecks overrides
    aliased,    \* the two Services slices still share their backing array
    tied,       \* services whose two entries hold the same HealthChecks pointer
    gatewayAllowance, \* active_health_checks.sync_allowance
    local,      \* active_health_checks.local: services with a sync_allowance, in order
    rules,      \* externalConfigs: the allowance an external rule gives each service
    checks,     \* where the check of a listed service is defined
    loaded,     \* external sources whose checks have been loaded
    qos,        \* the sync allowance each QoS instance selects with
    refresh,    \* progress of refreshExternalConfig; never without a refresh_interval
    register,   \* progress of SetQoSInstances
    snapshot    \* the rules SetQoSInstances read

blockVars == <<own, block, hasBlock, defaults, parent, reputation>>
hcVars == <<hc, aliased, tied, gatewayAllowance, local>>
ruleVars == <<rules, checks, loaded, refresh, register, snapshot>>
vars == <<phase, blockVars, hcVars, ruleVars, qos>>

\* An entry of Services: absent, without a HealthChecks block, or with one.
Absent == [listed |-> FALSE, block |-> FALSE, allowance |-> NoAllowance]
Bare == [listed |-> TRUE, block |-> FALSE, allowance |-> NoAllowance]
With(n) == [listed |-> TRUE, block |-> TRUE, allowance |-> n]

Sources == {"unified", "serviceExternal", "local", "external"}

TypeOK ==
    /\ phase \in {"load", "protocol", "hydrated", "qos", "fetchers", "up"}
    /\ own \in [Setting -> {Unset, "own"}]
    /\ block \in [Setting -> Values \cup {Unset}]
    /\ hasBlock \in BOOLEAN
    /\ defaults \in [Instance -> [Setting -> Values \cup {Unset}]]
    /\ parent \in [Setting -> {Unset, "parent"}]
    /\ reputation \in BOOLEAN
    /\ hc \in [Instance -> [Served -> [listed : BOOLEAN, block : BOOLEAN, allowance : Nat]]]
    /\ aliased \in BOOLEAN /\ tied \subseteq Served
    /\ gatewayAllowance \in {NoAllowance, GatewayAllowance}
    /\ local \in Seq(Served)
    /\ rules \in [Served -> {NoAllowance} \cup RuleAllowances]
    /\ snapshot \in [Served -> {NoAllowance} \cup RuleAllowances]
    /\ checks \in [defined : SUBSET Sources, enabled : {"unset", "off"}]
    /\ loaded \subseteq {"serviceExternal", "external"}
    /\ qos \in [Served -> Nat]
    /\ refresh \in {"never", "idle", "propagate"} /\ register \in {"no", "reading", "done"}

-----------------------------------------------------------------------------
(***************************************************************************)
(* Loading: the YAML as parsed.                                            *)
(***************************************************************************)
InitBlocks ==
    /\ hasBlock \in BOOLEAN
    /\ own \in [Setting -> {Unset, "own"}]
    /\ ~hasBlock => own = [s \in Setting |-> Unset]
    /\ block = own
    /\ \E y \in {Unset, "yaml"} : defaults = [i \in Instance |-> [s \in Setting |-> y]]
    /\ \E p \in [{"amount", "batch"} -> {Unset, "parent"}] :
          parent = [s \in Setting |-> CASE s = "flag" -> "parent"
                                        [] s = "private" -> Unset
                                        [] OTHER -> p[s]]
    /\ reputation \in BOOLEAN

InitAllowances ==
    /\ \E e \in [Listed -> {Bare, With(NoAllowance), With(OwnAllowance)}] :
          hc = [i \in Instance |-> [s \in Served |-> IF s \in Listed THEN e[s] ELSE Absent]]
    /\ aliased = TRUE /\ tied = Served
    /\ gatewayAllowance \in {NoAllowance, GatewayAllowance}
    /\ local \in {l \in UNION {[1..n -> Served] : n \in 0..Cardinality(Served)} :
                    \A i, j \in DOMAIN l : l[i] = l[j] => i = j}

\* The checks under one name of one listed service, by where they are defined.
InitChecks ==
    /\ checks \in [defined : SUBSET Sources, enabled : {"unset", "off"}]
    /\ rules = [s \in Served |-> NoAllowance]
    /\ snapshot = rules
    /\ loaded = {}
    /\ refresh \in {"never", "idle"} /\ register = "no"

Init ==
    /\ phase = "load"
    /\ InitBlocks /\ InitAllowances /\ InitChecks
    /\ qos = [s \in Served |-> NoAllowance]

-----------------------------------------------------------------------------
(***************************************************************************)
(* Nested blocks: inheritance and the merge that writes through pointers.  *)
(***************************************************************************)
\* Mutant: the parent only fills what the defaults section leaves open.
ParentFillsGaps(d) ==
    [s \in Setting |-> IF d[s] # Unset THEN d[s] ELSE
                       IF parent[s] = Unset /\ s = "batch" THEN "shipped" ELSE parent[s]]

\* SetDefaultsFromParent: flags always, amounts when positive, and the batch cap
\* either provided or shipped at once when the defaults have none.
SetDefaultsFromParent(d) ==
    [s \in Setting |-> IF parent[s] # Unset THEN parent[s] ELSE
                       IF s = "batch" /\ d[s] = Unset THEN "shipped" ELSE d[s]]

\* HydrateDefaults ships a value for every setting still open.
HydrateDefaults(d) == [s \in Setting |-> IF d[s] = Unset THEN "shipped" ELSE d[s]]

\* What GetMergedServiceConfig returns on instance i: a copy of the defaults when
\* the service has no block, else the block with its gaps filled.
Merged(i) ==
    [s \in Setting |-> IF hasBlock /\ block[s] # Unset THEN block[s] ELSE defaults[i][s]]

\* The merge fills the gaps of the service's own block in place: `merged := *svc`
\* copies the pointer to the block, not the block.
MergeBlock(d) ==
    IF hasBlock THEN [s \in Setting |-> IF block[s] = Unset THEN d[s] ELSE block[s]]
                ELSE block

-----------------------------------------------------------------------------
(***************************************************************************)
(* HealthChecks overrides: copy-on-write by SetServiceSyncAllowance, filled*)
(* in place by GetMergedServiceConfig.                                     *)
(***************************************************************************)
Heap == [hc |-> hc, aliased |-> aliased, tied |-> tied]

SetHeap(h) == hc' = h.hc /\ aliased' = h.aliased /\ tied' = h.tied

\* SetServiceSyncAllowance on instance i publishes a fresh block in the entry, which
\* both instances see while they share the array; an unknown service is appended,
\* which moves the instance to an array of its own.
SetServiceSyncAllowance(h, i, s, n) ==
    IF ~h.hc[i][s].listed THEN [h EXCEPT !.hc[i][s] = With(n), !.aliased = FALSE]
    ELSE IF h.aliased THEN [h EXCEPT !.hc = [j \in Instance |-> [@[j] EXCEPT ![s] = With(n)]]]
    ELSE [h EXCEPT !.hc[i][s] = With(n), !.tied = @ \ {s}]

\* Defaults.ActiveHealthChecks.SyncAllowance of an instance: only the instance that
\* SetDefaultsFromParent ran on has the gateway-level allowance.
DefaultsAllowance(i) == IF i = "serving" THEN gatewayAllowance ELSE NoAllowance

\* GetMergedServiceConfig on i for the services S, as far as HealthChecks goes.
MergeHealthChecks(h, i, S) ==
    LET filled == {s \in S : h.hc[i][s].block /\ h.hc[i][s].allowance = NoAllowance}
        Fill(e) == [e EXCEPT !.allowance = DefaultsAllowance(i)]
    IN [h EXCEPT !.hc = [j \in Instance |-> [s \in Served |->
            IF s \in filled /\ (j = i \/ s \in h.tied) THEN Fill(h.hc[j][s]) ELSE h.hc[j][s]]]]

\* GetSyncAllowanceForService: the service's own, the global default, the shipped one.
GetSyncAllowanceForService(i, s) ==
    IF hc[i][s].block /\ hc[i][s].allowance # NoAllowance THEN hc[i][s].allowance
    ELSE IF DefaultsAllowance(i) # NoAllowance THEN DefaultsAllowance(i)
    ELSE DefaultSyncAllowance

\* The sync_allowance of the local health checks, propagated on the serving instance.
PropagateLocal(h) ==
    FoldLeft(LAMBDA acc, s : SetServiceSyncAllowance(acc, "serving", s, LocalAllowance), h, local)

-----------------------------------------------------------------------------
(***************************************************************************)
(* Startup, in the order of main().                                        *)
(***************************************************************************)
\* NewProtocol: parent defaults and local allowances go to its own copy; with
\* reputation on, every service is merged to configure scores and tiers.
NewProtocol ==
    /\ phase = "load" /\ phase' = "protocol"
    /\ LET d == SetDefaultsFromParent(defaults["serving"])
           h == PropagateLocal(Heap)
       IN /\ defaults' = [defaults EXCEPT !["serving"] = d]
          /\ block' = IF reputation THEN MergeBlock(d) ELSE block
          /\ SetHeap(IF reputation THEN MergeHealthChecks(h, "serving", Served) ELSE h)
    /\ UNCHANGED <<own, hasBlock, parent, reputation, gatewayAllowance, local, ruleVars, qos>>

\* main(): HydrateDefaults on the wiring instance.
Hydrate ==
    /\ phase = "protocol" /\ phase' = "hydrated"
    /\ defaults' = [defaults EXCEPT !["wiring"] = HydrateDefaults(@)]
    /\ UNCHANGED <<own, block, hasBlock, parent, reputation, hcVars, ruleVars, qos>>

\* getServiceQoSInstances: each EVM and Cosmos instance is built with the allowance
\* the wiring instance resolves.
GetServiceQoSInstances ==
    /\ phase = "hydrated" /\ phase' = "qos"
    /\ qos' = [s \in Served |-> GetSyncAllowanceForService("wiring", s)]
    /\ UNCHANGED <<blockVars, hcVars, ruleVars>>

\* main(): the merged configuration of every QoS instance is read for its external
\* block sources.
StartBlockFetchers ==
    /\ phase = "qos" /\ phase' = "fetchers"
    /\ block' = MergeBlock(defaults["wiring"])
    /\ SetHeap(MergeHealthChecks(Heap, "wiring", Served))
    /\ UNCHANGED <<own, hasBlock, defaults, parent, reputation, gatewayAllowance, local, ruleVars, qos>>

-----------------------------------------------------------------------------
(***************************************************************************)
(* External rules.                                                         *)
(***************************************************************************)
\* The rules a fetch may return: an allowance for at most one service.
Payload == {r \in [Served -> {NoAllowance} \cup RuleAllowances] :
               Cardinality({s \in Served : r[s] # NoAllowance}) <= 1}

\* Each rule with an allowance is written to the wiring instance.
PropagateRules(h, r) ==
    FoldLeft(LAMBDA acc, s : IF r[s] = NoAllowance THEN acc
                             ELSE SetServiceSyncAllowance(acc, "wiring", s, r[s]),
             h, SetToSeq(Served))

\* ... and to the QoS instance that is registered for the service.
Follow(r) == [s \in Served |-> IF r[s] = NoAllowance THEN qos[s] ELSE r[s]]

\* refreshPerServiceExternalConfigs: each service's own source answers or is skipped.
refreshPerServiceExternalConfigs == SUBSET ({"serviceExternal"} \cap checks.defined)

\* InitExternalConfig: the first fetch, before any QoS instance is registered, and
\* the per-service fetches.  Either may fail and leaves its source empty.
InitExternalConfig ==
    /\ phase = "fetchers" /\ phase' = "up"
    /\ \E r \in Payload, ok \in BOOLEAN, per \in refreshPerServiceExternalConfigs :
          /\ ~ok => r = rules
          /\ rules' = r
          /\ loaded' = per \cup (IF ok THEN {"external"} \cap checks.defined ELSE {})
          /\ SetHeap(PropagateRules(Heap, r))
    /\ UNCHANGED <<blockVars, gatewayAllowance, local, checks, refresh, register, snapshot, qos>>

\* refreshExternalConfig on a tick: the new rules are stored under the lock.
StoreRules ==
    /\ phase = "up" /\ refresh = "idle"
    /\ \E r \in Payload, found \in BOOLEAN :
          /\ rules' = r
          /\ loaded' = IF found THEN loaded \cup ({"external"} \cap checks.defined)
                                ELSE loaded \ {"external"}
    /\ refresh' = "propagate"
    /\ UNCHANGED <<phase, blockVars, hcVars, checks, register, snapshot, qos>>

\* The rest of the refresh: the allowances are propagated, to the QoS instances too
\* once they are registered.
PropagateStored ==
    /\ refresh = "propagate" /\ refresh' = "idle"
    /\ SetHeap(PropagateRules(Heap, rules))
    /\ qos' = IF register = "no" THEN qos ELSE Follow(rules)
    /\ UNCHANGED <<phase, blockVars, gatewayAllowance, local, rules, checks, loaded, register, snapshot>>

\* A tick whose fetch, status, body or YAML is bad records the error only.
RefreshFails ==
    /\ phase = "up" /\ refresh = "idle"
    /\ UNCHANGED vars

\* SetQoSInstances registers the instances and reads the rules loaded so far ...
SetQoSInstances ==
    /\ phase = "up" /\ register = "no"
    /\ register' = "reading" /\ snapshot' = rules
    /\ UNCHANGED <<phase, blockVars, hcVars, rules, checks, loaded, refresh, qos>>

\* Mutant: the rules loaded before the registration are not applied.
ForgetEarlyRules ==
    /\ register = "reading" /\ register' = "done"
    /\ snapshot' = [s \in Served |-> NoAllowance]
    /\ UNCHANGED <<phase, blockVars, hcVars, rules, checks, loaded, refresh, qos>>

\* ... and applies them.
ApplyEarlyRules ==
    /\ register = "reading" /\ register' = "done"
    /\ qos' = Follow(snapshot)
    /\ snapshot' = [s \in Served |-> NoAllowance]
    /\ UNCHANGED <<phase, blockVars, hcVars, rules, checks, loaded, refresh>>

-----------------------------------------------------------------------------
(***************************************************************************)
(* Reads at run time.                                                      *)
(***************************************************************************)
\* A request reads its retry and concurrency settings on the serving instance.
ServeRequest ==
    /\ register = "done"
    /\ block' = MergeBlock(defaults["serving"])
    /\ SetHeap(MergeHealthChecks(Heap, "serving", Served))
    /\ UNCHANGED <<phase, own, hasBlock, defaults, parent, reputation, gatewayAllowance, local, ruleVars, qos>>

\* A health-check round reads the checks of every service on the wiring instance.
ReadChecks ==
    /\ phase = "up"
    /\ block' = MergeBlock(defaults["wiring"])
    /\ SetHeap(MergeHealthChecks(Heap, "wiring", Served))
    /\ UNCHANGED <<phase, own, hasBlock, defaults, parent, reputation, gatewayAllowance, local, ruleVars, qos>>

-----------------------------------------------------------------------------
(***************************************************************************)
(* The check that runs under one name: a ServiceHealthCheckConfig is       *)
(* reduced to where that check comes from and whether the service is       *)
(* switched off; None when the source has no configuration.                *)
(***************************************************************************)
None == "none"
NoConfig == [check |-> None, enabled |-> "unset"]

\* mergeHealthCheckConfigs: a local check replaces the external one of its name.
mergeHealthCheckConfigs(external, loc) == IF loc # None THEN loc ELSE external

\* Mutant: the external check of a name is kept.
mergeKeepsExternal(external, loc) ==
    [check |-> mergeHealthCheckConfigs(loc.check, external.check),
     enabled |-> IF loc.enabled # "unset" THEN loc.enabled ELSE external.enabled]

\* mergeServiceConfigs: the same by field and by check, for two configurations.
mergeServiceConfigs(external, loc) ==
    [check |-> mergeHealthCheckConfigs(external.check, loc.check),
     enabled |-> IF loc.enabled # "unset" THEN loc.enabled ELSE external.enabled]

\* mergeConfigs: by service; a service in one list only is used as it is.
mergeConfigs(external, loc) ==
    IF external = NoConfig THEN loc
    ELSE IF loc = NoConfig THEN external ELSE mergeServiceConfigs(external, loc)

From(source) == IF source \in checks.defined THEN source ELSE None
Loaded(source) == IF source \in loaded THEN source ELSE None

\* getUnifiedServicesHealthChecks: a service that is switched off, or has no check,
\* contributes nothing.
getUnifiedServicesHealthChecks ==
    IF checks.enabled = "off" THEN NoConfig
    ELSE [check |-> mergeHealthCheckConfigs(Loaded("serviceExternal"), From("unified")),
          enabled |-> "unset"]

\* GetServiceConfigs: unified services > local > external.  An external rule comes with
\* its defaults hydrated, so its service is enabled.
GetServiceConfigs ==
    mergeConfigs(mergeConfigs(
        IF "external" \in loaded THEN [check |-> "external", enabled |-> "on"] ELSE NoConfig,
        [check |-> From("local"), enabled |-> "unset"]),
        getUnifiedServicesHealthChecks)

-----------------------------------------------------------------------------
Refresh == StoreRules \/ PropagateStored \/ RefreshFails
Startup == NewProtocol \/ Hydrate \/ GetServiceQoSInstances \/ StartBlockFetchers
              \/ InitExternalConfig \/ SetQoSInstances \/ ApplyEarlyRules

Next == Startup \/ Refresh \/ ServeRequest \/ ReadChecks

Spec == Init /\ [][Next]_vars

-----------------------------------------------------------------------------
(***************************************************************************)
(* Properties.                                                             *)
(***************************************************************************)
\* With reputation on, an override changes only what it names: a service is served
\* under its own settings, and for every setting it leaves open under the gateway-level
\* one, whichever instance merges first (SetDefaultsFromParent, GetMergedServiceConfig).
GatewayDefaultsApply ==
    (phase # "load" /\ reputation) =>
        \A s \in Setting :
            /\ own[s] = "own" => Merged("serving")[s] = "own"
            /\ (own[s] = Unset /\ parent[s] = "parent") => Merged("serving")[s] = "parent"

\* The sync allowance a rule gives a service reaches the QoS instance that selects
\* endpoints, although the first rules are loaded before the instances are registered
\* and no later refresh would repair it (SetQoSInstances).
EarlyRulesReachQos ==
    (register = "done" /\ refresh = "never") =>
        \A s \in Served : rules[s] # NoAllowance => qos[s] = rules[s]

\* The check that runs under a name is the one defined nearest to the service, whatever
\* sources are loaded, fail or disappear on a refresh (GetServiceConfigs).
NearestCheckWins ==
    (phase = "up" /\ checks.enabled # "off") =>
        LET at == loaded \cup (checks.defined \cap {"unified", "local"})
        IN GetServiceConfigs.check =
              CASE "unified" \in at -> "unified"
                [] "unified" \notin at /\ "serviceExternal" \in at -> "serviceExternal"
                [] at \cap {"unified", "serviceExternal"} = {} /\ "local" \in at -> "local"
                [] at = {"external"} -> "external"
                [] OTHER -> None

\* What is set nearest to a service wins: its settings over the gateway's, and the check defined
\* nearest to it over the others (GetMergedServiceConfig, GetServiceConfigs).
NearestWins == GatewayDefaultsApply /\ NearestCheckWins
=============================================================================
