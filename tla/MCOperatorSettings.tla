------------------------- MODULE MCOperatorSettings -------------------------
(***************************************************************************)
(* What the operators of a gateway ask for, for TLC: the drains of admin   *)
(* calls, which replicas share through Redis (ReputationDrains), and the   *)
(* settings and health check rules of the configuration, which instances   *)
(* merge and hand on (ServiceConfig).  part says which is explored.        *)
(***************************************************************************)
EXTENDS ReputationDrains, FiniteSets

VARIABLES
  part,
  phase, own, block, hasBlock, defaults, parent, reputation, hc, aliased, tied, gatewayAllowance,
  local, rules, checks, loaded, qos, refresh, register, snapshot

Config == INSTANCE ServiceConfig WITH Listed <- {"listed"}, Served <- {"listed", "other"}

configVars == <<phase, own, block, hasBlock, defaults, parent, reputation, hc, aliased, tied,
  gatewayAllowance, local, rules, checks, loaded, qos, refresh, register, snapshot>>

\* One aspect of the configuration varies at a time: the override blocks, the sync allowances,
\* or the sources of the checks, two at a time or all of them switched off.
PlainBlocks ==
  /\ ~hasBlock /\ reputation
  /\ parent["amount"] = Config!Unset /\ parent["batch"] = Config!Unset
  /\ defaults["serving"]["flag"] = Config!Unset
PlainAllowances ==
  hc["wiring"]["listed"] = Config!Bare /\ gatewayAllowance = Config!NoAllowance /\ local = <<>>
NoChecks == checks = [defined |-> {}, enabled |-> "unset"]
SomeChecks ==
  \/ checks.enabled = "unset" /\ Cardinality(checks.defined) = 2
  \/ checks.enabled = "off" /\ checks.defined = Config!Sources

OneAspect ==
  \/ NoChecks /\ PlainAllowances /\ refresh = "never"
  \/ NoChecks /\ PlainBlocks
  \/ SomeChecks /\ PlainBlocks /\ PlainAllowances /\ refresh = "idle"

configIdle ==
  /\ phase = "idle" /\ own = 0 /\ block = 0 /\ hasBlock = 0 /\ defaults = 0 /\ parent = 0
  /\ reputation = 0 /\ hc = 0 /\ aliased = 0 /\ tied = 0 /\ gatewayAllowance = 0 /\ local = 0
  /\ rules = 0 /\ checks = 0 /\ loaded = 0 /\ qos = 0 /\ refresh = "idle" /\ register = "idle"
  /\ snapshot = 0

InDrains(A) == part = "drains" /\ A /\ UNCHANGED <<part, configVars>>
Configure(A) == part = "config" /\ A /\ UNCHANGED <<part, drainVars>>

MCInit ==
  /\ DrainInit
  /\ part \in {"drains", "config"}
  /\ IF part = "config" THEN Config!Init /\ OneAspect ELSE configIdle

MCNext == InDrains(DrainNext) \/ Configure(Config!Next)

mcVars == <<part, drainVars, configVars>>

\* The fairness of ReputationDrains, in its part; the configuration has none.
MCSpec ==
  /\ MCInit /\ [][MCNext]_mcVars
  /\ WF_drainVars(part = "drains" /\ \E c \in calls : Write(c))
  /\ \A r \in Pods : SF_drainVars(part = "drains" /\ Refresh(r))

-----------------------------------------------------------------------------
\* What is set nearest to a service wins, settings and checks alike, whichever instance merges
\* first and whatever sources fail on a refresh (GetMergedServiceConfig, GetServiceConfigs), and
\* the sync allowance of a rule reaches the QoS instance although the first rules are loaded
\* before the instances are registered (SetQoSInstances).
ConfigurationIsHonoured == part = "config" => Config!NearestWins /\ Config!EarlyRulesReachQos
=============================================================================
