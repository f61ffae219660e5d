SPECIFICATION MCSpec
CONSTANTS
  Pods = {r1, r2}
  RpcTypes = {ws}
  AllTypes = AllTypes
  TicksPerSecond = 2
  Durations = {0, 2}
  ScoresMayVanish = TRUE
  MaxCalls = 2
  MaxErrors = 1
  MaxTime = 4
INVARIANTS BenchWasAskedFor ConfigurationIsHonoured
PROPERTY FleetFollowsStorage
CHECK_DEADLOCK FALSE
