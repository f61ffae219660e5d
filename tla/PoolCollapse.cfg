SPECIFICATION MCSpec
\* Sessions of three blocks with a grace period of two, each cache up to a block behind.
CONSTANTS
  BlocksPerSession = 3
  Grace = 2
  ScaledGrace = 1
  RolloverBlocks = 1
  Lag = 1
  MonitorLag = 1
  FirstHeight = 3
  MaxHeight = 6
INVARIANT HttpPoolSurvives
\* A request ends.
CHECK_DEADLOCK FALSE
