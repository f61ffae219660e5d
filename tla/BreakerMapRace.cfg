SPECIFICATION MCSpec
CONSTANTS
  p1 = p1
  p2 = p2
  Pods <- TwoPods
  Domains = {d1}
  MarksPerPod = 1
  RefreshesPerPod = 1
  TicksPerSecond = 2
  DefaultTTL = 2
  MaxTTL = 3
  CacheTTL = 1
  FailureWindow = 1
  EscalationMemory = 4
  ThresholdPct = 20
  MarginPct = 15
  MinFailures = 1
  Fleets <- OnePod
  MaxTime = 3
  Recorder = {"r1","r2"}
  Tuple = {"t1","t2"}
  Limit = 1
  MaxGuardTime = 6
  MaxRecords = 4
INVARIANT NoWriteDuringIteration
CHECK_DEADLOCK FALSE
