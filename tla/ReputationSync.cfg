SPECIFICATION MCSpec
CONSTANTS
  Replicas = {r1, r2}
  Keys = {k1}
  NoScore = NoScore
  BufferSize = 1
  MaxVersions = 2
  MaxDisruptions = 1
INVARIANTS ArchivalIndexInSync StopFlushes RefreshIsFaithful
PROPERTIES CoalescingIsExact CachesConverge BenchesAreProportionate
CHECK_DEADLOCK FALSE
