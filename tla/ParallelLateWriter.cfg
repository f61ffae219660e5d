SPECIFICATION MCSpec
CONSTANTS
  Endpoints = {"a1","a2","b1","c1"}
  Host <- HostOf
  Operator <- OperatorOf
  MaxRetries = 2
  RetryOn = {"5xx","timeout","connection"}
  QosValid = {"a1","a2","b1"}
  FailedLookups = 1
  Candidates = {"a1","a2","b","raw"}
  DomainOf <- RaceDomains
  HedgeDelay = 1
  SecondWait = 3
  CollectWait = 1
  GraceWindow = 2
PROPERTY ClientGetsTheWinner
CHECK_DEADLOCK FALSE
