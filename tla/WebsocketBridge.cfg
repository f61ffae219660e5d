SPECIFICATION MCSpec
CONSTANTS
  Endpoints = {"a", "c"}
  Backend <- MCBackend
  Operator <- MCOperator
  Rotate = TRUE
  SelectedEndpoint = "a"
  reconnectMaxAttempts = 2
  maxConsecutiveStallRebinds = 1
  maxConsecutiveSessionRebinds = 1
  MaxGen = 1
  ReqIDs = {"r1", "r2"}
  MaxSubscribes = 2
  MaxRebinds = 3
  Fallbacks = {1}
  Conns = {"c1", "c2"}
  Domain = {"x", "y"}
  MaxConns = 2
  Broken = {"x"}
INVARIANTS SocketsAreClosed BooksFollowBinding SubscriptionsAreSeamless ConnectionsAreCounted
PROPERTIES FailedRebindAsksToReconnect ConnectionsEnd HeightsKeepComing
\* A connection ends.
CHECK_DEADLOCK FALSE
