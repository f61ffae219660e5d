SPECIFICATION MCSpec
CONSTANTS
  Instances = {i1, i2}
  Nobody = Nobody
  Ghost = Ghost
  LeaseDuration = 3
  Second = 2
  MaxAge = 1
  MaxDisruptions = 3
INVARIANT AtMostOneLeader
PROPERTIES LeaseBelongsToItsHolder LeadershipSettles CreditIsEarned EveryMemberIsProbed
