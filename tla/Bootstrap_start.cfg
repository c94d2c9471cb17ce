CONSTANTS
  Unset = Unset
  Blank = Blank
  Junk = Junk
  MaxPings = 2
  Environments <- MCEnvironments
SPECIFICATION BFairSpec
CHECK_DEADLOCK FALSE
INVARIANT ConnectionsFollowEnvironment
PROPERTIES ReadyDespiteRedis GaugesCatchUp
