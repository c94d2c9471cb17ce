SPECIFICATION FairSpec
CONSTANTS
  Instance = {"i1", "i2"}
  Release <- Rolling
  Code <- TwoCodes
  Permission = {"read", "assign", "manage", "audit"}
  Route = {"users", "portal"}
  Path = {AtUsers, AtPeople}
  Menu <- Menus
  Paths <- MovedPaths
  AtUsers = AtUsers
  AtPeople = AtPeople
  Grants <- ChangedGrants
  Needs <- ChangedNeeds
  Left <- EmptyOrOlder
  Reader = {"r1"}
  CacheTTL = 1
  None = None
  MaxClock = 2
  MaxFails = 1
INVARIANTS TypeOK UpMeansSeeded SoloSeedWins ListsLapse
PROPERTY AllComeUp
