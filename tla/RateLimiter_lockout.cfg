SPECIFICATION Spec
CONSTANTS
  Route = {"login"}
  Req = {r1, r2}
  r1 = r1
  r2 = r2
  Limit <- SmallLimit
  Ttl <- ShortTtl
  Block <- ShortBlock
  MaxClock = 3
  MaxHits = 3
SYMMETRY Symmetric
INVARIANT LaterIsPossible
