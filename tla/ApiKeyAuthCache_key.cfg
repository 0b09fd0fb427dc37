SPECIFICATION AuthFairSpec
CONSTANTS
  Procs = {p1, p2}
  Instances = {i1, i2}
  Placements <- MCPlacements
  L1TTL = 1
  L2TTL = 2
  NegativeTTL = 1
  LoadTime = 1
  MaxChanges = 2
  MaxPending = 0
  FaultSets = {{"slow"}, {"redis", "crash"}, {"redis", "crash", "slow"}}
INVARIANTS InvalidationsComplete StaleIsBounded
PROPERTY EventuallyAgrees
