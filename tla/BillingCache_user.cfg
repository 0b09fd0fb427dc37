SPECIFICATION CacheFairSpec
CONSTANTS
  Calls = {p1, p2}
  Workers = {w1}
  QueueSize = 1
  Credit = 0
  MaxTopUps = 1
  Floor = 0
  Threshold = 1
  Slots = 1
  Kinds = {"balance", "subscription"}
  FaultSets = {{}, {"redis", "db"}, {"redis", "stop"}}
  Nil = Nil
CHECK_DEADLOCK FALSE
INVARIANTS NoDeductionDropped OverdraftBounded
PROPERTY FundedUserIsServed
