SPECIFICATION FairSpec
CONSTANTS
  Instances = {i1, i2}
  Procs = {p1, p2}
  Ids = {s1, s2, s3}
  Max = 1
  MaxWait = 1
  RedisFaults = {"lost", "ambiguous"}
INVARIANTS LimitHolds QueueBounded
PROPERTY LeakedSlotsReturn
