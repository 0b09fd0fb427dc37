SPECIFICATION FairSpec
CONSTANTS
  Clients = {"r1", "r2", "r3"}
  MaxDials = 2
  MinIdle = 0
  MaxIdle = 1
  QueueLimit = 2
  Utilization = 70
  Settings <- MCSettings
CHECK_DEADLOCK FALSE
INVARIANTS ExclusiveLease WithinLimit NoneForgotten
PROPERTIES AcquireEnds
