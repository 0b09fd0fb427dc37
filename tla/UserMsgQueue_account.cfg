SPECIFICATION UMQFairSpec
CONSTANTS
  Requests = {"r1", "r2"}
  TTL = 4
  MinDelay = 2
  MaxDelay = 3
  LastTTL = 4
  Retries = 1
  FaultSets = {{"lost", "redis"}, {"crash", "failover"}, {}}
 
PROPERTIES  LockReturns
