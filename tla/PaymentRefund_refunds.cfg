SPECIFICATION FairSpec
CONSTANTS
  Procs = {p1, p2}
  Amount = 2
  FaultSets = {{"reply"}, {"lost", "ambiguous"}}
  MaxTaken = 3
  Overdraft = 1
CHECK_DEADLOCK FALSE
  
PROPERTY RefundEnds
