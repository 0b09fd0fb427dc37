SPECIFICATION FairSpec
CONSTANTS
  Procs = {p1, p2}
  Requests = {r1, r2}
  Costs = {1, 2}
  Promotion = 2
  KeyQuota = 3
  AccountLimit = 2
  Failures = TRUE
  MaxEdits = 2
INVARIANTS PromotionOnRecord 
PROPERTIES ImplementsLedger AttemptsEnd
