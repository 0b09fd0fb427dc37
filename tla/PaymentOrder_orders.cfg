SPECIFICATION FairSpec
CONSTANTS
  Procs = {p1, p2}
  OrderTypes = {"balance", "subscription"}
  FaultSets = {{}, {"crash"}, {"db", "crash"}}
  MaxGrants = 2
INVARIANTS SubscriptionExtendedOnce PaidNeverVoided RechargingHasWorker
PROPERTIES ImplementsLedger 
