SPECIFICATION FairSpec
CONSTANTS
  Accounts = {"a", "b"}
  Pollers = {"poller1", "poller2"}
  Periodic = {"periodic"}
  Requests = {"request"}
  Editors = {"e1", "e2"}
  MaxFailures = 1
  FirstRows <- MCFirstRows
  Settings <- MCSettings
CHECK_DEADLOCK FALSE
INVARIANTS EventsHandled SnapshotCurrent
PROPERTIES ServiceHeals
