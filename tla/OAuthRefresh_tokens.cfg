SPECIFICATION FairSpec
CONSTANTS
  Workers = {"cycle1", "cycle2", "request"}
  Background = {"cycle1", "cycle2"}
  InstanceOf <- MCInstanceOf
  Platforms = {"grok", "other"}
  FaultSets <- MCFaultSets
  MaxTokens = 3
  MaxFaults = 2
  MaxRequests = 2
CHECK_DEADLOCK FALSE
INVARIANTS StoredTokenWorks  LockPreventsReuse
PROPERTIES ReauthorizationKept RefreshSettles
