CONSTANTS
  MaxConnections = 2
  MaxChains = 1
  MaxStates = 2
SPECIFICATION FairSpec
INVARIANTS
  LiveUnderLock
  ReinitedIsScheduled
PROPERTIES
  SteadyWhileReading
  FlagIsConsumed
  CloseTerminates
\* The process may die of following a pointer that is stale or was never set.
CHECK_DEADLOCK FALSE
