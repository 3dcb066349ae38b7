CONSTANTS
  MaxConnections = 1
  MaxChains = 1
  MaxStates = 1
SPECIFICATION Spec
INVARIANTS
  EveryChainIsSwitched
CHECK_DEADLOCK FALSE
