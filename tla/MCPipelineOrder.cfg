CONSTANTS
  Packets = {p1, p2}
  EmptyPackets = {}
  NumChains = 1
  Matches <- MCOneChain
  ChainDelays = {0, 1}
  LastArrival = 8
  MaxTime = 14
  UsecPerMsec = 2
  UsecPerSec = 6
SPECIFICATION Spec
PROPERTY StableDelayKeepsOrder
CHECK_DEADLOCK FALSE
