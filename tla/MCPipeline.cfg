CONSTANTS
  Packets = {p1, p2}
  EmptyPackets = {}
  NumChains = 1
  Matches <- MCOneChain
  ChainDelays = {1}
  LastArrival = 5
  MaxTime = 10
  UsecPerMsec = 2
  UsecPerSec = 4
SPECIFICATION FairSpec
INVARIANTS
  OnePlace
PROPERTIES
  QueueImplementsFifo
  ImplementsArbitrator
  EventuallyJudged
\* The process may die of a null dereference in the queue.
CHECK_DEADLOCK FALSE
