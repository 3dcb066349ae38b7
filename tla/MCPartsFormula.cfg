CONSTANTS
  Parts = {"split_linear"}
  NumElements = 8
  One = 6
  PointDelays = {0, 5, 12}
  MaxPoints = 2
  Elements <- MCElements
  both = both
  one = one
  none = none
  empty = empty
  Kinds = {both, one, none, empty}
  EmptyPackets = {empty}
  NumChains = 3
  Matches <- MCMatches
  ChainDelays = {0, 1}
  MaxRelease = 8
  UsecPerMsec = 2
  UsecPerSec = 4
  Packets = {m1, m2, m3}
  Delays = {1, 2}
  MaxLag = 1
  MaxTime = 10
  Opcodes = {clear_all, new_chain, set_drop_prob, end_connection, unknown}
  Unknown = {unknown}
  Ending = {end_connection}
  Words <- MCWords
  ScriptLen = 4
  clear_all = clear_all
  new_chain = new_chain
  set_drop_prob = set_drop_prob
  end_connection = end_connection
  unknown = unknown
SPECIFICATION PartsSpec
INVARIANT InterpolatesLinearly
