CONSTANTS
  Parts = {"connection"}
  Readers = {r1, r2, r3}
  Writers = {w1, w2}
  Connections = 2
  Script <- MCScript
  GROW_BY = 12
  Packets = {p1, p2, p3}
  Processors = {cpu}
  Timer = bh
  DelayLens = {50, 150}
  HZ = 20
  MaxJiffies = 6
  MaxOpens = 3
  MaxChains = 2
SPECIFICATION PartsSpec
INVARIANT RepliesArriveWhole
CHECK_DEADLOCK FALSE
