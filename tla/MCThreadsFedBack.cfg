CONSTANTS
  Parts = {"kernel_delayer"}
  Readers = {r1, r2, r3}
  Writers = {w1, w2}
  Connections = 3
  Script <- MCScript
  GROW_BY = 3
  Packets = {p1, p2, p3}
  Processors = {cpu}
  Timer = bh
  DelayLens = {50, 150}
  HZ = 20
  MaxJiffies = 6
  MaxOpens = 3
  MaxChains = 2
SPECIFICATION PartsSpec
INVARIANT AllFedBack
CHECK_DEADLOCK FALSE
