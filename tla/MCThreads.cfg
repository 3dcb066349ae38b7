CONSTANTS
  Parts = {"rwlock", "connection", "kernel_delayer", "kernel_device"}
  Readers = {r1, r2, r3}
  Writers = {w1, w2}
  Connections = 3
  Script <- MCScript
  GROW_BY = 2
  Packets = {p1, p2, p3}
  Processors = {cpu}
  Timer = bh
  DelayLens = {50, 150}
  HZ = 20
  MaxJiffies = 6
  MaxOpens = 3
  MaxChains = 2
SPECIFICATION PartsSpec
INVARIANTS
  IInv
  NoLostWakeup
  RepliesInOrder
  TimerFollowsQueue
  TimersFollowData
PROPERTIES
  WritersFirst
  ImplementsRWLock
  WritersServed
  ReadersServed
  FirstIsAnswered
\* A connection ends; the kernel's processors may follow a dead pointer.
CHECK_DEADLOCK FALSE
