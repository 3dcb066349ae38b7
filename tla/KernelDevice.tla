---------------------------- MODULE KernelDevice ----------------------------
(***************************************************************************)
(* The interface of the kernel build, a character device, and the timers   *)
(* of the state switcher: device_open, device_write, device_release and    *)
(* close_connection (C/arbitrator/iface.c), timer_function and reinit      *)
(* (switcher.c under __KERNEL__).                                          *)
(*                                                                         *)
(* Each chain has a timer of its own, embedded in its struct; the function *)
(* of a timer runs as an interrupt under the read lock and sets the timer  *)
(* again.  Version v of the data is the v-th that a connection made; only  *)
(* the number of its chains is kept (their states are in Arbitrator).  One *)
(* process at a time is in device_release.  What a file reads, and how a   *)
(* transaction is put together from several writes, is like in the         *)
(* user-mode build: a write here is one whole transaction.                 *)
(***************************************************************************)
EXTENDS Integers, FiniteSets

CONSTANTS MaxOpens, MaxChains  \* bounds

ASSUME KernelDeviceAssumption == MaxOpens \in Nat /\ MaxChains \in Nat

VARIABLES
  files,           \* how many files are open on the device and not being released
  _continue,       \* self->_continue
  data, data_copy, \* *(self->data) and self->data_copy: versions
  num_chains,      \* of each version
  freed,           \* the versions that were freed
  timers,          \* the pending timers: <<version, chain>>
  release,         \* where the process in device_release is
  timer_function,  \* where the running timer function is
  timer_data,      \* its locals: the data it found, its chain
  opens,           \* bound: how often the device was opened
  shared,          \* history: two files have been in use at once
  dead             \* freed memory was followed, or a processor hangs

fileVars == <<files, _continue, opens, shared>>
dataVars == <<data, data_copy, num_chains, freed>>
functionVars == <<timer_function, timer_data>>
deviceVars == <<fileVars, dataVars, timers, release, functionVars, dead>>

Versions == 0 .. MaxOpens
TimersOf(v) == {<<v, c>> : c \in 0 .. num_chains[v] - 1}
None == <<-1, -1>>

DeviceInit ==
  /\ files = 0 /\ _continue = 0 /\ opens = 0 /\ shared = FALSE
  /\ data = 0 /\ data_copy = 0 /\ num_chains = [v \in Versions |-> 0]
  /\ freed = {} /\ timers = {} /\ release = "none"
  /\ timer_function = "none" /\ timer_data = None /\ dead = FALSE

(* The write lock, a spinning one: who holds it is in device_release.      *)
WriteLocked == release \in {"locked", "freed", "swapped"}
ReadLocked == timer_function = "locked"

-----------------------------------------------------------------------------
(* device_open, which answers -EBUSY while _continue is set, and           *)
(* init_connection, which copies the data under the read lock: it may come *)
(* while another process is in device_release and spins for the lock.      *)
DeviceOpen ==
  /\ ~ WriteLocked /\ opens < MaxOpens
  /\ _continue # 1
  /\ opens' = opens + 1
  /\ files' = files + 1 /\ _continue' = 1
  /\ shared' = (shared \/ files > 0 \/ release # "none")
  /\ data_copy' = opens'
  /\ num_chains' = [num_chains EXCEPT ![data_copy'] = num_chains[data]]
  /\ UNCHANGED <<data, freed, timers, release, functionVars, dead>>

(* device_write: a transaction on the copy.  With two files the copy may   *)
(* be in force already; to clear it then frees chains whose timers are     *)
(* pending.                                                                *)
WriteNewChain ==
  /\ files > 0 /\ num_chains[data_copy] < MaxChains
  /\ num_chains' = [num_chains EXCEPT ![data_copy] = @ + 1]
  /\ dead' = (data_copy \in freed)
  /\ UNCHANGED <<fileVars, data, data_copy, freed, timers, release, functionVars>>

WriteClearAll ==
  /\ files > 0
  /\ num_chains' = [num_chains EXCEPT ![data_copy] = 0]
  /\ dead' = (data_copy \in freed \/ TimersOf(data_copy) \cap timers # {})
  /\ UNCHANGED <<fileVars, data, data_copy, freed, timers, release, functionVars>>

(* end_connection: the file is still open.                                 *)
WriteEndConnection ==
  /\ files > 0
  /\ _continue' = 0
  /\ UNCHANGED <<files, opens, shared, dataVars, timers, release, functionVars, dead>>

(* device_release: close_connection spins for the write lock.              *)
DeviceRelease ==
  /\ files > 0 /\ release = "none"
  /\ _continue' = 0
  /\ files' = files - 1
  /\ release' = "asking"
  /\ UNCHANGED <<opens, shared, dataVars, timers, functionVars, dead>>

CloseLock ==
  /\ release = "asking" /\ ~ ReadLocked
  /\ release' = "locked"
  /\ UNCHANGED <<fileVars, dataVars, timers, functionVars, dead>>

(* Mutant: the timers are left alone. *)
CloseFreeDataKeepsTimers ==
  /\ release = "locked"
  /\ freed' = freed \cup {data}
  /\ dead' = (data \in freed)
  /\ release' = "freed"
  /\ UNCHANGED <<fileVars, data, data_copy, num_chains, timers, functionVars>>

(* data_free, with our_del_timers.  The second of two files finds that the *)
(* first has installed their common copy, and frees it.                    *)
CloseFreeData ==
  /\ release = "locked"
  /\ freed' = freed \cup {data}
  /\ timers' = timers \ TimersOf(data)
  /\ dead' = (data \in freed)
  /\ release' = "freed"
  /\ UNCHANGED <<fileVars, data, data_copy, num_chains, functionVars>>

(* The swap, and ip_noise_arbitrator_switcher_reinit: a timer per chain    *)
CloseSwapData ==
  /\ release = "freed"
  /\ data' = data_copy
  /\ timers' = timers \cup TimersOf(data_copy)
  /\ dead' = (data_copy \in freed)
  /\ release' = "swapped"
  /\ UNCHANGED <<fileVars, data_copy, num_chains, freed, functionVars>>

CloseUp ==
  /\ release = "swapped"
  /\ release' = "none"
  /\ UNCHANGED <<fileVars, dataVars, timers, functionVars, dead>>

-----------------------------------------------------------------------------
(* timer_function: the timer of a chain has expired.  The pointer to the   *)
(* data is read before the lock is had.                                    *)
TimerFires ==
  /\ timer_function = "none"
  /\ \E t \in timers :
       /\ timers' = timers \ {t}
       /\ timer_data' = <<data, t[2]>>
       /\ dead' = (t[1] \in freed)
  /\ timer_function' = "locking"
  /\ UNCHANGED <<fileVars, dataVars, release>>

(* The interrupt comes on the processor whose process holds the write      *)
(* lock, and spins for the read lock for ever: write_lock lets them in.    *)
TimerHangs ==
  /\ timer_function = "locking" /\ WriteLocked
  /\ dead' = TRUE
  /\ UNCHANGED <<fileVars, dataVars, timers, release, functionVars>>

TimerLock ==
  /\ timer_function = "locking" /\ ~ WriteLocked
  /\ timer_function' = "locked"
  /\ UNCHANGED <<fileVars, dataVars, timers, release, timer_data, dead>>

(* switch_chain takes the chain of the data in force, the timer is that of *)
(* the data found before the lock.                                         *)
TimerSwitch ==
  /\ timer_function = "locked"
  /\ dead' = (timer_data[1] \in freed \/ timer_data[2] >= num_chains[data])
  /\ timers' = timers \cup {timer_data}
  /\ timer_function' = "none" /\ timer_data' = None
  /\ UNCHANGED <<fileVars, dataVars, release>>

-----------------------------------------------------------------------------
Write == WriteNewChain \/ WriteClearAll \/ WriteEndConnection
Close == CloseLock \/ CloseFreeData \/ CloseSwapData \/ CloseUp
TimerStep == TimerFires \/ TimerHangs \/ TimerLock \/ TimerSwitch

DeviceNext == ~ dead /\ (DeviceOpen \/ Write \/ DeviceRelease \/ Close \/ TimerStep)

DeviceSpec == DeviceInit /\ [][DeviceNext]_deviceVars

-----------------------------------------------------------------------------
Overtaken == timer_function # "none" /\ timer_data[1] # data

(* Except while close_connection has freed the old data, every chain of    *)
(* the data has its timer, pending or with its function running, never     *)
(* both, and no timer of freed data is pending: no chain stops switching,  *)
(* and none switches twice as often.  This holds until a second file has   *)
(* been in use beside the first (after end_connection device_open lets it  *)
(* in, and so it does while the first is being released), and but for a    *)
(* timer function that a close has overtaken between its look at the data  *)
(* and its lock.                                                           *)
TimersFollowData ==
  ~ dead /\ ~ shared /\ ~ Overtaken /\ release # "freed" =>
    LET running == IF timer_function = "none" THEN {} ELSE {timer_data}
    IN  timers \cup running = TimersOf(data) /\ timers \cap running = {}
=============================================================================
