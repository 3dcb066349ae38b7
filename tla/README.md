# IP-Noise: TLA+ models and proofs

IP-Noise degrades a network on purpose. A Linux host queues packets for a
user-space program, the *arbitrator*, which accepts, drops or delays each of them
by rules that a client configures over a line protocol. This directory
specifies the arbitrator, `C/arbitrator/` of the repository: the user-mode
program (`main.c`), and what is different in the build as a kernel module. Paths below are relative to
that directory unless they begin with another one.

## 1. Inventory

| component | files | state it keeps | operations |
|---|---|---|---|
| readers-writers lock | `rwlock.c` | four counters, two condition variables, a mutex | `down_read`, `up_read`, `down_write`, `up_write` |
| packets queue | `queue.c` | linked list, `num_msgs`, mutex, condition variable | `enqueue`, `dequeue` |
| priority queue | `pqueue.c` | array heap | `Push`, `Pop`, `PeekMinimum` |
| delayer | `delayer.c` | priority queue of packets by due time, mutex, condition variable | `delay_packet`, `loop` |
| packet logic | `packet_logic.c`, `fcs_dm.c`, `rand.c` | per chain: filter, current state, `last_packet_release_time` | `decide_what_to_do_with_packet`, `decide`, `chain_decide`, `is_in_chain_filter` |
| threads of `main.c` | `main.c` | the packet each of them has in hand | receiver, arbitrator thread, releaser |
| state switcher | `switcher.c` | priority queue of switch events, current state of each chain | `poll`, `reinit`, `switch_chain` |
| shared configuration | `iface.c`, `iface.h` | `*data` (chains, states, filters, the lock), the copy a connection edits, `reinit_switcher` | `data_duplicate`, `data_free`, `data_clear_all`, `init_connection`, `close_connection` |
| interface: transactions | `iface.c`, `text_queue_in.c` | input queue with its read offset and commit point | `transact`, `read_bytes`, `rollback`, `commit`, `poll_conn` |
| interface: handlers | `iface_handlers.c`, `iface.c` | `last_chain`, `last_state`, the copy of the data: chains with filters and states with move tables and delay functions | one handler per opcode, the readers of their parameters |
| interface: output, connection | `text_queue_out.c`, `conn.c`, `iface.c` | output queue, the pair of named pipes, a reader and a writer thread per connection | `input_bytes`, `write_bytes`, `poll_conn`, `write_poll_conn`, `conn_open`, `conn_destroy` |
| kernel build | `ip_queue.c`, `k_pthread.h`, `#ifdef __KERNEL__` in `delayer.c`, `iface.c`, `switcher.c` | the delayer's heap with one timer, a timer in each chain, a character device | `ipq_enqueue`, `check_pq`, `device_open`, `device_write`, `device_release`, `timer_function` |
| filter compiler | `perl/compiler/` | none across runs | parses a description, sends it as transactions |

How they interact. The main thread stamps packets and puts them into the packets
queue. The arbitrator thread takes them out, asks the packet logic (under the read
lock of the configuration), and sets a verdict or gives the packet to the
delayer; the releaser thread sets the verdict of delayed packets. The switcher
thread polls every so often, under the same read lock, and moves chains between
states. The interface thread duplicates the configuration when a connection
opens, edits the copy, and at the end frees the old one and installs the copy
under the write lock. Two things pass between these threads outside any lock: the
pointer `*data`, and the flag `reinit_switcher`.

What is hard here, and what makes each part correct:

- **lock**: hand-made from condition variables; each `up` broadcasts to the
  writers and signals *one* reader. It must exclude, count exactly, lose no
  wakeup, keep writers first and serve everybody.
- **packets queue**: signals only at the transition to one message. Its consumer
  must never sleep on a message; messages leave in order.
- **priority queue**: heap order after any sequence of pushes and pops, nothing
  lost, least element first.
- **delayer**: a sleeping releaser against newly arriving earlier packets, spurious
  wakeups, timevals with a carry. Never early, never lost, in order of due times.
- **packet logic**: the combination of several chains' verdicts, the stable delay,
  the binary search in delay tables.
- **pipeline**: a packet is owned by exactly one thread or queue, and is judged
  once.
- **configuration**: nobody may follow freed data while holding the lock; the data
  keeps its shape while it is read; after a change the switcher must pick the new
  chains up.
- **transactions**: input comes in pieces; a transaction that is incomplete is
  rolled back and tried again. Each must take effect once, whole and in order.
- **handlers**: a configuration is edited field by field, by indices that outlive
  what they name. Its shape must stay what the switcher and the packet logic index
  it by, a request that reads lists of its own must take effect whole or not at all, a
  copy must mean the same, and a filter must pass what the client asked for.
- **connection**: threads of an ended connection live on and follow pointers to the
  next one's queues; the output queue is guarded by two different mutexes. A client
  must be sent its own replies, in order.
- **kernel build**: the contexts are processors and interrupts instead of threads,
  the delayer's mutex keeps nobody out, and a chain's timer is part of the memory
  that a connection frees. Every packet must be fed back once, at its time, and each
  chain in force must have one timer.

`PROJECT.json` lists every hazard at its line, with the properties that watch it
or the reason why none does yet.

## 2. Modules

| module | models | state and actions |
|---|---|---|
| `RWLock` | `rwlock.c` | the counters, the sets of threads blocked on each condition variable, `pc`. One action per stretch of code between two releases of the mutex: `DownRead`/`DownReadWait` are a call that goes through or blocks, `...Resume`/`...WaitAgain` the loop condition after a return from the wait |
| `AbstractRWLock` | what a readers-writers lock promises | sets of readers and writers |
| `RWLockProofs` | theorems about `RWLock` | |
| `MessagesQueue` | `queue.c` | list, counter, where the consumer is |
| `AbstractFifo` | a FIFO | two sequences |
| `PQueue` | `pqueue.c` | the array as a sequence; the loops of `Push` and `Pop` are recursive functions of the place of the hole |
| `AbstractPQueue` | a priority queue | a set |
| `HeapProofs` | theorems about `PQueue` | |
| `Timeval` | the timeval arithmetic shared by the delayer and the packet logic | the clock; operators |
| `Delayer` | `delayer.c` | set of queued packets, the releaser's place in `loop`, its deadline, the clock |
| `SplitLinear` | the generic delay function of `chain_decide`, and `SFO_bsearch` | a table, a draw and its delay |
| `Filters` | `is_in_chain_filter` with its tests of addresses, ports, protocol, TOS and length, and the mask operations of the handlers | operators only |
| `PacketLogic` | `chain_decide`, `decide` and the entry point | release time per chain, the verdict; random draws are `\E` |
| `PacketProofs` | theorems about `Timeval`, `Delayer`, `PacketLogic` and `SplitLinear` | |
| `Pipeline` | the threads of `main.c` | INSTANCEs of `MessagesQueue`, `PacketLogic` and `Delayer` over one clock, and the place of the arbitrator thread |
| `AbstractArbitrator` | what the arbitrator promises of the packets | the packets that wait for a verdict, in order; when each one held back is due; those sent and those dropped |
| `PipelineProofs` | theorems about `MessagesQueue` and `Pipeline` | an INSTANCE of `PacketProofs` |
| `Arbitrator` | interface, switcher and arbitrator thread around the configuration | an INSTANCE of `RWLock`; versions of the data, which of them were freed, the flag, the scheduled chains, the place of each thread |
| `ArbitratorProofs` | theorems about `Arbitrator`, on those of `RWLockProofs` | |
| `IFaceTransact` | one connection's input | words arrived, committed and read; the transaction in progress |
| `IFaceHandlers` | `iface_handlers.c`, the readers of parameters, and the life of the data's copy in `iface.c` | the installed chains and the copy; an action is one transaction, from the raw values that the client sends to the return code; `set_move_probs` has one per parameter read and entry written |
| `IFaceProofs` | theorems about `IFaceHandlers` and `IFaceTransact` | |
| `IFaceConnection` | `text_queue_out.c`, `conn.c`, `poll_conn`, `write_poll_conn`, `init_connection`, `close_connection` over several clients | the output queue with its offset and size, the pipe of requests, where each connection's reader and writer are, what a writer has in hand |
| `KernelDelayer` | kernel build: `ipq_enqueue`, `delay_packet`, `check_pq`, `timer_function`, `fini` | the heap (operators of `PQueue`), the one timer, and per processor and for the timer the place in the code and the local variables |
| `KernelDevice` | kernel build: `device_open`, `device_write`, `device_release`, `close_connection`, `timer_function` of `switcher.c` | versions of the data, the timers pending in them, the process in `device_release`, the timer function that runs |
| `ThreadsProofs` | theorems about `IFaceConnection`, `KernelDelayer` and `KernelDevice` | |
| `Induction` | no code: induction over numbers and finite sets, and functions defined by recursion, as lemmas | |

`MC*.tla` give constants to TLC. Two of them put several components side by side, to
be checked in one run: `MCParts` (`PQueue`, `SplitLinear`, `PacketLogic` with
`Filters`, `Delayer`, `IFaceTransact`) and `MCThreads` (`RWLock`, `IFaceConnection`,
`KernelDelayer`, `KernelDevice`). The components share no state there, but for the clock
that the packet logic and the delayer read: a behaviour is
one of the component that the variable `part` names while the others rest, so that the
reachable states are the sum of theirs and each property is that of its component.
Operators introduced by a
comment "Mutant" are deliberately wrong variants of the definition after them.
They are not used by the specification; put in the place of that definition, each
makes the property named with it in `PROJECT.json` fail.

### Abstractions worth knowing

- *Mutexes.* The code between two releases of a mutex is one step, as nothing else
  that it shares is accessed without that mutex. Blocked threads and the retest
  after a wakeup are explicit, spurious wakeups are always possible (POSIX).
- *Time.* One clock in microseconds, with `UsecPerMsec = 2` and `UsecPerSec = 4` or
  6 instead of 1000 and 1000000, so that carries into seconds, exact seconds and
  truncation to milliseconds all happen within ten ticks. The clock starts at one
  second, since the code takes a `tv_sec` of 0 for "not set". A decision reads the
  clock once in the model; the code reads it per chain.
- *Undefined behaviour.* `Arbitrator` keeps it as choices: reading the lock pointer
  out of a freed struct gives the old value (all versions share one lock) or kills
  the process; an uninitialised `current_state` is any number; following a chain or
  a state that is not there sets `crashed`, after which nothing happens. A packets
  queue that is woken without a message does the same (`queue.c:56-65`). Runs of
  those modules have `CHECK_DEADLOCK FALSE` for that reason; `IFaceTransact` has it
  because a connection ends. What is promised up to a crash is stated with
  "or crashed"; the crashes themselves are listed as hazards.
- *Configuration.* `Arbitrator` keeps of a chain only the number of its states and
  its current state. A connection may do any sequence of `new_chain`, `new_state`
  and `clear_all` and may end at any point, with a chain that has no states too.
  When a switch event falls due is left open, and `switch_chain` goes to any state.
  The interface thread takes the lock in both roles and therefore appears in the
  lock as two threads, `duplicate` and `close`, of which `iface` says which one is
  active.
  The duplicate is one step, although the switcher and the arbitrator thread may write
  `current_state` and `last_packet_release_time` meanwhile: they too hold a *read* lock.
- *Words.* In `IFaceTransact` a word is what one read of the code asks for; a word
  that came in part is as good as none, since `read_bytes` returns
  `IP_NOISE_READ_NOT_FULLY` for both. What a handler does is one entry of the
  history `executed`. `IFaceHandlers` is the other half: parameters come whole there,
  and their effect on the data is modelled in full. That `set_move_probs` leaves the
  rest of its list unread after an error, to be taken for opcodes, is in neither; what it
  has done to the data by then is.
- *Handlers.* An action is a whole transaction, but for `set_move_probs`, which reads lists
  of its own inside the handler and can fail in their middle. It has an action per state that
  it reads, per probability that it reads, and per entry that it writes
  (`ReadMoveState`, `ReadMoveProb`, `WriteMove`), one for the rollback when the rest of a list
  has not come (`MoveNotFully`), and the client may go in between; `move` is its place, and
  holds the copy as it was found. Lists come with their terminators.
  A remembered chain of -1 passes the test of `get_chain` and
  is then used as an index: the process is taken to die (`dead`). Left out are the dictionaries
  of names, which nothing looks up, the growth of arrays, a chain's current state and
  release time, which no handler touches, and what `set_move_probs` leaves unread after an
  error, which is then taken for opcodes.
- *Copies.* The duplicates are built as in the code, field by field in a new record, so that a
  field the code does not copy is one that the model does not. The name of a chain is
  such a field: `chain_duplicate` (`iface.c:178-205`) never sets it, while `state_duplicate`
  does copy a state's (`iface.c:142`), and the switcher prints what malloc left in its place
  (`switcher.c:216-220`). It is `Unset` in every copy, and `CopyKeepsMeaning` is about all
  the rest.
- *Filters.* `asked` in a chain is a history of what the client sent: its lists, limits, and the
  sets of numbers behind the masks. `Asked` says which packets these ask for, from the
  documents only (`Protocol.txt:104-108` and `132-135`, `iface.h:94-95` and `112-114`, the
  guide `main.html:697-699`), and `PassesWhatWasAsked` compares `is_in_chain_filter`
  with it. The code does otherwise than these documents, or than anything, in five cases, which
  `Agreed` exempts by name; the run contains all of them but the net mask of the whole width:

  | case | documents | code |
  |---|---|---|
  | a length equal to a limit in use | "greater", "lower" than it (`Protocol.txt:132-135`, `iface.h:94-95`, `main.html:697-699`) | the limits count as within (`packet_logic.c:264`, 273, 282, 291) |
  | a member of a list without port ranges, a packet with a port | "any port will do" (`iface.h:114`) | no port does (`packet_logic.c:173`) |
  | a list of the terminator only | no member | one member as malloc left it (`iface.c:713-720`, 798): it fits or not, as it happens |
  | a net mask of the whole width | all addresses | an undefined shift (`packet_logic.c:164`); on an x86, a shift by 0 |
  | a TOS beyond the mask | all bits are set or none (`Protocol.txt:104-108`) | what lies behind the mask (`packet_logic.c:237`), which is the run `tos_mask` |

  Where a read has no definite value either outcome is possible, so
  `is_in_chain_filter` yields a set of answers. The filters of
  `PacketLogic`'s chains are computed with these operators in `MCParts`; in `Pipeline`,
  whose run has the default chain only, nothing is filtered.
- *Connections.* A request is one item of the input pipe, and an integer of a reply one
  item of the output queue: items come and go whole. A client waits for each reply before
  it asks again and may leave at any time. `conn_destroy` sleeps a second, taken to be long
  enough for the client to leave and for its reader to notice the end of the pipe
  (the code's comment says what it is for). `pthread_cancel` ends a writer at its `write` only,
  the one cancellation point in its loop. What a compaction of the queue with its
  exchanged `memmove`, or one beside a writer, leaves behind is in the model; the
  history `spoilt` says that it happened.
- *Kernel delayer.* A semaphore that is raised to lock and lowered to unlock never
  blocks, and is left out. Between two accesses to the heap any other context may come.
  One call of the heap is one step: that two processors inside the heap break its
  array is left out, so what `AllFedBack` shows needs no such overlap. The clock is
  `jiffies`, its comparison does not wrap. The packet's verdict is any.
- *Kernel device.* Of the data only the number of chains and the timers are kept. One
  process at a time is in `device_release`; the timer functions run one at a time, as
  the 2.4 kernel runs them. Freed memory that is followed ends the behaviour (`dead`), and
  so does an interrupt that spins for a lock that its own processor holds.

## 3. Runs

Passing runs:

| run | part and bounds | shows |
|---|---|---|
| `threads` | lock: 3 readers, 2 writers | `IInv` (exact counters, exclusion, blocked threads where they wait), no lost wakeup, writers first, liveness for both kinds, refinement of `AbstractRWLock` |
| | connection: 3 connections, replies of two integers and one, an output queue that grows by 2 | `RepliesInOrder`: a client is sent its own replies in order, none twice, until the queue is spoilt; `FirstIsAnswered` |
| | kernel delayer: 3 packets, a processor and the timer, delays of 2 and 3 jiffies, 6 jiffies | `TimerFollowsQueue`: as long as contexts did not overlap, each packet is queued or was fed back once, and the timer is set for the earliest |
| | kernel device: 3 opens, 2 chains | `TimersFollowData`: each chain in force has its timer, and freed chains have none, until two files are in use at once |
| `parts` | heap: all push/pop histories on 8 elements in 5 keys, most keys twice | heap order and refinement of `AbstractPQueue` |
| | delay tables: all of 2 to 4 points over sixths, three delays | the binary search against its specification; no read outside the table, and the delay stays between its neighbours |
| | packet logic: 2 chains and the default one, packets that match both, one, none, and one without data, clock up to 8 | the accumulation of verdicts, each chain's own clock, the drift of stable delays |
| | delayer: 3 packets, delays of 1 and 2 ms, handed over up to 1 µs late, 11 µs | never early, deadline no later than the earliest packet, queued or released, order of releases, eventual release |
| | transact: every script of 4 transactions from 5 opcodes (1, 2 and 4 words, an ending one, an unknown one), cut off anywhere | transactions take effect once and in order, commits end where executed transactions end, nothing complete is left behind |
| `pipeline` | 2 packets, one chain, arrivals up to 5 µs, clock up to 10 µs | `OnePlace`, refinement of `AbstractFifo` by the queue in context and of `AbstractArbitrator` by the whole, every packet is judged |
| `arbitrator` | 2 connections, 1 chain, 2 states | no freed data under the lock, steady shape while reading, scheduling after a reinit, the flag is consumed, closing terminates |
| `handlers` | 2 chains, 2 states, 4 edits over any connections; addresses of 3 bits, lists with port ranges, without any, and of the terminator only; packets below, at and above the limit; three move tables, of which one names places twice and one a state too many | square move tables, remembered indices within the data, points that are owned, `set_move_probs` whole or not at all, copies that mean the same, filters that pass what the documents say was asked, wherever the code agrees with them |

Runs that show a disagreement between the code and what its documents or comments say:

| run | property | what happens |
|---|---|---|
| `split_linear_formula` | `InterpolatesLinearly` | `packet_logic.c:429` exchanges the weights of the two ends: near the first point the delay is that of the second |
| `stable_order` | `StableDelayKeepsOrder` | a stable delay is computed in whole milliseconds from the time of the decision (`packet_logic.c:483`) but added to the time of arrival (`delayer.c:237`), so two packets of one chain can change places |
| `stale_switch` | `EveryChainIsSwitched` | `close_connection` raises `reinit_switcher` before it has the write lock (`iface.c:1296`); a poll in between consumes the flag against the old data, and the new chains never get a switch event |
| `rollback` | `RollsBackToItsStart` | an unknown opcode is answered but not committed (`iface.c:1365-1373`), so the rollback of the next transaction goes back to it and it is answered again |
| `tos_mask` | `NoTosNoPacket` | a TOS mask has 8 bytes, for 64 values, and is indexed by a TOS of up to 255 (`packet_logic.c:234`): a chain with every TOS disabled may pass a packet by what lies behind the mask |
| `swallowed` | `RepliesArriveWhole` | the writer of an ended connection, cancelled but spinning, takes the first integer of the next client's reply and ends with it in hand (`iface.c:1292`) |
| `fed_back` | `AllFedBack` | kernel build: `pthread_mutex_lock` is an `up` (`k_pthread.h:9`), so a processor and the timer's function both feed the first packet of the queue back and then pop one each; the second one popped is never fed back (`ip_queue.c:277-278`) |

Why the bounds are enough. The program has two or three readers and one writer; a
second writer exercises the wakeups among writers. A heap of 8 has a node with an only
child and three levels of sinking. One chain and two states are enough in `arbitrator`,
since a second version can have fewer chains or states than the first (`clear_all`) or
more; two connections give a free followed by a second duplicate and swap. Two packets
in `pipeline` are needed for overtaking, and each of its hand-overs involves one. There
the clock must be able to pass every promised time, or nothing would ever be due:
`MaxTime` exceeds the last arrival plus the largest delay that can come up. Every
packet of that run has data: that one without is never dropped or delayed, which
`AbstractArbitrator` says too, is proved there, and checked by `VerdictFollowsRules` in `parts`. Four
edits in `handlers` make a chain, two states and a table for both, with a
close and a second open anywhere in between; two states are the fewest for which a
table can be narrow, or be half written. Three connections let the threads of the first meet those of the
third; a queue that grows by 2 is full at the third integer of a client, and is compacted
with integers read, unread, and beside a writer.
Three packets in the kernel's delayer are one earlier and one later than a packet
that is queued. Three opens make data that are freed twice, two chains one timer that is
pending while the other's function runs. The bounds in actions are marked as such in the modules
(`MaxEdits`, `MaxOpens`, `MaxJiffies`, `MaxTime`, `Connections` and the like).

### Fairness

- `RWLock`: a thread that is awake inside the lock's code is scheduled, and a holder
  calls its `up`. The critical sections contain no unbounded wait. Nobody has to ask
  for the lock, and spurious wakeups need not come. `ReadersServed` assumes that
  writers stay away at last: the lock prefers them and can starve readers.
- `Delayer`: the releaser thread runs and time passes.
- `Pipeline`: the arbitrator thread, the releaser thread and the clock. Strong
  fairness for `ArbitratorDelay` says that the arbitrator thread gets the delayer's
  mutex although the releaser may take it over and over (after spurious wakeups, or
  while `pthread_cond_timedwait` refuses a `tv_nsec` of a whole second). Packets
  need not come.
- `Arbitrator`: the switcher polls for ever and its polls end (a pushed event is not
  due in the poll that pushed it); a decision that began ends; a duplicate or a close
  that began goes on. Clients and packets need not come, and a client need not go.
- `IFaceTransact`: the interface thread runs. The client owes it nothing.
- `IFaceConnection`: the interface thread and every reader and writer thread are
  scheduled, and a client takes what has come. No client need come, ask or leave.
- `MCParts` and `MCThreads` restate these assumptions, each for its own part. The
  kernel modules and `IFaceHandlers` have safety properties only and assume none.

## 4. Proofs

The theorems hold for every finite set of threads, for every set of messages, for whatever a
client may send, for any packets, delays, chains and delay distributions, and for any number
of opens and of connections. What they assume of the constants are the named `ASSUME`s of
the modules, which TLC evaluates on the runs: `ThreadsAssumption` (readers and writers are
finite and disjoint sets), `TimevalAssumption` (a second is a whole number of milliseconds,
and neither is empty), `ElementsAssumption` (the keys of the heap's elements are integers),
and `DelayerAssumption`, `PacketLogicAssumption`, `FiltersAssumption`, `SplitLinearAssumption`,
`OpcodesAssumption`, `HandlersAssumption`, `ConnectionAssumption`,
`KernelDelayerAssumption`, `KernelDeviceAssumption`, `PipelineAssumption` and `BoundsAssumption`,
which give the constants of their modules their types. In `HandlersAssumption` these are the widths of C's
fields: an address has `AddressBits` bits, a protocol is a byte, a number is an
integer; and `DelayerAssumption` and `PipelineAssumption` say besides that the bound on the clock is not
before its start. No theorem has a hypothesis of its own.

**`RWLockProofs`.** `NoLostWakeup` and the exclusion are not inductive alone: the
lock decides from counters, so one has to know that the counters are exact, and the
counters change when a thread leaves its wait, so one has to know that only threads
inside `down_read` (`down_write`) are blocked. `IInv` is the conjunction. The lemma
`Move` says how the cardinality of each place changes when one thread moves;
`CountersDecide` turns `allow_reader` and `allow_writer` into statements about who
is where. There is one lemma per action, with a step per conjunct that the action
disturbs. `LockInvariant` follows; from it `NoLostWakeupAlways`, `TypeCorrect`,
the action property `WritersComeFirst`, and `LockImplementsAbstract`: every step
changes the sets of readers and writers as `AbstractRWLock` allows, or not at all.
The crux of no lost wakeup is that a woken reader that finds a writer waiting goes
back to sleep without a signal: it may, because the waiting writer will call
`up_write`; and a reader that gets in will call `up_read`, which signals the next one.

**`ArbitratorProofs`.** Whoever reads the configuration holds the lock, and the data are
freed and replaced by one who holds it for writing. Every step of the program is a step of
`RWLock` by a thread in its role, or leaves the lock alone (`NextUsesLock`). The actions of the
three threads name their role; a retest inside the lock (`LockRetry`) is any thread's, and
that it is of the right kind needs `RolesKept`, that a reader is never inside `down_write`
nor the closing connection inside `down_read`. So `IInv` has the lock's own invariant,
taken over from `RWLockProofs` by INSTANCE, and `RolesKept`, and beside them two facts about
the versions of the data: that those in force were freed is seen only inside the write section of a close
(`FreedInWriteSection`), and the version of the last `switcher_reinit` is not later than the
one in force, so that a swap always leaves it behind. Exclusion then gives
`DataLivesUnderLock`, and that a step that changes the data is a writer's gives
`ConfigurationSteady`. `ReinitedStaysScheduled` is inductive beside them: between a reinit
and the next swap only the switcher writes to the installed data, and no step changes the
number of their chains or of a chain's states.

`ArbitratorUsesLock` states the refinement of the component by the whole, and with it what
`RWLockProofs` has of the lock holds of it in the program: `ClosingComesFirst`,
`ArbitratorImplementsRWLock` and `ArbitratorLosesNoWakeup`.

**`PipelineProofs`.** For the queue alone, `QueueInvariant` is the type invariant, `num_msgs
= Len(list)` and "a blocked consumer implies an empty list". The step that needs all of it
is `Enqueue`: blocked, so empty, so the counter becomes one, so the signal is sent.
`QueueLosesNoWakeup` is the theorem behind the hazard at `queue.c:100`, and `QueueIsFifo`
the refinement. `IInv` of the pipeline has, beside the types, that a packet is once in the
list at most (`OnceEach`) and that each that came is in just one of the list, the arbitrator
thread's hand, the delayer and the verdicts (`Placed`); that a packet in the list came is
what a new arrival needs, to be none of them. `EachPacketInOnePlace` follows.
`PipelineUsesQueue` shows that every step of the pipeline is one of the queue's or leaves it
alone, and from this `PacketsStayInOrder` (the refinement of `AbstractFifo` in context) and
`ArbitratorIsWoken` are the queue's theorems once more.

What was proved of the packet logic and of the delayer, each alone, is then proved of them in the
pipeline. `PacketProofs` is taken by INSTANCE (`Parts`), with the lemmas that say how one of
its steps keeps its invariant; they do not depend on where the delays and times come from. `WholeInv`
is their invariants and that of the pipeline together, with what is handed from one to the other: the
arrival times are numbers, the delay of a verdict is one too (from the logic's type),
so that what the arbitrator thread gives to `delay_packet` is what `Delayer` expects; that this packet is not
yet in the delayer is `Placed` (`HandedOver`); and a packet without data
has an acceptance for its verdict (`EmptyAccepted`). From `WholeInvariant` come
`PipelineDelaysEnough`, `PipelineSleepsNoLonger`, `PipelineEarliestFirst`, `PipelineFollowsRules`
and `PipelineKeepsReleaseTimes`: the properties that `parts` checks of each component on
its own, for the program.

`PipelineImplementsArbitrator` is the refinement of the whole. The packets that wait are the
one in the arbitrator thread's hand and the queue (`Waiting`), the due times those
promised to the packets in the heap (`Due`), the packets sent those accepted at once and those released
(`Sent`). An arrival is a `Receive`; a dequeue and a decision change nothing, as the hand is
part of the waiting; the actions on a verdict are `Accept`, `Drop` and `Delay`; a release is a step
of the releaser, most of whose steps change nothing. The two that need the
invariants: a delayed packet must be due after it came, where the code accepts what has a delay of
zero (`DelayDelays`), and the packet released must be due, and the earliest, by its
time, where the code compares timevals with a clock it has read before (`ReleaseReleases`).

**`PacketProofs`.** The delayer compares timevals, what it promises is about times.
`AddDelayAdds` shows that the carry into seconds, which is not made when the sum is exactly
a second, changes no time, and `NotAfterIsOrder` that the comparison of such timevals still
agrees with the order of the times: both are true of a `usec` of exactly one second, and of
no greater one. `IInv` says that each queued element carries the timeval of the time
promised to its packet, that a packet has one element or was released once it was due, and
that the time at which the releaser last looked at the clock is not in the future: it
decides by that older time, so a packet that it finds due still is (`ReleasedIsDue`).
`NeverReleasedEarly` and `NoneLostOrDoubled` follow, `ReleasedEarliestFirst` from the
actions, and `ReleaserSleepsNoLonger` with a minimum of the queued times (`LeastNatural`).

Of the packet logic, `VerdictAlwaysFollowsRules` says that the loop of the entry point,
which accumulates a partial verdict with its flag from chain to chain, computes what the
rules say of all chains together. The loop is a recursive function over the chains; that it
has the values of its recursion is `RecursionTo`, and its steps (`GlobalVerdictSteps`,
`TotalDelaySteps`) carry an induction over the prefixes of the chains
(`GlobalFollowsRules`). `ReleaseTimesAreKept` says that a chain that answers with a delay
remembers its time of release exactly, and that no other chain's time moves.
`StableDelaysHardlyStepBack` bounds what the two roundings to milliseconds of a stable delay
lose (`TruncDivLoses`, `StableDelayDrift`): the time that a chain promises is less than a
millisecond before the last one it promised. This is what is left of the order that the run
`stable_order` refutes.

Of the delay tables, the crux is that the loop of `SFO_bsearch` keeps the place of the key
between its two ends (`NotOutside`), which carries its promise (`Finds`) from where it stops
back to where it began (`SearchFinds`); that the recursion has the values it says is
`DescentFunction`, since each round leaves less to search (`SearchDescends`). In a table that
ascends (`TablesAscend`) this is `SearchIsCorrect`, and with a quotient that stays between
what bounds its dividend (`QuotientBetween`) it gives `DelayStaysBetween`: the weights of the
two ends are exchanged, but they are weights.

**`HeapProofs`.** `Push` and `Pop` move a hole through the array, up or down, until the item
fits. Each place of the hole is the beginning of a loop that is shorter by one round, so
that the loops are recursive functions and their properties inductions along the path of
the hole (`UpDescends`, `DownDescends`). What the induction carries is about the part of the
array that the rest of the loop may still change. As to what the array holds: that part
has the item and the elements it had before, but the one that the hole took the place
of (`HasJoined`, `HasSettled`). As to the order: that part is a heap, and *its keys moved one
way only*, an item less than the element in its place makes no key greater when it climbs, and a
last element greater than the one in its place makes none less when it sinks
(`HasAscended`, `HasDescended`); without this second half the order at the border between the part
and the rest would not follow. That the hole goes to the lesser child, an only child too, is
`Children`. `PushKeepsHeap` and `PopKeepsHeap` say the rest, and `HeapInvariant`,
`HeapStaysOrdered` and `HeapImplementsPQueue` follow, the last with `RootIsLeast`, that the root of a
heap is a least element.

**`IFaceProofs`**, transactions. `CommittedIsExecuted` and `ExecutedInOrder` relate the commit
point, a number of words, to the history of what was executed, a list of transactions.
`TransactIInv` says where words and transactions meet: between transactions the next word to be read
begins one (`AtBoundary`), inside one the words read since its opcode are counted
(`InsideTx`), and while the connection is open none that was executed ends it
(`NoneHasEnded`). An unknown opcode is answered and not committed; so the position of the
read may be ahead of what was executed, by unknown opcodes only (`UnknownFrom`), and a
rollback, which goes back to them, still arrives at a boundary.

**`IFaceProofs`**, handlers. What the switcher and the packet logic rely on is the shape of
a configuration: every chain has states, and every state a move table with a place per
state. `IInv` says so of the installed data and of the copy, that the remembered chain
and state fit the copy, and that without a connection the copy *is* what is installed.
The last part is needed because `last_chain` and `last_state` outlive the connection:
the next one starts from a duplicate of the data, and the indices fit it only because the data
are the copy they were made for. Most of what filters and delay functions hold does not matter, so
there is no set of values to type the sequences by; `IsSeq` says of a sequence only that
it is one, and the first lemmas give the facts about `Append`, `EXCEPT` and functions
in that form. Each handler has an outcome lemma: it dies, refuses, or edits the last chain or
one of its states (`FilterOutcome`, `StateOutcome`), and
`EditsLastKeepsIInv` carries the invariant over every edit that keeps a chain's shape; `NewState`
is the one that widens the tables, all of them (`WithNewStateShape`).
`HandlersInvariant` follows, and from it `TablesStaySquare` and `LastsStayWithinData`. Two members of the shape are there for what is copied: a
delay function of type `SPLIT_LINEAR` has points that are a list (`FunctionShape`, with
`ReadPointsAreOwned` and `WithTypeShape`), which is `PointsAlwaysOwned`; and a filter is a record whose two
lists of addresses are sequences (`FilterShape`), without which a copy made place by place
could differ from its original. `DuplicateMeaning` then carries `CopiesMeanTheSame` from
the states to the chains to the whole; what it says of a chain's name is nothing, as the
code forgets it.

**`IFaceProofs`**, `set_move_probs`. That it changes all or nothing, `MovesAreWholeOrNothing`,
is about a request that may be begun again many times and may end at any of its reads.
`MoveOK`, a part of `IInv`, says what holds in its middle: while it reads, the copy is the one
that it found; while it writes, the copy is that one with exactly the places of the table
written that come before its own place (`WithMoves`, `PlacesBefore`), each with the probability of the
last mention of it so far. One more entry is one more place (`MovedFurther`): the
entries named before are earlier, so that the new one is the last mention of its place
(`LastOfLater`). The places pass from none to all row by row (`PlacesPass`), and at the end they
are what the property names. That no index is out of range when an entry is written
needs that both lists were read to their ends against the same chain (`NamedByLists`).

**`IFaceProofs`**, filters. `FiltersPassWhatWasAsked` compares bits with sets of numbers. The
shape of a chain says what the bits mean: a mask has exactly the bits of the numbers that were
asked for, as far as it has bits (`MaskFor`, `FullMaskForAll`), and the lists of addresses
hold addresses, widths and ranges (`AddressList`). `SetMaskBitAsAsked` is the step: one bit
of one byte changes, which needs that the place of a number, its byte and its bit, is its own
(`PlaceOfBit`). The filter shifts addresses and the client speaks of their upper bits;
`SamePrefixes` relates the two by an induction downwards from the full width, for
which a shift by one more bit is a halving (`ShiftOnce`). `AddressFilterAsAsked`,
`LengthAsAsked` and `FilterAsAsked` do one part of the filter each, under what `Agreed` asks of
it; `SpecAsAsked` compares one member of a list as the handler keeps it with the one that was
sent, ranges and their terminators included. Powers of two are a recursive function
(`PowerOfTwo`), for the provers know nothing of `^` with a variable exponent.

**`ThreadsProofs`**, kernel device. That every chain in force has one timer is not inductive:
while a connection closes, the old data are freed, and their timers deleted, before the
new ones are installed, and the timers of the new data are set one step later. `IInv`
adds what holds between: after the freeing no timer is pending; a timer function that was
running when its timer was deleted (overtaken) has freed data in hand; and a file that is alone
edits a copy that is not in force (`OneUser`), which is why an edit disturbs no timer
(`EditKeepsTimers`). There is a lemma for each step of a close and one for the
timer function.

**`ThreadsProofs`**, kernel delayer. The property speaks of moments when nobody is in the
delayer; a context that enters unsets the timer, looks at the queue and sets it again at
the end. `DelayerIInv` says for each place in the code what holds there of a context that is
alone (`InsideInv`): with an element in hand, the least key that it read is still that of
the head; from `check_pq` on the timer is unset; a packet that was fed back is the head of
the heap until it is popped; and the head to be armed for is the head. `FedBut` carries the
count of releases through these places. What the heap does is not proved again:
`HeapUses` takes `Push` and `Pop` from `HeapProofs` by INSTANCE, `PushAdds` and `PopTakes` say
what becomes of the set of queued elements, and `HeadIsLeast` that the head, which the timer
is set for, is the earliest. Two contexts inside at once, a module that is unloaded and a
crash end what is claimed, as in the property.

**`ThreadsProofs`**, connections. Queue and writer share no mutex, and the writers of earlier
connections read from the present connection's queue. The order of what is *sent*
depends on what was *taken*, so `ConnectionInv` counts: the unread part of the queue is the
end of what was queued (`BufferInv`), so that the number taken out of it (`Taken`) says which
integer comes next; of those taken, each was sent, or is in the hand of the present writer,
or went to a writer left behind (`SentInv`). Such a writer was cancelled before the
present client came (`ThreadsInv`), and so it ends at its next write with what it has in
hand: the `Swallowers` are no more than the connections before, which is the bound in the
property. A compaction that loses nothing keeps the unread part (`CompactedHolds`); one that
does not, sets `spoilt` and ends what is claimed of that run.

**`Induction`.** The library's induction theorems take an operator as a parameter, which the
provers here cannot instantiate. Two of its facts take sets instead: that strict inclusion
is well-founded on finite sets, and that a set on which a well-founded relation lives has a
least member. From these come `LeastSet`, `LeastNatural`, `NaturalInduction` and
`InductionTo`, and, with the initial pieces of a function in the place of the function
(`Begun`), `RecursionTo`. A loop that goes on until some measure runs out is a descent
(`Descends`): `DescentInduction` is the induction along it, and `DescentFunction` says that a
function defined by recursion along it exists.

Only model-checked, and why:

- all liveness, which is outside the prover's reach, as is ENABLED: `WritersServed`,
  `ReadersServed`, `FirstIsAnswered`, `EventuallyReleased`, `EventuallyExecuted`, `EventuallyJudged`,
  `FlagIsConsumed` and `CloseTerminates`.

The types of the variables are proved for every component and are in no run's list
but as a part of `IInv` in `threads`: `HeapTypeCorrect`, `TableTypeCorrect`,
`LogicTypeCorrect`, `DelayerTypeCorrect`, `TransactTypeCorrect` and `TypeCorrect`.

## 5. Not modelled

- `fairness_counter` of the lock (never initialised, never read), error returns of
  pthread functions, allocation failures, the `terminate` flag of the threads
  (`main.c:152` raises it for a verdict that the packet logic does not give).
- The growth of the heap's array, and elements pushed twice.
- 32-bit overflow of `delay_len * 1000`, listed as a hazard.
- A draw of exactly 0: in `SplitLinear` it finds the first point, and `searched--`
  leaves the table (`packet_logic.c:404`); the property excludes it. For the same
  reason a draw equal to a later point takes the delay of the point before.
- The release times across a change of the configuration: a connection copies each
  chain's `last_packet_release_time` when it opens and puts it back when it closes.
  `PacketLogic` has the times and `Arbitrator` the versions; together they are
  too many states for a run.
- Of the kernel build: that `main_init_module` hands out pointers to its local variables
  `flags` and `terminate` (`main.c:257-275`), which `close_connection` writes through
  later; two processors inside one call of the heap; the list of `ip_queue.c` for a
  listener in user space, which nothing is put into any more, with its netlink, sysctl and
  proc entries.
- `redblack.c` (a library) and the dictionaries of names, which are filled and never
  looked up; `C/ker_ipq` (an earlier stage of the kernel module); the Perl prototype of the
  arbitrator; the compiler of descriptions; the web site and the presentations.

## 6. Plan

Done: `RWLock`, `MessagesQueue`, `PQueue`, `Delayer`, `PacketLogic` with `SplitLinear` and
`Filters`, `Pipeline`, `Arbitrator`, `IFaceTransact`, `IFaceHandlers`, `IFaceConnection`,
`KernelDelayer`, `KernelDevice`, `Induction`, and seven proof modules. Runs were merged into
`parts` and `threads` where components share nothing.

Left, models:

1. The release times that a connection copies when it opens and puts back when it
   closes, and their torn reads: `PacketLogic` reduced to one chain's time, with
   `Arbitrator` reduced to one connection.
2. The width of `int` in the delay arithmetic.
3. The overlap of two processors inside the kernel's heap.

Left, proofs: all the safety and action properties that passing runs check are proved, and the
refinements. What is left is to carry the theorems of the kernel's parts and of the interface
into specifications that compose them, as `PipelineProofs` and `ArbitratorProofs` do for the
user-mode threads, once those specifications are written (item 1).
