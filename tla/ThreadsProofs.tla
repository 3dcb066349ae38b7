---------------------------- MODULE ThreadsProofs ---------------------------
(***************************************************************************)
(* Proofs about the components that MCThreads sets side by side, except    *)
(* the lock.                                                               *)
(*                                                                         *)
(* KernelDevice, for any number of opens and chains: each chain in force   *)
(* has one timer, and freed data have none.                                *)
(*                                                                         *)
(* KernelDelayer, for any packets, processors and delays: while the        *)
(* contexts come one at a time, the delayer's timer is set for the         *)
(* earliest packet of its queue, and each packet is queued or was fed back *)
(* once.                                                                   *)
(*                                                                         *)
(* IFaceConnection, for any number of connections and any requests: until  *)
(* a compaction loses something, each client is sent its own replies in    *)
(* order, short of one integer at most for each connection before it.      *)
(***************************************************************************)
EXTENDS IFaceConnection, KernelDevice, KernelDelayer, FiniteSetTheorems, TLAPS

-----------------------------------------------------------------------------
(* KernelDevice                                                            *)

TypeInv ==
  /\ opens \in 0 .. MaxOpens
  /\ data \in 0 .. opens /\ data_copy \in 0 .. opens
  /\ num_chains \in [Versions -> Nat]
  /\ files \in Nat

(* A single file edits a copy that is not in force, and no other file is   *)
(* open while it is being released.                                        *)
OneUser ==
  ~ shared => /\ files > 0 => files = 1 /\ release = "none" /\ data_copy # data

Running == IF timer_function = "none" THEN {} ELSE {timer_data}

(* Between the freeing of the old data and the swap no timer is pending,   *)
(* and the timer function that runs is that of the data freed.  A function *)
(* that was overtaken still has freed data in hand, and will follow them.  *)
TimersInv ==
  /\ release = "freed" => data \in freed
  /\ Overtaken => timer_data[1] \in freed
  /\ ~ Overtaken => IF release = "freed" THEN timers = {}
                    ELSE timers \cup Running = TimersOf(data) /\ timers \cap Running = {}

IInv == TypeInv /\ OneUser /\ (~ dead /\ ~ shared => TimersInv)

-----------------------------------------------------------------------------
LEMMA InitIInv == ASSUME DeviceInit PROVE IInv
<1>1. TypeInv
  BY KernelDeviceAssumption DEF DeviceInit, TypeInv, Versions
<1>2. OneUser
  BY DEF DeviceInit, OneUser
<1>3. TimersOf(data) = {} /\ timers = {} /\ timer_function = "none" /\ release = "none"
  BY KernelDeviceAssumption DEF DeviceInit, TimersOf, Versions
<1>4. TimersInv
  BY <1>3 DEF TimersInv, Running, Overtaken
<1> QED
  BY <1>1, <1>2, <1>4 DEF IInv

(* Editing another version than the one in force leaves its timers alone.  *)
LEMMA EditKeepsTimers ==
  ASSUME TypeInv, NEW v \in Versions \ {data}, NEW n \in Nat,
         num_chains' = [num_chains EXCEPT ![v] = n], data' = data,
         UNCHANGED <<freed, timers, release, functionVars>>, TimersInv
  PROVE  TimersInv'
<1>1. num_chains'[data] = num_chains[data]
  BY DEF TypeInv, Versions
<1>2. TimersOf(data)' = TimersOf(data)
  BY <1>1 DEF TimersOf
<1>3. Overtaken' = Overtaken /\ Running' = Running
  BY DEF Overtaken, Running, functionVars
<1> QED
  BY <1>2, <1>3 DEF TimersInv, functionVars

(* Nothing that the timers depend on has changed.                          *)
LEMMA SameTimers ==
  ASSUME UNCHANGED <<data, num_chains, freed, timers, functionVars>>,
         (release = "freed") <=> (release' = "freed"), TimersInv
  PROVE  TimersInv'
<1>1. TimersOf(data)' = TimersOf(data)
  BY DEF TimersOf
<1>2. Overtaken' = Overtaken /\ Running' = Running
  BY DEF Overtaken, Running, functionVars
<1> QED
  BY <1>1, <1>2 DEF TimersInv, functionVars

-----------------------------------------------------------------------------
LEMMA DeviceOpenKeepsIInv ==
  ASSUME IInv, DeviceOpen
  PROVE  IInv'
<1>1. opens' = opens + 1 /\ opens' \in 0 .. MaxOpens
  BY KernelDeviceAssumption DEF DeviceOpen, IInv, TypeInv
<1>2. /\ data' = data /\ data_copy' = opens' /\ data_copy' \in Versions \ {data}
      /\ num_chains[data] \in Nat
  BY <1>1, KernelDeviceAssumption DEF DeviceOpen, IInv, TypeInv, Versions
<1>3. TypeInv'
  BY <1>1, <1>2 DEF DeviceOpen, IInv, TypeInv, Versions
<1>4. OneUser'
  <2> SUFFICES ASSUME ~ shared' PROVE files' = 1 /\ release' = "none" /\ data_copy' # data'
    BY Zenon DEF OneUser
  <2>1. ~ (files > 0) /\ release = "none"
    BY Zenon DEF DeviceOpen
  <2>2. files = 0
    BY <2>1 DEF IInv, TypeInv
  <2> QED
    BY <1>2, <2>1, <2>2 DEF DeviceOpen
<1>5. ASSUME ~ dead', ~ shared' PROVE TimersInv'
  <2>1. ~ dead /\ ~ shared
    BY <1>5 DEF DeviceOpen
  <2>2. TimersInv
    BY <2>1 DEF IInv
  <2>3. num_chains' = [num_chains EXCEPT ![data_copy'] = num_chains[data]]
    BY DEF DeviceOpen
  <2> QED
    BY <1>2, <2>2, <2>3, EditKeepsTimers DEF DeviceOpen, IInv
<1> QED
  BY <1>3, <1>4, <1>5 DEF IInv

LEMMA WriteKeepsIInv ==
  ASSUME IInv, ~ dead, Write
  PROVE  IInv'
<1>1. TypeInv /\ data_copy \in Versions /\ num_chains[data_copy] \in Nat /\ files > 0
  BY KernelDeviceAssumption
     DEF IInv, TypeInv, Versions, Write, WriteNewChain, WriteClearAll,
         WriteEndConnection
<1>2. UNCHANGED <<files, opens, shared, data, data_copy, freed, timers, release,
                  functionVars>>
  BY DEF Write, WriteNewChain, WriteClearAll, WriteEndConnection, fileVars, dataVars
<1>3. OneUser'
  BY <1>2 DEF IInv, OneUser
<1>4. CASE WriteEndConnection
  <2>1. num_chains' = num_chains /\ dead' = dead
    BY <1>4 DEF WriteEndConnection, dataVars
  <2>2. ASSUME ~ shared' PROVE TimersInv'
    BY <1>2, <2>1, <2>2, SameTimers DEF IInv
  <2> QED
    BY <1>1, <1>2, <1>3, <2>1, <2>2 DEF IInv, TypeInv
<1>5. CASE WriteNewChain \/ WriteClearAll
  <2>1. PICK n \in Nat : num_chains' = [num_chains EXCEPT ![data_copy] = n]
    <3>1. num_chains[data_copy] + 1 \in Nat /\ 0 \in Nat
      BY <1>1
    <3> QED
      BY <1>5, <3>1 DEF WriteNewChain, WriteClearAll
  <2>2. TypeInv'
    BY <1>1, <1>2, <2>1 DEF TypeInv
  <2>3. ASSUME ~ shared' PROVE TimersInv'
    <3>1. data_copy # data /\ TimersInv
      BY <1>1, <1>2, <2>3 DEF IInv, OneUser
    <3> QED
      BY <1>1, <1>2, <2>1, <3>1, EditKeepsTimers
  <2> QED
    BY <1>3, <2>2, <2>3 DEF IInv
<1> QED
  BY <1>4, <1>5 DEF Write

(* The file is let go of, the lock is had, the lock is given back. *)
LEMMA CloseQuietKeepsIInv ==
  ASSUME IInv, ~ dead, DeviceRelease \/ CloseLock \/ CloseUp
  PROVE  IInv'
<1>1. UNCHANGED <<data, data_copy, num_chains, freed, timers, functionVars, opens,
                  shared, dead>>
  BY DEF DeviceRelease, CloseLock, CloseUp, dataVars, fileVars
<1>2. release # "freed" /\ release' # "freed"
  BY DEF DeviceRelease, CloseLock, CloseUp
<1>3. files' \in Nat /\ files' <= files /\ (DeviceRelease => files' = files - 1)
  BY DEF DeviceRelease, CloseLock, CloseUp, fileVars, IInv, TypeInv
<1>4. TypeInv'
  BY <1>1, <1>3 DEF IInv, TypeInv, Versions
<1>5. OneUser'
  <2>1. CASE DeviceRelease
    BY <1>1, <1>3, <2>1 DEF IInv, TypeInv, OneUser, DeviceRelease
  <2>2. CASE CloseLock \/ CloseUp
    BY <1>1, <2>2 DEF IInv, OneUser, CloseLock, CloseUp, fileVars
  <2> QED
    BY <2>1, <2>2
<1>6. ASSUME ~ shared' PROVE TimersInv'
  BY <1>1, <1>2, <1>6, SameTimers DEF IInv
<1> QED
  BY <1>4, <1>5, <1>6 DEF IInv

LEMMA CloseFreeDataKeepsIInv ==
  ASSUME IInv, ~ dead, CloseFreeData
  PROVE  IInv'
<1>1. /\ UNCHANGED <<files, opens, shared, data, data_copy, num_chains, functionVars>>
      /\ release = "locked" /\ release' = "freed"
      /\ freed' = freed \cup {data} /\ timers' = timers \ TimersOf(data)
  BY DEF CloseFreeData, fileVars
<1>2. TypeInv' /\ OneUser'
  BY <1>1 DEF IInv, TypeInv, OneUser, Versions
<1>3. ASSUME ~ shared' PROVE TimersInv'
  <2>1. TimersInv
    BY <1>1, <1>3 DEF IInv
  <2>2. Overtaken' = Overtaken /\ timer_data' = timer_data
    BY <1>1 DEF Overtaken, functionVars
  <2>3. ~ Overtaken => timers \subseteq TimersOf(data)
    BY <1>1, <2>1 DEF TimersInv
  <2> QED
    BY <1>1, <2>1, <2>2, <2>3 DEF TimersInv
<1> QED
  BY <1>2, <1>3 DEF IInv

(* A timer function that runs here has the freed data in hand, and the     *)
(* copy was not freed: it is overtaken.                                    *)
LEMMA CloseSwapDataKeepsIInv ==
  ASSUME IInv, ~ dead, CloseSwapData
  PROVE  IInv'
<1>1. /\ UNCHANGED <<files, opens, shared, data_copy, num_chains, freed, functionVars>>
      /\ release = "freed" /\ release' = "swapped"
      /\ data' = data_copy /\ timers' = timers \cup TimersOf(data_copy)
      /\ dead' = (data_copy \in freed)
  BY DEF CloseSwapData, fileVars
<1>2. TypeInv'
  BY <1>1 DEF IInv, TypeInv, Versions
<1>3. OneUser'
  BY <1>1 DEF IInv, OneUser
<1>4. ASSUME ~ dead', ~ shared' PROVE TimersInv'
  <2>1. TimersInv /\ data' \notin freed
    BY <1>1, <1>4 DEF IInv
  <2>2. CASE timer_function = "none"
    <3>1. ~ Overtaken /\ ~ Overtaken' /\ Running' = {}
      BY <1>1, <2>2 DEF Overtaken, Running, functionVars
    <3>2. timers' = TimersOf(data)'
      BY <1>1, <2>1, <3>1 DEF TimersInv, TimersOf
    <3> QED
      BY <1>1, <3>1, <3>2 DEF TimersInv
  <2>3. CASE timer_function # "none"
    <3>1. timer_data[1] \in freed
      BY <1>1, <2>1, <2>3 DEF TimersInv, Overtaken
    <3>2. Overtaken' /\ timer_data'[1] \in freed'
      BY <1>1, <2>1, <2>3, <3>1 DEF Overtaken, functionVars
    <3> QED
      BY <1>1, <3>2 DEF TimersInv
  <2> QED
    BY <2>2, <2>3
<1> QED
  BY <1>2, <1>3, <1>4 DEF IInv

LEMMA TimerStepKeepsIInv ==
  ASSUME IInv, ~ dead, TimerStep
  PROVE  IInv'
<1>1. UNCHANGED <<files, opens, shared, data, data_copy, num_chains, freed, release>>
  BY DEF TimerStep, TimerFires, TimerHangs, TimerLock, TimerSwitch, fileVars, dataVars
<1>2. TypeInv' /\ OneUser'
  BY <1>1 DEF IInv, TypeInv, OneUser, Versions
<1>3. TimersOf(data)' = TimersOf(data)
  BY <1>1 DEF TimersOf
<1>4. ASSUME ~ dead', ~ shared' PROVE TimersInv'
  <2>1. TimersInv
    BY <1>1, <1>4 DEF IInv
  <2>2. CASE TimerFires
    <3>1. PICK t \in timers : timers' = timers \ {t} /\ timer_data' = <<data, t[2]>>
      BY <2>2 DEF TimerFires
    <3>2. timer_function = "none" /\ timer_function' = "locking"
      BY <2>2 DEF TimerFires
    <3>3. release # "freed" /\ timers = TimersOf(data)
      BY <2>1, <3>1, <3>2 DEF TimersInv, Overtaken, Running
    <3>4. t = <<data, t[2]>>
      BY <3>1, <3>3 DEF TimersOf
    <3>5. ~ Overtaken' /\ Running' = {t}
      BY <1>1, <3>1, <3>2, <3>4 DEF Overtaken, Running
    <3> QED
      BY <1>1, <1>3, <3>1, <3>3, <3>5 DEF TimersInv
  <2>3. CASE TimerLock
    <3>1. /\ timer_function = "locking" /\ timer_function' = "locked"
          /\ UNCHANGED <<timers, timer_data>>
      BY <2>3 DEF TimerLock
    <3>2. Overtaken' = Overtaken /\ Running' = Running
      BY <1>1, <3>1 DEF Overtaken, Running
    <3> QED
      BY <1>1, <1>3, <2>1, <3>1, <3>2 DEF TimersInv
  <2>4. CASE TimerSwitch
    <3>1. /\ timer_function = "locked" /\ timer_function' = "none"
          /\ timer_data[1] \notin freed /\ timers' = timers \cup {timer_data}
      BY <1>4, <2>4 DEF TimerSwitch
    <3>2. ~ Overtaken /\ data = timer_data[1]
      BY <2>1, <3>1 DEF TimersInv, Overtaken
    <3>3. release # "freed"
      BY <2>1, <3>1, <3>2 DEF TimersInv
    <3>4. ~ Overtaken' /\ Running' = {} /\ Running = {timer_data}
      BY <3>1 DEF Overtaken, Running
    <3> QED
      BY <1>1, <1>3, <2>1, <3>1, <3>2, <3>3, <3>4 DEF TimersInv
  <2>5. CASE TimerHangs
    BY <1>4, <2>5 DEF TimerHangs
  <2> QED
    BY <2>2, <2>3, <2>4, <2>5 DEF TimerStep
<1> QED
  BY <1>2, <1>4 DEF IInv

LEMMA NextKeepsIInv ==
  ASSUME IInv, [DeviceNext]_deviceVars
  PROVE  IInv'
<1>1. CASE UNCHANGED deviceVars
  BY <1>1 DEF deviceVars, fileVars, dataVars, functionVars, IInv, TypeInv, OneUser,
     TimersInv, Overtaken, Running, TimersOf, Versions
<1>2. CASE DeviceNext
  <2>1. ~ dead
    BY <1>2 DEF DeviceNext
  <2> QED
    BY <1>2, <2>1, DeviceOpenKeepsIInv, WriteKeepsIInv, CloseQuietKeepsIInv,
       CloseFreeDataKeepsIInv, CloseSwapDataKeepsIInv, TimerStepKeepsIInv
       DEF DeviceNext, Close
<1> QED
  BY <1>1, <1>2

-----------------------------------------------------------------------------
(* iface.c:1059-1310 and switcher.c:95-181, kernel build: whatever is      *)
(* opened, written and released while timers fire, the invariant holds.    *)
THEOREM DeviceInvariant == DeviceSpec => []IInv
<1>1. DeviceInit => IInv
  BY InitIInv
<1>2. IInv /\ [DeviceNext]_deviceVars => IInv'
  BY NextKeepsIInv
<1> QED
  BY <1>1, <1>2, PTL DEF DeviceSpec

(* Each chain in force has one timer, and freed data have none, up to the  *)
(* two disorders that the property names.                                  *)
THEOREM TimersAlwaysFollowData == DeviceSpec => []TimersFollowData
<1>1. IInv => TimersFollowData
  BY DEF IInv, TimersInv, TimersFollowData, Running
<1> QED
  BY <1>1, DeviceInvariant, PTL

-----------------------------------------------------------------------------
(* The delayer                                                             *)

(* What may be in the heap.                                                *)
Entries == [key : 0 .. MaxJiffies, m : Packets]

(* The heap's theorems, of this queue.                                     *)
HP == INSTANCE HeapProofs WITH Elements <- Entries, heap <- pq, popped <- {}

Queue == {pq[i] : i \in 1 .. Len(pq)}

(* The queue is a heap of different packets that came, due after the first *)
(* jiffy.                                                                  *)
QueueInv ==
  /\ pq \in Seq(Entries) /\ HP!Ordered(pq) /\ HP!Distinct(pq)
  /\ \A e \in Queue : e.m \in DOMAIN fed /\ e.key # 0
  /\ \A e, f \in Queue : e.m = f.m => e = f

(* Every packet is queued or was fed back, once, but for those on the way. *)
FedBut(coming, going) ==
  \A p \in DOMAIN fed :
    fed[p] = IF (Queued(p) \/ p \in coming) /\ p \notin going THEN 0 ELSE 1

HeadKey == IF pq = <<>> THEN 0 ELSE pq[1].key
Known == current_timer_initialized <=> timer # 0
TimerSet == timer = HeadKey /\ Known
NoTimer == timer = 0 /\ ~ current_timer_initialized

(* What holds where a context is alone in the delayer.                     *)
DelayingInv(c) ==
  /\ elem[c] \in Entries /\ elem[c].key # 0
  /\ elem[c].m \in DOMAIN fed /\ ~ Queued(elem[c].m)
  /\ FedBut({elem[c].m}, {})
  /\ min_tv[c] = HeadKey /\ TimerSet

InsideInv(c) ==
  /\ at[c] = "delaying" => DelayingInv(c)
  /\ at[c] = "cancelling" => FedBut({}, {}) /\ Known
  /\ at[c] = "checking" => FedBut({}, {}) /\ NoTimer
  /\ at[c] = "released" => pq # <<>> /\ FedBut({}, {pq[1].m}) /\ NoTimer
  /\ at[c] = "arming" => /\ FedBut({}, {}) /\ NoTimer
                         /\ pq # <<>> => elem[c] = pq[1]

Empty == \A c \in Contexts : at[c] = "out"

AloneInv ==
  /\ \A c, d \in Contexts : at[c] # "out" /\ at[d] # "out" => c = d
  /\ QueueInv
  /\ Empty => FedBut({}, {}) /\ TimerSet
  /\ \A c \in Contexts : InsideInv(c)

DelayerTypeInv ==
  /\ jiffies \in Nat \ {0}
  /\ at \in [Contexts -> {"out", "delaying", "cancelling", "checking",
                          "released", "arming"}]
  /\ DOMAIN elem = Contexts /\ DOMAIN min_tv = Contexts /\ DOMAIN time = Contexts
  /\ loaded \in BOOLEAN /\ overlapped \in BOOLEAN /\ crashed \in BOOLEAN
  /\ current_timer_initialized \in BOOLEAN

DelayerIInv ==
  /\ DelayerTypeInv
  /\ loaded /\ ~ overlapped /\ ~ crashed => AloneInv

-----------------------------------------------------------------------------
(* The heap, as its own theorems say                                       *)
LEMMA HeapUses ==
  /\ HP!ElementsAssumption
  /\ \A h, e : Heap!Push(h, e) = HP!Push(h, e)
  /\ \A h : Heap!Pop(h) = HP!Pop(h)
<1>1. HP!ElementsAssumption
  BY KernelDelayerAssumption DEF HP!ElementsAssumption, Entries, KernelDelayerAssumption
<1>2. \A h, e : Heap!Push(h, e) = HP!Push(h, e)
  BY Zenon DEF Heap!Push, HP!Push, Heap!cmp, HP!cmp, Heap!Parent, HP!Parent
<1>3. \A h : Heap!Pop(h) = HP!Pop(h)
  BY Zenon DEF Heap!Pop, HP!Pop, Heap!Sunk, HP!Sunk, Heap!cmp, HP!cmp,
       Heap!LeftChild, HP!LeftChild,
     Heap!SmallerChild, HP!SmallerChild
<1> QED
  BY <1>1, <1>2, <1>3

(* A push adds its element to the queue.                                   *)
LEMMA PushAdds ==
  ASSUME QueueInv, NEW e \in Entries, e \notin Queue, pq' = Heap!Push(pq, e)
  PROVE  /\ pq' \in Seq(Entries) /\ HP!Ordered(pq') /\ HP!Distinct(pq')
         /\ pq' # <<>> /\ Queue' = Queue \cup {e}
<1>1. pq' = HP!Push(pq, e)
  BY HeapUses
<1>2. HP!ElementsAssumption
  BY HeapUses
<1>3. e \notin HP!Values(pq)
  BY DEF HP!Values, Queue
<1>4. /\ pq' \in Seq(Entries) /\ Len(pq') = Len(pq) + 1 /\ HP!Ordered(pq') /\ HP!Distinct(pq')
      /\ HP!Values(pq') = HP!Values(pq) \cup {e}
  BY <1>1, <1>2, <1>3, HP!PushKeepsHeap DEF QueueInv
<1>5. HP!Values(pq') = Queue' /\ HP!Values(pq) = Queue
  BY DEF HP!Values, Queue
<1>6. pq' # <<>>
  BY <1>4 DEF QueueInv
<1> QED
  BY <1>4, <1>5, <1>6

(* A pop takes out the head.                                               *)
LEMMA PopTakes ==
  ASSUME QueueInv, pq # <<>>, pq' = Heap!Pop(pq)
  PROVE  /\ pq' \in Seq(Entries) /\ HP!Ordered(pq') /\ HP!Distinct(pq')
         /\ Queue' = Queue \ {pq[1]}
<1>1. pq' = HP!Pop(pq)
  BY HeapUses
<1>2. HP!ElementsAssumption
  BY HeapUses
<1>3. /\ pq' \in Seq(Entries) /\ HP!Ordered(pq') /\ HP!Distinct(pq')
      /\ HP!Values(pq') = HP!Values(pq) \ {pq[1]}
  BY <1>1, <1>2, HP!PopKeepsHeap DEF QueueInv
<1>4. HP!Values(pq') = Queue' /\ HP!Values(pq) = Queue
  BY DEF HP!Values, Queue
<1> QED
  BY <1>3, <1>4

(* The head is in the queue, and nothing there is due before it.           *)
LEMMA HeadIsLeast ==
  ASSUME NEW h \in Seq(Entries), HP!Ordered(h), h # <<>>
  PROVE  /\ h[1] \in {h[i] : i \in 1 .. Len(h)} /\ h[1] \in Entries
         /\ \A e \in {h[i] : i \in 1 .. Len(h)} : h[1].key <= e.key
<1>1. 1 \in 1 .. Len(h)
  OBVIOUS
<1>2. \A i \in 1 .. Len(h) : h[1].key <= h[i].key
  BY HeapUses, HP!RootIsLeast
<1> QED
  BY <1>1, <1>2

(* Packets queued, by the elements of the queue.                           *)
LEMMA QueuedIn == \A p : Queued(p) <=> \E e \in Queue : e.m = p
  BY DEF Queued, Queue

-----------------------------------------------------------------------------
(* The invariant with one context inside, or with none                     *)
LEMMA OnlyOne ==
  ASSUME NEW c \in Contexts, at'[c] # "out", \A d \in Contexts \ {c} : at'[d] = "out",
         QueueInv', InsideInv(c)'
  PROVE  AloneInv'
<1>1. \A d \in Contexts : InsideInv(d)'
  BY DEF InsideInv
<1> QED
  BY <1>1 DEF AloneInv, Empty

LEMMA Nobody ==
  ASSUME Empty', QueueInv', FedBut({}, {})', TimerSet'
  PROVE  AloneInv'
BY DEF AloneInv, Empty, InsideInv

(* What a step that leaves the queue alone leaves alone.                   *)
LEMMA SameQueue ==
  ASSUME QueueInv, pq' = pq, DOMAIN fed \subseteq DOMAIN fed'
  PROVE  QueueInv' /\ Queue' = Queue
BY DEF QueueInv, Queue

-----------------------------------------------------------------------------
(* The steps                                                               *)
LEMMA InitDelayer ==
  ASSUME DelayerInit
  PROVE  DelayerIInv
<1>1. pq = <<>> /\ Queue = {}
  BY DEF DelayerInit, Queue
<1>2. DelayerTypeInv
  <2>1. jiffies \in Nat \ {0}
    BY DEF DelayerInit
  <2>2. /\ at \in [Contexts -> {"out", "delaying", "cancelling", "checking", "released", "arming"}]
        /\ DOMAIN elem = Contexts /\ DOMAIN min_tv = Contexts /\ DOMAIN time = Contexts
    BY DEF DelayerInit
  <2>3. /\ loaded \in BOOLEAN /\ overlapped \in BOOLEAN /\ crashed \in BOOLEAN
        /\ current_timer_initialized \in BOOLEAN
    BY DEF DelayerInit
  <2> QED
    BY <2>1, <2>2, <2>3 DEF DelayerTypeInv
<1>3. HP!Ordered(pq) /\ HP!Distinct(pq)
  BY <1>1 DEF HP!Ordered, HP!Distinct
<1>4. QueueInv
  BY <1>1, <1>3 DEF QueueInv
<1>5. Empty /\ FedBut({}, {}) /\ TimerSet
  BY DEF DelayerInit, Empty, FedBut, TimerSet, Known, HeadKey
<1> QED
  BY <1>2, <1>4, <1>5 DEF DelayerIInv, AloneInv, Empty, InsideInv

(* A step that is not taken in the delayer: nobody is inside, or the one   *)
(* context that is stays where it is.                                      *)
LEMMA ReceiveReinjectKeeps ==
  ASSUME AloneInv, NEW c \in Processors, ReceiveReinject(c)
  PROVE  AloneInv'
<1>1. PICK p \in Packets \ DOMAIN fed : fed' = Fed(p, 1)
  BY DEF ReceiveReinject
<1>2. UNCHANGED <<pq, timer, current_timer_initialized, at, elem, min_tv>>
  BY DEF ReceiveReinject, queueVars
<1>3. DOMAIN fed' = DOMAIN fed \cup {p} /\ fed'[p] = 1 /\ \A q \in DOMAIN fed : fed'[q] = fed[q]
  BY <1>1 DEF Fed
<1>4. QueueInv' /\ Queue' = Queue
  BY <1>2, <1>3, SameQueue DEF AloneInv
<1>5. ~ Queued(p)
  BY QueuedIn DEF AloneInv, QueueInv
<1>6. \A q : Queued(q)' <=> Queued(q)
  BY <1>2 DEF Queued
<1>7. \A S, T : p \notin S /\ FedBut(S, T) => FedBut(S, T)'
  BY <1>3, <1>5, <1>6 DEF FedBut
<1>8. (Known <=> Known') /\ (NoTimer <=> NoTimer') /\ (TimerSet <=> TimerSet') /\ HeadKey' = HeadKey
  BY <1>2 DEF Known, NoTimer, TimerSet, HeadKey
<1>9. ASSUME NEW d \in Contexts PROVE InsideInv(d)'
  <2>1. InsideInv(d)
    BY DEF AloneInv
  <2>2. CASE at[d] = "delaying"
    <3>1. DelayingInv(d)
      BY <2>1, <2>2 DEF InsideInv
    <3>2. p \notin {elem[d].m}
      BY <3>1 DEF DelayingInv
    <3>3. FedBut({elem[d].m}, {})'
      BY <1>2, <1>7, <3>1, <3>2 DEF DelayingInv
    <3>4. DelayingInv(d)'
      BY <1>2, <1>3, <1>6, <1>8, <3>1, <3>3 DEF DelayingInv
    <3> QED
      BY <1>2, <2>2, <3>4 DEF InsideInv
  <2>3. CASE at[d] # "delaying"
    BY <1>2, <1>7, <1>8, <2>1, <2>3 DEF InsideInv
  <2> QED
    BY <2>2, <2>3
<1>10. Empty' => FedBut({}, {})' /\ TimerSet'
  BY <1>2, <1>7, <1>8 DEF AloneInv, Empty
<1> QED
  BY <1>2, <1>4, <1>9, <1>10 DEF AloneInv

LEMMA TickKeeps ==
  ASSUME AloneInv, UNCHANGED <<queueVars, at, elem, min_tv, fed>>
  PROVE  AloneInv'
<1>1. UNCHANGED <<pq, timer, current_timer_initialized, at, elem, min_tv, fed>>
  BY DEF queueVars
<1>2. QueueInv'
  BY <1>1, SameQueue DEF AloneInv
<1>3. \A S, T : FedBut(S, T)' <=> FedBut(S, T)
  BY <1>1 DEF FedBut, Queued
<1>4. (Known <=> Known') /\ (NoTimer <=> NoTimer') /\ (TimerSet <=> TimerSet') /\ HeadKey' = HeadKey
  BY <1>1 DEF Known, NoTimer, TimerSet, HeadKey
<1>5. ASSUME NEW d \in Contexts PROVE DelayingInv(d)' <=> DelayingInv(d)
  BY <1>1, <1>3, <1>4 DEF DelayingInv, Queued
<1>6. ASSUME NEW d \in Contexts PROVE InsideInv(d)'
  <2>1. InsideInv(d)
    BY DEF AloneInv
  <2> QED
    BY <1>1, <1>3, <1>4, <1>5, <2>1 DEF InsideInv
<1>7. Empty' => FedBut({}, {})' /\ TimerSet'
  BY <1>1, <1>3, <1>4 DEF AloneInv, Empty
<1> QED
  BY <1>1, <1>2, <1>6, <1>7 DEF AloneInv

(* A context enters while nobody is inside.                                *)
LEMMA EntersAlone ==
  ASSUME NEW c \in Contexts, Enters(c), ~ overlapped'
  PROVE  Empty /\ ~ overlapped
BY DEF Enters, Empty

LEMMA ReceiveDelayKeeps ==
  ASSUME DelayerTypeInv, AloneInv, NEW c \in Processors, ReceiveDelay(c), ~ overlapped'
  PROVE  AloneInv'
<1>1. PICK p \in Packets \ DOMAIN fed, delay_len \in DelayLens :
        LET tv == jiffies + (HZ * NumMillisecs(delay_len)) \div 1000
        IN  /\ tv < MaxJiffies
            /\ elem' = [elem EXCEPT ![c] = [key |-> tv, m |-> p]]
            /\ fed' = Fed(p, 0)
  BY DEF ReceiveDelay
<1>2. c \in Contexts /\ Empty
  BY EntersAlone DEF ReceiveDelay, Contexts
<1> DEFINE tv == jiffies + (HZ * NumMillisecs(delay_len)) \div 1000
<1>3. tv \in Nat \ {0}
  <2>1. NumMillisecs(delay_len) \in Nat /\ HZ \in Nat /\ jiffies \in Nat \ {0}
    BY KernelDelayerAssumption DEF NumMillisecs, DelayerTypeInv
  <2>2. HZ * NumMillisecs(delay_len) \in Nat
    BY <2>1
  <2> QED
    BY <2>1, <2>2
<1>4. tv < MaxJiffies /\ elem' = [elem EXCEPT ![c] = [key |-> tv, m |-> p]] /\ fed' = Fed(p, 0)
  BY <1>1
<1> HIDE DEF tv
<1>5. elem'[c] = [key |-> tv, m |-> p]
  BY <1>2, <1>4 DEF DelayerTypeInv
<1>6. elem'[c] \in Entries /\ elem'[c].key # 0 /\ elem'[c].m = p
  BY <1>3, <1>4, <1>5, KernelDelayerAssumption DEF Entries
<1>7. /\ UNCHANGED <<pq, timer, current_timer_initialized>>
      /\ min_tv'[c] = HeadKey /\ at' = [at EXCEPT ![c] = "delaying"]
  BY <1>2 DEF ReceiveDelay, queueVars, DelayerTypeInv, HeadKey
<1>8. DOMAIN fed' = DOMAIN fed \cup {p} /\ fed'[p] = 0 /\ \A q \in DOMAIN fed : fed'[q] = fed[q]
  BY <1>4 DEF Fed
<1>9. QueueInv' /\ Queue' = Queue
  BY <1>7, <1>8, SameQueue DEF AloneInv
<1>10. ~ Queued(p) /\ \A q : Queued(q)' <=> Queued(q)
  BY <1>7, QueuedIn DEF AloneInv, QueueInv, Queued
<1>11. FedBut({}, {}) /\ TimerSet
  BY <1>2 DEF AloneInv
<1>12. FedBut({p}, {})'
  BY <1>8, <1>10, <1>11 DEF FedBut
<1>13. TimerSet' /\ HeadKey' = HeadKey
  BY <1>7, <1>11 DEF TimerSet, Known, HeadKey
<1>14. DelayingInv(c)'
  BY <1>6, <1>7, <1>8, <1>10, <1>12, <1>13 DEF DelayingInv
<1>15. at'[c] = "delaying" /\ \A d \in Contexts \ {c} : at'[d] = "out"
  BY <1>2, <1>7 DEF DelayerTypeInv, Empty
<1>16. InsideInv(c)'
  BY <1>14, <1>15 DEF InsideInv
<1> QED
  BY <1>2, <1>9, <1>15, <1>16, OnlyOne

(* The one who is inside is there alone.                                   *)
LEMMA OthersOut ==
  ASSUME AloneInv, NEW c \in Contexts, at[c] # "out"
  PROVE  \A d \in Contexts \ {c} : at[d] = "out"
BY DEF AloneInv

LEMMA DelayPushKeeps ==
  ASSUME DelayerTypeInv, AloneInv, NEW c \in Processors, DelayPush(c)
  PROVE  AloneInv'
<1>1. c \in Contexts /\ at[c] = "delaying" /\ pq' = Heap!Push(pq, elem[c])
  BY DEF DelayPush, Contexts
<1>2. QueueInv /\ DelayingInv(c) /\ \A d \in Contexts \ {c} : at[d] = "out"
  BY <1>1, OthersOut DEF AloneInv, InsideInv
<1> DEFINE e == elem[c]
<1>3. e \notin Queue
  BY <1>2, QueuedIn DEF DelayingInv
<1>4. /\ pq' \in Seq(Entries) /\ HP!Ordered(pq') /\ HP!Distinct(pq')
      /\ pq' # <<>> /\ Queue' = Queue \cup {e}
  BY <1>1, <1>2, <1>3, PushAdds DEF DelayingInv
<1>5. UNCHANGED <<timer, current_timer_initialized, fed>>
  BY DEF DelayPush
<1>6. QueueInv'
  <2>1. \A f \in Queue : f.m \in DOMAIN fed /\ f.key # 0 /\ f.m # e.m
    BY <1>2, QueuedIn DEF QueueInv, DelayingInv
  <2>2. e.m \in DOMAIN fed /\ e.key # 0
    BY <1>2 DEF DelayingInv
  <2>3. \A f, g \in Queue : f.m = g.m => f = g
    BY <1>2 DEF QueueInv
  <2> HIDE DEF e
  <2>4. \A f \in Queue' : f.m \in DOMAIN fed' /\ f.key # 0
    BY <1>4, <1>5, <2>1, <2>2
  <2>5. \A f, g \in Queue' : f.m = g.m => f = g
    BY <1>4, <2>1, <2>3
  <2> QED
    BY <1>4, <2>4, <2>5 DEF QueueInv
<1>7. FedBut({}, {})'
  <2>1. \A p : Queued(p)' <=> \E f \in Queue' : f.m = p
    BY DEF Queued, Queue
  <2>2. \A p : Queued(p)' <=> Queued(p) \/ p = e.m
    BY <1>4, <2>1, QueuedIn
  <2> QED
    BY <1>2, <1>5, <2>2 DEF DelayingInv, FedBut
<1>8. Known'
  BY <1>2, <1>5 DEF DelayingInv, TimerSet, Known
<1>9. CASE Checks(c)
  <2>1. at' = [at EXCEPT ![c] = "cancelling"]
    BY <1>9 DEF DelayPush
  <2>2. at'[c] = "cancelling" /\ \A d \in Contexts \ {c} : at'[d] = "out"
    BY <1>1, <1>2, <2>1 DEF DelayerTypeInv
  <2>3. InsideInv(c)'
    BY <1>7, <1>8, <2>2 DEF InsideInv
  <2> QED
    BY <1>1, <1>6, <2>2, <2>3, OnlyOne
<1>10. CASE ~ Checks(c)
  <2>1. at' = [at EXCEPT ![c] = "out"]
    BY <1>10 DEF DelayPush, Leaves
  <2>2. Empty'
    BY <1>1, <1>2, <2>1 DEF DelayerTypeInv, Empty
  <2>3. pq # <<>> /\ ~ (e.key < pq[1].key)
    BY <1>2, <1>10 DEF Checks, DelayingInv, HeadKey
  <2>4. pq[1] \in Queue /\ pq[1] \in Entries /\ \A f \in Queue : pq[1].key <= f.key
    BY <1>2, <2>3, HeadIsLeast DEF QueueInv, Queue
  <2>5. pq'[1] \in Queue' /\ pq'[1] \in Entries /\ \A f \in Queue' : pq'[1].key <= f.key
    BY <1>4, HeadIsLeast DEF Queue
  <2>6. e \in Entries /\ timer = pq[1].key
    BY <1>2, <2>3 DEF DelayingInv, TimerSet, HeadKey
  <2>7. e.key \in Int /\ pq[1].key \in Int /\ pq'[1].key \in Int
    BY <2>4, <2>5, <2>6, KernelDelayerAssumption DEF Entries
  <2>8. pq'[1].key <= pq[1].key
    BY <1>4, <2>4, <2>5
  <2>9. pq[1].key <= pq'[1].key
    <3>1. CASE pq'[1] \in Queue
      BY <2>4, <3>1
    <3>2. CASE pq'[1] = e
      BY <2>3, <2>7, <3>2
    <3> QED
      BY <1>4, <2>5, <3>1, <3>2
  <2>10. TimerSet'
    BY <1>4, <1>5, <1>8, <2>6, <2>7, <2>8, <2>9 DEF TimerSet, HeadKey
  <2> QED
    BY <1>6, <1>7, <2>2, <2>10, Nobody
<1> QED
  BY <1>9, <1>10

(* A step inside that leaves the queue and the packets alone.              *)
LEMMA StaysInside ==
  ASSUME DelayerTypeInv, AloneInv, NEW c \in Contexts, at[c] # "out", NEW place, place # "out",
         at' = [at EXCEPT ![c] = place], UNCHANGED <<pq, fed>>, InsideInv(c)'
  PROVE  AloneInv'
<1>1. QueueInv'
  BY SameQueue DEF AloneInv
<1>2. at'[c] = place /\ \A d \in Contexts \ {c} : at'[d] = "out"
  BY OthersOut DEF DelayerTypeInv
<1> QED
  BY <1>1, <1>2, OnlyOne

LEMMA DelayCancelKeeps ==
  ASSUME DelayerTypeInv, AloneInv, NEW c \in Processors, DelayCancel(c)
  PROVE  AloneInv'
<1>1. /\ c \in Contexts /\ at[c] = "cancelling" /\ UNCHANGED <<pq, fed>>
      /\ at' = [at EXCEPT ![c] = "checking"] /\ current_timer_initialized' = FALSE
      /\ timer' = IF current_timer_initialized THEN 0 ELSE timer
  BY DEF DelayCancel, EntersCheck, Contexts
<1>2. FedBut({}, {}) /\ Known
  BY <1>1 DEF AloneInv, InsideInv
<1>3. NoTimer' /\ at'[c] = "checking"
  BY <1>1, <1>2 DEF NoTimer, Known, DelayerTypeInv
<1>4. FedBut({}, {})'
  BY <1>1, <1>2 DEF FedBut, Queued
<1>5. InsideInv(c)'
  BY <1>3, <1>4 DEF InsideInv
<1> QED
  BY <1>1, <1>5, StaysInside

LEMMA TimerFiresKeeps ==
  ASSUME DelayerTypeInv, AloneInv, DelayerTimerFires, ~ overlapped'
  PROVE  AloneInv'
<1>1. /\ Timer \in Contexts /\ UNCHANGED <<pq, fed>> /\ timer' = 0
      /\ at' = [at EXCEPT ![Timer] = "checking"] /\ current_timer_initialized' = FALSE
  BY DEF DelayerTimerFires, EntersCheck, Contexts
<1>2. Empty
  BY <1>1, EntersAlone DEF DelayerTimerFires
<1>3. FedBut({}, {})'
  BY <1>1, <1>2 DEF AloneInv, FedBut, Queued
<1>4. at'[Timer] = "checking" /\ \A d \in Contexts \ {Timer} : at'[d] = "out"
  BY <1>1, <1>2 DEF DelayerTypeInv, Empty
<1>5. InsideInv(Timer)'
  BY <1>1, <1>3, <1>4 DEF InsideInv, NoTimer
<1>6. QueueInv'
  BY <1>1, SameQueue DEF AloneInv
<1> QED
  BY <1>1, <1>4, <1>5, <1>6, OnlyOne

LEMMA CheckReleaseKeeps ==
  ASSUME DelayerTypeInv, AloneInv, NEW c \in Contexts, CheckRelease(c)
  PROVE  AloneInv'
<1>1. /\ at[c] = "checking" /\ pq # <<>> /\ at' = [at EXCEPT ![c] = "released"]
      /\ UNCHANGED <<pq, timer, current_timer_initialized>>
      /\ fed' = Fed(pq[1].m, fed[pq[1].m] + 1)
  BY DEF CheckRelease, Due, queueVars
<1>2. QueueInv /\ FedBut({}, {}) /\ NoTimer
  BY <1>1 DEF AloneInv, InsideInv
<1> DEFINE p == pq[1].m
<1>3. pq[1] \in Queue /\ p \in DOMAIN fed /\ Queued(p)
  BY <1>1, <1>2, HeadIsLeast, QueuedIn DEF QueueInv, Queue
<1>4. fed[p] = 0
  BY <1>2, <1>3 DEF FedBut
<1>5. DOMAIN fed' = DOMAIN fed /\ fed'[p] = 1 /\ \A q \in DOMAIN fed \ {p} : fed'[q] = fed[q]
  BY <1>1, <1>3, <1>4 DEF Fed
<1>6. FedBut({}, {p})'
  BY <1>1, <1>2, <1>5 DEF FedBut, Queued
<1>7. at'[c] = "released" /\ \A d \in Contexts \ {c} : at'[d] = "out"
  BY <1>1, OthersOut DEF DelayerTypeInv
<1>8. QueueInv'
  BY <1>1, <1>2, <1>5, SameQueue
<1>9. NoTimer'
  BY <1>1, <1>2 DEF NoTimer
<1>10. InsideInv(c)'
  BY <1>1, <1>6, <1>7, <1>9 DEF InsideInv
<1> QED
  BY <1>7, <1>8, <1>10, OnlyOne

LEMMA CheckPopKeeps ==
  ASSUME DelayerTypeInv, AloneInv, NEW c \in Contexts, CheckPop(c)
  PROVE  AloneInv'
<1>1. /\ at[c] = "released" /\ at' = [at EXCEPT ![c] = "checking"]
      /\ UNCHANGED <<timer, current_timer_initialized, fed>>
  BY DEF CheckPop
<1>2. QueueInv /\ pq # <<>> /\ FedBut({}, {pq[1].m}) /\ NoTimer
  BY <1>1 DEF AloneInv, InsideInv
<1>3. /\ pq' \in Seq(Entries) /\ HP!Ordered(pq') /\ HP!Distinct(pq')
      /\ Queue' = Queue \ {pq[1]}
  BY <1>2, PopTakes DEF CheckPop
<1>4. pq[1] \in Queue
  BY <1>2, HeadIsLeast DEF QueueInv, Queue
<1>5. QueueInv'
  BY <1>1, <1>2, <1>3 DEF QueueInv
<1>6. \A p : Queued(p)' <=> Queued(p) /\ p # pq[1].m
  <2>1. \A p : Queued(p)' <=> \E f \in Queue' : f.m = p
    BY DEF Queued, Queue
  <2>2. \A f \in Queue : f.m = pq[1].m => f = pq[1]
    BY <1>2, <1>4 DEF QueueInv
  <2> QED
    BY <1>3, <2>1, <2>2, QueuedIn
<1>7. FedBut({}, {})'
  BY <1>1, <1>2, <1>6 DEF FedBut
<1>8. at'[c] = "checking" /\ \A d \in Contexts \ {c} : at'[d] = "out"
  BY <1>1, OthersOut DEF DelayerTypeInv
<1>9. InsideInv(c)'
  BY <1>1, <1>2, <1>7, <1>8 DEF InsideInv, NoTimer
<1> QED
  BY <1>5, <1>8, <1>9, OnlyOne

LEMMA CheckNoneDueKeeps ==
  ASSUME DelayerTypeInv, AloneInv, NEW c \in Contexts, CheckNoneDue(c)
  PROVE  AloneInv'
<1>1. /\ at[c] = "checking" /\ at' = [at EXCEPT ![c] = "arming"]
      /\ UNCHANGED <<pq, timer, current_timer_initialized, fed>>
      /\ pq # <<>> => elem'[c] = pq[1]
  BY DEF CheckNoneDue, queueVars, DelayerTypeInv
<1>2. FedBut({}, {}) /\ NoTimer
  BY <1>1 DEF AloneInv, InsideInv
<1>3. FedBut({}, {})' /\ NoTimer' /\ at'[c] = "arming"
  BY <1>1, <1>2 DEF FedBut, Queued, NoTimer, DelayerTypeInv
<1>4. InsideInv(c)'
  BY <1>1, <1>3 DEF InsideInv
<1> QED
  BY <1>1, <1>4, StaysInside

LEMMA CheckArmKeeps ==
  ASSUME DelayerTypeInv, AloneInv, NEW c \in Contexts, CheckArm(c)
  PROVE  AloneInv'
<1>1. /\ at[c] = "arming" /\ at' = [at EXCEPT ![c] = "out"]
      /\ UNCHANGED <<pq, fed>>
  BY DEF CheckArm, Leaves
<1>2. QueueInv /\ FedBut({}, {}) /\ NoTimer /\ (pq # <<>> => elem[c] = pq[1])
  BY <1>1 DEF AloneInv, InsideInv
<1>3. Empty'
  BY <1>1, OthersOut DEF DelayerTypeInv, Empty
<1>4. FedBut({}, {})' /\ QueueInv'
  BY <1>1, <1>2, SameQueue DEF FedBut, Queued
<1>5. CASE pq = <<>>
  <2>1. UNCHANGED <<timer, current_timer_initialized>>
    BY <1>5 DEF CheckArm
  <2>2. TimerSet'
    BY <1>1, <1>2, <1>5, <2>1 DEF TimerSet, HeadKey, Known, NoTimer
  <2> QED
    BY <1>3, <1>4, <2>2, Nobody
<1>6. CASE pq # <<>>
  <2>1. pq[1] \in Queue /\ pq[1].key # 0
    BY <1>2, <1>6, HeadIsLeast DEF QueueInv, Queue
  <2>2. elem[c] = pq[1] /\ elem[c] # Unset
    BY <1>2, <1>6, <2>1 DEF Unset
  <2>3. timer' = pq[1].key /\ current_timer_initialized' = TRUE
    BY <1>6, <2>2 DEF CheckArm
  <2>4. TimerSet'
    BY <1>1, <1>6, <2>1, <2>3 DEF TimerSet, HeadKey, Known
  <2> QED
    BY <1>3, <1>4, <2>4, Nobody
<1> QED
  BY <1>5, <1>6

(* Where the contexts may be, and what their locals are indexed by.        *)
LEMMA DelayerKeepsTypes ==
  ASSUME DelayerTypeInv, DelayerNext
  PROVE  DelayerTypeInv'
<1> DEFINE Places == {"out", "delaying", "cancelling", "checking", "released", "arming"}
<1>1. \A c \in Contexts, a \in Places : [at EXCEPT ![c] = a] \in [Contexts -> Places]
  BY DEF DelayerTypeInv
<1>2. \A c \in Contexts : \A e : DOMAIN [elem EXCEPT ![c] = e] = Contexts
  BY DEF DelayerTypeInv
<1>3. \A c \in Contexts : \A e : DOMAIN [min_tv EXCEPT ![c] = e] = Contexts
  BY DEF DelayerTypeInv
<1>4. \A c \in Contexts : \A e : DOMAIN [time EXCEPT ![c] = e] = Contexts
  BY DEF DelayerTypeInv
<1>5. Processors \subseteq Contexts /\ Timer \in Contexts
  BY DEF Contexts
<1> HIDE DEF Places
<1>6. ASSUME NEW c \in Processors, ReceiveReinject(c) PROVE DelayerTypeInv'
  BY <1>1, <1>2, <1>3, <1>4, <1>5, <1>6 DEF DelayerTypeInv, ReceiveReinject,
       queueVars, Places
<1>7. ASSUME NEW c \in Processors, ReceiveDelay(c) PROVE DelayerTypeInv'
  BY <1>1, <1>2, <1>3, <1>4, <1>5, <1>7 DEF DelayerTypeInv, ReceiveDelay,
       Enters, queueVars, Places
<1>8. ASSUME NEW c \in Processors, DelayPush(c) PROVE DelayerTypeInv'
  BY <1>1, <1>2, <1>3, <1>4, <1>5, <1>8 DEF DelayerTypeInv, DelayPush, Leaves,
       queueVars, Places
<1>9. ASSUME NEW c \in Processors, DelayCancel(c) PROVE DelayerTypeInv'
  BY <1>1, <1>2, <1>3, <1>4, <1>5, <1>9 DEF DelayerTypeInv, DelayCancel,
       EntersCheck, queueVars, Places
<1>10. ASSUME NEW c \in Contexts, CheckRelease(c) PROVE DelayerTypeInv'
  BY <1>1, <1>2, <1>3, <1>4, <1>5, <1>10 DEF DelayerTypeInv, CheckRelease, queueVars, Places
<1>11. ASSUME NEW c \in Contexts, CheckPop(c) PROVE DelayerTypeInv'
  BY <1>1, <1>2, <1>3, <1>4, <1>5, <1>11 DEF DelayerTypeInv, CheckPop, queueVars, Places
<1>12. ASSUME NEW c \in Contexts, CheckNoneDue(c) PROVE DelayerTypeInv'
  BY <1>1, <1>2, <1>3, <1>4, <1>5, <1>12 DEF DelayerTypeInv, CheckNoneDue, queueVars, Places
<1>13. ASSUME NEW c \in Contexts, CheckArm(c) PROVE DelayerTypeInv'
  BY <1>1, <1>2, <1>3, <1>4, <1>5, <1>13 DEF DelayerTypeInv, CheckArm, Leaves,
       queueVars, Places
<1>14. ASSUME DelayerTimerFires PROVE DelayerTypeInv'
  BY <1>1, <1>2, <1>3, <1>4, <1>5, <1>14 DEF DelayerTypeInv, DelayerTimerFires,
       EntersCheck, Enters, queueVars, Places
<1>15. ASSUME Unload PROVE DelayerTypeInv'
  BY <1>1, <1>2, <1>3, <1>4, <1>5, <1>15 DEF DelayerTypeInv, Unload, queueVars, Places
<1>16. ASSUME Tick PROVE DelayerTypeInv'
  BY <1>1, <1>2, <1>3, <1>4, <1>5, <1>16 DEF DelayerTypeInv, Tick, queueVars, Places
<1> QED
  BY <1>6, <1>7, <1>8, <1>9, <1>10, <1>11, <1>12, <1>13, <1>14, <1>15,
       <1>16 DEF DelayerNext, CheckStep

LEMMA DelayerKeepsAlone ==
  ASSUME DelayerIInv, DelayerNext, loaded', ~ overlapped', ~ crashed'
  PROVE  AloneInv'
<1>1. ~ crashed /\ DelayerTypeInv
  BY DEF DelayerNext, DelayerIInv
<1>2. loaded /\ ~ overlapped => AloneInv
  BY <1>1 DEF DelayerIInv
<1>3. ASSUME NEW c \in Processors, ReceiveReinject(c) PROVE AloneInv'
  BY <1>2, <1>3, ReceiveReinjectKeeps DEF ReceiveReinject
<1>4. ASSUME NEW c \in Processors, ReceiveDelay(c) PROVE AloneInv'
  <2>1. loaded /\ ~ overlapped
    BY <1>4, EntersAlone DEF ReceiveDelay, Contexts
  <2> QED
    BY <1>1, <1>2, <1>4, <2>1, ReceiveDelayKeeps
<1>5. ASSUME NEW c \in Processors, DelayPush(c) PROVE AloneInv'
  BY <1>1, <1>2, <1>5, DelayPushKeeps DEF DelayPush
<1>6. ASSUME NEW c \in Processors, DelayCancel(c) PROVE AloneInv'
  BY <1>1, <1>2, <1>6, DelayCancelKeeps DEF DelayCancel
<1>7. ASSUME NEW c \in Contexts, CheckRelease(c) PROVE AloneInv'
  BY <1>1, <1>2, <1>7, CheckReleaseKeeps DEF CheckRelease
<1>8. ASSUME NEW c \in Contexts, CheckPop(c) PROVE AloneInv'
  BY <1>1, <1>2, <1>8, CheckPopKeeps DEF CheckPop
<1>9. ASSUME NEW c \in Contexts, CheckNoneDue(c) PROVE AloneInv'
  BY <1>1, <1>2, <1>9, CheckNoneDueKeeps DEF CheckNoneDue
<1>10. ASSUME NEW c \in Contexts, CheckArm(c) PROVE AloneInv'
  BY <1>1, <1>2, <1>10, CheckArmKeeps DEF CheckArm
<1>11. ASSUME DelayerTimerFires PROVE AloneInv'
  <2>1. loaded /\ ~ overlapped
    BY <1>11, EntersAlone DEF DelayerTimerFires, Contexts
  <2> QED
    BY <1>1, <1>2, <1>11, <2>1, TimerFiresKeeps
<1>12. ~ Unload
  BY DEF Unload
<1>13. ASSUME Tick PROVE AloneInv'
  BY <1>2, <1>13, TickKeeps DEF Tick
<1> QED
  BY <1>3, <1>4, <1>5, <1>6, <1>7, <1>8, <1>9, <1>10, <1>11, <1>12, <1>13
     DEF DelayerNext, CheckStep

(* As long as the contexts come one at a time, the queue is a heap of      *)
(* packets on their way, and packets, timer and queue are at each place in *)
(* the delayer what the code there relies on (delayer.c:134-205).          *)
THEOREM KernelDelayerInvariant == DelayerSpec => []DelayerIInv
<1>1. DelayerInit => DelayerIInv
  BY InitDelayer
<1>2. DelayerIInv /\ [DelayerNext]_delayerVars => DelayerIInv'
  <2> SUFFICES ASSUME DelayerIInv, [DelayerNext]_delayerVars PROVE DelayerIInv'
    OBVIOUS
  <2>1. CASE DelayerNext
    <3>1. DelayerTypeInv'
      BY <2>1, DelayerKeepsTypes DEF DelayerIInv
    <3> QED
      BY <2>1, <3>1, DelayerKeepsAlone DEF DelayerIInv
  <2>2. CASE UNCHANGED delayerVars
    <3>1. UNCHANGED <<queueVars, at, elem, min_tv, fed>>
      BY <2>2 DEF delayerVars
    <3>2. UNCHANGED <<jiffies, at, elem, min_tv, time, loaded, overlapped, crashed, queueVars>>
      BY <2>2 DEF delayerVars
    <3>3. DelayerTypeInv'
      BY <3>2 DEF DelayerIInv, DelayerTypeInv, queueVars
    <3>4. loaded' /\ ~ overlapped' /\ ~ crashed' => AloneInv'
      BY <3>1, <3>2, TickKeeps DEF DelayerIInv
    <3> QED
      BY <3>3, <3>4 DEF DelayerIInv
  <2> QED
    BY <2>1, <2>2
<1> QED
  BY <1>1, <1>2, PTL DEF DelayerSpec

(* Until two contexts have been in the delayer at once, each delayed       *)
(* packet is queued or was fed back once, and the timer is set for the     *)
(* earliest one (delayer.c:134-205, 258-289).                              *)
THEOREM TimerAlwaysFollowsQueue == DelayerSpec => []TimerFollowsQueue
<1>1. DelayerIInv => TimerFollowsQueue
  <2> SUFFICES ASSUME DelayerIInv, Idle, ~ overlapped
               PROVE  /\ \A p \in DOMAIN fed : fed[p] = IF Queued(p) THEN 0 ELSE 1
                      /\ timer = IF pq = <<>> THEN 0 ELSE pq[1].key
                      /\ current_timer_initialized <=> timer # 0
    BY DEF TimerFollowsQueue
  <2>1. FedBut({}, {}) /\ TimerSet
    BY DEF DelayerIInv, AloneInv, Idle, Empty
  <2> QED
    BY <2>1 DEF FedBut, TimerSet, HeadKey, Known
<1> QED
  BY <1>1, KernelDelayerInvariant, PTL

-----------------------------------------------------------------------------
(* IFaceConnection                                                         *)

(* An integer of a reply: the connection and the place among its replies.  *)
Integer == Nat \X Nat

(* The writers that earlier connections left behind, and that have taken   *)
(* an integer since they were cancelled, or before: none takes another.    *)
Swallowers == {w \in 1 .. client - 1 : writer[w] # "polling"}

(* How many integers were taken out of the queue of this connection.       *)
Taken == replied[client] - Len(buffer) + ptr_offset

(* Whose threads there are: every connection but the present one has its   *)
(* writer cancelled, and that of the present one is before the next comes. *)
ThreadsInv ==
  /\ client \in 0 .. Connections
  /\ client = 0 => iface = "opening"
  /\ iface \in {"destroying", "sleeping", "opening"} /\ client > 0 => client \in cancelled
  /\ DOMAIN writer = ConnThreads /\ DOMAIN in_hand = ConnThreads
  /\ DOMAIN replied = ConnThreads /\ DOMAIN received = ConnThreads
  /\ \A w \in ConnThreads : /\ w < client => w \in cancelled
                            /\ w > client => writer[w] = "none"

(* The unread part of the queue is the end of what was queued.             *)
BufferInv ==
  /\ buffer \in Seq(Integer) /\ ptr_offset \in 0 .. Len(buffer)
  /\ replied[client] \in Nat /\ Taken \in Nat
  /\ \A i \in ptr_offset + 1 .. Len(buffer) :
       buffer[i] = <<client, replied[client] - Len(buffer) + i>>

InOrder(k) ==
  LET got == received[k]
  IN  /\ \A j \in 1 .. Len(got) : got[j][1] = k
      /\ \A j \in 1 .. Len(got) - 1 : got[j][2] < got[j + 1][2]
      /\ got # <<>> => got[Len(got)][2] - Len(got) <= k - 1

(* What was taken was sent, is in the writer's hand, or was swallowed.     *)
SentInv ==
  LET got == received[client]
  IN  /\ \A j \in 1 .. Len(got) : got[j][2] <= Taken
      /\ writer[client] = "polling" => Taken <= Len(got) + Cardinality(Swallowers)
      /\ writer[client] = "writing" =>
           /\ in_hand[client] \in Integer
           /\ in_hand[client][1] = client /\ in_hand[client][2] <= Taken
           /\ \A j \in 1 .. Len(got) : got[j][2] < in_hand[client][2]
           /\ Taken <= Len(got) + 1 + Cardinality(Swallowers)

HistoryInv ==
  /\ \A k \in ConnThreads : received[k] \in Seq(Integer) /\ InOrder(k)
  /\ \A k \in ConnThreads : k > client => replied[k] = 0 /\ received[k] = <<>>

ConnectionInv ==
  /\ ThreadsInv
  /\ ~ spoilt => HistoryInv
  /\ ~ spoilt /\ ~ killed /\ client > 0 => BufferInv /\ SentInv

-----------------------------------------------------------------------------
LEMMA SomeOf ==
  ASSUME NEW n \in Nat, NEW S \in SUBSET (1 .. n)
  PROVE  IsFiniteSet(S) /\ Cardinality(S) \in 0 .. n
<1>1. IsFiniteSet(1 .. n) /\ Cardinality(1 .. n) = n
  BY FS_Interval
<1>2. IsFiniteSet(S) /\ Cardinality(S) <= n
  BY <1>1, FS_Subset
<1>3. Cardinality(S) \in Nat
  BY <1>2, FS_CardinalityType
<1> QED
  BY <1>2, <1>3

LEMMA InitConnectionInv ==
  ASSUME ConnectionInit
  PROVE  ConnectionInv
<1>1. ThreadsInv
  BY ConnectionAssumption DEF ConnectionInit, ThreadsInv, ConnThreads
<1>2. \A k \in ConnThreads : received[k] = <<>> /\ replied[k] = 0
  BY DEF ConnectionInit
<1>3. HistoryInv
  <2>1. <<>> \in Seq(Integer) /\ Len(<<>>) = 0
    OBVIOUS
  <2>2. \A k \in ConnThreads : InOrder(k)
    BY <1>2, <2>1 DEF InOrder
  <2> QED
    BY <1>2, <2>1, <2>2 DEF HistoryInv
<1>4. client = 0
  BY DEF ConnectionInit
<1> QED
  BY <1>1, <1>3, <1>4 DEF ConnectionInv

(* A step that touches neither the queue nor a writer.                     *)
Quiet ==
  UNCHANGED <<client, buffer, ptr_offset, writer, in_hand, history, killed>>

LEMMA QuietKeeps ==
  ASSUME ConnectionInv, ThreadsInv', Quiet
  PROVE  ConnectionInv'
<1>1. UNCHANGED <<client, buffer, ptr_offset, writer, in_hand, killed, replied, received, spoilt>>
  BY DEF Quiet, history
<1>2. ~ spoilt => HistoryInv'
  BY <1>1 DEF ConnectionInv, HistoryInv, InOrder
<1>3. Taken' = Taken /\ Swallowers' = Swallowers
  BY <1>1 DEF Taken, Swallowers
<1>4. ~ spoilt /\ ~ killed /\ client > 0 => BufferInv' /\ SentInv'
  BY <1>1, <1>3 DEF ConnectionInv, BufferInv, SentInv
<1> QED
  BY <1>1, <1>2, <1>4 DEF ConnectionInv

(* The next client: the queue is empty, and every writer before is         *)
(* cancelled.                                                              *)
LEMMA ClientComes ==
  ASSUME ConnectionInv, InitConnection
  PROVE  ConnectionInv'
<1>1. /\ iface = "opening" /\ client < Connections /\ client' = client + 1
      /\ iface' = "transacting" /\ buffer' = <<>> /\ ptr_offset' = 0
      /\ writer' = [writer EXCEPT ![client + 1] = "polling"]
      /\ UNCHANGED <<in_hand, cancelled, killed, replied, received, spoilt>>
  BY DEF InitConnection, history
<1>2. ThreadsInv /\ client \in Nat /\ client' \in ConnThreads /\ client' \in 1 .. Connections
  BY <1>1, ConnectionAssumption DEF ConnectionInv, ThreadsInv, ConnThreads
<1>3. ThreadsInv'
  <2>1. \A w \in ConnThreads : w < client + 1 => w < client \/ (w = client /\ client > 0)
    BY <1>2, ConnectionAssumption DEF ConnThreads
  <2>2. \A w \in ConnThreads : w < client + 1 => w \in cancelled
    BY <1>1, <1>2, <2>1 DEF ThreadsInv
  <2>3. \A w \in ConnThreads : w > client + 1 => writer'[w] = "none"
    BY <1>1, <1>2, ConnectionAssumption DEF ThreadsInv, ConnThreads
  <2> QED
    BY <1>1, <1>2, <2>2, <2>3, ConnectionAssumption DEF ThreadsInv
<1>4. ASSUME ~ spoilt PROVE HistoryInv' /\ BufferInv' /\ SentInv'
  <2>1. HistoryInv
    BY <1>4 DEF ConnectionInv
  <2>2. \A k \in ConnThreads : k > client + 1 => k > client
    BY <1>2, ConnectionAssumption DEF ConnThreads
  <2>3. HistoryInv'
    BY <1>1, <2>1, <2>2 DEF HistoryInv, InOrder
  <2>4. replied'[client'] = 0 /\ received'[client'] = <<>> /\ Taken' = 0
    BY <1>1, <1>2, <2>1 DEF HistoryInv, Taken
  <2>5. BufferInv'
    BY <1>1, <2>4 DEF BufferInv
  <2>6. writer'[client'] = "polling"
    BY <1>1, <1>2 DEF ThreadsInv
  <2>7. Cardinality(Swallowers') \in Nat
    <3>1. Swallowers' \in SUBSET (1 .. client)
      BY <1>1, <1>2 DEF Swallowers
    <3> QED
      BY <1>2, <3>1, SomeOf
  <2>8. SentInv'
    BY <2>4, <2>6, <2>7 DEF SentInv
  <2> QED
    BY <2>3, <2>5, <2>8
<1> QED
  BY <1>1, <1>3, <1>4 DEF ConnectionInv

-----------------------------------------------------------------------------
(* write_int                                                               *)

(* Unless it spoils the queue, a compaction keeps the unread part.         *)
LEMMA CompactedHolds ==
  ASSUME BufferInv, NEW ptr \in NewPtrOffsets,
         ~ (Full /\ (ptr # 0 \/ (Unread > 0 /\ ptr_offset > 0)))
  PROVE  /\ Compacted \in Seq(Integer) /\ ptr \in 0 .. Len(Compacted)
         /\ Len(Compacted) - ptr = Len(buffer) - ptr_offset
         /\ \A i \in ptr + 1 .. Len(Compacted) :
              Compacted[i] = <<client, replied[client] - Len(Compacted) + i>>
<1>1. buffer \in Seq(Integer) /\ ptr_offset \in 0 .. Len(buffer) /\ Len(buffer) \in Nat
  BY DEF BufferInv
<1>2. CASE ~ Full
  <2>1. Compacted = buffer /\ ptr = ptr_offset
    BY <1>2 DEF Compacted, NewPtrOffsets
  <2> QED
    BY <1>1, <2>1 DEF BufferInv
<1>3. CASE Full /\ ptr_offset = 0
  <2>1. ptr = 0 /\ Unread = Len(buffer)
    BY <1>1, <1>3 DEF Unread
  <2>2. Compacted = [i \in 1 .. Len(buffer) |-> buffer[i]]
    <3>1. \A i \in 1 .. Len(buffer) : ~ (i <= ptr_offset) /\ i - ptr_offset = i
      BY <1>1, <1>3
    <3>2. Compacted = [i \in 1 .. Unread |-> IF i <= ptr_offset THEN buffer[i]
                                                               ELSE buffer[i - ptr_offset]]
      BY <1>3 DEF Compacted
    <3> QED
      BY <2>1, <3>1, <3>2
  <2>3. Compacted = buffer
    BY <1>1, <2>2
  <2> QED
    BY <1>1, <1>3, <2>1, <2>3 DEF BufferInv
<1>4. CASE Full /\ Unread = 0
  <2>1. ptr = 0 /\ ptr_offset = Len(buffer)
    BY <1>1, <1>4 DEF Unread
  <2>2. Compacted = <<>>
    BY <1>4 DEF Compacted
  <2> QED
    BY <1>1, <2>1, <2>2
<1>5. Unread = 0 \/ Unread > 0
  BY <1>1 DEF Unread
<1> QED
  BY <1>1, <1>2, <1>3, <1>4, <1>5

LEMMA WriteIntKeeps ==
  ASSUME ConnectionInv, WriteInt
  PROVE  ConnectionInv'
<1>1. PICK ptr \in NewPtrOffsets :
        /\ ptr_offset' = ptr
        /\ spoilt' = (spoilt \/ (Full /\ (ptr # 0 \/ (Unread > 0 /\ ptr_offset > 0))))
  BY DEF WriteInt
<1>2. /\ replied' = [replied EXCEPT ![client] = @ + 1]
      /\ buffer' = Append(Compacted, <<client, replied'[client]>>)
      /\ UNCHANGED <<client, writer, in_hand, cancelled, killed, received, iface>>
      /\ iface # "opening"
  BY DEF WriteInt, conn, clientVars
<1>3. ThreadsInv /\ client \in ConnThreads /\ client > 0 /\ client \in Nat
  BY <1>2, ConnectionAssumption DEF ConnectionInv, ThreadsInv, ConnThreads
<1>4. ThreadsInv'
  BY <1>2, <1>3 DEF ThreadsInv
<1>5. ~ spoilt' => ~ spoilt /\ ~ (Full /\ (ptr # 0 \/ (Unread > 0 /\ ptr_offset > 0)))
  BY <1>1
<1>6. ASSUME ~ spoilt PROVE HistoryInv'
  <2>1. HistoryInv
    BY <1>6 DEF ConnectionInv
  <2>2. \A k \in ConnThreads : k > client => replied'[k] = replied[k]
    BY <1>2, <1>3 DEF ThreadsInv
  <2> QED
    BY <1>2, <2>1, <2>2 DEF HistoryInv, InOrder
<1>7. ASSUME ~ spoilt', ~ killed PROVE BufferInv' /\ SentInv'
  <2>1. BufferInv /\ SentInv
    BY <1>3, <1>5, <1>7 DEF ConnectionInv
  <2> DEFINE C == Compacted
             n == replied[client]
  <2>2. /\ C \in Seq(Integer) /\ ptr \in 0 .. Len(C) /\ Len(C) \in Nat
        /\ Len(C) - ptr = Len(buffer) - ptr_offset
        /\ \A i \in ptr + 1 .. Len(C) : C[i] = <<client, n - Len(C) + i>>
    BY <1>5, <1>7, <2>1, CompactedHolds
  <2>3. n \in Nat /\ replied'[client] = n + 1 /\ client' = client
    BY <1>2, <1>3, <2>1 DEF ThreadsInv, BufferInv
  <2>4. buffer' = Append(C, <<client, n + 1>>) /\ <<client, n + 1>> \in Integer
    BY <1>2, <1>3, <2>3 DEF Integer
  <2> HIDE DEF C, n
  <2>5. /\ buffer' \in Seq(Integer) /\ Len(buffer') = Len(C) + 1
        /\ buffer'[Len(C) + 1] = <<client, n + 1>>
        /\ \A i \in 1 .. Len(C) : buffer'[i] = C[i]
    BY <2>2, <2>4
  <2>6. \A i \in ptr + 1 .. Len(C) + 1 :
          buffer'[i] = <<client, (n + 1) - (Len(C) + 1) + i>>
    <3> SUFFICES ASSUME NEW i \in ptr + 1 .. Len(C) + 1
                 PROVE  buffer'[i] = <<client, (n + 1) - (Len(C) + 1) + i>>
      OBVIOUS
    <3>1. CASE i = Len(C) + 1
      <4>1. (n + 1) - (Len(C) + 1) + i = n + 1
        BY <2>2, <2>3, <3>1
      <4> QED
        BY <2>5, <3>1, <4>1
    <3>2. CASE i # Len(C) + 1
      <4>1. i \in ptr + 1 .. Len(C) /\ i \in 1 .. Len(C)
        BY <2>2, <3>2
      <4>2. (n + 1) - (Len(C) + 1) + i = n - Len(C) + i
        BY <2>2, <2>3, <4>1
      <4> QED
        BY <2>2, <2>5, <4>1, <4>2
    <3> QED
      BY <3>1, <3>2
  <2>7. Taken' = Taken
    <3>1. Taken' = (n + 1) - (Len(C) + 1) + ptr
      BY <1>1, <2>3, <2>5 DEF Taken
    <3>2. Taken = n - Len(buffer) + ptr_offset
      BY DEF Taken, n
    <3>3. Len(buffer) \in Nat /\ ptr_offset \in Nat
      BY <2>1 DEF BufferInv
    <3> QED
      BY <2>2, <2>3, <3>1, <3>2, <3>3
  <2>8. BufferInv'
    <3>1. ptr_offset' \in 0 .. Len(buffer') /\ ptr_offset' = ptr
      BY <1>1, <2>2, <2>5
    <3>2. replied'[client'] \in Nat /\ Taken' \in Nat
      BY <2>1, <2>3, <2>7 DEF BufferInv
    <3> QED
      BY <2>3, <2>5, <2>6, <3>1, <3>2 DEF BufferInv
  <2>9. Swallowers' = Swallowers
    BY <1>2 DEF Swallowers
  <2>10. SentInv'
    BY <1>2, <2>1, <2>7, <2>9 DEF SentInv
  <2> QED
    BY <2>8, <2>10
<1> QED
  BY <1>2, <1>4, <1>5, <1>6, <1>7 DEF ConnectionInv

-----------------------------------------------------------------------------
(* write_poll_conn                                                         *)

(* The present writer takes the next integer in hand; a writer left behind *)
(* becomes one of the swallowers, which it was not.                        *)
LEMMA WritePollTakesKeeps ==
  ASSUME ConnectionInv, ~ killed, NEW w \in ConnThreads, WritePollTakes(w)
  PROVE  ConnectionInv'
<1>1. /\ writer[w] = "polling" /\ Unread > 0
      /\ in_hand' = [in_hand EXCEPT ![w] = buffer[ptr_offset + 1]]
      /\ ptr_offset' = ptr_offset + 1
      /\ writer' = [writer EXCEPT ![w] = "writing"]
      /\ UNCHANGED <<client, buffer, iface, cancelled, killed, replied, received, spoilt>>
  BY DEF WritePollTakes, clientVars, history
<1>2. ThreadsInv /\ client \in Nat /\ w \in Nat /\ w > 0 /\ ~ (w > client)
  BY <1>1, ConnectionAssumption DEF ConnectionInv, ThreadsInv, ConnThreads
<1>3. client > 0 /\ client \in ConnThreads
  BY <1>2, ConnectionAssumption DEF ThreadsInv, ConnThreads
<1>4. ThreadsInv'
  <2>1. \A v \in ConnThreads : v > client => v # w
    BY <1>2
  <2> QED
    BY <1>1, <1>2, <2>1 DEF ThreadsInv
<1>5. ~ spoilt => HistoryInv'
  BY <1>1 DEF ConnectionInv, HistoryInv, InOrder
<1>6. ASSUME ~ spoilt PROVE BufferInv' /\ SentInv'
  <2>1. BufferInv /\ SentInv
    BY <1>3, <1>6 DEF ConnectionInv
  <2>2. /\ Len(buffer) \in Nat /\ ptr_offset \in Nat /\ ptr_offset + 1 <= Len(buffer)
        /\ replied[client] \in Nat
    BY <1>1, <2>1 DEF BufferInv, Unread
  <2>3. Taken \in Nat /\ Taken' = Taken + 1
    BY <1>1, <2>1, <2>2 DEF Taken, BufferInv
  <2>4. buffer[ptr_offset + 1] = <<client, Taken + 1>>
    <3>1. replied[client] - Len(buffer) + (ptr_offset + 1) = Taken + 1
      BY <2>2 DEF Taken
    <3>2. ptr_offset + 1 \in ptr_offset + 1 .. Len(buffer)
      BY <2>2
    <3> QED
      BY <2>1, <3>1, <3>2 DEF BufferInv
  <2>5. BufferInv'
    <3>1. \A i \in ptr_offset' + 1 .. Len(buffer) : i \in ptr_offset + 1 .. Len(buffer)
      BY <1>1, <2>2
    <3>2. ptr_offset' \in 0 .. Len(buffer)
      BY <1>1, <2>2
    <3> QED
      BY <1>1, <2>1, <2>3, <3>1, <3>2 DEF BufferInv
  <2>6. IsFiniteSet(Swallowers) /\ Cardinality(Swallowers) \in Nat
    <3>1. client - 1 \in Nat /\ Swallowers \in SUBSET (1 .. client - 1)
      BY <1>2, <1>3 DEF Swallowers
    <3> QED
      BY <3>1, SomeOf
  <2>7. \A j \in 1 .. Len(received[client]) :
          received[client][j][2] <= Taken /\ received[client][j][2] \in Nat
    <3>1. received[client] \in Seq(Nat \X Nat)
      BY <1>3, <1>6 DEF ConnectionInv, HistoryInv, Integer
    <3> QED
      BY <2>1, <3>1 DEF SentInv
  <2>8. Len(received[client]) \in Nat
    BY <1>3, <1>6 DEF ConnectionInv, HistoryInv
  <2>9. \A j \in 1 .. Len(received[client]) :
          received[client][j][2] <= Taken + 1 /\ received[client][j][2] < Taken + 1
    BY <2>3, <2>7
  <2>10. CASE w = client
    <3>1. Swallowers' = Swallowers
      BY <1>1, <1>2, <2>10 DEF Swallowers
    <3>2. writer'[client] = "writing" /\ in_hand'[client] = <<client, Taken + 1>>
      BY <1>1, <1>2, <2>4, <2>10 DEF ThreadsInv
    <3>3. <<client, Taken + 1>> \in Integer
      BY <1>2, <2>3 DEF Integer
    <3>4. Taken + 1 <= Len(received[client]) + 1 + Cardinality(Swallowers)
      BY <1>1, <2>1, <2>3, <2>6, <2>8, <2>10 DEF SentInv
    <3> QED
      BY <1>1, <2>3, <2>5, <2>9, <3>1, <3>2, <3>3, <3>4 DEF SentInv
  <2>11. CASE w # client
    <3>1. Swallowers' = Swallowers \cup {w} /\ w \notin Swallowers
      <4>1. w \in 1 .. client - 1
        BY <1>2, <2>11
      <4>2. \A v \in 1 .. client - 1 : v \in ConnThreads
        BY <1>2, ConnectionAssumption DEF ThreadsInv, ConnThreads
      <4> QED
        BY <1>1, <1>2, <4>1, <4>2 DEF Swallowers, ThreadsInv
    <3>2. Cardinality(Swallowers') = Cardinality(Swallowers) + 1
      BY <2>6, <3>1, FS_AddElement
    <3>3. writer'[client] = writer[client] /\ in_hand'[client] = in_hand[client]
      BY <1>1, <1>2, <2>11 DEF ThreadsInv
    <3>4. writer[client] = "polling" =>
            Taken + 1 <= Len(received[client]) + (Cardinality(Swallowers) + 1)
      BY <2>1, <2>3, <2>6, <2>8 DEF SentInv
    <3>5. writer[client] = "writing" =>
            /\ in_hand[client][2] <= Taken + 1
            /\ Taken + 1 <= Len(received[client]) + 1 + (Cardinality(Swallowers) + 1)
      <4>1. in_hand[client] \in Nat \X Nat => in_hand[client][2] \in Nat
        OBVIOUS
      <4> QED
        BY <2>1, <2>3, <2>6, <2>8, <4>1 DEF SentInv, Integer
    <3> QED
      BY <1>1, <2>1, <2>3, <2>5, <2>9, <3>2, <3>3, <3>4, <3>5 DEF SentInv
  <2> QED
    BY <2>10, <2>11
<1> QED
  BY <1>1, <1>4, <1>5, <1>6 DEF ConnectionInv

(* A writer that is not cancelled is the present one, and sends what comes *)
(* next.                                                                   *)
LEMMA WritePollWritesKeeps ==
  ASSUME ConnectionInv, ~ killed, NEW w \in ConnThreads, WritePollWrites(w)
  PROVE  ConnectionInv'
<1>1. /\ writer[w] = "writing"
      /\ in_hand' = [in_hand EXCEPT ![w] = Nothing]
      /\ UNCHANGED <<client, buffer, ptr_offset, iface, cancelled, replied, spoilt>>
  BY DEF WritePollWrites, clientVars
<1>2. ThreadsInv /\ client \in Nat /\ w \in Nat /\ w > 0 /\ ~ (w > client)
  BY <1>1, ConnectionAssumption DEF ConnectionInv, ThreadsInv, ConnThreads
<1>3. client > 0 /\ client \in ConnThreads
  BY <1>2, ConnectionAssumption DEF ThreadsInv, ConnThreads
<1>4. Taken' = Taken
  BY <1>1 DEF Taken
<1>5. BufferInv => BufferInv'
  BY <1>1, <1>4 DEF BufferInv
<1>6. CASE w \in cancelled
  <2>1. /\ writer' = [writer EXCEPT ![w] = "ended"]
        /\ UNCHANGED <<received, killed>>
    BY <1>6 DEF WritePollWrites
  <2>2. ThreadsInv'
    <3>1. \A v \in ConnThreads : v > client => v # w
      BY <1>2
    <3> QED
      BY <1>1, <1>2, <2>1, <3>1 DEF ThreadsInv
  <2>3. ~ spoilt => HistoryInv'
    BY <1>1, <2>1 DEF ConnectionInv, HistoryInv, InOrder
  <2>4. Swallowers' = Swallowers
    <3>1. \A v \in 1 .. client - 1 : v \in ConnThreads
      BY <1>2, ConnectionAssumption DEF ThreadsInv, ConnThreads
    <3>2. \A v \in 1 .. client - 1 : writer'[v] # "polling" <=> writer[v] # "polling"
      BY <1>1, <1>2, <2>1, <3>1 DEF ThreadsInv
    <3> QED
      BY <1>1, <3>2 DEF Swallowers
  <2>5. writer'[client] = "ended"
          \/ (writer'[client] = writer[client] /\ in_hand'[client] = in_hand[client])
    BY <1>1, <1>2, <1>3, <2>1 DEF ThreadsInv
  <2>6. BufferInv /\ SentInv => SentInv'
    BY <1>1, <1>4, <2>1, <2>4, <2>5 DEF SentInv
  <2> QED
    BY <1>1, <1>3, <1>5, <2>1, <2>2, <2>3, <2>6 DEF ConnectionInv
<1>7. CASE w \notin cancelled /\ client_at # "away"
  <2>1. /\ received' = [received EXCEPT ![client] = Append(@, in_hand[w])]
        /\ writer' = [writer EXCEPT ![w] = "polling"]
        /\ UNCHANGED killed
    BY <1>7 DEF WritePollWrites, conn
  <2>2. w = client
    BY <1>2, <1>7 DEF ThreadsInv
  <2>3. ThreadsInv'
    <3>1. \A v \in ConnThreads : v > client => v # w
      BY <1>2
    <3> QED
      BY <1>1, <1>2, <2>1, <3>1 DEF ThreadsInv
  <2>4. ASSUME ~ spoilt PROVE HistoryInv' /\ SentInv'
    <3> DEFINE got == received[client]
               n == Len(got)
               x == in_hand[client]
    <3>1. HistoryInv /\ SentInv /\ BufferInv
      BY <1>3, <2>4 DEF ConnectionInv
    <3>2. got \in Seq(Integer) /\ n \in Nat /\ InOrder(client)
      BY <1>3, <3>1 DEF HistoryInv
    <3>3. /\ x \in Integer /\ x[1] = client /\ x[2] <= Taken /\ x[2] \in Nat
          /\ \A j \in 1 .. n : got[j][2] < x[2]
          /\ Taken <= n + 1 + Cardinality(Swallowers)
      BY <1>1, <2>2, <3>1 DEF SentInv, Integer
    <3>4. received'[client] = Append(got, x)
      BY <1>2, <1>3, <2>1, <2>2 DEF ThreadsInv
    <3>5. \A j \in 1 .. n : got[j][1] = client
      BY <3>2 DEF InOrder
    <3>6. \A j \in 1 .. n - 1 : got[j][2] < got[j + 1][2]
      BY <3>2 DEF InOrder
    <3>7. /\ client - 1 \in Nat /\ Cardinality(Swallowers) \in 0 .. client - 1
      <4>1. client - 1 \in Nat /\ Swallowers \in SUBSET (1 .. client - 1)
        BY <1>2, <1>3 DEF Swallowers
      <4> QED
        BY <4>1, SomeOf
    <3>8. Taken \in Nat
      BY <3>1 DEF BufferInv
    <3>9. \A j \in 1 .. n : got[j][2] <= Taken
      BY <3>1 DEF SentInv
    <3>10. Swallowers' = Swallowers
      <4>1. \A v \in 1 .. client - 1 : v # w
        BY <1>2, <2>2
      <4> QED
        BY <1>1, <1>2, <2>1, <4>1 DEF Swallowers, ThreadsInv
    <3>11. writer'[client] = "polling"
      BY <1>2, <1>3, <2>1, <2>2 DEF ThreadsInv
    <3> HIDE DEF got, n, x
    <3> DEFINE now == Append(got, x)
    <3>12. /\ now \in Seq(Integer) /\ Len(now) = n + 1 /\ now[n + 1] = x
           /\ \A j \in 1 .. n : now[j] = got[j]
      BY <3>2, <3>3 DEF n
    <3> HIDE DEF now
    <3>13. \A j \in 1 .. n + 1 : now[j][1] = client /\ now[j][2] <= Taken
      <4>1. \A j \in 1 .. n + 1 : j \in 1 .. n \/ j = n + 1
        BY <3>2
      <4> QED
        BY <3>3, <3>5, <3>9, <3>12, <4>1
    <3>14. \A j \in 1 .. n : now[j][2] < now[j + 1][2]
      <4>1. \A j \in 1 .. n : (j \in 1 .. n - 1 /\ j + 1 \in 1 .. n) \/ j = n
        BY <3>2
      <4> QED
        BY <3>3, <3>6, <3>12, <4>1
    <3>15. x[2] - (n + 1) <= client - 1
      BY <3>2, <3>3, <3>7, <3>8, <1>2
    <3>16. received'[client] = now
      BY <3>4 DEF now
    <3>17. /\ received'[client] \in Seq(Integer)
           /\ \A k \in ConnThreads : k = client => InOrder(k)'
      <4>1. n + 1 - 1 = n
        BY <3>2
      <4>2. Len(received'[client]) = n + 1 /\ received'[client][n + 1] = x
        BY <3>12, <3>16
      <4>3. \A j \in 1 .. Len(received'[client]) : received'[client][j][1] = client
        BY <3>13, <3>16, <4>2
      <4>4. \A j \in 1 .. Len(received'[client]) - 1 :
              received'[client][j][2] < received'[client][j + 1][2]
        <5>1. Len(received'[client]) - 1 = n
          BY <3>2, <4>1, <4>2
        <5> QED
          BY <3>14, <3>16, <5>1
      <4>5. received'[client][Len(received'[client])][2] - Len(received'[client]) <= client - 1
        BY <3>15, <4>2
      <4>6. received'[client] \in Seq(Integer)
        BY <3>12, <3>16
      <4> QED
        BY <4>3, <4>4, <4>5, <4>6 DEF InOrder
    <3>18. HistoryInv'
      <4>1. \A k \in ConnThreads : k # client => received'[k] = received[k]
        BY <1>3, <2>1 DEF ThreadsInv
      <4>2. \A k \in ConnThreads : k # client => received'[k] \in Seq(Integer) /\ InOrder(k)'
        BY <3>1, <4>1 DEF HistoryInv, InOrder
      <4>3. \A k \in ConnThreads : received'[k] \in Seq(Integer) /\ InOrder(k)'
        BY <3>17, <4>2
      <4>4. \A k \in ConnThreads : k > client => k # client
        BY <1>2
      <4> QED
        BY <1>1, <3>1, <4>1, <4>3, <4>4 DEF HistoryInv
    <3>19. SentInv'
      <4>1. \A j \in 1 .. Len(received'[client]) : received'[client][j][2] <= Taken
        BY <3>12, <3>13, <3>16
      <4>2. Taken <= Len(received'[client]) + Cardinality(Swallowers)
        BY <3>3, <3>12, <3>16
      <4> QED
        BY <1>1, <1>4, <3>10, <3>11, <4>1, <4>2 DEF SentInv
    <3> QED
      BY <3>18, <3>19
  <2> QED
    BY <1>1, <1>3, <1>5, <2>1, <2>3, <2>4 DEF ConnectionInv
<1>8. CASE w \notin cancelled /\ client_at = "away"
  <2>1. killed' = TRUE /\ UNCHANGED <<received, writer>>
    BY <1>8 DEF WritePollWrites
  <2>2. ThreadsInv'
    BY <1>1, <1>2, <2>1 DEF ThreadsInv
  <2>3. ~ spoilt => HistoryInv'
    BY <1>1, <2>1 DEF ConnectionInv, HistoryInv, InOrder
  <2> QED
    BY <1>1, <2>1, <2>2, <2>3 DEF ConnectionInv
<1> QED
  BY <1>6, <1>7, <1>8

-----------------------------------------------------------------------------
(* The present connection's writer is cancelled before the next comes; the *)
(* other steps leave queue and writers alone.                              *)
LEMMA ConnectionStepKeeps ==
  ASSUME ConnectionInv, [ConnectionNext]_connectionVars
  PROVE  ConnectionInv'
<1>1. ThreadsInv
  BY DEF ConnectionInv
<1> DEFINE NoClose ==
             \/ iface \in {"destroying", "sleeping"}
             \/ iface' = iface
             \/ iface # "opening" /\ iface' \notin {"destroying", "sleeping", "opening"}
<1>2. Quiet /\ cancelled' = cancelled /\ NoClose => ConnectionInv'
  <2> SUFFICES ASSUME Quiet, cancelled' = cancelled, NoClose
               PROVE  ConnectionInv'
    OBVIOUS
  <2>1. ThreadsInv'
    BY <1>1 DEF ThreadsInv, history, Quiet
  <2> QED
    BY <2>1, QuietKeeps
<1>3. CASE UNCHANGED connectionVars
  <2>1. Quiet /\ UNCHANGED <<cancelled, iface>>
    BY <1>3 DEF connectionVars, inVars, outVars, clientVars, history, Quiet
  <2> QED
    BY <1>2, <2>1
<1>4. ASSUME ClientAsks \/ ClientLeaves \/ ClientStep
      PROVE  ConnectionInv'
  <2>1. Quiet /\ UNCHANGED <<cancelled, iface>>
    BY <1>4 DEF ClientAsks, ClientLeaves, ClientStep, ClientAnswered, ClientFindsEnd,
                inVars, outVars, clientVars, history, Quiet
  <2> QED
    BY <1>2, <2>1
<1>5. ASSUME NEW t \in ConnThreads, PollConnStep(t)
      PROVE  ConnectionInv'
  <2>1. Quiet /\ UNCHANGED <<cancelled, iface>>
    BY <1>5 DEF PollConnStep, PollConnRead, PollConnFails, PollConnCloses,
                outVars, clientVars, history, Quiet
  <2> QED
    BY <1>2, <2>1
<1>6. ASSUME Transact \/ ConnTerm \/ Replied PROVE ConnectionInv'
  <2>1. Quiet /\ UNCHANGED cancelled
    BY <1>6 DEF Transact, ConnTerm, Replied, inVars, outVars, clientVars, history, Quiet
  <2>2. iface # "opening" /\ iface' \in {"last reply", "replying", "transacting", "closing"}
    BY <1>6 DEF Transact, ConnTerm, Replied
  <2> QED
    BY <1>2, <2>1, <2>2
<1>7. ASSUME ConnDestroy \/ Awake PROVE ConnectionInv'
  <2>1. Quiet /\ UNCHANGED cancelled /\ iface \in {"destroying", "sleeping"}
    BY <1>7 DEF ConnDestroy, Awake, inVars, outVars, clientVars, history, Quiet
  <2> QED
    BY <1>2, <2>1
<1>8. ASSUME CloseCancels PROVE ConnectionInv'
  <2>1. /\ Quiet /\ iface = "closing" /\ iface' = "destroying"
        /\ cancelled' = cancelled \cup {client}
    BY <1>8 DEF CloseCancels, conn, inVars, outVars, clientVars, history, Quiet
  <2>2. ThreadsInv'
    BY <1>1, <2>1 DEF ThreadsInv, history, Quiet
  <2> QED
    BY <2>1, <2>2, QuietKeeps
<1>9. ASSUME NEW w \in ConnThreads, WritePollNegative(w) PROVE ConnectionInv'
  <2>1. /\ killed' = TRUE
        /\ UNCHANGED <<client, iface, cancelled, writer, in_hand, replied, received, spoilt>>
    BY <1>9 DEF WritePollNegative, outVars, clientVars, history
  <2>2. ThreadsInv'
    BY <1>1, <2>1 DEF ThreadsInv
  <2>3. ~ spoilt => HistoryInv'
    BY <2>1 DEF ConnectionInv, HistoryInv, InOrder
  <2> QED
    BY <2>1, <2>2, <2>3 DEF ConnectionInv
<1>10. ASSUME ~ killed, NEW w \in ConnThreads, WritePollStep(w) PROVE ConnectionInv'
  BY <1>9, <1>10, WritePollTakesKeeps, WritePollWritesKeeps DEF WritePollStep
<1>11. ASSUME IfaceStep PROVE ConnectionInv'
  BY <1>6, <1>7, <1>8, <1>11, WriteIntKeeps DEF IfaceStep
<1> QED
  BY <1>3, <1>4, <1>5, <1>10, <1>11, ClientComes DEF ConnectionNext

(* The invariant: earlier writers are cancelled, the queue's unread part is *)
(* the end of what was queued, and what was taken out of it was sent, is in *)
(* the writer's hand or went to a writer left behind (init_connection,      *)
(* close_connection, write_int, write_poll_conn).                           *)
THEOREM ConnectionInvariant == ConnectionSpec => []ConnectionInv
  BY InitConnectionInv, ConnectionStepKeeps, PTL DEF ConnectionSpec

(* Each client is sent the integers of its own replies, in order and none  *)
(* twice, and no more than one for each earlier connection is missing      *)
(* before the last one sent, until a compaction spoils the queue.          *)
THEOREM RepliesStayInOrder == ConnectionSpec => []RepliesInOrder
<1>1. ConnectionInv => RepliesInOrder
  BY DEF ConnectionInv, HistoryInv, InOrder, RepliesInOrder
<1> QED
  BY <1>1, ConnectionInvariant, PTL
=============================================================================
