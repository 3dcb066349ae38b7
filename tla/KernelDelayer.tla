--------------------------- MODULE KernelDelayer ---------------------------
(***************************************************************************)
(* The delayer of the kernel build, and the way of a packet to it:         *)
(* netfilter hands the packet to ipq_enqueue (C/arbitrator/ip_queue.c),    *)
(* which feeds it back at once or gives it to the delayer; a single kernel *)
(* timer feeds it back later (delayer.c under __KERNEL__).                 *)
(*                                                                         *)
(* The mutex keeps nobody out: k_pthread.h makes pthread_mutex_lock an up  *)
(* and pthread_mutex_unlock a down that always finds the semaphore raised. *)
(* So packets on several processors, which netfilter handles in parallel   *)
(* (Docs/Conclusions.txt:134), and the timer's function may be in the      *)
(* delayer at once; on one processor too, since the delivery inside        *)
(* nf_reinject may have the stack send an answer.  One call of the         *)
(* priority queue is one step: that on two processors the calls themselves *)
(* overlap, and break its array, is left out.                              *)
(***************************************************************************)
EXTENDS Integers, Sequences, FiniteSets

CONSTANTS Packets, Processors,
          Timer,       \* the context of the timer's function; timer functions
                       \* run one at a time
          DelayLens,   \* the delays of verdicts, in milliseconds
          HZ,          \* jiffies in a second
          MaxJiffies   \* bound on the clock

ASSUME KernelDelayerAssumption ==
  /\ DelayLens \subseteq Nat /\ HZ \in Nat /\ MaxJiffies \in Nat
  /\ HZ * 100 >= 1000 /\ Timer \notin Processors

Contexts == Processors \cup {Timer}

VARIABLES
  jiffies,
  pq,          \* the array of the heap: elements [key |-> jiffies, m |-> packet]
  timer,       \* when the pending timer expires; 0 if none is pending
  current_timer_initialized,
  at,          \* where in the delayer each context is
  elem,        \* its local element: elem in delay_packet, msg in check_pq
  min_tv,      \* min_msg.tv in delay_packet; 0 for an empty queue
  time,        \* current_time, or current_time_pseudo_msg.tv
  loaded,      \* the module is loaded
  fed,         \* history: how often each packet that came was reinjected
  overlapped,  \* history: two contexts have been in the delayer at once
  crashed      \* a pointer or a list that is not there was followed

queueVars == <<pq, timer, current_timer_initialized>>
delayerVars == <<jiffies, queueVars, at, elem, min_tv, time, loaded, fed,
                 overlapped, crashed>>

Heap == INSTANCE PQueue WITH
          Elements <- [key : 0 .. MaxJiffies, m : Packets],
          heap <- pq, popped <- {}

(* What a local variable holds before it is set.                           *)
Unset == [key |-> 0, m |-> 0]

DelayerInit ==
  /\ jiffies = 1 /\ pq = <<>> /\ timer = 0 /\ current_timer_initialized = FALSE
  /\ at = [c \in Contexts |-> "out"] /\ elem = [c \in Contexts |-> Unset]
  /\ min_tv = [c \in Contexts |-> 0] /\ time = [c \in Contexts |-> 0]
  /\ loaded = TRUE /\ fed = [p \in {} |-> 0]
  /\ overlapped = FALSE /\ crashed = FALSE

Enters(c) == overlapped' = (overlapped \/ \E d \in Contexts : at[d] # "out")

(* It returns, and its locals are gone.                                    *)
Leaves(c) ==
  /\ at' = [at EXCEPT ![c] = "out"] /\ elem' = [elem EXCEPT ![c] = Unset]
  /\ min_tv' = [min_tv EXCEPT ![c] = 0] /\ time' = [time EXCEPT ![c] = 0]

Fed(p, times) == [q \in DOMAIN fed \cup {p} |-> IF q = p THEN times ELSE fed[q]]

-----------------------------------------------------------------------------
(* ipq_enqueue: accepted or dropped at once.                               *)
ReceiveReinject(c) ==
  /\ loaded /\ at[c] = "out"
  /\ \E p \in Packets \ DOMAIN fed : fed' = Fed(p, 1)
  /\ UNCHANGED <<jiffies, queueVars, at, elem, min_tv, time, loaded, overlapped,
                 crashed>>

(* A delay is at least 100 milliseconds here.                              *)
NumMillisecs(delay_len) == IF delay_len < 100 THEN 100 ELSE delay_len

(* ipq_enqueue, and delay_packet to its look at the queue                  *)
ReceiveDelay(c) ==
  /\ loaded /\ at[c] = "out"
  /\ \E p \in Packets \ DOMAIN fed, delay_len \in DelayLens :
       LET tv == jiffies + (HZ * NumMillisecs(delay_len)) \div 1000
       IN  /\ tv < MaxJiffies  \* bound: due within the model
           /\ elem' = [elem EXCEPT ![c] = [key |-> tv, m |-> p]]
           /\ fed' = Fed(p, 0)
  /\ time' = [time EXCEPT ![c] = jiffies]
  /\ min_tv' = [min_tv EXCEPT ![c] = IF pq = <<>> THEN 0 ELSE pq[1].key]
  /\ at' = [at EXCEPT ![c] = "delaying"]
  /\ Enters(c)
  /\ UNCHANGED <<jiffies, queueVars, loaded, crashed>>

(* Mutant: that the new packet may be the earliest is forgotten. *)
ChecksIfLate(c) == min_tv[c] = 0 \/ min_tv[c] < time[c]

(* When delay_packet turns to the timer.                                   *)
Checks(c) ==
  min_tv[c] = 0 \/ elem[c].key < min_tv[c] \/ min_tv[c] < time[c]

DelayPush(c) ==
  /\ at[c] = "delaying"
  /\ pq' = Heap!Push(pq, elem[c])
  /\ IF Checks(c)
       THEN /\ at' = [at EXCEPT ![c] = "cancelling"]
            /\ UNCHANGED <<elem, min_tv, time>>
       ELSE Leaves(c)
  /\ UNCHANGED <<jiffies, timer, current_timer_initialized, loaded, fed,
                 overlapped, crashed>>

(* del_timer, and the beginning of check_pq                                *)
EntersCheck(c) ==
  /\ at' = [at EXCEPT ![c] = "checking"] /\ elem' = [elem EXCEPT ![c] = Unset]
  /\ min_tv' = [min_tv EXCEPT ![c] = 0] /\ time' = [time EXCEPT ![c] = jiffies]
  /\ current_timer_initialized' = FALSE

DelayCancel(c) ==
  /\ at[c] = "cancelling"
  /\ timer' = IF current_timer_initialized THEN 0 ELSE timer
  /\ EntersCheck(c)
  /\ UNCHANGED <<jiffies, pq, loaded, fed, overlapped, crashed>>

(* ip_noise_delayer_timer_function: the timer is no longer pending.  After *)
(* delayer_destroy the delayer that it is called with is gone.             *)
DelayerTimerFires ==
  /\ timer # 0 /\ timer <= jiffies /\ at[Timer] = "out"
  /\ timer' = 0
  /\ crashed' = ~ loaded
  /\ EntersCheck(Timer) /\ Enters(Timer)
  /\ UNCHANGED <<jiffies, pq, loaded, fed>>

(* check_pq: the loop over the packets that are due.  A packet is fed back *)
(* (release_handler) before the queue is popped.                           *)
Due(c) == pq # <<>> /\ pq[1].key <= time[c]

CheckRelease(c) ==
  /\ at[c] = "checking" /\ Due(c)
  /\ elem' = [elem EXCEPT ![c] = pq[1]]
  /\ fed' = Fed(pq[1].m, fed[pq[1].m] + 1)
  /\ at' = [at EXCEPT ![c] = "released"]
  /\ UNCHANGED <<jiffies, queueVars, min_tv, time, loaded, overlapped, crashed>>

CheckPop(c) ==
  /\ at[c] = "released"
  /\ pq' = IF pq = <<>> THEN <<>> ELSE Heap!Pop(pq)
  /\ at' = [at EXCEPT ![c] = "checking"]
  /\ UNCHANGED <<jiffies, timer, current_timer_initialized, elem, min_tv, time,
                 loaded, fed, overlapped, crashed>>

CheckNoneDue(c) ==
  /\ at[c] = "checking" /\ ~ Due(c)
  /\ elem' = [elem EXCEPT ![c] = IF pq = <<>> THEN @ ELSE pq[1]]
  /\ at' = [at EXCEPT ![c] = "arming"]
  /\ UNCHANGED <<jiffies, queueVars, min_tv, time, loaded, fed, overlapped, crashed>>

(* The timer is set for the element last seen; if the queue was empty then *)
(* and is not any more, msg was never set.  init_timer and add_timer on a  *)
(* timer that is pending break the kernel's list.                          *)
CheckArm(c) ==
  /\ at[c] = "arming"
  /\ IF pq = <<>>
       THEN UNCHANGED <<timer, current_timer_initialized, crashed>>
       ELSE /\ timer' \in IF elem[c] = Unset THEN 1 .. MaxJiffies ELSE {elem[c].key}
            /\ current_timer_initialized' = TRUE
            /\ crashed' = (timer # 0)
  /\ Leaves(c)
  /\ UNCHANGED <<jiffies, pq, loaded, fed, overlapped>>

(* The module is unloaded (fini): no packet comes or is in ipq_enqueue any *)
(* more, and delayer_destroy drops what is queued.  A timer's function     *)
(* that is running goes on in the freed delayer.                           *)
Unload ==
  /\ loaded /\ \A c \in Processors : at[c] = "out"
  /\ loaded' = FALSE
  /\ timer' = IF current_timer_initialized THEN 0 ELSE timer
  /\ current_timer_initialized' = FALSE /\ pq' = <<>>
  /\ crashed' = (at[Timer] # "out")
  /\ UNCHANGED <<jiffies, at, elem, min_tv, time, fed, overlapped>>

Tick ==
  /\ jiffies < MaxJiffies
  /\ jiffies' = jiffies + 1
  /\ UNCHANGED <<queueVars, at, elem, min_tv, time, loaded, fed, overlapped, crashed>>

-----------------------------------------------------------------------------
CheckStep(c) == CheckRelease(c) \/ CheckPop(c) \/ CheckNoneDue(c) \/ CheckArm(c)

DelayerNext ==
  /\ ~ crashed
  /\ \/ \E c \in Processors : \/ ReceiveReinject(c) \/ ReceiveDelay(c)
                              \/ DelayPush(c) \/ DelayCancel(c)
     \/ \E c \in Contexts : CheckStep(c)
     \/ DelayerTimerFires \/ Unload \/ Tick

DelayerSpec == DelayerInit /\ [][DelayerNext]_delayerVars

-----------------------------------------------------------------------------
Queued(p) == \E i \in 1 .. Len(pq) : pq[i].m = p
Idle == loaded /\ ~ crashed /\ \A c \in Contexts : at[c] = "out"

(* As long as no two contexts have been in the delayer at once, every      *)
(* delayed packet is queued or was fed back, once, and the one timer is    *)
(* set for the earliest packet queued: no release is forgotten when an     *)
(* earlier packet comes, when the queue was empty or when the timer fires. *)
TimerFollowsQueue ==
  Idle /\ ~ overlapped =>
    /\ \A p \in DOMAIN fed : fed[p] = IF Queued(p) THEN 0 ELSE 1
    /\ timer = IF pq = <<>> THEN 0 ELSE pq[1].key
    /\ current_timer_initialized <=> timer # 0

(* ip_queue.c:277-279: "Packets arrive here from netfilter for queuing to  *)
(* userspace. All of them must be fed back via nf_reinject()".  While the  *)
(* module is loaded, a packet that nobody has in hand is queued for it, or *)
(* was fed back.                                                           *)
AllFedBack == Idle => \A p \in DOMAIN fed : Queued(p) \/ fed[p] > 0
=============================================================================
