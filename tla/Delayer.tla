------------------------------ MODULE Delayer ------------------------------
(***************************************************************************)
(* The user-mode delayer of C/arbitrator/delayer.c: the arbitrator thread  *)
(* puts packets into a priority queue, and the releaser thread sleeps      *)
(* until the earliest is due and releases it.                              *)
(*                                                                         *)
(* The queue's mutex is held by the releaser from "releasing" to the wait  *)
(* in "looping"; the arbitrator's critical section is one step.  The heap  *)
(* is abstracted to what PQueue implements: a set from which the pop takes *)
(* any least element.  Time is a counter of microseconds that gettimeofday *)
(* and the timed wait share.                                               *)
(***************************************************************************)
EXTENDS Integers, Timeval

CONSTANTS Packets,   \* messages handed to the delayer, each once
          Delays,    \* the delays in milliseconds that packet_logic decides
          MaxLag,    \* bound on the time from arrival to delay_packet
          MaxTime    \* bound on the clock

ASSUME DelayerAssumption ==
  /\ Delays \subseteq Nat /\ MaxLag \in Nat /\ MaxTime \in Nat
  /\ UsecPerSec <= MaxTime

VARIABLES
  pq,         \* the elements of the priority queue: [m, tv]
  releaser,   \* where ip_noise_delayer_loop is
  loop_time,  \* its current_time_pseudo_msg.tv
  deadline,   \* the absolute time of its timed wait; {} for the plain wait
  released,   \* history: when each released packet was released
  promised    \* history: arrival + delay of each packet given to the delayer

vars == <<now, pq, releaser, loop_time, deadline, released, promised>>

NoPackets == [m \in {} |-> 0]

(* The value of a local variable of the loop that is not read any more.    *)
Dead == [sec |-> 0, usec |-> 0]

Init ==
  /\ now = UsecPerSec /\ pq = {}
  /\ releaser = "lock" /\ loop_time = Dead /\ deadline = {}
  /\ released = NoPackets /\ promised = NoPackets

(* PQueuePeekMinimum: the time at the root, {} for NULL. *)
MinTimes == {e.tv : e \in {f \in pq : \A g \in pq : NotAfter(f.tv, g.tv)}}

MutexFree == releaser \in {"lock", "waiting", "woken"}

(* Mutants: it signals into an empty queue only, or never. *)
SignalsIfEmpty(tv, arrival) == MinTimes = {}
SignalsNever(tv, arrival) == FALSE

(* When delay_packet signals: the queue is empty, the new packet is the    *)
(* earliest, or the earliest was due before the new packet arrived.        *)
Signals(tv, arrival) ==
  \/ MinTimes = {}
  \/ \E t \in MinTimes : Before(tv, t) \/ Before(t, TimevalOf(arrival))

(* ip_noise_delayer_delay_packet(m, tv, delay_len): arrival is tv          *)
delay_packet(m, arrival, delay) ==
  LET tv == AddDelay(TimevalOf(arrival), delay)
  IN  /\ MutexFree
      /\ pq' = pq \cup {[m |-> m, tv |-> tv]}
      /\ releaser' = IF Signals(tv, arrival) /\ releaser = "waiting"
                       THEN "woken" ELSE releaser
      /\ promised' = [p \in DOMAIN promised \cup {m} |->
                        IF p = m THEN arrival + delay * UsecPerMsec
                                 ELSE promised[p]]
      /\ UNCHANGED <<now, loop_time, deadline, released>>

DelayPacket ==
  \E m \in Packets \ DOMAIN promised, lag \in 0 .. MaxLag, delay \in Delays :
    /\ UsecPerSec <= now - lag
    /\ now - lag + delay * UsecPerMsec < MaxTime  \* bound: due within the model
    /\ delay_packet(m, now - lag, delay)

(* ip_noise_delayer_loop: take the mutex and read the clock, once          *)
LoopLock ==
  /\ releaser = "lock"
  /\ releaser' = "releasing"
  /\ loop_time' = TimevalOf(now)
  /\ UNCHANGED <<now, pq, deadline, released, promised>>

(* Mutant: the packet is released but not popped. *)
LoopReleaseNoPop ==
  /\ releaser = "releasing"
  /\ \E e \in pq :
       /\ e.tv \in MinTimes
       /\ NotAfter(e.tv, loop_time)
       /\ released' = [p \in DOMAIN released \cup {e.m} |->
                         IF p = e.m THEN now ELSE released[p]]
  /\ UNCHANGED <<now, pq, releaser, loop_time, deadline, promised>>

(* release_callback (main.c:196-211) and PQueuePop of a due packet         *)
LoopRelease ==
  /\ releaser = "releasing"
  /\ \E e \in pq :
       /\ e.tv \in MinTimes
       /\ NotAfter(e.tv, loop_time)
       /\ pq' = pq \ {e}
       /\ released' = [p \in DOMAIN released \cup {e.m} |->
                         IF p = e.m THEN now ELSE released[p]]
  /\ UNCHANGED <<now, releaser, loop_time, deadline, promised>>

LoopNoneDue ==
  /\ releaser = "releasing"
  /\ ~ \E t \in MinTimes : NotAfter(t, loop_time)
  /\ releaser' = "looping"
  /\ loop_time' = Dead
  /\ UNCHANGED <<now, pq, deadline, released, promised>>

(* while (cond_wait_status == 0): wait without or with a time limit        *)
LoopWait ==
  /\ releaser = "looping"
  /\ \A t \in MinTimes : t.usec < UsecPerSec /\ now < Microseconds(t)
  /\ deadline' = {Microseconds(t) : t \in MinTimes}
  /\ releaser' = "waiting"
  /\ UNCHANGED <<now, pq, loop_time, released, promised>>

(* The timed wait returns at once: ETIMEDOUT if the time has passed, or    *)
(* EINVAL if tv_nsec is a whole second (AddDelay).  Either ends the while. *)
LoopNoWait ==
  /\ releaser = "looping"
  /\ \E t \in MinTimes : t.usec >= UsecPerSec \/ Microseconds(t) <= now
  /\ releaser' = "lock"
  /\ UNCHANGED <<now, pq, loop_time, deadline, released, promised>>

(* pthread_cond_timedwait returns ETIMEDOUT: status # 0, back to the top.  *)
LoopTimeout ==
  /\ releaser = "waiting"
  /\ \E t \in deadline : t <= now
  /\ releaser' = "lock"
  /\ deadline' = {}
  /\ UNCHANGED <<now, pq, loop_time, released, promised>>

(* Signalled: status = 0, so the while goes round and waits again, without *)
(* a look at the clock.                                                    *)
LoopSignalled ==
  /\ releaser = "woken"
  /\ releaser' = "looping"
  /\ deadline' = {}
  /\ UNCHANGED <<now, pq, loop_time, released, promised>>

SpuriousWakeup ==
  /\ releaser = "waiting"
  /\ releaser' = "woken"
  /\ UNCHANGED <<now, pq, loop_time, deadline, released, promised>>

Tick ==
  /\ now < MaxTime
  /\ now' = now + 1
  /\ UNCHANGED <<pq, releaser, loop_time, deadline, released, promised>>

ReleaserStep == LoopLock \/ LoopRelease \/ LoopNoneDue \/ LoopWait
                  \/ LoopNoWait \/ LoopTimeout \/ LoopSignalled

Next == DelayPacket \/ ReleaserStep \/ SpuriousWakeup \/ Tick

Spec == Init /\ [][Next]_vars

(* The releaser thread is scheduled, and time passes. *)
Fairness == WF_vars(ReleaserStep) /\ WF_vars(Tick)

FairSpec == Spec /\ Fairness

-----------------------------------------------------------------------------
TypeOK ==
  /\ now \in 0 .. MaxTime
  /\ pq \subseteq [m : Packets, tv : Timevals]
  /\ releaser \in {"lock", "releasing", "looping", "waiting", "woken"}
  /\ loop_time \in Timevals
  /\ deadline \subseteq Nat
  /\ DOMAIN released \subseteq Packets /\ DOMAIN promised \subseteq Packets

(* No packet is released before its arrival time plus its delay, whatever  *)
(* the carry into seconds did to its timeval.                              *)
NeverEarly ==
  \A p \in DOMAIN released : released[p] >= promised[p]

(* While the releaser sleeps, its time limit is no later than the time of  *)
(* any packet queued, those that arrived after it fell asleep included:    *)
(* delay_packet signals whenever it queues an earlier one.                 *)
SleepsNoLonger ==
  releaser = "waiting" =>
    \A e \in pq : \E d \in deadline : d <= promised[e.m]

(* A packet is queued or released, never both, and never neither.          *)
QueuedOrReleased ==
  /\ DOMAIN promised = DOMAIN released \cup {e.m : e \in pq}
  /\ DOMAIN released \cap {e.m : e \in pq} = {}

(* A packet is released before every packet that is still queued and due   *)
(* later: comparing timevals agrees with comparing the times they denote,  *)
(* a usec of exactly one second included.                                  *)
EarliestFirst ==
  [][\A p \in DOMAIN released' \ DOMAIN released :
       \A e \in pq' : promised[p] <= promised[e.m]]_vars

(* Every packet given to the delayer is released. *)
EventuallyReleased ==
  \A p \in Packets : p \in DOMAIN promised ~> p \in DOMAIN released
=============================================================================
