---------------------------- MODULE PacketProofs ----------------------------
(***************************************************************************)
(* Proofs about what becomes of a packet: the verdict on it (PacketLogic), *)
(* the delay a table gives it (SplitLinear), its delay (Delayer) and the   *)
(* arithmetic of times (Timeval), for any packets, chains, filters, draws, *)
(* delays and tables, and for seconds of any number of milliseconds.       *)
(***************************************************************************)
EXTENDS Delayer, PacketLogic, SplitLinear, Induction, SequenceTheorems

-----------------------------------------------------------------------------
(* Timevals and the times they denote                                      *)
LEMMA TimevalOfTime ==
  ASSUME NEW t \in Nat
  PROVE  /\ TimevalOf(t) \in Timevals
         /\ Microseconds(TimevalOf(t)) = t
<1>1. /\ t \div UsecPerSec \in Nat /\ t % UsecPerSec \in 0 .. UsecPerSec - 1
      /\ t = UsecPerSec * (t \div UsecPerSec) + (t % UsecPerSec)
  BY TimevalAssumption
<1>2. TimevalOf(t) \in Timevals
  BY <1>1, TimevalAssumption DEF TimevalOf, Timevals
<1>3. Microseconds(TimevalOf(t)) = t
  BY <1>1, TimevalAssumption DEF TimevalOf, Microseconds
<1> QED
  BY <1>2, <1>3

(* The carry, or its lack for an exact second, changes no time. *)
LEMMA AddDelayAdds ==
  ASSUME NEW tv \in Timevals, NEW delay \in Nat
  PROVE  /\ AddDelay(tv, delay) \in Timevals
         /\ Microseconds(AddDelay(tv, delay)) = Microseconds(tv) + delay * UsecPerMsec
<1> DEFINE usec == tv.usec + delay * UsecPerMsec
<1>1. tv.sec \in Nat /\ tv.usec \in Nat /\ delay * UsecPerMsec \in Nat
  BY TimevalAssumption DEF Timevals
<1>2. usec \in Nat
  BY <1>1
<1>3. CASE usec > UsecPerSec
  <2> HIDE DEF usec
  <2>1. /\ usec \div UsecPerSec \in Nat /\ usec % UsecPerSec \in 0 .. UsecPerSec - 1
        /\ usec = UsecPerSec * (usec \div UsecPerSec) + (usec % UsecPerSec)
    BY <1>2, TimevalAssumption
  <2>2. AddDelay(tv, delay) = [sec  |-> tv.sec + usec \div UsecPerSec,
                               usec |-> usec % UsecPerSec]
    BY <1>3 DEF AddDelay, usec
  <2>3. AddDelay(tv, delay) \in Timevals
    BY <1>1, <2>1, <2>2, TimevalAssumption DEF Timevals
  <2>4. Microseconds(AddDelay(tv, delay)) =
          (tv.sec + usec \div UsecPerSec) * UsecPerSec + (usec % UsecPerSec)
    BY <2>2 DEF Microseconds
  <2>5. Microseconds(AddDelay(tv, delay)) = tv.sec * UsecPerSec + usec
    BY <1>1, <2>1, <2>4, TimevalAssumption
  <2> QED
    BY <1>1, <2>3, <2>5, TimevalAssumption DEF Microseconds, usec
<1>4. CASE ~ usec > UsecPerSec
  <2>1. AddDelay(tv, delay) = [sec |-> tv.sec, usec |-> usec]
    BY <1>4 DEF AddDelay
  <2> QED
    BY <1>1, <1>2, <1>4, <2>1, TimevalAssumption DEF Microseconds, Timevals
<1> QED
  BY <1>3, <1>4

(* A second of microseconds in tv_usec included.                           *)
LEMMA NotAfterIsOrder ==
  ASSUME NEW a \in Timevals, NEW b \in Timevals, NotAfter(a, b)
  PROVE  Microseconds(a) <= Microseconds(b)
<1>1. /\ a.sec \in Nat /\ a.usec \in 0 .. UsecPerSec
      /\ b.sec \in Nat /\ b.usec \in 0 .. UsecPerSec
  BY DEF Timevals
<1>2. CASE a.sec < b.sec
  <2>1. PICK n \in Nat : b.sec = a.sec + 1 + n
    BY <1>1, <1>2, b.sec - a.sec - 1 \in Nat
  <2>2. b.sec * UsecPerSec = a.sec * UsecPerSec + UsecPerSec + n * UsecPerSec
    <3>1. UsecPerSec \in Nat
      BY TimevalAssumption
    <3>2. (a.sec + 1 + n) * UsecPerSec
            = a.sec * UsecPerSec + 1 * UsecPerSec + n * UsecPerSec
      BY <1>1, <3>1
    <3>3. 1 * UsecPerSec = UsecPerSec
      BY <3>1
    <3> QED
      BY <2>1, <3>2, <3>3
  <2>3. n * UsecPerSec >= 0
    BY TimevalAssumption
  <2> QED
    BY <1>1, <2>2, <2>3, TimevalAssumption DEF Microseconds
<1>3. CASE a.sec = b.sec /\ a.usec <= b.usec
  BY <1>1, <1>3, TimevalAssumption DEF Microseconds
<1> QED
  BY <1>2, <1>3 DEF NotAfter

-----------------------------------------------------------------------------
(* The inductive invariant.  That a queued element says when its packet is *)
(* due ties the heap, which compares timevals, to the promises; that the   *)
(* releaser's look at the clock lies in the past makes what it takes for   *)
(* due really so; and with one element to a packet no packet that was      *)
(* released is still queued.                                               *)
TypeInv ==
  /\ now \in Nat /\ loop_time \in Timevals /\ deadline \subseteq Nat
  /\ pq \subseteq [m : Packets, tv : Timevals]
  /\ promised \in [DOMAIN promised -> Nat]
  /\ released \in [DOMAIN released -> Nat]

QueuedAsPromised ==
  \A e \in pq : e.m \in DOMAIN promised /\ Microseconds(e.tv) = promised[e.m]

QueuedOnce == \A e, f \in pq : e.m = f.m => e = f

LookedBefore == releaser = "releasing" => Microseconds(loop_time) <= now

IInv ==
  /\ TypeInv /\ QueuedAsPromised /\ QueuedOnce /\ LookedBefore
  /\ QueuedOrReleased /\ NeverEarly

LEMMA InitIInv == ASSUME Init PROVE IInv
<1>1. now \in Nat /\ loop_time \in Timevals /\ pq = {} /\ releaser = "lock" /\ deadline = {}
  BY TimevalAssumption DEF Init, Dead, Timevals
<1>2. DOMAIN promised = {} /\ DOMAIN released = {}
  BY DEF Init, NoPackets
<1>3. promised \in [DOMAIN promised -> Nat] /\ released \in [DOMAIN released -> Nat]
  BY DEF Init, NoPackets
<1> QED
  BY <1>1, <1>2, <1>3 DEF IInv, TypeInv, QueuedAsPromised, QueuedOnce, LookedBefore,
     QueuedOrReleased, NeverEarly

(* Steps that leave queue and history alone only have the clock to mind.   *)
LEMMA QuietStepKeepsIInv ==
  ASSUME IInv, UNCHANGED <<pq, released, promised>>,
         now' \in Nat, loop_time' \in Timevals, deadline' \subseteq Nat, LookedBefore'
  PROVE  IInv'
<1>1. TypeInv'
  BY DEF IInv, TypeInv
<1>2. QueuedAsPromised' /\ QueuedOnce'
  BY DEF IInv, QueuedAsPromised, QueuedOnce, Microseconds
<1>3. QueuedOrReleased' /\ NeverEarly'
  BY DEF IInv, QueuedOrReleased, NeverEarly
<1> QED
  BY <1>1, <1>2, <1>3 DEF IInv

LEMMA DelayKeepsIInv ==
  ASSUME IInv, NEW m \in Packets \ DOMAIN promised, NEW arrival \in Nat, NEW delay \in Nat,
         delay_packet(m, arrival, delay)
  PROVE  IInv'
<1> DEFINE tv == AddDelay(TimevalOf(arrival), delay)
           elem == [m |-> m, tv |-> tv]
<1>3. tv \in Timevals /\ Microseconds(tv) = arrival + delay * UsecPerMsec
  BY TimevalOfTime, AddDelayAdds
<1> HIDE DEF tv
<1>4. /\ MutexFree /\ pq' = pq \cup {elem}
      /\ releaser' \in {releaser, "woken"}
      /\ promised' = [p \in DOMAIN promised \cup {m} |->
                        IF p = m THEN arrival + delay * UsecPerMsec ELSE promised[p]]
      /\ UNCHANGED <<now, loop_time, deadline, released>>
  BY DEF delay_packet, tv
<1>5. arrival + delay * UsecPerMsec \in Nat
  BY TimevalAssumption
<1>6. m \notin DOMAIN promised /\ m \in Packets
  OBVIOUS
<1>7. DOMAIN promised' = DOMAIN promised \cup {m}
  BY <1>4
<1>8. \A p \in DOMAIN promised : promised'[p] = promised[p]
  BY <1>4, <1>6
<1>9. promised'[m] = arrival + delay * UsecPerMsec
  BY <1>4
<1>10. \A e \in pq : e.m # m
  BY <1>6 DEF IInv, QueuedAsPromised
<1>11. TypeInv'
  <2>1. pq' \subseteq [m : Packets, tv : Timevals]
    BY <1>3, <1>4, <1>6 DEF IInv, TypeInv
  <2>2. \A p \in DOMAIN promised' : promised'[p] \in Nat
    BY <1>5, <1>7, <1>8, <1>9 DEF IInv, TypeInv
  <2>3. promised' \in [DOMAIN promised' -> Nat]
    BY <1>4, <1>7, <2>2
  <2> QED
    BY <1>4, <2>1, <2>3 DEF IInv, TypeInv
<1>12. QueuedAsPromised'
  <2>1. ASSUME NEW e \in pq'
        PROVE  e.m \in DOMAIN promised' /\ Microseconds(e.tv) = promised'[e.m]
    <3>1. CASE e \in pq
      BY <3>1, <1>7, <1>8 DEF IInv, QueuedAsPromised
    <3>2. CASE e = elem
      BY <3>2, <1>3, <1>7, <1>9
    <3> QED
      BY <2>1, <3>1, <3>2, <1>4
  <2> QED
    BY <2>1 DEF QueuedAsPromised, Microseconds
<1>13. QueuedOnce'
  BY <1>4, <1>10 DEF IInv, QueuedOnce
<1>14. LookedBefore'
  BY <1>4 DEF LookedBefore, MutexFree
<1>15. QueuedOrReleased'
  <2>1. {e.m : e \in pq'} = {e.m : e \in pq} \cup {m}
    <3>1. elem.m = m
      OBVIOUS
    <3> HIDE DEF elem
    <3> QED
      BY <1>4, <3>1
  <2>2. DOMAIN released' = DOMAIN released /\ m \notin DOMAIN released
    BY <1>4, <1>6 DEF IInv, QueuedOrReleased
  <2> QED
    BY <1>7, <2>1, <2>2 DEF IInv, QueuedOrReleased
<1>16. NeverEarly'
  <2>1. \A p \in DOMAIN released : p \in DOMAIN promised
    BY DEF IInv, QueuedOrReleased
  <2> QED
    BY <1>4, <1>8, <2>1 DEF IInv, NeverEarly
<1> QED
  BY <1>11, <1>12, <1>13, <1>14, <1>15, <1>16 DEF IInv

(* What LoopRelease takes out of the queue.                                *)
LEMMA ReleasedIsDue ==
  ASSUME IInv, NEW e \in pq, releaser = "releasing", NotAfter(e.tv, loop_time)
  PROVE  promised[e.m] \in Nat /\ promised[e.m] <= now
<1>1. e.tv \in Timevals /\ loop_time \in Timevals /\ now \in Nat
  BY DEF IInv, TypeInv
<1>2. Microseconds(e.tv) <= Microseconds(loop_time)
  BY <1>1, NotAfterIsOrder
<1>3. Microseconds(e.tv) = promised[e.m] /\ promised[e.m] \in Nat
  BY DEF IInv, TypeInv, QueuedAsPromised
<1>4. Microseconds(loop_time) <= now
  BY DEF IInv, LookedBefore
<1>5. Microseconds(loop_time) \in Nat
  BY <1>1, TimevalAssumption DEF Microseconds, Timevals
<1> QED
  BY <1>1, <1>2, <1>3, <1>4, <1>5

LEMMA LoopReleaseKeepsIInv ==
  ASSUME IInv, LoopRelease
  PROVE  IInv'
<1>1. PICK e \in pq :
         /\ NotAfter(e.tv, loop_time) /\ pq' = pq \ {e}
         /\ released' = [p \in DOMAIN released \cup {e.m} |->
                           IF p = e.m THEN now ELSE released[p]]
  BY DEF LoopRelease
<1>2. releaser = "releasing" /\ UNCHANGED <<now, releaser, loop_time, deadline, promised>>
  BY DEF LoopRelease
<1>3. promised[e.m] \in Nat /\ promised[e.m] <= now
  BY <1>1, <1>2, ReleasedIsDue
<1>4. /\ DOMAIN released' = DOMAIN released \cup {e.m}
      /\ released'[e.m] = now
      /\ \A p \in DOMAIN released \ {e.m} : released'[p] = released[p]
  BY <1>1
<1>5. {f.m : f \in pq} = {f.m : f \in pq'} \cup {e.m} /\ e.m \notin {f.m : f \in pq'}
  BY <1>1 DEF IInv, QueuedOnce
<1>6. TypeInv'
  <2>1. \A p \in DOMAIN released' : released'[p] \in Nat
    BY <1>4 DEF IInv, TypeInv
  <2>2. released' \in [DOMAIN released' -> Nat]
    BY <1>1, <1>4, <2>1
  <2> QED
    BY <1>1, <1>2, <2>2 DEF IInv, TypeInv
<1>7. QueuedAsPromised' /\ QueuedOnce' /\ LookedBefore'
  BY <1>1, <1>2 DEF IInv, QueuedAsPromised, QueuedOnce, LookedBefore, Microseconds
<1>8. QueuedOrReleased'
  BY <1>2, <1>4, <1>5 DEF IInv, QueuedOrReleased
<1>9. NeverEarly'
  BY <1>2, <1>3, <1>4 DEF IInv, NeverEarly
<1> QED
  BY <1>6, <1>7, <1>8, <1>9 DEF IInv

LEMMA ReleaserKeepsIInv ==
  ASSUME IInv, ReleaserStep \/ SpuriousWakeup
  PROVE  IInv'
<1> USE DEF LookedBefore
<1>1. now \in Nat /\ loop_time \in Timevals /\ deadline \subseteq Nat
  BY DEF IInv, TypeInv
<1>2. CASE LoopLock
  <2>1. UNCHANGED <<pq, released, promised, now, deadline>> /\ loop_time' = TimevalOf(now)
    BY <1>2 DEF LoopLock
  <2>2. loop_time' \in Timevals /\ Microseconds(loop_time') <= now'
    BY <1>1, <2>1, TimevalOfTime
  <2>3. LookedBefore'
    BY <2>2 DEF Microseconds
  <2> QED
    BY <1>1, <2>1, <2>2, <2>3, QuietStepKeepsIInv
<1>3. CASE LoopRelease
  BY <1>3, LoopReleaseKeepsIInv
<1>4. CASE LoopNoneDue
  <2>1. /\ UNCHANGED <<pq, released, promised, now, deadline>>
        /\ loop_time' = Dead /\ releaser' = "looping"
    BY <1>4 DEF LoopNoneDue
  <2>2. loop_time' \in Timevals
    BY <2>1, TimevalAssumption DEF Dead, Timevals
  <2> QED
    BY <1>1, <2>1, <2>2, QuietStepKeepsIInv
<1>5. CASE LoopWait
  <2>1. ASSUME NEW t \in MinTimes PROVE Microseconds(t) \in Nat
    BY TimevalAssumption DEF IInv, TypeInv, MinTimes, Microseconds, Timevals
  <2>2. deadline' \subseteq Nat
    BY <1>5, <2>1 DEF LoopWait
  <2> QED
    BY <1>1, <1>5, <2>2, QuietStepKeepsIInv DEF LoopWait
<1>6. CASE LoopNoWait
  BY <1>1, <1>6, QuietStepKeepsIInv DEF LoopNoWait
<1>7. CASE LoopTimeout
  BY <1>1, <1>7, QuietStepKeepsIInv DEF LoopTimeout
<1>8. CASE LoopSignalled
  BY <1>1, <1>8, QuietStepKeepsIInv DEF LoopSignalled
<1>9. CASE SpuriousWakeup
  BY <1>1, <1>9, QuietStepKeepsIInv DEF SpuriousWakeup
<1> QED
  BY <1>2, <1>3, <1>4, <1>5, <1>6, <1>7, <1>8, <1>9 DEF ReleaserStep

LEMMA TickKeepsIInv ==
  ASSUME IInv, Tick
  PROVE  IInv'
<1> USE DEF LookedBefore
<1>1. now \in Nat /\ loop_time \in Timevals /\ deadline \subseteq Nat
  BY DEF IInv, TypeInv
<1>2. UNCHANGED <<pq, releaser, loop_time, deadline, released, promised>> /\ now' = now + 1
  BY DEF Tick
<1>3. Microseconds(loop_time) \in Nat
  BY <1>1, TimevalAssumption DEF Microseconds, Timevals
<1>4. LookedBefore'
  BY <1>1, <1>2, <1>3 DEF IInv, Microseconds
<1> QED
  BY <1>1, <1>2, <1>4, QuietStepKeepsIInv

LEMMA StutterKeepsIInv ==
  ASSUME IInv, UNCHANGED vars
  PROVE  IInv'
<1>1. LookedBefore'
  BY DEF vars, IInv, LookedBefore, Microseconds
<1> QED
  BY <1>1, QuietStepKeepsIInv DEF vars, IInv, TypeInv

LEMMA DelayPacketDelays ==
  ASSUME IInv, DelayPacket
  PROVE  \E m \in Packets \ DOMAIN promised, arrival \in Nat, delay \in Nat :
           delay_packet(m, arrival, delay)
<1>1. PICK m \in Packets \ DOMAIN promised, lag \in 0 .. MaxLag, delay \in Delays :
         UsecPerSec <= now - lag /\ delay_packet(m, now - lag, delay)
  BY DEF DelayPacket
<1>2. now - lag \in Nat /\ delay \in Nat
  BY <1>1, TimevalAssumption, DelayerAssumption DEF IInv, TypeInv
<1> QED
  BY <1>1, <1>2

LEMMA NextKeepsIInv ==
  ASSUME IInv, [Next]_vars
  PROVE  IInv'
<1>1. CASE DelayPacket
  BY <1>1, DelayPacketDelays, DelayKeepsIInv
<1> QED
  BY <1>1, ReleaserKeepsIInv, TickKeepsIInv, StutterKeepsIInv DEF Next

-----------------------------------------------------------------------------
(* The sleep of the releaser                                               *)

(* A queue that is not empty has an earliest time: PQueuePeekMinimum.      *)
LEMMA EarliestExists ==
  ASSUME TypeInv, pq # {}
  PROVE  MinTimes # {}
<1> DEFINE Secs == {e.tv.sec : e \in pq}
<1>1. \A e \in pq : e.tv.sec \in Nat /\ e.tv.usec \in Nat
  BY TimevalAssumption DEF TypeInv, Timevals
<1>2. PICK s \in Secs : \A r \in Secs : s <= r
  <2>1. Secs \in SUBSET Nat /\ Secs # {}
    BY <1>1
  <2> HIDE DEF Secs
  <2> QED
    BY <2>1, LeastNatural
<1> DEFINE Usecs == {e.tv.usec : e \in {f \in pq : f.tv.sec = s}}
<1>3. PICK u \in Usecs : \A v \in Usecs : u <= v
  <2>1. Usecs \in SUBSET Nat /\ Usecs # {}
    BY <1>1, <1>2
  <2> HIDE DEF Usecs
  <2> QED
    BY <2>1, LeastNatural
<1>4. PICK e \in pq : e.tv.sec = s /\ e.tv.usec = u
  BY <1>3
<1>5. ASSUME NEW f \in pq PROVE NotAfter(e.tv, f.tv)
  <2>1. s <= f.tv.sec /\ s \in Nat /\ f.tv.sec \in Nat
    BY <1>1, <1>2, <1>4
  <2>2. f.tv.sec = s => u <= f.tv.usec
    BY <1>3
  <2> QED
    BY <1>4, <2>1, <2>2 DEF NotAfter
<1>6. e.tv \in MinTimes
  BY <1>4, <1>5 DEF MinTimes
<1> QED
  BY <1>6

(* Falling asleep: the limit is the earliest time.                         *)
LEMMA LoopWaitSleepsNoLonger ==
  ASSUME IInv, LoopWait
  PROVE  SleepsNoLonger'
<1>1. deadline' = {Microseconds(t) : t \in MinTimes} /\ pq' = pq /\ promised' = promised
  BY DEF LoopWait
<1>2. ASSUME NEW e \in pq PROVE \E d \in deadline' : d <= promised[e.m]
  <2>1. PICK t \in MinTimes : TRUE
    BY <1>2, EarliestExists DEF IInv
  <2>2. PICK f \in pq : t = f.tv /\ \A g \in pq : NotAfter(f.tv, g.tv)
    BY DEF MinTimes
  <2>3. Microseconds(t) <= Microseconds(e.tv)
    BY <1>2, <2>2, NotAfterIsOrder DEF IInv, TypeInv
  <2>4. Microseconds(e.tv) = promised[e.m]
    BY <1>2 DEF IInv, QueuedAsPromised
  <2> QED
    BY <1>1, <2>3, <2>4
<1> QED
  BY <1>1, <1>2 DEF SleepsNoLonger

(* While it sleeps: no signal means that the new packet is not the         *)
(* earliest.                                                               *)
LEMMA DelaySleepsNoLonger ==
  ASSUME IInv, SleepsNoLonger,
         NEW m \in Packets \ DOMAIN promised, NEW arrival \in Nat, NEW delay \in Nat,
         delay_packet(m, arrival, delay)
  PROVE  SleepsNoLonger'
<1> SUFFICES ASSUME releaser' = "waiting", NEW e \in pq'
             PROVE  \E d \in deadline' : d <= promised'[e.m]
  BY DEF SleepsNoLonger
<1> DEFINE tv == AddDelay(TimevalOf(arrival), delay)
<1>3. tv \in Timevals /\ Microseconds(tv) = arrival + delay * UsecPerMsec
  BY TimevalOfTime, AddDelayAdds
<1> HIDE DEF tv
<1>4. /\ pq' = pq \cup {[m |-> m, tv |-> tv]}
      /\ releaser' = IF Signals(tv, arrival) /\ releaser = "waiting"
                       THEN "woken" ELSE releaser
      /\ promised' = [p \in DOMAIN promised \cup {m} |->
                        IF p = m THEN arrival + delay * UsecPerMsec ELSE promised[p]]
      /\ UNCHANGED deadline
  BY DEF delay_packet, tv
<1>5. releaser = "waiting" /\ ~ Signals(tv, arrival)
  BY <1>4
<1>6. \A f \in pq : promised'[f.m] = promised[f.m]
  BY <1>4 DEF IInv, QueuedAsPromised
<1>7. CASE e \in pq
  BY <1>4, <1>5, <1>6, <1>7 DEF SleepsNoLonger
<1>8. CASE e = [m |-> m, tv |-> tv]
  <2>1. PICK t \in MinTimes : ~ Before(tv, t)
    BY <1>5 DEF Signals
  <2>2. PICK f \in pq : t = f.tv
    BY DEF MinTimes
  <2>3. f.tv \in Timevals /\ Microseconds(f.tv) = promised[f.m]
    BY <2>2 DEF IInv, TypeInv, QueuedAsPromised
  <2>4. NotAfter(f.tv, tv)
    BY <1>3, <2>1, <2>2, <2>3, TimevalAssumption DEF Before, NotAfter, Timevals
  <2>5. promised[f.m] <= Microseconds(tv)
    BY <1>3, <2>3, <2>4, NotAfterIsOrder
  <2>6. promised'[e.m] = Microseconds(tv) /\ Microseconds(tv) \in Nat
    BY <1>3, <1>4, <1>8, TimevalAssumption
  <2>7. PICK d \in deadline : d <= promised[f.m]
    BY <1>5, <2>2 DEF SleepsNoLonger
  <2>8. d \in Int /\ promised[f.m] \in Int
    BY <2>3 DEF IInv, TypeInv, QueuedAsPromised
  <2> QED
    BY <1>4, <2>5, <2>6, <2>7, <2>8
<1> QED
  BY <1>4, <1>7, <1>8

LEMMA OthersSleepNoLonger ==
  ASSUME IInv, SleepsNoLonger,
         ReleaserStep \/ SpuriousWakeup \/ Tick \/ UNCHANGED vars
  PROVE  SleepsNoLonger'
<1>1. CASE LoopWait
  BY <1>1, LoopWaitSleepsNoLonger
<1>2. CASE LoopLock \/ LoopRelease \/ LoopNoneDue \/ LoopNoWait \/ LoopTimeout
             \/ LoopSignalled \/ SpuriousWakeup
  <2>1. releaser' # "waiting"
    BY <1>2 DEF LoopLock, LoopRelease, LoopNoneDue, LoopNoWait, LoopTimeout,
       LoopSignalled, SpuriousWakeup
  <2> QED
    BY <2>1 DEF SleepsNoLonger
<1>3. CASE Tick \/ UNCHANGED vars
  <2>1. UNCHANGED <<pq, releaser, deadline, promised>>
    BY <1>3 DEF Tick, vars
  <2> QED
    BY <2>1 DEF SleepsNoLonger
<1> QED
  BY <1>1, <1>2, <1>3 DEF ReleaserStep

(* What is released is due no later than what stays in the queue.          *)
LEMMA LeastIsReleased ==
  ASSUME IInv, LoopRelease, NEW p \in DOMAIN released' \ DOMAIN released, NEW f \in pq'
  PROVE  promised[p] <= promised[f.m]
<1>1. PICK e \in pq :
        /\ e.tv \in MinTimes /\ pq' = pq \ {e}
        /\ released' = [q \in DOMAIN released \cup {e.m} |->
                          IF q = e.m THEN now ELSE released[q]]
  BY DEF LoopRelease
<1>2. p = e.m /\ f \in pq
  BY <1>1
<1>3. NotAfter(e.tv, f.tv)
  BY <1>1, <1>2 DEF MinTimes
<1>4. Microseconds(e.tv) <= Microseconds(f.tv)
  BY <1>1, <1>2, <1>3, NotAfterIsOrder DEF IInv, TypeInv
<1> QED
  BY <1>1, <1>2, <1>4 DEF IInv, QueuedAsPromised

-----------------------------------------------------------------------------
(* delayer.c:213-375, whatever packets and delays there are: every queued  *)
(* element says when its packet is due, and the two theorems below.        *)
THEOREM DelayerInvariant == Spec => []IInv
<1>1. Init => IInv
  BY InitIInv
<1>2. IInv /\ [Next]_vars => IInv'
  BY NextKeepsIInv
<1> QED
  BY <1>1, <1>2, PTL DEF Spec

(* Where the releaser is, and whose packets the delayer speaks of.         *)
THEOREM DelayerTypeCorrect == Spec => []TypeOK
<1>1. Init => TypeOK
  BY TimevalAssumption, DelayerAssumption DEF Init, TypeOK, Dead, Timevals, NoPackets
<1>2. IInv /\ IInv' /\ TypeOK /\ [Next]_vars => TypeOK'
  <2> SUFFICES ASSUME IInv, IInv', TypeOK, [Next]_vars PROVE TypeOK'
    OBVIOUS
  <2>1. /\ now' \in Nat /\ loop_time' \in Timevals /\ deadline' \subseteq Nat
        /\ pq' \subseteq [m : Packets, tv : Timevals]
    BY DEF IInv, TypeInv
  <2>2. now' = now \/ (now < MaxTime /\ now' = now + 1)
    BY DEF Next, ReleaserStep, DelayPacket, delay_packet, LoopLock, LoopRelease, LoopNoneDue,
           LoopWait, LoopNoWait, LoopTimeout, LoopSignalled, SpuriousWakeup, Tick, vars
  <2>3. now' \in 0 .. MaxTime
    BY <2>1, <2>2, DelayerAssumption DEF TypeOK
  <2>4. releaser' \in {"lock", "releasing", "looping", "waiting", "woken"}
    BY DEF TypeOK, Next, ReleaserStep, DelayPacket, delay_packet, LoopLock, LoopRelease,
           LoopNoneDue, LoopWait, LoopNoWait, LoopTimeout, LoopSignalled, SpuriousWakeup,
           Tick, vars
  <2>5. DOMAIN promised' \subseteq Packets /\ DOMAIN released' \subseteq Packets
    <3>1. CASE DelayPacket
      BY <3>1 DEF TypeOK, DelayPacket, delay_packet
    <3>2. CASE LoopRelease
      <4>1. PICK e \in pq :
              released' = [p \in DOMAIN released \cup {e.m} |->
                             IF p = e.m THEN now ELSE released[p]]
        BY <3>2 DEF LoopRelease
      <4>2. e.m \in Packets
        BY <4>1 DEF TypeOK
      <4> QED
        BY <3>2, <4>1, <4>2 DEF TypeOK, LoopRelease
    <3>3. CASE UNCHANGED <<released, promised>>
      BY <3>3 DEF TypeOK
    <3> QED
      BY <3>1, <3>2, <3>3 DEF Next, ReleaserStep, LoopLock, LoopNoneDue, LoopWait, LoopNoWait,
         LoopTimeout, LoopSignalled, SpuriousWakeup, Tick, vars
  <2> QED
    BY <2>1, <2>3, <2>4, <2>5 DEF TypeOK
<1> QED
  BY <1>1, <1>2, DelayerInvariant, PTL DEF Spec

(* No packet leaves before its arrival time plus its delay, although the   *)
(* carry into seconds is made only above a whole second.                   *)
THEOREM NeverReleasedEarly == Spec => []NeverEarly
<1>1. IInv => NeverEarly
  BY DEF IInv
<1> QED
  BY <1>1, DelayerInvariant, PTL

(* The delayer neither loses a packet nor releases one twice.              *)
THEOREM NoneLostOrDoubled == Spec => []QueuedOrReleased
<1>1. IInv => QueuedOrReleased
  BY DEF IInv
<1> QED
  BY <1>1, DelayerInvariant, PTL

(* A packet is released before all queued ones that are due later: the     *)
(* order of the heap, on timevals, is that of the times they denote.       *)
THEOREM ReleasedEarliestFirst == Spec => EarliestFirst
<1>1. ASSUME IInv, [Next]_vars,
             NEW p \in DOMAIN released' \ DOMAIN released, NEW f \in pq'
      PROVE  promised[p] <= promised[f.m]
  <2>1. LoopRelease
    <3>1. released' # released
      BY <1>1
    <3> QED
      BY <1>1, <3>1 DEF Next, ReleaserStep, vars, DelayPacket, delay_packet, LoopLock,
         LoopNoneDue, LoopWait, LoopNoWait, LoopTimeout, LoopSignalled,
         SpuriousWakeup, Tick
  <2> QED
    BY <1>1, <2>1, LeastIsReleased
<1>2. IInv /\ [Next]_vars =>
        [\A p \in DOMAIN released' \ DOMAIN released :
           \A e \in pq' : promised[p] <= promised[e.m]]_vars
  BY <1>1
<1> QED
  BY <1>2, DelayerInvariant, PTL DEF Spec, EarliestFirst

(* The releaser never sleeps past the time of a queued packet: its limit   *)
(* was the earliest time when it fell asleep, and delay_packet wakes it    *)
(* for every earlier one.                                                  *)
THEOREM ReleaserSleepsNoLonger == Spec => []SleepsNoLonger
<1>1. Init => SleepsNoLonger
  BY DEF Init, SleepsNoLonger
<1>2. IInv /\ SleepsNoLonger /\ [Next]_vars => SleepsNoLonger'
  BY DelayPacketDelays, DelaySleepsNoLonger, OthersSleepNoLonger DEF Next
<1> QED
  BY <1>1, <1>2, DelayerInvariant, PTL DEF Spec
-----------------------------------------------------------------------------
(* The verdict.  Answers are what chains say when they take part.          *)
Actions == {"ACCEPT", "DROP", "DELAY"}
Verdicts == [action : Actions, delay_len : Nat, flag : {"PROCESSED", "UNPROCESSED"}]
Answers == {v \in Verdicts : v.flag = "PROCESSED" /\ (v.action # "DELAY" => v.delay_len = 0)}

LEMMA AccumulateType ==
  ASSUME NEW v \in Verdicts, NEW w \in Verdicts
  PROVE  Accumulate(v, w) \in Verdicts
<1>1. /\ v = [action |-> v.action, delay_len |-> v.delay_len, flag |-> v.flag]
      /\ v.action \in Actions /\ v.delay_len \in Nat /\ w.delay_len \in Nat
      /\ w.action \in Actions /\ v.flag \in {"PROCESSED", "UNPROCESSED"}
  BY DEF Verdicts
<1>2. CASE w.action = "DROP"
  BY <1>1, <1>2 DEF Accumulate, Verdicts, Actions
<1>3. CASE w.action = "DELAY"
  BY <1>1, <1>3 DEF Accumulate, Verdicts, Actions
<1>4. CASE w.action = "ACCEPT"
  BY <1>1, <1>4 DEF Accumulate, Verdicts, Actions
<1> QED
  BY <1>1, <1>2, <1>3, <1>4 DEF Actions

(* The loop over the chains has an end, and its rounds are Accumulate's.   *)
LEMMA GlobalVerdictSteps ==
  ASSUME NEW n \in Nat, NEW says \in [1 .. n -> Verdicts]
  PROVE  \E upto \in [0 .. n -> Verdicts] :
           /\ upto[0] = Accept("UNPROCESSED")
           /\ \A i \in 1 .. n : upto[i] = Accumulate(upto[i - 1], says[i])
           /\ GlobalVerdict(says) = upto[n]
<1> DEFINE c == Accept("UNPROCESSED")
           g == [p \in (1 .. n) \X Verdicts |-> Accumulate(p[2], says[p[1]])]
           IsUpto(e) == e = [i \in 0 .. n |-> IF i = 0 THEN c
                                              ELSE Accumulate(e[i - 1], says[i])]
           upto == CHOOSE e : IsUpto(e)
<1>1. c \in Verdicts
  BY DEF Accept, Verdicts, Actions
<1>2. g \in [(1 .. n) \X Verdicts -> Verdicts]
  BY AccumulateType
<1>3. \A i \in 1 .. n, v \in Verdicts : g[<<i, v>>] = Accumulate(v, says[i])
  OBVIOUS
<1>4. GlobalVerdict(says) = upto[n]
  <2>1. DOMAIN says = 1 .. n /\ Cardinality(1 .. n) = n
    BY FS_Interval
  <2> QED
    BY <2>1 DEF GlobalVerdict
<1> HIDE DEF c, g, IsUpto
<1>5. PICK f \in [0 .. n -> Verdicts] :
        f[0] = c /\ \A i \in 1 .. n : f[i] = g[<<i, f[i - 1]>>]
  <2>1. Begun(Verdicts, c, g, n) # {}
    BY <1>1, <1>2, RecursionTo
  <2> QED
    BY <2>1 DEF Begun
<1>6. \A i \in 1 .. n : f[i] = Accumulate(f[i - 1], says[i])
  <2>1. \A i \in 1 .. n : i - 1 \in 0 .. n /\ f[i - 1] \in Verdicts
    OBVIOUS
  <2> QED
    BY <1>3, <1>5, <2>1
<1>7. IsUpto([i \in 0 .. n |-> f[i]])
  <2> DEFINE e == [i \in 0 .. n |-> f[i]]
  <2>1. ASSUME NEW i \in 0 .. n
        PROVE  e[i] = IF i = 0 THEN c ELSE Accumulate(e[i - 1], says[i])
    BY <1>5, <1>6
  <2> QED
    BY <2>1 DEF IsUpto
<1>8. IsUpto(upto)
  BY <1>7
<1> HIDE DEF upto
<1>9. /\ upto[0] = c
      /\ \A i \in 1 .. n : upto[i] = Accumulate(upto[i - 1], says[i])
  BY <1>8 DEF IsUpto
<1>10. upto \in [0 .. n -> Verdicts]
  <2> DEFINE T == {i \in 0 .. n : upto[i] \in Verdicts}
  <2>1. 0 \in T
    BY <1>1, <1>9
  <2>2. ASSUME NEW i \in 0 .. n - 1, i \in T PROVE i + 1 \in T
    <3>1. i + 1 \in 1 .. n /\ (i + 1) - 1 = i /\ upto[i] \in Verdicts
      BY <2>2
    <3>2. upto[i + 1] = Accumulate(upto[i], says[i + 1])
      BY <1>9, <3>1
    <3> QED
      BY <3>1, <3>2, AccumulateType
  <2>3. 0 .. n \subseteq T
    <3> HIDE DEF T
    <3> QED
      BY <2>1, <2>2, InductionTo
  <2> QED
    BY <1>8, <2>3 DEF IsUpto
<1> QED
  BY <1>4, <1>9, <1>10 DEF c

(* The sum of the chains' delays, chain by chain.                          *)
DelayOf(answers, c) == IF c \in DOMAIN answers THEN answers[c].says.delay_len ELSE 0

LEMMA TotalDelaySteps ==
  ASSUME NEW answers, \A c \in DOMAIN answers : answers[c].says.delay_len \in Nat
  PROVE  \E sum \in [0 .. NumChains -> Nat] :
           /\ sum[0] = 0
           /\ \A i \in 1 .. NumChains : sum[i] = sum[i - 1] + DelayOf(answers, i - 1)
           /\ TotalDelay(answers) = sum[NumChains]
<1> DEFINE d(i) == DelayOf(answers, i - 1)
           g == [p \in (1 .. NumChains) \X Nat |-> p[2] + d(p[1])]
           IsSum(e) == e = [i \in 0 .. NumChains |-> IF i = 0 THEN 0 ELSE e[i - 1] + d(i)]
           sum == CHOOSE e : IsSum(e)
<1>1. NumChains \in Nat /\ 0 \in Nat /\ \A i \in 1 .. NumChains : d(i) \in Nat
  BY PacketLogicAssumption DEF DelayOf
<1>2. TotalDelay(answers) = sum[NumChains]
  BY DEF TotalDelay, DelayOf
<1> HIDE DEF d
<1>3. g \in [(1 .. NumChains) \X Nat -> Nat]
  BY <1>1
<1>4. \A i \in 1 .. NumChains, n \in Nat : g[<<i, n>>] = n + d(i)
  OBVIOUS
<1> HIDE DEF g, IsSum
<1>5. PICK f \in [0 .. NumChains -> Nat] :
        f[0] = 0 /\ \A i \in 1 .. NumChains : f[i] = g[<<i, f[i - 1]>>]
  <2>1. Begun(Nat, 0, g, NumChains) # {}
    BY <1>1, <1>3, RecursionTo
  <2> QED
    BY <2>1 DEF Begun
<1>6. \A i \in 1 .. NumChains : f[i] = f[i - 1] + d(i)
  <2>1. \A i \in 1 .. NumChains : i - 1 \in 0 .. NumChains /\ f[i - 1] \in Nat
    BY <1>1
  <2> QED
    BY <1>4, <1>5, <2>1
<1>7. IsSum([i \in 0 .. NumChains |-> f[i]])
  <2> DEFINE e == [i \in 0 .. NumChains |-> f[i]]
  <2>1. ASSUME NEW i \in 0 .. NumChains
        PROVE  e[i] = IF i = 0 THEN 0 ELSE e[i - 1] + d(i)
    BY <1>1, <1>5, <1>6
  <2> QED
    BY <2>1 DEF IsSum
<1>8. IsSum(sum)
  BY <1>7
<1> HIDE DEF sum
<1>9. sum[0] = 0 /\ \A i \in 1 .. NumChains : sum[i] = sum[i - 1] + d(i)
  BY <1>1, <1>8 DEF IsSum
<1>10. sum \in [0 .. NumChains -> Nat]
  <2> DEFINE T == {i \in 0 .. NumChains : sum[i] \in Nat}
  <2>1. 0 \in T
    BY <1>1, <1>9
  <2>2. ASSUME NEW i \in 0 .. NumChains - 1, i \in T PROVE i + 1 \in T
    <3>1. i + 1 \in 1 .. NumChains /\ (i + 1) - 1 = i /\ sum[i] \in Nat
      BY <1>1, <2>2
    <3>2. sum[i + 1] = sum[i] + d(i + 1)
      BY <1>9, <3>1
    <3> QED
      BY <1>1, <3>1, <3>2
  <2>3. 0 .. NumChains \subseteq T
    <3> HIDE DEF T
    <3> QED
      BY <1>1, <2>1, <2>2, InductionTo
  <2> QED
    BY <1>8, <2>3 DEF IsSum
<1> QED
  BY <1>2, <1>9, <1>10 DEF d

(* Whether verdict v is what the rules make of the answers.                *)
Follows(v, answers) ==
  IF \E c \in DOMAIN answers : answers[c].says.action = "DROP"
    THEN v.action = "DROP"
    ELSE IF TotalDelay(answers) > 0
      THEN v.action = "DELAY" /\ v.delay_len = TotalDelay(answers)
      ELSE v.action = "ACCEPT"

SaysOf(answers, c) ==
  IF c \in DOMAIN answers THEN answers[c].says ELSE Accept("UNPROCESSED")

(* The verdict of the chains but the default one: what is true of the      *)
(* first i chains and their sum is true of them all.                       *)
LEMMA GlobalFollowsRules ==
  ASSUME NumChains > 0, NEW answers, DOMAIN answers \subseteq 1 .. NumChains - 1,
         \A c \in DOMAIN answers : answers[c].says \in Answers,
         NEW says, says = [c \in 1 .. NumChains - 1 |-> SaysOf(answers, c)]
  PROVE  /\ GlobalVerdict(says) \in Verdicts
         /\ GlobalVerdict(says).flag = "UNPROCESSED" <=> DOMAIN answers = {}
         /\ DOMAIN answers # {} => Follows(ZeroDelayIsAccept(GlobalVerdict(says)), answers)
<1> DEFINE k == NumChains - 1
<1>1. k \in Nat /\ NumChains = k + 1 /\ NumChains \in Nat
  BY PacketLogicAssumption
<1>2. says \in [1 .. k -> Verdicts]
  BY DEF SaysOf, Accept, Answers, Verdicts, Actions
<1>3. \A c \in DOMAIN answers : answers[c].says.delay_len \in Nat
  BY DEF Answers, Verdicts
<1>4. PICK sum \in [0 .. NumChains -> Nat] :
        /\ sum[0] = 0
        /\ \A i \in 1 .. NumChains : sum[i] = sum[i - 1] + DelayOf(answers, i - 1)
        /\ TotalDelay(answers) = sum[NumChains]
  BY <1>3, TotalDelaySteps
<1> HIDE DEF k
<1>5. PICK upto \in [0 .. k -> Verdicts] :
        /\ upto[0] = Accept("UNPROCESSED")
        /\ \A i \in 1 .. k : upto[i] = Accumulate(upto[i - 1], says[i])
        /\ GlobalVerdict(says) = upto[k]
  BY <1>1, <1>2, GlobalVerdictSteps
<1> DEFINE spoke(i) == DOMAIN answers \cap 1 .. i
           Right(i, v, d) ==
             /\ v.flag = "UNPROCESSED" <=> spoke(i) = {}
             /\ v.flag = "UNPROCESSED" => v.action = "ACCEPT"
             /\ v.action = "DROP" <=> \E c \in spoke(i) : answers[c].says.action = "DROP"
             /\ v.action # "DROP" => v.delay_len = d /\ (v.action = "ACCEPT" => d = 0)
           T == {i \in 0 .. k : Right(i, upto[i], sum[i + 1])}
<1>6. 0 \in T
  <2>1. DelayOf(answers, 0) = 0
    BY <1>1 DEF DelayOf, k
  <2>2. sum[1] = 0
    <3>1. 1 \in 1 .. NumChains /\ 1 - 1 = 0
      BY <1>1
    <3>2. sum[1] = sum[1 - 1] + DelayOf(answers, 1 - 1)
      BY <1>4, <3>1
    <3> QED
      BY <1>4, <2>1, <3>1, <3>2
  <2>3. spoke(0) = {} /\ 0 \in 0 .. k /\ 0 + 1 = 1
    BY <1>1
  <2>4. Right(0, upto[0], sum[1])
    BY <1>5, <2>2, <2>3 DEF Accept
  <2> QED
    BY <2>3, <2>4
<1>7. ASSUME NEW i \in 0 .. k - 1, i \in T PROVE i + 1 \in T
  <2> DEFINE v == upto[i]
             w == says[i + 1]
             d == sum[i + 1]
  <2>1. /\ i + 1 \in 1 .. k /\ i + 1 \in 0 .. k /\ (i + 1) - 1 = i /\ i \in 0 .. k
        /\ i + 2 \in 1 .. NumChains /\ (i + 2) - 1 = i + 1 /\ (i + 1) + 1 = i + 2
        /\ i + 1 \in 0 .. NumChains
    BY <1>1
  <2>2. v \in Verdicts /\ w \in Verdicts /\ d \in Nat /\ Right(i, v, d)
    BY <1>2, <1>7, <2>1
  <2>3. upto[i + 1] = Accumulate(v, w)
    BY <1>5, <2>1
  <2>4. sum[i + 2] = d + DelayOf(answers, i + 1)
    BY <1>4, <2>1
  <2>5. w = SaysOf(answers, i + 1)
    BY <2>1 DEF k
  <2> HIDE DEF v, w, d
  <2>6. spoke(i + 1) = spoke(i) \cup (IF i + 1 \in DOMAIN answers THEN {i + 1} ELSE {})
    <3>1. 1 .. i + 1 = (1 .. i) \cup {i + 1}
      BY <2>1, <1>1
    <3> QED
      BY <3>1
  <2> HIDE DEF spoke
  <2>7. Right(i + 1, Accumulate(v, w), sum[i + 2])
    <3>1. CASE i + 1 \in DOMAIN answers
      <4>1. /\ w \in Answers /\ w = answers[i + 1].says
            /\ DelayOf(answers, i + 1) = w.delay_len
            /\ spoke(i + 1) = spoke(i) \cup {i + 1}
        BY <2>5, <2>6, <3>1 DEF SaysOf, DelayOf
      <4>2. /\ w.delay_len \in Nat /\ w.flag = "PROCESSED"
            /\ w.action \in Actions /\ (w.action # "DELAY" => w.delay_len = 0)
            /\ v.delay_len \in Nat /\ v.action \in Actions
        BY <2>2, <4>1 DEF Answers, Verdicts
      <4>3. (\E c \in spoke(i + 1) : answers[c].says.action = "DROP") <=>
              (\E c \in spoke(i) : answers[c].says.action = "DROP") \/ w.action = "DROP"
        BY <4>1
      <4>4. spoke(i + 1) # {}
        BY <4>1
      <4>5. CASE w.action = "DROP"
        <5>1. Accumulate(v, w) = [v EXCEPT !.action = "DROP", !.flag = "PROCESSED"]
          BY <4>5 DEF Accumulate
        <5>2. Accumulate(v, w).action = "DROP" /\ Accumulate(v, w).flag = "PROCESSED"
          BY <2>2, <5>1 DEF Verdicts
        <5> QED
          BY <4>3, <4>4, <4>5, <5>2
      <4>6. CASE w.action = "ACCEPT"
        <5>1. Accumulate(v, w) = [v EXCEPT !.flag = "PROCESSED"]
          BY <4>2, <4>6 DEF Accumulate
        <5>2. /\ Accumulate(v, w).action = v.action /\ Accumulate(v, w).flag = "PROCESSED"
              /\ Accumulate(v, w).delay_len = v.delay_len
          BY <2>2, <5>1 DEF Verdicts
        <5>3. sum[i + 2] = d
          BY <2>2, <2>4, <4>1, <4>2, <4>6
        <5> QED
          BY <2>2, <4>3, <4>4, <4>6, <5>2, <5>3
      <4>7. CASE w.action = "DELAY"
        <5>1. CASE v.action = "DROP"
          <6>1. Accumulate(v, w) = v
            BY <4>7, <5>1 DEF Accumulate
          <6>2. v.flag = "PROCESSED"
            <7>1. spoke(i) # {}
              BY <2>2, <5>1
            <7> QED
              BY <2>2, <7>1 DEF Verdicts
          <6> QED
            BY <2>2, <4>3, <4>4, <5>1, <6>1, <6>2
        <5>2. CASE v.action = "DELAY"
          <6>1. Accumulate(v, w) = [v EXCEPT !.delay_len = @ + w.delay_len]
            BY <4>7, <5>2 DEF Accumulate
          <6>2. /\ Accumulate(v, w).action = "DELAY" /\ Accumulate(v, w).flag = v.flag
                /\ Accumulate(v, w).delay_len = v.delay_len + w.delay_len
            BY <2>2, <5>2, <6>1 DEF Verdicts
          <6>3. v.flag = "PROCESSED"
            BY <2>2, <5>2 DEF Verdicts
          <6> QED
            BY <2>2, <2>4, <4>1, <4>2, <4>3, <4>4, <4>7, <5>2, <6>2, <6>3
        <5>3. CASE v.action = "ACCEPT"
          <6>1. Accumulate(v, w) = w
            BY <4>7, <5>3 DEF Accumulate
          <6> QED
            BY <2>2, <2>4, <4>1, <4>2, <4>3, <4>4, <4>7, <5>3, <6>1
        <5> QED
          BY <4>2, <5>1, <5>2, <5>3 DEF Actions
      <4> QED
        BY <4>2, <4>5, <4>6, <4>7 DEF Actions
    <3>2. CASE i + 1 \notin DOMAIN answers
      <4>1. /\ w = Accept("UNPROCESSED") /\ DelayOf(answers, i + 1) = 0
            /\ spoke(i + 1) = spoke(i)
        BY <2>5, <2>6, <3>2 DEF SaysOf, DelayOf
      <4>2. Accumulate(v, w) = v
        BY <4>1 DEF Accumulate, Accept
      <4>3. sum[i + 2] = d
        BY <2>2, <2>4, <4>1
      <4> QED
        BY <2>2, <4>1, <4>2, <4>3
    <3> QED
      BY <3>1, <3>2
  <2> QED
    BY <2>1, <2>3, <2>7 DEF v, w
<1>8. k \in T
  <2>1. 0 .. k \subseteq T
    <3> HIDE DEF T
    <3> QED
      BY <1>1, <1>6, <1>7, InductionTo
  <2> QED
    BY <1>1, <2>1
<1>9. /\ Right(k, GlobalVerdict(says), TotalDelay(answers))
      /\ spoke(k) = DOMAIN answers /\ GlobalVerdict(says) \in Verdicts
  <2>1. k \in 0 .. k /\ k + 1 = NumChains
    BY <1>1
  <2>2. Right(k, upto[k], sum[k + 1])
    BY <1>8
  <2>3. spoke(k) = DOMAIN answers
    BY DEF k
  <2>4. upto[k] \in Verdicts
    BY <1>5, <2>1
  <2> HIDE DEF Right, spoke
  <2> QED
    BY <1>4, <1>5, <2>1, <2>2, <2>3, <2>4
<1> HIDE DEF spoke
<1>10. ASSUME DOMAIN answers # {}
       PROVE  Follows(ZeroDelayIsAccept(GlobalVerdict(says)), answers)
  <2> DEFINE v == GlobalVerdict(says)
             total == TotalDelay(answers)
  <2>1. /\ v.action \in Actions /\ v.delay_len \in Nat /\ v \in Verdicts
        /\ v.action = "DROP" <=> \E c \in DOMAIN answers : answers[c].says.action = "DROP"
        /\ v.action # "DROP" => v.delay_len = total /\ (v.action = "ACCEPT" => total = 0)
    BY <1>9 DEF Verdicts
  <2> HIDE DEF v, total
  <2>2. CASE v.action = "DELAY" /\ v.delay_len = 0
    <3>1. ZeroDelayIsAccept(v).action = "ACCEPT"
      BY <2>1, <2>2 DEF ZeroDelayIsAccept, Verdicts
    <3> QED
      BY <2>1, <2>2, <3>1 DEF Follows, total, v
  <2>3. CASE ~(v.action = "DELAY" /\ v.delay_len = 0)
    <3>1. ZeroDelayIsAccept(v) = v
      BY <2>3 DEF ZeroDelayIsAccept
    <3>2. ~(\E c \in DOMAIN answers : answers[c].says.action = "DROP") /\ total > 0
            => v.action = "DELAY" /\ v.delay_len = total
      BY <2>1 DEF Actions
    <3>3. ~(\E c \in DOMAIN answers : answers[c].says.action = "DROP") /\ ~(total > 0)
            => v.action = "ACCEPT"
      BY <2>1, <2>3 DEF Actions
    <3> QED
      BY <2>1, <3>1, <3>2, <3>3 DEF Follows, total, v
  <2> QED
    BY <2>2, <2>3 DEF v
<1> QED
  BY <1>9, <1>10
(* No answers, and the default chain's alone.                              *)
LEMMA FewAnswers ==
  ASSUME NEW answers, DOMAIN answers \subseteq {0},
         \A c \in DOMAIN answers : answers[c].says.delay_len \in Nat
  PROVE  TotalDelay(answers) = IF NumChains > 0 THEN DelayOf(answers, 0) ELSE 0
<1>1. NumChains \in Nat
  BY PacketLogicAssumption
<1>2. PICK sum \in [0 .. NumChains -> Nat] :
        /\ sum[0] = 0
        /\ \A i \in 1 .. NumChains : sum[i] = sum[i - 1] + DelayOf(answers, i - 1)
        /\ TotalDelay(answers) = sum[NumChains]
  BY TotalDelaySteps
<1>3. CASE NumChains > 0
  <2> DEFINE k == NumChains - 1
             T == {i \in 0 .. k : sum[i + 1] = DelayOf(answers, 0)}
  <2>1. k \in Nat /\ k + 1 = NumChains
    BY <1>1, <1>3
  <2>2. DelayOf(answers, 0) \in Nat
    BY DEF DelayOf
  <2>3. \A i \in 1 .. k : DelayOf(answers, i) = 0
    BY DEF DelayOf
  <2> HIDE DEF k
  <2>4. 0 \in T
    <3>1. 1 \in 1 .. NumChains /\ 1 - 1 = 0
      BY <2>1
    <3>2. sum[1] = sum[1 - 1] + DelayOf(answers, 1 - 1)
      BY <1>2, <3>1
    <3>3. sum[1] = DelayOf(answers, 0)
      BY <1>2, <2>2, <3>1, <3>2
    <3> QED
      BY <2>1, <3>3
  <2>5. ASSUME NEW i \in 0 .. k - 1, i \in T PROVE i + 1 \in T
    <3>1. /\ i + 2 \in 1 .. NumChains /\ (i + 2) - 1 = i + 1 /\ i + 1 \in 1 .. k
          /\ i + 1 \in 0 .. k /\ (i + 1) + 1 = i + 2
      BY <2>1
    <3>2. sum[i + 2] = sum[(i + 2) - 1] + DelayOf(answers, (i + 2) - 1)
      BY <1>2, <3>1
    <3>3. sum[i + 2] = sum[i + 1]
      BY <2>2, <2>3, <2>5, <3>1, <3>2
    <3> QED
      BY <2>5, <3>1, <3>3
  <2>6. 0 .. k \subseteq T
    <3> HIDE DEF T
    <3> QED
      BY <2>1, <2>4, <2>5, InductionTo
  <2>7. k \in T
    BY <2>1, <2>6
  <2> QED
    BY <1>2, <1>3, <2>1, <2>7
<1> QED
  BY <1>1, <1>2, <1>3

LEMMA DefaultFollowsRules ==
  ASSUME NumChains > 0, NEW answers, DOMAIN answers = {0}, answers[0].says \in Answers
  PROVE  Follows(ZeroDelayIsAccept(answers[0].says), answers)
<1> DEFINE v == answers[0].says
<1>1. /\ v \in Verdicts /\ v.action \in Actions /\ v.delay_len \in Nat
      /\ v.action # "DELAY" => v.delay_len = 0
  BY DEF Answers, Verdicts
<1>2. TotalDelay(answers) = v.delay_len
  <2>1. \A c \in DOMAIN answers : answers[c].says.delay_len \in Nat
    BY <1>1
  <2>2. TotalDelay(answers) = DelayOf(answers, 0)
    BY <2>1, FewAnswers
  <2> QED
    BY <2>2 DEF DelayOf
<1>3. (\E c \in DOMAIN answers : answers[c].says.action = "DROP") <=> v.action = "DROP"
  OBVIOUS
<1> HIDE DEF v
<1>4. CASE v.action = "DELAY" /\ v.delay_len = 0
  <2>1. ZeroDelayIsAccept(v).action = "ACCEPT"
    BY <1>1, <1>4 DEF ZeroDelayIsAccept, Verdicts
  <2> QED
    BY <1>1, <1>2, <1>3, <1>4, <2>1 DEF Follows, v
<1>5. CASE ~(v.action = "DELAY" /\ v.delay_len = 0)
  <2>1. ZeroDelayIsAccept(v) = v
    BY <1>5 DEF ZeroDelayIsAccept
  <2>2. /\ v.action # "DROP" /\ v.delay_len > 0 => v.action = "DELAY"
        /\ v.action # "DROP" /\ ~(v.delay_len > 0) => v.action = "ACCEPT"
    BY <1>1, <1>5 DEF Actions
  <2> QED
    BY <1>2, <1>3, <2>1, <2>2 DEF Follows, v
<1> QED
  BY <1>4, <1>5 DEF v

-----------------------------------------------------------------------------
(* The stable delay                                                        *)

(* What C's division loses is less than the divisor.                       *)
LEMMA TruncDivLoses ==
  ASSUME NEW a \in Int, NEW b \in Nat \ {0}
  PROVE  TruncDiv(a, b) \in Int /\ TruncDiv(a, b) * b + b > a
<1>1. CASE a >= 0
  <2> DEFINE q == a \div b
             r == a % b
  <2>1. q \in Int /\ r \in 0 .. b - 1 /\ a = b * q + r
    OBVIOUS
  <2>2. TruncDiv(a, b) = q
    BY <1>1 DEF TruncDiv
  <2> HIDE DEF q, r
  <2> QED
    BY <2>1, <2>2
<1>2. CASE ~(a >= 0)
  <2> DEFINE n == -a
             q == n \div b
             r == n % b
  <2>1. n \in Nat
    BY <1>2
  <2>2. q \in Int /\ r \in 0 .. b - 1 /\ n = b * q + r
    BY <2>1
  <2>3. TruncDiv(a, b) = -q
    BY <1>2 DEF TruncDiv
  <2>4. a = -n
    OBVIOUS
  <2> HIDE DEF n, q, r
  <2>5. (-q) * b = -(b * q)
    BY <2>2
  <2> QED
    BY <2>2, <2>3, <2>4, <2>5
<1> QED
  BY <1>1, <1>2

LEMMA StableDelayDrift ==
  ASSUME NEW last \in Timevals, NEW t \in Nat, NEW delay \in Nat
  PROVE  /\ StableDelay(last, TimevalOf(t), delay) \in Nat
         /\ t + StableDelay(last, TimevalOf(t), delay) * UsecPerMsec + UsecPerMsec
              > Microseconds(last)
<1> DEFINE M == UsecPerMsec
           S == UsecPerSec
           tv == TimevalOf(t)
           to == AddDelay(last, delay)
           q == S \div M
           diff == to.sec - tv.sec
           u == to.usec - tv.usec
           w == TruncDiv(u, M)
           len == diff * q + w
<1>1. M \in Nat \ {0} /\ S \in Nat \ {0} /\ q \in Nat /\ S = M * q
  BY TimevalAssumption
<1>2. /\ tv \in Timevals /\ Microseconds(tv) = t
      /\ to \in Timevals /\ Microseconds(to) = Microseconds(last) + delay * M
  BY TimevalOfTime, AddDelayAdds
<1>3. tv.sec \in Nat /\ tv.usec \in Nat /\ to.sec \in Nat /\ to.usec \in Nat
  BY <1>1, <1>2 DEF Timevals
<1>4. tv.sec * S + tv.usec = t /\ to.sec * S + to.usec = Microseconds(last) + delay * M
  BY <1>2 DEF Microseconds
<1>5. StableDelay(last, tv, delay) = IF len < 0 THEN 0 ELSE len
  BY DEF StableDelay
<1>6. Microseconds(last) \in Nat
  BY <1>1 DEF Timevals, Microseconds
<1> HIDE DEF M, S, tv, to, q
<1>7. diff \in Int /\ u \in Int
  BY <1>3
<1>8. w \in Int /\ w * M + M > u
  BY <1>1, <1>7, TruncDivLoses
<1>9. diff * S + u = Microseconds(last) + delay * M - t
  <2>1. diff * S = to.sec * S - tv.sec * S
    BY <1>1, <1>3
  <2> HIDE DEF diff
  <2>2. to.sec * S \in Int /\ tv.sec * S \in Int /\ delay * M \in Int
    BY <1>1, <1>3
  <2> QED
    BY <1>3, <1>4, <1>6, <2>1, <2>2
<1> HIDE DEF diff, u, w
<1>10. len \in Int /\ len * M = diff * S + w * M
  <2>1. (diff * q) * M = diff * S
    BY <1>1, <1>7
  <2> QED
    BY <1>1, <1>7, <1>8, <2>1
<1> HIDE DEF len
<1>11. len * M + M > Microseconds(last) - t
  <2>1. delay * M \in Nat /\ len * M \in Int /\ diff * S \in Int /\ w * M \in Int
    BY <1>1, <1>7, <1>8, <1>10
  <2> QED
    BY <1>1, <1>6, <1>7, <1>8, <1>9, <1>10, <2>1
<1>12. CASE len < 0
  <2>1. len * M <= 0
    BY <1>1, <1>10, <1>12
  <2>2. StableDelay(last, tv, delay) = 0 /\ 0 * M = 0
    BY <1>1, <1>5, <1>12
  <2> QED
    BY <1>1, <1>6, <1>10, <1>11, <2>1, <2>2 DEF M, tv
<1>13. CASE ~(len < 0)
  <2>1. StableDelay(last, tv, delay) = len /\ len \in Nat
    BY <1>5, <1>10, <1>13
  <2>2. len * M \in Int
    BY <1>1, <1>10
  <2> QED
    BY <1>1, <1>6, <1>11, <2>1, <2>2 DEF M, tv
<1> QED
  BY <1>12, <1>13
-----------------------------------------------------------------------------
(* The invariant of the packet logic, and what one chain does.             *)
LogicIInv ==
  /\ now \in Nat
  /\ last_packet_release_time \in [Chains -> Timevals]
  /\ verdict \in Verdicts
  /\ VerdictFollowsRules

LEMMA ChainAnswers ==
  ASSUME now \in Nat, last_packet_release_time \in [Chains -> Timevals],
         NEW c \in Chains, NEW draw \in Draws
  PROVE  LET last == last_packet_release_time[c]
             answer == chain_decide(c, TimevalOf(now), draw)
             new == NewReleaseTime(c, TimevalOf(now), draw)
         IN  /\ answer \in Answers /\ new \in Timevals
             /\ IF answer.action = "DELAY"
                  THEN Microseconds(new) = now + answer.delay_len * UsecPerMsec
                  ELSE new = last
             /\ answer.action = "DELAY" /\ draw.stable /\ last.sec # 0
                  => Microseconds(new) + UsecPerMsec > Microseconds(last)
<1> DEFINE last == last_packet_release_time[c]
           t == TimevalOf(now)
           d == ChainDelay(c, t, draw)
<1>1. last \in Timevals /\ t \in Timevals /\ Microseconds(t) = now
  BY TimevalOfTime
<1>2. draw.action \in Actions /\ draw.delay \in Nat
  <2>1. ChainDelays \subseteq Nat
    BY PacketLogicAssumption
  <2>2. CASE draw \in [action : {"DROP", "ACCEPT"}, delay : {0}, stable : {FALSE}]
    BY <2>2 DEF Actions
  <2>3. CASE draw \in [action : {"DELAY"}, delay : ChainDelays, stable : BOOLEAN]
    BY <2>1, <2>3 DEF Actions
  <2> QED
    BY <2>2, <2>3 DEF Draws
<1>3. d \in Nat /\ (draw.stable /\ last.sec # 0
                     => now + d * UsecPerMsec + UsecPerMsec > Microseconds(last))
  <2>1. CASE draw.stable /\ last.sec = 0
    <3>1. d = StableDelay(t, t, draw.delay)
      BY <2>1 DEF ChainDelay
    <3> QED
      BY <1>1, <1>2, <2>1, <3>1, StableDelayDrift
  <2>2. CASE draw.stable /\ last.sec # 0
    <3>1. d = StableDelay(last, t, draw.delay)
      BY <2>2 DEF ChainDelay
    <3> HIDE DEF d, last
    <3>2. /\ StableDelay(last, t, draw.delay) \in Nat
          /\ now + StableDelay(last, t, draw.delay) * UsecPerMsec + UsecPerMsec
               > Microseconds(last)
      BY <1>1, <1>2, StableDelayDrift
    <3> QED
      BY <2>2, <3>1, <3>2
  <2>3. CASE ~draw.stable
    <3>1. d = draw.delay
      BY <2>3 DEF ChainDelay
    <3> QED
      BY <1>2, <2>3, <3>1
  <2> QED
    BY <2>1, <2>2, <2>3
<1> HIDE DEF last, t, d
<1>4. CASE draw.action = "DELAY"
  <2> DEFINE answer == [action |-> "DELAY", flag |-> "PROCESSED", delay_len |-> d]
  <2>1. chain_decide(c, t, draw) = answer
    BY <1>4 DEF chain_decide, d
  <2>2. answer \in Answers /\ answer.action = "DELAY" /\ answer.delay_len = d
    BY <1>3 DEF Answers, Verdicts, Actions
  <2>3. NewReleaseTime(c, t, draw) = AddDelay(t, d)
    BY <1>4 DEF NewReleaseTime, d
  <2>4. AddDelay(t, d) \in Timevals /\ Microseconds(AddDelay(t, d)) = now + d * UsecPerMsec
    BY <1>1, <1>3, AddDelayAdds
  <2> HIDE DEF answer
  <2> QED
    BY <1>3, <2>1, <2>2, <2>3, <2>4 DEF last, t
<1>5. CASE draw.action # "DELAY"
  <2>1. chain_decide(c, t, draw) \in {[action |-> a, delay_len |-> 0, flag |-> "PROCESSED"] :
                                        a \in {"DROP", "ACCEPT"}}
    BY <1>2, <1>5 DEF chain_decide, Accept, Actions
  <2>2. /\ chain_decide(c, t, draw) \in Answers
        /\ chain_decide(c, t, draw).action # "DELAY"
    BY <2>1 DEF Answers, Verdicts, Actions
  <2>3. NewReleaseTime(c, t, draw) = last
    BY <1>5 DEF NewReleaseTime, last
  <2> QED
    BY <1>1, <2>2, <2>3 DEF last, t
<1> QED
  BY <1>4, <1>5

(* What the chains that took part in a decision drew.                      *)
Drawn(drawn) ==
  /\ DOMAIN chain_verdicts' \subseteq Chains
  /\ drawn \in [DOMAIN chain_verdicts' -> Draws]
  /\ \A c \in DOMAIN chain_verdicts' :
       /\ chain_verdicts'[c].says = chain_decide(c, TimevalOf(now), drawn[c])
       /\ chain_verdicts'[c].stable = drawn[c].stable
  /\ last_packet_release_time' =
       [c \in Chains |-> IF c \in DOMAIN chain_verdicts'
                           THEN NewReleaseTime(c, TimevalOf(now), drawn[c])
                           ELSE last_packet_release_time[c]]

LEMMA ZeroDelayType ==
  ASSUME NEW v \in Verdicts
  PROVE  ZeroDelayIsAccept(v) \in Verdicts
<1>1. /\ v = [action |-> v.action, delay_len |-> v.delay_len, flag |-> v.flag]
      /\ v.delay_len \in Nat /\ v.flag \in {"PROCESSED", "UNPROCESSED"}
  BY DEF Verdicts
<1>2. CASE v.action = "DELAY" /\ v.delay_len = 0
  BY <1>1, <1>2 DEF ZeroDelayIsAccept, Verdicts, Actions
<1>3. CASE ~(v.action = "DELAY" /\ v.delay_len = 0)
  BY <1>3 DEF ZeroDelayIsAccept
<1> QED
  BY <1>2, <1>3

LEMMA DecideEffect ==
  ASSUME now \in Nat, last_packet_release_time \in [Chains -> Timevals],
         NEW m \in Kinds, decide(m)
  PROVE  /\ \E drawn : Drawn(drawn)
         /\ verdict' \in Verdicts /\ Follows(verdict', chain_verdicts')
<1> DEFINE t == TimevalOf(now)
<1>1. PICK draw \in [Matches[m] -> Draws] :
        LET says == [c \in Chains \ {0} |->
                       IF c \in Matches[m] THEN chain_decide(c, t, draw[c])
                                           ELSE Accept("UNPROCESSED")]
            global == GlobalVerdict(says)
            default == global.flag = "UNPROCESSED" /\ NumChains > 0
            spoke == Matches[m] \cup IF default THEN {0} ELSE {}
        IN  \E default_draw \in IF default THEN Draws ELSE {NoDraw} :
              LET drawn == [c \in spoke |-> IF c = 0 THEN default_draw ELSE draw[c]]
              IN  /\ verdict' = ZeroDelayIsAccept(
                                  IF default THEN chain_decide(0, t, drawn[0])
                                             ELSE global)
                  /\ chain_verdicts' = [c \in spoke |->
                                          [says   |-> chain_decide(c, t, drawn[c]),
                                           stable |-> drawn[c].stable]]
                  /\ last_packet_release_time' =
                       [c \in Chains |-> IF c \in spoke
                                           THEN NewReleaseTime(c, t, drawn[c])
                                           ELSE last_packet_release_time[c]]
  BY DEF decide
<1> DEFINE says == [c \in Chains \ {0} |->
                       IF c \in Matches[m] THEN chain_decide(c, t, draw[c])
                                           ELSE Accept("UNPROCESSED")]
           global == GlobalVerdict(says)
           default == global.flag = "UNPROCESSED" /\ NumChains > 0
           spoke == Matches[m] \cup IF default THEN {0} ELSE {}
<1>2. PICK default_draw \in Draws :
        LET drawn == [c \in spoke |-> IF c = 0 THEN default_draw ELSE draw[c]]
        IN  /\ verdict' = ZeroDelayIsAccept(
                            IF default THEN chain_decide(0, t, drawn[0]) ELSE global)
            /\ chain_verdicts' = [c \in spoke |->
                                    [says   |-> chain_decide(c, t, drawn[c]),
                                     stable |-> drawn[c].stable]]
            /\ last_packet_release_time' =
                 [c \in Chains |-> IF c \in spoke
                                     THEN NewReleaseTime(c, t, drawn[c])
                                     ELSE last_packet_release_time[c]]
  <2>1. NoDraw \in Draws
    BY DEF NoDraw, Draws
  <2> HIDE DEF t
  <2> QED
    BY <1>1, <2>1
<1> DEFINE drawn == [c \in spoke |-> IF c = 0 THEN default_draw ELSE draw[c]]
           heard == [c \in Matches[m] |-> [says   |-> chain_decide(c, t, draw[c]),
                                           stable |-> draw[c].stable]]
<1>3. NumChains \in Nat /\ Matches[m] \subseteq 1 .. NumChains - 1
  BY PacketLogicAssumption
<1>4. Chains \ {0} = 1 .. NumChains - 1
  BY <1>3 DEF Chains
<1>5. \A c \in Matches[m] : c \in Chains /\ c # 0 /\ draw[c] \in Draws
  BY <1>3, <1>4
<1>6. says = [c \in 1 .. NumChains - 1 |-> SaysOf(heard, c)]
  BY <1>4 DEF SaysOf
<1>7. \A c \in Matches[m] : chain_decide(c, t, draw[c]) \in Answers
  BY <1>5, ChainAnswers
<1>8. spoke \subseteq Chains /\ drawn \in [spoke -> Draws]
  BY <1>3, <1>5 DEF Chains
<1>9. /\ verdict' = ZeroDelayIsAccept(
                      IF default THEN chain_decide(0, t, drawn[0]) ELSE global)
      /\ chain_verdicts' = [c \in spoke |->
                              [says   |-> chain_decide(c, t, drawn[c]),
                               stable |-> drawn[c].stable]]
      /\ last_packet_release_time' =
           [c \in Chains |-> IF c \in spoke
                               THEN NewReleaseTime(c, t, drawn[c])
                               ELSE last_packet_release_time[c]]
  BY <1>2
<1>10. /\ DOMAIN heard = Matches[m]
       /\ \A c \in DOMAIN heard : heard[c].says \in Answers
  BY <1>7
<1>11. Drawn(drawn)
  <2>1. DOMAIN chain_verdicts' = spoke
    BY <1>9
  <2>2. \A c \in spoke : /\ chain_verdicts'[c].says = chain_decide(c, t, drawn[c])
                         /\ chain_verdicts'[c].stable = drawn[c].stable
    BY <1>9
  <2> HIDE DEF drawn, spoke
  <2> QED
    BY <1>8, <1>9, <2>1, <2>2 DEF Drawn
<1>12. CASE default
  <2>1. Matches[m] = {}
    <3>1. GlobalVerdict(says).flag = "UNPROCESSED" <=> DOMAIN heard = {}
      <4> HIDE DEF says, heard, global
      <4> QED
        BY <1>3, <1>6, <1>10, <1>12, GlobalFollowsRules
    <3> QED
      BY <1>10, <1>12, <3>1
  <2>2. spoke = {0} /\ 0 \in Chains
    BY <1>3, <1>12, <2>1 DEF Chains
  <2>3. drawn[0] \in Draws /\ chain_decide(0, t, drawn[0]) \in Answers
    <3>1. drawn[0] \in Draws
      BY <2>2
    <3> HIDE DEF drawn
    <3> QED
      BY <2>2, <3>1, ChainAnswers
  <2>4. /\ DOMAIN chain_verdicts' = {0}
        /\ chain_verdicts'[0].says = chain_decide(0, t, drawn[0])
        /\ verdict' = ZeroDelayIsAccept(chain_decide(0, t, drawn[0]))
    BY <1>9, <1>12, <2>2
  <2>5. Follows(ZeroDelayIsAccept(chain_verdicts'[0].says), chain_verdicts')
    <3> HIDE DEF drawn, global
    <3> QED
      BY <1>12, <2>3, <2>4, DefaultFollowsRules
  <2>6. verdict' \in Verdicts
    BY <2>3, <2>4, ZeroDelayType DEF Answers
  <2> QED
    BY <1>11, <2>4, <2>5, <2>6
<1>13. CASE ~default /\ NumChains > 0
  <2>1. spoke = Matches[m]
    BY <1>13
  <2>2. chain_verdicts' = heard
    <3>1. \A c \in Matches[m] : drawn[c] = draw[c]
      BY <1>5, <2>1
    <3> HIDE DEF drawn
    <3> QED
      BY <1>9, <2>1, <3>1
  <2>3. verdict' = ZeroDelayIsAccept(global) /\ global.flag # "UNPROCESSED"
    BY <1>9, <1>13
  <2>4. /\ GlobalVerdict(says) \in Verdicts
        /\ GlobalVerdict(says).flag = "UNPROCESSED" <=> DOMAIN heard = {}
        /\ DOMAIN heard # {} => Follows(ZeroDelayIsAccept(GlobalVerdict(says)), heard)
    <3> HIDE DEF says, heard, global
    <3> QED
      BY <1>3, <1>6, <1>10, <1>13, GlobalFollowsRules
  <2> HIDE DEF says, heard
  <2>5. verdict' \in Verdicts
    BY <2>3, <2>4, ZeroDelayType
  <2> QED
    BY <1>11, <2>2, <2>3, <2>4, <2>5
<1>14. CASE ~(NumChains > 0)
  <2>1. NumChains = 0 /\ Matches[m] = {} /\ spoke = {} /\ 1 .. NumChains - 1 = {}
    BY <1>3, <1>14
  <2>2. global = Accept("UNPROCESSED")
    <3>1. says \in [1 .. 0 -> Verdicts]
      BY <1>4, <2>1
    <3> HIDE DEF says
    <3>2. \E upto \in [0 .. 0 -> Verdicts] :
            upto[0] = Accept("UNPROCESSED") /\ GlobalVerdict(says) = upto[0]
      BY <3>1, GlobalVerdictSteps
    <3> QED
      BY <3>2
  <2>3. DOMAIN chain_verdicts' = {} /\ verdict' = ZeroDelayIsAccept(global)
    BY <1>9, <1>14, <2>1
  <2>4. TotalDelay(chain_verdicts') = 0
    BY <2>1, <2>3, FewAnswers
  <2>5. verdict'.action = "ACCEPT"
    BY <2>2, <2>3 DEF ZeroDelayIsAccept, Accept
  <2>6. verdict' \in Verdicts
    BY <2>2, <2>3, ZeroDelayType DEF Accept, Verdicts, Actions
  <2> QED
    BY <1>11, <2>3, <2>4, <2>5, <2>6 DEF Follows
<1> QED
  BY <1>12, <1>13, <1>14

LEMMA InitLogicIInv == ASSUME LogicInit PROVE LogicIInv
<1>1. now \in Nat /\ last_packet_release_time \in [Chains -> Timevals]
  BY TimevalAssumption DEF LogicInit, Timevals
<1>2. VerdictFollowsRules
  <2>1. DOMAIN chain_verdicts = {} /\ verdict.action = "ACCEPT"
    BY DEF LogicInit, NoVerdict, Accept
  <2>2. TotalDelay(chain_verdicts) = 0
    <3>1. NumChains > 0 => DelayOf(chain_verdicts, 0) = 0
      BY <2>1 DEF DelayOf
    <3> QED
      BY <2>1, <3>1, FewAnswers
  <2> QED
    BY <2>1, <2>2 DEF VerdictFollowsRules
<1>3. verdict \in Verdicts
  BY DEF LogicInit, NoVerdict, Accept, Verdicts, Actions
<1> QED
  BY <1>1, <1>2, <1>3 DEF LogicIInv

(* A packet accepted unseen: no chain took part.                            *)
LEMMA UnseenEffect ==
  ASSUME LogicIInv, verdict' = Accept("UNPROCESSED"), chain_verdicts' = <<>>,
         UNCHANGED last_packet_release_time
  PROVE  /\ \E drawn : Drawn(drawn)
         /\ verdict' \in Verdicts /\ Follows(verdict', chain_verdicts')
<1>1. DOMAIN chain_verdicts' = {} /\ verdict'.action = "ACCEPT" /\ verdict' \in Verdicts
  BY DEF Accept, Verdicts, Actions
<1>2. TotalDelay(chain_verdicts') = 0
  <2>1. NumChains > 0 => DelayOf(chain_verdicts', 0) = 0
    BY <1>1 DEF DelayOf
  <2> QED
    BY <1>1, <2>1, FewAnswers
<1>3. Drawn(<<>>)
  <2>1. last_packet_release_time' = [c \in Chains |-> last_packet_release_time[c]]
    BY DEF LogicIInv
  <2>2. <<>> \in [DOMAIN chain_verdicts' -> Draws]
    BY <1>1
  <2> QED
    BY <1>1, <2>1, <2>2 DEF Drawn
<1> QED
  BY <1>1, <1>2, <1>3 DEF Follows

(* One judgement.                                                          *)
LEMMA JudgementEffect ==
  ASSUME LogicIInv, NEW m \in Kinds, decide_what_to_do_with_packet(m)
  PROVE  /\ \E drawn : Drawn(drawn)
         /\ verdict' \in Verdicts /\ Follows(verdict', chain_verdicts')
<1>1. CASE m \notin EmptyPackets /\ decide(m)
  BY <1>1, DecideEffect DEF LogicIInv
<1>2. CASE /\ verdict' = Accept("UNPROCESSED") /\ chain_verdicts' = <<>>
           /\ UNCHANGED last_packet_release_time
  BY <1>2, UnseenEffect
<1> QED
  BY <1>1, <1>2 DEF decide_what_to_do_with_packet

LEMMA EffectKeepsIInv ==
  ASSUME LogicIInv, UNCHANGED now, NEW drawn, Drawn(drawn),
         verdict' \in Verdicts, Follows(verdict', chain_verdicts')
  PROVE  LogicIInv'
<1>1. \A c \in DOMAIN chain_verdicts' :
        c \in Chains /\ NewReleaseTime(c, TimevalOf(now), drawn[c]) \in Timevals
  BY ChainAnswers DEF Drawn, LogicIInv
<1>2. last_packet_release_time' \in [Chains -> Timevals]
  BY <1>1 DEF Drawn, LogicIInv
<1>3. VerdictFollowsRules'
  BY DEF Follows, VerdictFollowsRules
<1> QED
  BY <1>2, <1>3 DEF LogicIInv

LEMMA ClockKeepsLogicIInv ==
  ASSUME LogicIInv, now' \in Nat,
         UNCHANGED <<last_packet_release_time, verdict, chain_verdicts>>
  PROVE  LogicIInv'
<1>1. VerdictFollowsRules'
  BY DEF LogicIInv, VerdictFollowsRules
<1> QED
  BY <1>1 DEF LogicIInv

LEMMA LogicNextKeepsIInv ==
  ASSUME LogicIInv, [LogicNext]_logicVars
  PROVE  LogicIInv'
<1>1. CASE Decide
  BY <1>1, JudgementEffect, EffectKeepsIInv DEF Decide
<1>2. CASE LogicTick
  <2>1. now' \in Nat
    BY <1>2 DEF LogicTick, LogicIInv
  <2> QED
    BY <1>2, <2>1, ClockKeepsLogicIInv DEF LogicTick
<1>3. CASE UNCHANGED logicVars
  BY <1>3, ClockKeepsLogicIInv DEF logicVars, LogicIInv
<1> QED
  BY <1>1, <1>2, <1>3 DEF LogicNext

(* The inductive invariant holds in every state.                           *)
THEOREM LogicInvariant == LogicSpec => []LogicIInv
<1>1. LogicInit => LogicIInv
  BY InitLogicIInv
<1>2. LogicIInv /\ [LogicNext]_logicVars => LogicIInv'
  BY LogicNextKeepsIInv
<1> QED
  BY <1>1, <1>2, PTL DEF LogicSpec

(* Whatever the chains, their filters and their draws: the verdict is the  *)
(* one that the rules of the user's guide give, for packets that the       *)
(* default chain judges and those without data too.                        *)
THEOREM VerdictAlwaysFollowsRules == LogicSpec => []VerdictFollowsRules
<1>1. LogicIInv => VerdictFollowsRules
  BY DEF LogicIInv
<1> QED
  BY <1>1, LogicInvariant, PTL

(* The verdict is one that main.c knows, with a delay that is no negative  *)
(* number, and the chains keep times that are timevals.                    *)
THEOREM LogicTypeCorrect == LogicSpec => []LogicTypeOK
<1>1. LogicIInv => LogicTypeOK
  BY DEF LogicIInv, LogicTypeOK, Verdicts, Actions
<1> QED
  BY <1>1, LogicInvariant, PTL

(* What a judgement does to a chain's release time.                        *)
LEMMA ChainStep ==
  ASSUME LogicIInv, NEW drawn, Drawn(drawn), NEW c \in Chains
  PROVE  IF c \in DOMAIN chain_verdicts'
           THEN LET last == last_packet_release_time[c]
                    new == last_packet_release_time'[c]
                    answer == chain_verdicts'[c]
                IN  /\ IF answer.says.action = "DELAY"
                         THEN Microseconds(new) = now + answer.says.delay_len * UsecPerMsec
                         ELSE new = last
                    /\ answer.says.action = "DELAY" /\ answer.stable /\ last.sec # 0
                         => Microseconds(new) + UsecPerMsec > Microseconds(last)
           ELSE last_packet_release_time'[c] = last_packet_release_time[c]
<1>1. CASE c \in DOMAIN chain_verdicts'
  <2>1. drawn[c] \in Draws
    BY <1>1 DEF Drawn
  <2>2. /\ chain_verdicts'[c].says = chain_decide(c, TimevalOf(now), drawn[c])
        /\ chain_verdicts'[c].stable = drawn[c].stable
        /\ last_packet_release_time'[c] = NewReleaseTime(c, TimevalOf(now), drawn[c])
    BY <1>1 DEF Drawn
  <2> QED
    BY <1>1, <2>1, <2>2, ChainAnswers DEF LogicIInv
<1>2. CASE c \notin DOMAIN chain_verdicts'
  BY <1>2 DEF Drawn
<1> QED
  BY <1>1, <1>2

LEMMA JudgedIfChanged ==
  ASSUME LogicIInv, [LogicNext]_logicVars,
         ~ UNCHANGED <<last_packet_release_time, chain_verdicts>>
  PROVE  \E drawn : Drawn(drawn)
<1>1. Decide
  BY DEF LogicNext, LogicTick, logicVars
<1> QED
  BY <1>1, JudgementEffect DEF Decide

(* A chain that delays a packet remembers when the packet is to leave; no  *)
(* other chain's memory changes, whatever the verdict was.                 *)
THEOREM ReleaseTimesAreKept == LogicSpec => EachChainKeepsItsTime
<1> DEFINE Kept ==
      \A c \in Chains :
        IF c \in DOMAIN chain_verdicts' /\ chain_verdicts'[c].says.action = "DELAY"
          THEN Microseconds(last_packet_release_time'[c]) =
                 now + chain_verdicts'[c].says.delay_len * UsecPerMsec
          ELSE UNCHANGED last_packet_release_time[c]
<1>1. ASSUME LogicIInv, [LogicNext]_logicVars,
             ~ UNCHANGED <<last_packet_release_time, chain_verdicts>>
      PROVE  Kept
  BY <1>1, JudgedIfChanged, ChainStep
<1>2. LogicIInv /\ [LogicNext]_logicVars
        => [Kept]_<<last_packet_release_time, chain_verdicts>>
  BY <1>1
<1> QED
  BY <1>2, LogicInvariant, PTL DEF LogicSpec, EachChainKeepsItsTime

(* Stable delays step back by less than a millisecond, for any times and   *)
(* delays and any length of a second that is a number of milliseconds.     *)
THEOREM StableDelaysHardlyStepBack == LogicSpec => StableDrift
<1> DEFINE Drift ==
      \A c \in DOMAIN chain_verdicts' :
        LET old == last_packet_release_time[c]
            new == Microseconds(last_packet_release_time'[c])
        IN  /\ chain_verdicts'[c].says.action = "DELAY"
            /\ chain_verdicts'[c].stable
            /\ old.sec # 0
            => new + UsecPerMsec > Microseconds(old)
<1>1. ASSUME LogicIInv, [LogicNext]_logicVars,
             ~ UNCHANGED <<last_packet_release_time, chain_verdicts>>
      PROVE  Drift
  <2>1. PICK drawn : Drawn(drawn)
    BY <1>1, JudgedIfChanged
  <2>2. DOMAIN chain_verdicts' \subseteq Chains
    BY <2>1 DEF Drawn
  <2> QED
    BY <1>1, <2>1, <2>2, ChainStep
<1>2. LogicIInv /\ [LogicNext]_logicVars
        => [Drift]_<<last_packet_release_time, chain_verdicts>>
  BY <1>1
<1> QED
  BY <1>2, LogicInvariant, PTL DEF LogicSpec, StableDrift
-----------------------------------------------------------------------------
(***************************************************************************)
(* The binary search.                                                      *)
(***************************************************************************)
Answer == [found : BOOLEAN, place : Int]

(* The place that is looked at.                                            *)
Mid(r) == (r[1] + r[2]) \div 2

(* The search ends when nothing is left, or at the key.                    *)
Ends(key, t) == {r \in Ranges(t) : r[1] > r[2] \/ key = t[Mid(r) + 1].prob}

(* What is searched next.                                                  *)
Narrowed(key, t) ==
  [r \in Ranges(t) |->
     IF r \in Ends(key, t) THEN r
     ELSE IF key < t[Mid(r) + 1].prob THEN <<r[1], Mid(r) - 1>>
                                      ELSE <<Mid(r) + 1, r[2]>>]

(* How many places are left to search.                                     *)
Left(t) == [r \in Ranges(t) |-> IF r[1] > r[2] THEN 0 ELSE r[2] - r[1] + 1]

(* What the search answers at its end.                                     *)
EndAnswer(t) ==
  [r \in Ranges(t) |-> IF r[1] > r[2] THEN [found |-> FALSE, place |-> r[2] + 1]
                                      ELSE [found |-> TRUE, place |-> Mid(r)]]

(* A table with a point, and numbers for probabilities.                    *)
Probs(t) == Len(t) \in Nat \ {0} /\ \A i \in 1 .. Len(t) : t[i].prob \in Int

(* The middle of a range is in it, and in the table. *)
LEMMA MidWithin ==
  ASSUME NEW t, Probs(t), NEW r \in Ranges(t), r[1] <= r[2]
  PROVE  /\ Mid(r) \in r[1] .. r[2] /\ Mid(r) \in Nat /\ Mid(r) + 1 \in 1 .. Len(t)
         /\ r[1] \in Nat /\ r[2] \in Nat /\ r = <<r[1], r[2]>>
<1>1. r[1] \in 0 .. Len(t) /\ r[2] \in -1 .. Len(t) - 1 /\ r = <<r[1], r[2]>> /\ Len(t) \in Nat
  BY DEF Ranges, Probs
<1> DEFINE n == r[1] + r[2]
<1>2. n \in Nat
  BY <1>1
<1>3. n \div 2 \in Nat /\ n \in {2 * (n \div 2), 2 * (n \div 2) + 1}
  <2> HIDE DEF n
  <2> QED
    BY <1>2
<1> QED
  BY <1>1, <1>3 DEF Mid

(* Each step of the search leaves less to search. *)
LEMMA SearchDescends ==
  ASSUME NEW t, Probs(t), NEW key \in Int
  PROVE  Descends(Ranges(t), Ends(key, t), Narrowed(key, t), Left(t))
<1>1. ASSUME NEW r \in Ranges(t)
      PROVE  Left(t)[r] \in Nat
  BY DEF Left, Ranges, Probs
<1>2. ASSUME NEW r \in Ranges(t) \ Ends(key, t)
      PROVE  Narrowed(key, t)[r] \in Ranges(t) /\ Left(t)[Narrowed(key, t)[r]] < Left(t)[r]
  <2>1. r[1] <= r[2]
    BY DEF Ends, Ranges, Probs
  <2>2. /\ Mid(r) \in r[1] .. r[2] /\ Mid(r) \in Nat
        /\ r[1] \in 0 .. Len(t) /\ r[2] \in -1 .. Len(t) - 1 /\ Len(t) \in Nat
    BY <2>1, MidWithin DEF Ranges, Probs
  <2>3. \/ Narrowed(key, t)[r] = <<r[1], Mid(r) - 1>>
        \/ Narrowed(key, t)[r] = <<Mid(r) + 1, r[2]>>
    BY DEF Narrowed
  <2>4. Narrowed(key, t)[r] \in Ranges(t)
    BY <2>2, <2>3 DEF Ranges
  <2>5. Left(t)[r] = r[2] - r[1] + 1
    BY <2>1, <2>2 DEF Left
  <2> DEFINE q == Narrowed(key, t)[r]
  <2>6. /\ Left(t)[q] = IF q[1] > q[2] THEN 0 ELSE q[2] - q[1] + 1
        /\ q[1] \in Int /\ q[2] \in Int
    BY <2>4 DEF Left, Ranges, Probs
  <2>7. q[2] - q[1] < r[2] - r[1]
    <3>1. q = <<r[1], Mid(r) - 1>> \/ q = <<Mid(r) + 1, r[2]>>
      BY <2>3
    <3>2. r[1] <= Mid(r) /\ Mid(r) <= r[2] /\ r[1] \in Int /\ r[2] \in Int
      BY <2>2
    <3> HIDE DEF q
    <3>3. \/ q[1] = r[1] /\ q[2] = Mid(r) - 1
          \/ q[1] = Mid(r) + 1 /\ q[2] = r[2]
      BY <3>1
    <3> QED
      BY <2>2, <3>2, <3>3
  <2> HIDE DEF q
  <2>8. Left(t)[q] < Left(t)[r]
    <3>1. r[1] \in Int /\ r[2] \in Int
      BY <2>2
    <3>2. CASE q[1] > q[2]
      BY <2>1, <2>5, <2>6, <3>1, <3>2
    <3>3. CASE ~ (q[1] > q[2])
      BY <2>5, <2>6, <2>7, <3>1, <3>3
    <3> QED
      BY <3>2, <3>3
  <2> QED
    BY <2>4, <2>8 DEF q
<1>3. ASSUME NEW r \in Ranges(t)
      PROVE  Narrowed(key, t)[r] \in Ranges(t)
  <2>1. CASE r \in Ends(key, t)
    BY <2>1 DEF Narrowed
  <2> QED
    BY <1>2, <2>1
<1>4. Left(t) \in [Ranges(t) -> Nat]
  BY <1>1 DEF Left
<1>5. Narrowed(key, t) \in [Ranges(t) -> Ranges(t)]
  BY <1>3 DEF Narrowed
<1> QED
  BY <1>2, <1>4, <1>5 DEF Descends

(* What SFO_bsearch chooses its function by.                               *)
IsSearch(f, key, t) ==
  f = [range \in Ranges(t) |->
         LET low == range[1]
             high == range[2]
             mid == (low + high) \div 2
         IN  IF low > high THEN [found |-> FALSE, place |-> high + 1]
             ELSE IF key < t[mid + 1].prob THEN f[<<low, mid - 1>>]
             ELSE IF key > t[mid + 1].prob THEN f[<<mid + 1, high>>]
             ELSE [found |-> TRUE, place |-> mid]]

(* The search is defined, by its end and its steps.                        *)
LEMMA SearchSteps ==
  ASSUME NEW t, Probs(t), NEW key \in Int
  PROVE  \E f : /\ SFO_bsearch(key, t) = f[<<0, Len(t) - 1>>]
                /\ \A r \in Ranges(t) :
                     f[r] = IF r \in Ends(key, t) THEN EndAnswer(t)[r]
                                                  ELSE f[Narrowed(key, t)[r]]
<1> DEFINE D == Ranges(t)
           B == Ends(key, t)
           p == Narrowed(key, t)
           m == Left(t)
           c == EndAnswer(t)
           g == [q \in D \X Answer |-> q[2]]
           f == CHOOSE f : IsSearch(f, key, t)
<1>1. c \in [D -> Answer]
  <2>1. ASSUME NEW r \in D PROVE c[r] \in Answer
    <3>1. CASE r[1] > r[2]
      BY <3>1 DEF EndAnswer, Answer, Ranges, Probs
    <3>2. CASE ~ (r[1] > r[2])
      <4>1. r[1] <= r[2]
        BY <3>2 DEF Ranges, Probs
      <4>2. Mid(r) \in Nat
        BY <4>1, MidWithin
      <4> QED
        BY <3>2, <4>2 DEF EndAnswer, Answer
    <3> QED
      BY <3>1, <3>2
  <2> QED
    BY <2>1 DEF EndAnswer
<1>2. g \in [D \X Answer -> Answer]
  OBVIOUS
<1>3. Descends(D, B, p, m)
  BY SearchDescends
<1>4. PICK h \in [D -> Answer] : Unfolds(h, D, B, c, g, p)
  <2> HIDE DEF D, B, p, m, c, g
  <2> QED
    BY <1>1, <1>2, <1>3, DescentFunction
<1>5. ASSUME NEW r \in D
      PROVE  h[r] = IF r \in B THEN c[r] ELSE h[p[r]]
  <2>1. p[r] \in D /\ h[p[r]] \in Answer
    BY <1>3, <1>4 DEF Descends
  <2>2. g[<<r, h[p[r]]>>] = h[p[r]]
    BY <2>1
  <2>3. h[r] = IF r \in B THEN c[r] ELSE g[<<r, h[p[r]]>>]
    BY <1>4 DEF Unfolds
  <2> HIDE DEF g
  <2> QED
    BY <2>2, <2>3
<1>6. ASSUME NEW k, NEW r \in D
      PROVE  (IF r[1] > r[2] THEN [found |-> FALSE, place |-> r[2] + 1]
              ELSE IF key < t[Mid(r) + 1].prob THEN k[<<r[1], Mid(r) - 1>>]
              ELSE IF key > t[Mid(r) + 1].prob THEN k[<<Mid(r) + 1, r[2]>>]
              ELSE [found |-> TRUE, place |-> Mid(r)])
             = IF r \in B THEN c[r] ELSE k[p[r]]
  <2>1. CASE r[1] > r[2]
    BY <2>1 DEF Ends, EndAnswer
  <2>2. CASE ~ (r[1] > r[2])
    <3>1. r[1] <= r[2]
      BY <2>2 DEF Ranges, Probs
    <3>2. t[Mid(r) + 1].prob \in Int
      BY <3>1, MidWithin DEF Probs
    <3> DEFINE x == t[Mid(r) + 1].prob
    <3>3. r \in B <=> key = x
      BY <2>2 DEF Ends
    <3>4. c[r] = [found |-> TRUE, place |-> Mid(r)]
      BY <2>2 DEF EndAnswer
    <3>5. key # x => p[r] = IF key < x THEN <<r[1], Mid(r) - 1>> ELSE <<Mid(r) + 1, r[2]>>
      BY <3>3 DEF Narrowed
    <3> HIDE DEF x, B, c, p
    <3>6. x \in Int
      BY <3>2 DEF x
    <3>7. CASE key < x
      BY <2>2, <3>3, <3>5, <3>6, <3>7 DEF x
    <3>8. CASE key > x
      BY <2>2, <3>3, <3>5, <3>6, <3>8 DEF x
    <3>9. CASE key = x
      BY <2>2, <3>3, <3>4, <3>9 DEF x
    <3> QED
      BY <3>6, <3>7, <3>8, <3>9
  <2> QED
    BY <2>1, <2>2
<1>7. ASSUME NEW k
      PROVE  IsSearch(k, key, t) <=> k = [r \in D |-> IF r \in B THEN c[r] ELSE k[p[r]]]
  <2> DEFINE body(r) == IF r[1] > r[2] THEN [found |-> FALSE, place |-> r[2] + 1]
                        ELSE IF key < t[Mid(r) + 1].prob THEN k[<<r[1], Mid(r) - 1>>]
                        ELSE IF key > t[Mid(r) + 1].prob THEN k[<<Mid(r) + 1, r[2]>>]
                        ELSE [found |-> TRUE, place |-> Mid(r)]
  <2>1. IsSearch(k, key, t) <=> k = [r \in D |-> body(r)]
    BY Zenon DEF IsSearch, Mid
  <2>2. \A r \in D : body(r) = IF r \in B THEN c[r] ELSE k[p[r]]
    BY Zenon, <1>6
  <2> HIDE DEF D, B, c, p, body
  <2> QED
    BY Zenon, <2>1, <2>2
<1>8. IsSearch(h, key, t)
  <2> HIDE DEF D, B, c, p
  <2>1. h = [r \in D |-> IF r \in B THEN c[r] ELSE h[p[r]]]
    BY <1>5
  <2> QED
    BY <1>7, <2>1
<1>9. IsSearch(f, key, t)
  BY <1>8
<1>10. SFO_bsearch(key, t) = f[<<0, Len(t) - 1>>]
  BY DEF SFO_bsearch, IsSearch
<1> HIDE DEF D, B, c, p, f
<1>11. \A r \in D : f[r] = IF r \in B THEN c[r] ELSE f[p[r]]
  BY <1>7, <1>9
<1> QED
  BY <1>10, <1>11 DEF D, B, c, p

(* A table is a sequence of at least two points that ascend.               *)
LEMMA TablesAscend ==
  ASSUME NEW t \in Tables
  PROVE  /\ t \in Seq(Point) /\ Len(t) \in Nat \ {0, 1} /\ Probs(t)
         /\ \A i \in 1 .. Len(t) : t[i] \in Point
         /\ t[1].prob = 0 /\ t[Len(t)].prob = One
         /\ \A i, j \in 1 .. Len(t) : i <= j => t[i].prob <= t[j].prob
<1>1. PICK n \in 2 .. MaxPoints : t \in [1 .. n -> Point]
  BY DEF Tables
<1>2. n \in Nat /\ n \notin {0, 1}
  BY SplitLinearAssumption
<1>3. t \in Seq(Point) /\ Len(t) = n
  BY <1>1, <1>2
<1>4. \A i \in 1 .. Len(t) : t[i] \in Point /\ t[i].prob \in Int
  <2>1. \A x \in Point : x.prob \in Int
    BY SplitLinearAssumption DEF Point
  <2> QED
    BY <1>1, <1>3, <2>1
<1>5. t[1].prob = 0 /\ t[Len(t)].prob = One
  BY DEF Tables
<1>6. \A i \in 1 .. Len(t) - 1 : t[i].prob <= t[i + 1].prob
  BY DEF Tables
<1>7. ASSUME NEW i \in 1 .. n
      PROVE  \A j \in 1 .. n : i <= j => t[i].prob <= t[j].prob
  <2> DEFINE T == {k \in 0 .. n - i : t[i].prob <= t[i + k].prob}
  <2>1. n - i \in Nat
    BY <1>2
  <2>2. 0 \in T
    BY <1>2, <1>3, <1>4
  <2>3. ASSUME NEW k \in 0 .. (n - i) - 1, k \in T PROVE k + 1 \in T
    <3>1. i + k \in 1 .. n - 1 /\ (i + k) + 1 = i + (k + 1) /\ k + 1 \in 0 .. n - i
      BY <1>2
    <3>2. t[i].prob <= t[i + k].prob /\ t[i + k].prob <= t[(i + k) + 1].prob
      BY <1>3, <1>6, <2>3, <3>1
    <3>3. i \in 1 .. n /\ i + k \in 1 .. n /\ (i + k) + 1 \in 1 .. n
      BY <1>2, <3>1
    <3>4. t[i].prob <= t[(i + k) + 1].prob
      BY <1>3, <1>4, <3>2, <3>3
    <3> QED
      BY <3>1, <3>4
  <2>4. 0 .. n - i \subseteq T
    <3> HIDE DEF T
    <3> QED
      BY <2>1, <2>2, <2>3, InductionTo
  <2> SUFFICES ASSUME NEW j \in 1 .. n, i <= j PROVE t[i].prob <= t[j].prob
    OBVIOUS
  <2>5. j - i \in 0 .. n - i /\ i + (j - i) = j
    BY <1>2
  <2> QED
    BY <2>4, <2>5
<1> QED
  BY <1>2, <1>3, <1>4, <1>5, <1>7 DEF Probs

(* What the search promises: a place with the key, or else the place the   *)
(* key belongs at.                                                         *)
Finds(a, key, t) ==
  IF a.found
    THEN a.place \in Indices(t) /\ At(t, a.place).prob = key
    ELSE /\ a.place \in 0 .. Len(t)
         /\ \A i \in Indices(t) : /\ i < a.place => At(t, i).prob < key
                                  /\ i >= a.place => At(t, i).prob > key

(* The key is not before the range nor after it.                           *)
NotOutside(r, key, t) ==
  \A i \in Indices(t) : /\ i < r[1] => At(t, i).prob < key
                        /\ i > r[2] => At(t, i).prob > key

(* A search of the whole table keeps its promise. *)
LEMMA SearchFinds ==
  ASSUME NEW t \in Tables, NEW key \in Int
  PROVE  Finds(SFO_bsearch(key, t), key, t)
<1> DEFINE D == Ranges(t)
           B == Ends(key, t)
           p == Narrowed(key, t)
<1>1. /\ Probs(t) /\ Len(t) \in Nat /\ Len(t) > 0
      /\ \A i, j \in Indices(t) : i <= j => At(t, i).prob <= At(t, j).prob
      /\ \A i \in Indices(t) : At(t, i).prob \in Int
  BY TablesAscend DEF Indices, At, Probs
<1>2. PICK f : /\ SFO_bsearch(key, t) = f[<<0, Len(t) - 1>>]
               /\ \A r \in D : f[r] = IF r \in B THEN EndAnswer(t)[r] ELSE f[p[r]]
  BY <1>1, SearchSteps
<1> DEFINE T == {r \in D : NotOutside(r, key, t) => Finds(f[r], key, t)}
<1>3. ASSUME NEW r \in D, r \in B \/ p[r] \in T, NotOutside(r, key, t)
      PROVE  Finds(f[r], key, t)
  <2>1. r[1] \in 0 .. Len(t) /\ r[2] \in -1 .. Len(t) - 1
    BY DEF Ranges
  <2>2. CASE r[1] > r[2]
    <3>1. f[r] = [found |-> FALSE, place |-> r[2] + 1]
      BY <1>2, <2>2 DEF Ends, EndAnswer
    <3>2. r[2] + 1 \in 0 .. Len(t)
      BY <1>1, <2>1
    <3>3. \A i \in Indices(t) : /\ i < r[2] + 1 => At(t, i).prob < key
                                /\ i >= r[2] + 1 => At(t, i).prob > key
      BY <1>1, <1>3, <2>1, <2>2 DEF NotOutside, Indices
    <3> QED
      BY <3>1, <3>2, <3>3 DEF Finds
  <2>3. CASE r[1] <= r[2]
    <3> DEFINE m == Mid(r)
               x == At(t, m).prob
    <3>1. m \in r[1] .. r[2] /\ m \in Indices(t) /\ x \in Int
      <4>1. m \in r[1] .. r[2] /\ m \in Nat /\ m + 1 \in 1 .. Len(t)
        BY <1>1, <2>3, MidWithin
      <4> QED
        BY <1>1, <4>1 DEF Indices
    <3>2. r \in B <=> key = x
      BY <2>1, <2>3 DEF Ends, At
    <3>3. CASE key = x
      <4>1. f[r] = [found |-> TRUE, place |-> m]
        <5>1. EndAnswer(t)[r] = [found |-> TRUE, place |-> m]
          BY <2>1, <2>3 DEF EndAnswer
        <5>2. r \in B
          BY <3>2, <3>3
        <5> HIDE DEF B, m
        <5> QED
          BY <1>2, <5>1, <5>2
      <4> QED
        BY <3>1, <3>3, <4>1 DEF Finds
    <3>4. CASE key < x
      <4>1. r \notin B /\ p[r] = <<r[1], m - 1>>
        BY <3>1, <3>2, <3>4 DEF Narrowed, At
      <4>2. NotOutside(p[r], key, t)
        <5>1. ASSUME NEW i \in Indices(t)
              PROVE  /\ i < r[1] => At(t, i).prob < key
                     /\ i > m - 1 => At(t, i).prob > key
          <6>1. /\ i < r[1] => At(t, i).prob < key
                /\ At(t, i).prob \in Int /\ i \in Int /\ m \in Int
            BY <1>1, <1>3, <3>1 DEF NotOutside, Indices
          <6>2. ASSUME i > m - 1 PROVE At(t, i).prob >= x
            BY <1>1, <3>1, <6>1, <6>2 DEF Indices
          <6> HIDE DEF m, x
          <6> QED
            BY <3>1, <3>4, <6>1, <6>2
        <5> HIDE DEF m, x, p
        <5> QED
          BY <4>1, <5>1 DEF NotOutside
      <4> QED
        BY <1>2, <1>3, <4>1, <4>2
    <3>5. CASE key > x
      <4>1. r \notin B /\ p[r] = <<m + 1, r[2]>>
        BY <3>1, <3>2, <3>5 DEF Narrowed, At
      <4>2. NotOutside(p[r], key, t)
        <5>1. ASSUME NEW i \in Indices(t)
              PROVE  /\ i < m + 1 => At(t, i).prob < key
                     /\ i > r[2] => At(t, i).prob > key
          BY <1>1, <1>3, <3>1, <3>5 DEF NotOutside, Indices
        <5> HIDE DEF m, x, p
        <5> QED
          BY <4>1, <5>1 DEF NotOutside
      <4> QED
        BY <1>2, <1>3, <4>1, <4>2
    <3> QED
      BY <3>1, <3>3, <3>4, <3>5
  <2> QED
    BY <2>1, <2>2, <2>3
<1>4. D \subseteq T
  <2>1. Descends(D, B, p, Left(t))
    BY <1>1, SearchDescends
  <2>2. \A r \in D : r \in B \/ p[r] \in T => r \in T
    BY <1>3
  <2> HIDE DEF D, B, p, T
  <2> QED
    BY <2>1, <2>2, DescentInduction
<1>5. <<0, Len(t) - 1>> \in D /\ NotOutside(<<0, Len(t) - 1>>, key, t)
  BY <1>1 DEF Ranges, NotOutside, Indices
<1> QED
  BY <1>2, <1>4, <1>5

(***************************************************************************)
(* The interpolation.                                                      *)
(***************************************************************************)
LEMMA QuotientBetween ==
  ASSUME NEW s \in Nat \ {0}, NEW n \in Int, NEW lo \in Int, NEW hi \in Int,
         s * lo <= n, n <= s * hi
  PROVE  n \div s \in Int /\ lo <= n \div s /\ n \div s <= hi
<1> DEFINE q == n \div s
           r == n % s
<1>1. q \in Int /\ r \in 0 .. s - 1 /\ n = s * q + r
  OBVIOUS
<1> HIDE DEF q, r
<1>2. ASSUME q < lo PROVE FALSE
  <2>1. PICK d \in Nat \ {0} : lo = q + d
    <3>1. lo - q \in Nat \ {0} /\ lo = q + (lo - q)
      BY <1>1, <1>2
    <3> QED
      BY <3>1
  <2>2. s * lo = s * q + s * d /\ s * d >= s
    <3>1. s * (q + d) = s * q + s * d
      BY <1>1
    <3>2. PICK e \in Nat : d = e + 1
      <4>1. d - 1 \in Nat /\ d = (d - 1) + 1
        OBVIOUS
      <4> QED
        BY <4>1
    <3>3. s * d = s * e + s /\ s * e \in Nat
      BY <3>2
    <3> QED
      BY <2>1, <3>1, <3>3
  <2>3. s * q \in Int /\ s * lo \in Int /\ s * d \in Int
    BY <1>1
  <2> QED
    BY <1>1, <2>2, <2>3
<1>3. ASSUME q > hi PROVE FALSE
  <2>1. PICK d \in Nat \ {0} : q = hi + d
    <3>1. q - hi \in Nat \ {0} /\ q = hi + (q - hi)
      BY <1>1, <1>3
    <3> QED
      BY <3>1
  <2>2. s * q = s * hi + s * d /\ s * d > 0 /\ s * d \in Int
    <3>1. s * (hi + d) = s * hi + s * d
      OBVIOUS
    <3> QED
      BY <2>1, <3>1
  <2>3. s * q \in Int /\ s * hi \in Int
    BY <1>1
  <2> QED
    BY <1>1, <2>2, <2>3
<1> QED
  BY <1>1, <1>2, <1>3 DEF q

(* Whatever the weights, the interpolated delay is between the two.        *)
LEMMA InterpolateBetween ==
  ASSUME NEW key \in Int, NEW x1 \in Int, NEW x2 \in Int, x1 < key, key < x2,
         NEW y1 \in Nat, NEW y2 \in Nat
  PROVE  LET d == Interpolate(key, x1, y1, x2, y2)
         IN  /\ d \in Nat
             /\ \/ y1 <= d /\ d <= y2
                \/ y2 <= d /\ d <= y1
<1> DEFINE a == key - x1
           b == x2 - key
           s == x2 - x1
           n == a * y1 + b * y2
           d == n \div s
<1>1. a \in Nat /\ b \in Nat /\ s = a + b /\ s \in Nat \ {0}
  OBVIOUS
<1>2. Interpolate(key, x1, y1, x2, y2) = d
  BY DEF Interpolate
<1>3. n \in Int
  BY <1>1
<1>4. CASE y1 <= y2
  <2>1. s * y1 <= n /\ n <= s * y2
    <3> HIDE DEF a, b, s
    <3>1. PICK e \in Nat : y2 = y1 + e
      <4>1. y2 - y1 \in Nat /\ y2 = y1 + (y2 - y1)
        BY <1>4
      <4> QED
        BY <4>1
    <3>2. n = s * y1 + b * e /\ s * y2 = n + a * e
      BY <1>1, <3>1
    <3>3. a * e \in Nat /\ b * e \in Nat /\ s * y1 \in Int
      BY <1>1, <3>1
    <3> HIDE DEF n
    <3> QED
      BY <1>3, <3>2, <3>3
  <2> HIDE DEF n, s
  <2>2. d \in Int /\ y1 <= d /\ d <= y2
    BY <1>1, <1>3, <2>1, QuotientBetween
  <2> QED
    BY <1>2, <2>2
<1>5. CASE y2 <= y1
  <2>1. s * y2 <= n /\ n <= s * y1
    <3> HIDE DEF a, b, s
    <3>1. PICK e \in Nat : y1 = y2 + e
      <4>1. y1 - y2 \in Nat /\ y1 = y2 + (y1 - y2)
        BY <1>5
      <4> QED
        BY <4>1
    <3>2. n = s * y2 + a * e /\ s * y1 = n + b * e
      BY <1>1, <3>1
    <3>3. a * e \in Nat /\ b * e \in Nat /\ s * y2 \in Int
      BY <1>1, <3>1
    <3> HIDE DEF n
    <3> QED
      BY <1>3, <3>2, <3>3
  <2> HIDE DEF n, s
  <2>2. d \in Int /\ y2 <= d /\ d <= y1
    BY <1>1, <1>3, <2>1, QuotientBetween
  <2> QED
    BY <1>2, <2>2
<1> QED
  BY <1>4, <1>5

(***************************************************************************)
(* The delay of a draw.                                                    *)
(***************************************************************************)
LEMMA TableDelays ==
  ASSUME NEW t \in Tables, NEW key \in 0 .. One - 1
  PROVE  /\ SplitLinearDelay(key, t) \subseteq Nat
         /\ key # 0 => SplitLinearDelay(key, t) # {}
         /\ \A d \in SplitLinearDelay(key, t), p \in 1 .. Len(t) - 1 :
               t[p].prob < key /\ key < t[p + 1].prob =>
                 \/ t[p].delay <= d /\ d <= t[p + 1].delay
                 \/ t[p + 1].delay <= d /\ d <= t[p].delay
<1> DEFINE a == SFO_bsearch(key, t)
           i == a.place - 1
<1>1. /\ key \in Int /\ Len(t) \in Nat \ {0, 1} /\ One \in Nat
      /\ \A j, k \in Indices(t) : j <= k => At(t, j).prob <= At(t, k).prob
      /\ \A j \in Indices(t) : At(t, j).prob \in Int /\ At(t, j).delay \in Nat
      /\ At(t, 0).prob = 0 /\ At(t, Len(t) - 1).prob = One
  <2>1. ASSUME NEW x \in Point PROVE x.prob \in Int /\ x.delay \in Nat
    <3>1. x.prob \in 0 .. One /\ x.delay \in PointDelays
      BY DEF Point
    <3>2. \A n \in 0 .. One : n \in Int
      BY SplitLinearAssumption
    <3>3. PointDelays \subseteq Nat
      BY SplitLinearAssumption
    <3> QED
      BY <3>1, <3>2, <3>3
  <2>2. /\ Len(t) \in Nat \ {0, 1} /\ t[1].prob = 0 /\ t[Len(t)].prob = One
        /\ \A j \in 1 .. Len(t) : t[j] \in Point
        /\ \A j, k \in 1 .. Len(t) : j <= k => t[j].prob <= t[k].prob
    BY TablesAscend
  <2>3. \A j \in Indices(t) : j + 1 \in 1 .. Len(t) /\ j \in Nat
    BY <2>2 DEF Indices
  <2>4. \A j \in Indices(t) : At(t, j).prob \in Int /\ At(t, j).delay \in Nat
    BY <2>1, <2>2, <2>3 DEF At
  <2>5. \A j, k \in Indices(t) : j <= k => At(t, j).prob <= At(t, k).prob
    BY <2>2, <2>3 DEF At
  <2>6. At(t, 0).prob = 0 /\ At(t, Len(t) - 1).prob = One
    BY <2>2 DEF At
  <2>7. key \in Int /\ One \in Nat
    BY SplitLinearAssumption
  <2> QED
    BY <2>2, <2>4, <2>5, <2>6, <2>7
<1>2. Finds(a, key, t)
  BY <1>1, SearchFinds
<1>3. \A p \in 1 .. Len(t) - 1 : /\ p - 1 \in Indices(t) /\ p \in Indices(t)
                                  /\ t[p] = At(t, p - 1) /\ t[p + 1] = At(t, p)
  BY <1>1 DEF Indices, At
<1>4. CASE a.found
  <2>1. a.place \in Indices(t) /\ At(t, a.place).prob = key /\ a.place \in Nat
    BY <1>1, <1>2, <1>4 DEF Finds, Indices
  <2>2. SplitLinearDelay(key, t) = {At(t, j).delay : j \in {i} \cap Indices(t)}
    BY <1>4 DEF SplitLinearDelay, Searched
  <2>3. key # 0 => i \in Indices(t)
    <3>1. key # 0 => a.place # 0
      BY <1>1, <2>1
    <3> QED
      BY <1>1, <2>1, <3>1 DEF Indices
  <2>4. ASSUME NEW p \in 1 .. Len(t) - 1, t[p].prob < key, key < t[p + 1].prob
        PROVE  FALSE
    <3>1. At(t, p - 1).prob < key /\ key < At(t, p).prob
      BY <1>3, <2>4
    <3>2. a.place <= p - 1 \/ p <= a.place
      BY <1>1, <2>1
    <3> HIDE DEF a
    <3> QED
      BY <1>1, <1>3, <2>1, <3>1, <3>2
  <2> HIDE DEF a, i
  <2> QED
    BY <1>1, <2>2, <2>3, <2>4
<1>5. CASE ~ a.found
  <2>1. /\ a.place \in 0 .. Len(t)
        /\ \A j \in Indices(t) : /\ j < a.place => At(t, j).prob < key
                                 /\ j >= a.place => At(t, j).prob > key
    BY <1>2, <1>5 DEF Finds
  <2>2. 0 < a.place /\ a.place <= Len(t) - 1
    <3>1. 0 \in Indices(t) /\ Len(t) - 1 \in Indices(t)
      BY <1>1 DEF Indices
    <3> HIDE DEF a
    <3> QED
      BY <1>1, <2>1, <3>1
  <2>3. i \in Indices(t) /\ i + 1 = a.place /\ i + 1 \in Indices(t) /\ i \in Int
    BY <1>1, <2>1, <2>2 DEF Indices
  <2> DEFINE d == Interpolate(key, At(t, i).prob, At(t, i).delay,
                                   At(t, i + 1).prob, At(t, i + 1).delay)
  <2>4. SplitLinearDelay(key, t) = {d}
    BY <1>5, <2>3 DEF SplitLinearDelay, Searched
  <2>5. At(t, i).prob < key /\ key < At(t, i + 1).prob
    BY <2>1, <2>2, <2>3
  <2>6. /\ d \in Nat
        /\ \/ At(t, i).delay <= d /\ d <= At(t, i + 1).delay
           \/ At(t, i + 1).delay <= d /\ d <= At(t, i).delay
    BY <1>1, <2>3, <2>5, InterpolateBetween
  <2>7. ASSUME NEW p \in 1 .. Len(t) - 1, t[p].prob < key, key < t[p + 1].prob
        PROVE  p = i + 1
    <3>1. At(t, p - 1).prob < key /\ key < At(t, p).prob
      BY <1>3, <2>7
    <3>2. p - 1 \in Indices(t) /\ p \in Indices(t) /\ p \in Int
      BY <1>1, <1>3
    <3>3. At(t, p - 1).prob \in Int /\ At(t, p).prob \in Int
      BY <1>1, <3>2
    <3>4. a.place \in Int
      BY <1>1, <2>1
    <3> HIDE DEF a
    <3>5. p < a.place => At(t, p).prob < key
      BY <2>1, <3>2
    <3>6. p - 1 >= a.place => At(t, p - 1).prob > key
      BY <2>1, <3>2
    <3> QED
      BY <1>1, <2>3, <3>1, <3>2, <3>3, <3>4, <3>5, <3>6
  <2>8. ASSUME NEW p \in 1 .. Len(t) - 1, t[p].prob < key, key < t[p + 1].prob
        PROVE  t[p] = At(t, i) /\ t[p + 1] = At(t, i + 1)
    <3>1. p = i + 1 /\ p - 1 = i
      BY <2>3, <2>7, <2>8
    <3> QED
      BY <1>3, <3>1
  <2> HIDE DEF a, i, d
  <2> QED
    BY <2>4, <2>6, <2>8
<1> QED
  BY <1>4, <1>5

(***************************************************************************)
(* The theorems.                                                           *)
(***************************************************************************)
(* The invariant: no step changes the table.                               *)
TableInv == points \in Tables /\ TableTypeOK

(* A table keeps its points, and a draw and a delay their types.           *)
THEOREM TableInvariant == TableSpec => []TableInv
<1>1. TableInit => TableInv
  BY TablesAscend, SplitLinearAssumption DEF TableInit, TableInv, TableTypeOK
<1>2. TableInv /\ [Sample]_tableVars => TableInv'
  <2> SUFFICES ASSUME TableInv, [Sample]_tableVars PROVE TableInv'
    OBVIOUS
  <2>1. CASE Sample
    <3>1. PICK key \in 0 .. One - 1 :
            /\ sampled' = key
            /\ sampled_delay' = SplitLinearDelay(key, points)
            /\ UNCHANGED points
      BY <2>1 DEF Sample
    <3>2. SplitLinearDelay(key, points) \subseteq Nat
      BY TableDelays DEF TableInv
    <3> QED
      BY <3>1, <3>2 DEF TableInv, TableTypeOK
  <2>2. CASE UNCHANGED tableVars
    BY <2>2 DEF TableInv, TableTypeOK, tableVars
  <2> QED
    BY <2>1, <2>2
<1> QED
  BY <1>1, <1>2, PTL DEF TableSpec

(* A table's points have types, and so have draws and their delays.        *)
THEOREM TableTypeCorrect == TableSpec => []TableTypeOK
<1>1. TableInv => TableTypeOK
  BY DEF TableInv
<1> QED
  BY <1>1, TableInvariant, PTL

(* BsearchCorrect (fcs_dm.c:21-62).                                        *)
THEOREM SearchIsCorrect == TableSpec => []BsearchCorrect
<1>1. TableInv => BsearchCorrect
  <2> SUFFICES ASSUME TableInv PROVE BsearchCorrect
    OBVIOUS
  <2> DEFINE r == SFO_bsearch(sampled, points)
  <2>1. points \in Tables /\ sampled \in Int
    BY SplitLinearAssumption DEF TableInv, TableTypeOK
  <2>2. Finds(r, sampled, points)
    BY <2>1, SearchFinds
  <2>3. /\ Len(points) \in Nat
        /\ \A i \in Indices(points) : i \in Int /\ At(points, i).prob \in Int
    BY <2>1, TablesAscend DEF Probs, Indices, At
  <2> HIDE DEF r
  <2>4. CASE r.found
    BY <2>2, <2>4 DEF Finds, BsearchCorrect, r
  <2>5. CASE ~ r.found
    <3>1. /\ r.place \in Int
          /\ \A i \in Indices(points) :
               /\ i < r.place => At(points, i).prob < sampled
               /\ i >= r.place => At(points, i).prob > sampled
      BY <2>2, <2>3, <2>5 DEF Finds
    <3>2. \A i \in Indices(points) :
            /\ At(points, i).prob # sampled
            /\ (At(points, i).prob < sampled) <=> (i < r.place)
      BY <2>1, <2>3, <3>1
    <3> QED
      BY <2>5, <3>2 DEF BsearchCorrect, r
  <2> QED
    BY <2>4, <2>5
<1> QED
  BY <1>1, TableInvariant, PTL

(* StaysBetween (packet_logic.c:404-431).                                  *)
THEOREM DelayStaysBetween == TableSpec => StaysBetween
<1> DEFINE Between ==
      sampled' # 0 =>
        /\ sampled_delay' # {}
        /\ \A d \in sampled_delay' :
             \A p \in 1 .. Len(points) - 1 :
               points[p].prob < sampled' /\ sampled' < points[p + 1].prob =>
                 \/ points[p].delay <= d /\ d <= points[p + 1].delay
                 \/ points[p + 1].delay <= d /\ d <= points[p].delay
<1>1. TableInv /\ [Sample]_tableVars => [Between]_tableVars
  <2> SUFFICES ASSUME TableInv, Sample PROVE Between
    OBVIOUS
  <2>1. PICK key \in 0 .. One - 1 :
          sampled' = key /\ sampled_delay' = SplitLinearDelay(key, points)
    BY DEF Sample
  <2>2. /\ key # 0 => SplitLinearDelay(key, points) # {}
        /\ \A d \in SplitLinearDelay(key, points), p \in 1 .. Len(points) - 1 :
              points[p].prob < key /\ key < points[p + 1].prob =>
                \/ points[p].delay <= d /\ d <= points[p + 1].delay
                \/ points[p + 1].delay <= d /\ d <= points[p].delay
    BY TableDelays DEF TableInv
  <2> QED
    BY <2>1, <2>2
<1>2. StaysBetween <=> [][Between]_tableVars
  BY DEF StaysBetween
<1> QED
  BY <1>1, <1>2, TableInvariant, PTL DEF TableSpec
=============================================================================
