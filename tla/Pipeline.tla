------------------------------ MODULE Pipeline ------------------------------
(***************************************************************************)
(* The way of a packet through the user-mode arbitrator (main.c): the main *)
(* thread stamps and enqueues it, the arbitrator thread dequeues it, asks  *)
(* the packet logic and accepts, drops or delays it, and the releaser      *)
(* thread accepts the delayed ones when they are due.                      *)
(*                                                                         *)
(* MessagesQueue, PacketLogic and Delayer are composed here, sharing one   *)
(* clock.  The configuration does not change: Arbitrator is about that.    *)
(***************************************************************************)
EXTENDS Integers, Sequences, FiniteSets, Timeval

CONSTANTS Packets, EmptyPackets, NumChains, Matches, ChainDelays,
          LastArrival,  \* bound on the arrival times
          MaxTime       \* bound on the clock

ASSUME PipelineAssumption ==
  /\ NumChains \in Nat /\ EmptyPackets \subseteq Packets
  /\ Matches \in [Packets -> SUBSET (1 .. NumChains - 1)]
  /\ ChainDelays \subseteq Nat
  /\ MaxTime \in Nat /\ UsecPerSec <= MaxTime

VARIABLES
  list, num_msgs, dequeuer, received, crashed,                 \* queue.c
  last_packet_release_time, verdict, chain_verdicts,           \* packet_logic.c
  pq, releaser, loop_time, deadline, released, promised,       \* delayer.c
  arbitrator,  \* where the arbitrator thread is in its loop
  arrival,     \* msg_with_time->tv of each packet received
  passed,      \* history: the packets accepted at once, in order
  dropped,     \* history: the packets dropped
  stable       \* history: the packets that one chain alone delayed, stably

Q == INSTANCE MessagesQueue WITH Messages <- Packets
L == INSTANCE PacketLogic WITH Kinds <- Packets, MaxRelease <- MaxTime
D == INSTANCE Delayer WITH Delays <- {}, MaxLag <- 0

queueVars == <<list, num_msgs, dequeuer, received, crashed>>
logicVars == <<last_packet_release_time, verdict, chain_verdicts>>
delayerVars == <<now, pq, releaser, loop_time, deadline, released, promised>>
mainVars == <<arbitrator, arrival, passed, dropped, stable>>
vars == <<queueVars, logicVars, delayerVars, mainVars>>

Init ==
  /\ Q!Init /\ D!Init /\ L!LogicInit
  /\ arbitrator = "dequeue"
  /\ arrival = D!NoPackets
  /\ passed = <<>> /\ dropped = {} /\ stable = {}

(* msg_with_time: what the arbitrator thread has dequeued. *)
Current == received[Len(received)]

(* The arbitrator thread is done with the packet and its verdict. *)
NextPacket ==
  /\ arbitrator' = "dequeue"
  /\ verdict' = L!NoVerdict /\ chain_verdicts' = <<>>
  /\ UNCHANGED last_packet_release_time

-----------------------------------------------------------------------------
(* main.c:439-464: stamp the packet with the time and enqueue it.          *)
Receive(m) ==
  /\ m \notin DOMAIN arrival
  /\ now <= LastArrival
  /\ arrival' = [p \in DOMAIN arrival \cup {m} |-> IF p = m THEN now ELSE arrival[p]]
  /\ Q!Enqueue(m)
  /\ UNCHANGED <<logicVars, delayerVars, arbitrator, passed, dropped, stable>>

(* main.c:96: dequeue, with everything that may happen inside it.          *)
ArbitratorDequeue ==
  /\ arbitrator = "dequeue"
  /\ Q!DequeuerStep
  /\ arbitrator' = IF received' = received THEN "dequeue" ELSE "decide"
  /\ UNCHANGED <<logicVars, delayerVars, arrival, passed, dropped, stable>>

QueueSpuriousWakeup ==
  /\ Q!SpuriousWakeup
  /\ UNCHANGED <<logicVars, delayerVars, mainVars>>

(* main.c:106: the packet logic, under the read lock.                      *)
ArbitratorDecide ==
  /\ ~ crashed
  /\ arbitrator = "decide"
  /\ L!decide_what_to_do_with_packet(Current)
  /\ arbitrator' = "act"
  /\ stable' = IF \E c \in L!Chains : /\ DOMAIN chain_verdicts' = {c}
                                      /\ chain_verdicts'[c].stable
                 THEN stable \cup {Current} ELSE stable
  /\ UNCHANGED <<queueVars, delayerVars, arrival, passed, dropped>>

(* main.c:108-149: ipq_set_verdict, or the delayer.                        *)
ArbitratorAccept ==
  /\ ~ crashed
  /\ arbitrator = "act" /\ verdict.action = "ACCEPT"
  /\ passed' = Append(passed, Current)
  /\ NextPacket
  /\ UNCHANGED <<queueVars, delayerVars, arrival, dropped, stable>>

(* Mutant: no verdict is set for a packet to be dropped. *)
ArbitratorDropForgets ==
  /\ ~ crashed
  /\ arbitrator = "act" /\ verdict.action = "DROP"
  /\ NextPacket
  /\ UNCHANGED <<queueVars, delayerVars, arrival, passed, dropped, stable>>

ArbitratorDrop ==
  /\ ~ crashed
  /\ arbitrator = "act" /\ verdict.action = "DROP"
  /\ dropped' = dropped \cup {Current}
  /\ NextPacket
  /\ UNCHANGED <<queueVars, delayerVars, arrival, passed, stable>>

ArbitratorDelay ==
  /\ ~ crashed
  /\ arbitrator = "act" /\ verdict.action = "DELAY"
  /\ D!delay_packet(Current, arrival[Current], verdict.delay_len)
  /\ NextPacket
  /\ UNCHANGED <<queueVars, arrival, passed, dropped, stable>>

(* The releaser thread and the clock. *)
Releaser ==
  /\ ~ crashed
  /\ D!ReleaserStep \/ D!SpuriousWakeup
  /\ UNCHANGED <<queueVars, logicVars, mainVars>>

Tick ==
  /\ ~ crashed
  /\ D!Tick
  /\ UNCHANGED <<queueVars, logicVars, mainVars>>

ArbitratorStep == ArbitratorDequeue \/ ArbitratorDecide
                    \/ ArbitratorAccept \/ ArbitratorDrop \/ ArbitratorDelay

Next == \/ \E m \in Packets : Receive(m)
        \/ ArbitratorStep
        \/ QueueSpuriousWakeup
        \/ Releaser
        \/ Tick

Spec == Init /\ [][Next]_vars

(* The threads are scheduled and time passes.  The arbitrator thread gets  *)
(* the delayer's mutex although the releaser may take it again and again   *)
(* (after spurious wakeups, or while the timed wait returns EINVAL).       *)
FairSpec == Spec /\ WF_vars(ArbitratorStep) /\ SF_vars(ArbitratorDelay)
                 /\ WF_vars(~ crashed /\ D!ReleaserStep
                              /\ UNCHANGED <<queueVars, logicVars, mainVars>>)
                 /\ WF_vars(Tick)

-----------------------------------------------------------------------------
Passed == {passed[i] : i \in 1 .. Len(passed)}

(* Where a received packet may be. *)
Places(m) ==
  {pl \in {"queue", "arbitrator", "delayer", "released", "passed", "dropped"} :
     \/ pl = "queue"      /\ \E i \in 1 .. Len(list) : list[i] = m
     \/ pl = "arbitrator" /\ arbitrator # "dequeue" /\ Current = m
     \/ pl = "delayer"    /\ \E e \in pq : e.m = m
     \/ pl = "released"   /\ m \in DOMAIN released
     \/ pl = "passed"     /\ m \in Passed
     \/ pl = "dropped"    /\ m \in dropped}

(* No packet is lost on its way, judged twice, or owned by two threads:    *)
(* each message struct is freed exactly once, by whoever sets its verdict. *)
OnePlace == \A m \in DOMAIN arrival : Cardinality(Places(m)) = 1

(* main.c:96-180 on queue.c: among the other threads too, the queue keeps  *)
(* the order of arrival and loses nothing.                                 *)
QueueImplementsFifo == Q!ImplementsFifo

(* The packets without a verdict, in order; the times of those held back;  *)
(* and those that were sent on.                                            *)
Waiting == (IF arbitrator = "dequeue" THEN <<>> ELSE <<Current>>) \o list
Due == [m \in {e.m : e \in pq} |-> promised[m]]
Sent == Passed \cup DOMAIN released

(* The threads, their queue and their heap do what the arbitrator promises *)
(* (main.c:88-211, 422-485): a verdict to each packet, in the order of     *)
(* arrival; a delayed packet is due after it came, and leaves when it is   *)
(* due and no other packet held back is due before it.                     *)
Abstract == INSTANCE AbstractArbitrator WITH
              waiting <- Waiting, due <- Due, sent <- Sent
ImplementsArbitrator == Abstract!Spec

(* Every packet gets its verdict, unless the process dies in the queue.    *)
EventuallyJudged ==
  \A m \in Packets :
    m \in DOMAIN arrival ~>
      crashed \/ Places(m) \subseteq {"released", "passed", "dropped"}

(* Docs/Users_Guide/main.html:397-398: "In a stable delay, the packets are *)
(* sent on their way at the same order in which they arrived."  For the    *)
(* packets that one and the same chain delayed stably, and no other chain  *)
(* touched: none leaves while an earlier one is still in the delayer.      *)
StableDelayKeepsOrder ==
  [][\A m \in Packets, q \in stable :
       /\ Places(q) = {"delayer"} /\ Places(q)' = {"delayer"}
       /\ m \in stable'
       /\ Places(m) \cap {"released", "passed"} = {}
       /\ Places(m)' \cap {"released", "passed"} # {}
       => arrival[m] <= arrival[q]]_vars
=============================================================================
