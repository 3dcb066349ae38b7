--------------------------- MODULE PipelineProofs ---------------------------
(***************************************************************************)
(* Proofs about MessagesQueue, for any set of messages, and about the      *)
(* Pipeline around it, for any packets, chains and filters: that a packet  *)
(* is in one place, that the queue, the packet logic and the delayer keep  *)
(* among the other threads what was proved of each alone, and that the     *)
(* whole implements AbstractArbitrator.                                    *)
(***************************************************************************)
EXTENDS Pipeline, FiniteSetTheorems, TLAPS

(* The theorems about the delayer and the packet logic on their own.       *)
Parts == INSTANCE PacketProofs WITH
           Delays <- {}, MaxLag <- 0, Kinds <- Packets, MaxRelease <- MaxTime,
           One <- 1, MaxPoints <- 0, PointDelays <- {},
           points <- <<>>, sampled <- 0, sampled_delay <- {}

-----------------------------------------------------------------------------
(* The packets queue: it loses no wakeup, counts its messages, and         *)
(* implements the abstract FIFO.                                           *)

(* Taking the head of the list keeps the invariant: the counter follows    *)
(* the list, and the dequeuer is out of the queue afterwards.              *)
LEMMA TakeHeadKeepsIInv ==
  ASSUME Q!IInv, Q!TakeHead
  PROVE  Q!IInv'
<1>1. list \in Seq(Packets) /\ list # <<>>
  BY DEF Q!IInv, Q!TypeOK, Q!TakeHead
<1>2. /\ Tail(list) \in Seq(Packets) /\ Head(list) \in Packets
      /\ Len(Tail(list)) = Len(list) - 1 /\ Len(list) \in Nat \ {0}
  BY <1>1
<1>3. Q!TypeOK'
  BY <1>2 DEF Q!IInv, Q!TypeOK, Q!CounterExact, Q!TakeHead
<1>4. Q!CounterExact'
  BY <1>2 DEF Q!IInv, Q!CounterExact, Q!TakeHead
<1>5. Q!NoLostWakeup'
  BY DEF Q!NoLostWakeup, Q!TakeHead
<1> QED
  BY <1>3, <1>4, <1>5 DEF Q!IInv

(* The invariant holds for ever.  Enqueue is the step that matters: when   *)
(* the dequeuer is blocked the list is empty, so the counter goes to one   *)
(* and the signal is sent.                                                 *)
THEOREM QueueInvariant == Q!Spec => []Q!IInv
<1>1. Q!Init => Q!IInv
  <2> SUFFICES ASSUME Q!Init PROVE Q!IInv
    OBVIOUS
  <2>1. <<>> \in Seq(Packets) /\ Len(<<>>) = 0
    OBVIOUS
  <2>2. Q!TypeOK
    BY <2>1 DEF Q!Init, Q!TypeOK
  <2>3. Q!CounterExact /\ Q!NoLostWakeup
    BY <2>1 DEF Q!Init, Q!CounterExact, Q!NoLostWakeup
  <2> QED
    BY <2>2, <2>3 DEF Q!IInv
<1>2. Q!IInv /\ [Q!Next]_Q!vars => Q!IInv'
  <2> SUFFICES ASSUME Q!IInv, [Q!Next]_Q!vars
               PROVE  Q!IInv'
    OBVIOUS
  <2>1. ASSUME NEW m \in Q!Unsent, Q!Enqueue(m)
        PROVE  Q!IInv'
    <3>1. m \in Packets /\ list \in Seq(Packets) /\ num_msgs = Len(list)
      BY <2>1 DEF Q!Unsent, Q!IInv, Q!TypeOK, Q!CounterExact
    <3>2. /\ Append(list, m) \in Seq(Packets)
          /\ Len(Append(list, m)) = Len(list) + 1 /\ Len(list) \in Nat
      BY <3>1
    <3>3. Q!TypeOK' /\ Q!CounterExact'
      BY <2>1, <3>1, <3>2 DEF Q!IInv, Q!TypeOK, Q!CounterExact, Q!Enqueue
    <3>4. dequeuer' # "blocked"
      <4>1. CASE dequeuer = "blocked"
        <5>1. num_msgs = 0
          BY <4>1, <3>1 DEF Q!IInv, Q!NoLostWakeup
        <5> QED
          BY <4>1, <5>1, <2>1 DEF Q!Enqueue
      <4>2. CASE dequeuer # "blocked"
        BY <4>2, <2>1 DEF Q!Enqueue
      <4> QED
        BY <4>1, <4>2
    <3> QED
      BY <3>3, <3>4 DEF Q!IInv, Q!NoLostWakeup
  <2>2. CASE Q!Dequeue
    BY <2>2, TakeHeadKeepsIInv DEF Q!Dequeue
  <2>3. CASE Q!DequeueWait
    BY <2>3 DEF Q!DequeueWait, Q!IInv, Q!TypeOK, Q!CounterExact, Q!NoLostWakeup
  <2>4. CASE Q!DequeueResume
    BY <2>4, TakeHeadKeepsIInv DEF Q!DequeueResume
  <2>5. CASE Q!DequeueNull
    BY <2>5 DEF Q!DequeueNull, Q!IInv, Q!TypeOK, Q!CounterExact, Q!NoLostWakeup
  <2>6. CASE Q!SpuriousWakeup
    BY <2>6 DEF Q!SpuriousWakeup, Q!IInv, Q!TypeOK, Q!CounterExact, Q!NoLostWakeup
  <2>7. CASE UNCHANGED Q!vars
    BY <2>7 DEF Q!vars, Q!IInv, Q!TypeOK, Q!CounterExact, Q!NoLostWakeup
  <2> QED
    BY <2>1, <2>2, <2>3, <2>4, <2>5, <2>6, <2>7 DEF Q!Next, Q!DequeuerStep
<1> QED
  BY <1>1, <1>2, PTL DEF Q!Spec

(* The consumer never sleeps while a message waits for it. *)
THEOREM QueueLosesNoWakeup == Q!Spec => []Q!NoLostWakeup
<1>1. Q!IInv => Q!NoLostWakeup
  BY DEF Q!IInv
<1> QED
  BY <1>1, QueueInvariant, PTL

(* The queue implements the abstract FIFO: every step puts a message at    *)
(* the end, takes the one at the head, or changes neither sequence.        *)
THEOREM QueueIsFifo == Q!Spec => Q!ImplementsFifo
<1>1. Q!Init => Q!Fifo!Init
  BY DEF Q!Init, Q!Fifo!Init
<1>2. [Q!Next]_Q!vars => [Q!Fifo!Next]_Q!Fifo!vars
  <2> SUFFICES ASSUME [Q!Next]_Q!vars
               PROVE  [Q!Fifo!Next]_Q!Fifo!vars
    OBVIOUS
  <2> USE DEF Q!Fifo!Next, Q!Fifo!vars
  <2>1. ASSUME NEW m \in Q!Unsent, Q!Enqueue(m)
        PROVE  Q!Fifo!Next
    BY <2>1 DEF Q!Enqueue, Q!Unsent, Q!Fifo!Put
  <2>2. ASSUME Q!TakeHead
        PROVE  Q!Fifo!Next
    BY <2>2 DEF Q!TakeHead, Q!Fifo!Take
  <2>3. CASE Q!DequeueWait \/ Q!DequeueNull \/ Q!SpuriousWakeup \/ UNCHANGED Q!vars
    BY <2>3 DEF Q!DequeueWait, Q!DequeueNull, Q!SpuriousWakeup, Q!vars
  <2> QED
    BY <2>1, <2>2, <2>3 DEF Q!Next, Q!DequeuerStep, Q!Dequeue, Q!DequeueResume
<1> QED
  BY <1>1, <1>2, PTL DEF Q!Spec, Q!ImplementsFifo, Q!Fifo!Spec

-----------------------------------------------------------------------------
(* The pipeline.  Each packet that has come is in one place, and what is   *)
(* in the queue or the delayer is there once: or it would be in two places *)
(* after the next dequeue or release.                                      *)
In(m, s) == \E i \in 1 .. Len(s) : s[i] = m

PlaceNames == {"queue", "arbitrator", "delayer", "released", "passed", "dropped"}

At(pl, m) ==
  \/ pl = "queue"      /\ In(m, list)
  \/ pl = "arbitrator" /\ arbitrator # "dequeue" /\ Current = m
  \/ pl = "delayer"    /\ \E e \in pq : e.m = m
  \/ pl = "released"   /\ m \in DOMAIN released
  \/ pl = "passed"     /\ In(m, passed)
  \/ pl = "dropped"    /\ m \in dropped

TypeInv ==
  /\ list \in Seq(Packets) /\ received \in Seq(Packets) /\ passed \in Seq(Packets)
  /\ DOMAIN arrival \subseteq Packets /\ \A e \in pq : e.m \in Packets
  /\ arbitrator # "dequeue" => received # <<>>

OnceEach ==
  /\ \A i, j \in 1 .. Len(list) : list[i] = list[j] => i = j
  /\ \A e, f \in pq : e.m = f.m => e = f

InOnePlace(m) == \E a \in PlaceNames : \A pl \in PlaceNames : At(pl, m) <=> pl = a

Placed ==
  \A m \in Packets : IF m \in DOMAIN arrival
                       THEN InOnePlace(m)
                       ELSE \A pl \in PlaceNames : ~ At(pl, m)

ReceivedCame == \A i \in 1 .. Len(received) : received[i] \in DOMAIN arrival

IInv == TypeInv /\ OnceEach /\ Placed /\ ReceivedCame

LEMMA AppendHas ==
  ASSUME NEW S, NEW s \in Seq(S), NEW x \in S
  PROVE  /\ Append(s, x) \in Seq(S)
         /\ \A m : In(m, Append(s, x)) <=> In(m, s) \/ m = x
<1>1. /\ Append(s, x) \in Seq(S) /\ Len(Append(s, x)) = Len(s) + 1 /\ Len(s) \in Nat
      /\ \A i \in 1 .. Len(s) : Append(s, x)[i] = s[i]
      /\ Append(s, x)[Len(s) + 1] = x
  OBVIOUS
<1>2. \A i \in 1 .. Len(s) + 1 : i \in 1 .. Len(s) \/ i = Len(s) + 1
  BY <1>1
<1>3. 1 .. Len(s) \subseteq 1 .. Len(s) + 1 /\ Len(s) + 1 \in 1 .. Len(s) + 1
  BY <1>1
<1> QED
  BY <1>1, <1>2, <1>3 DEF In

LEMMA TailHas ==
  ASSUME NEW S, NEW s \in Seq(S), s # <<>>,
         \A i, j \in 1 .. Len(s) : s[i] = s[j] => i = j
  PROVE  /\ Tail(s) \in Seq(S) /\ Head(s) \in S /\ In(Head(s), s)
         /\ \A m : In(m, Tail(s)) <=> In(m, s) /\ m # Head(s)
         /\ \A i, j \in 1 .. Len(Tail(s)) : Tail(s)[i] = Tail(s)[j] => i = j
<1>1. /\ Tail(s) \in Seq(S) /\ Head(s) \in S /\ Head(s) = s[1]
      /\ Len(s) \in Nat \ {0} /\ Len(Tail(s)) = Len(s) - 1
      /\ \A i \in 1 .. Len(s) - 1 : Tail(s)[i] = s[i + 1]
  OBVIOUS
<1>2. \A i \in 1 .. Len(s) - 1 : i + 1 \in 1 .. Len(s) /\ i + 1 # 1
  BY <1>1
<1>3. \A i \in 1 .. Len(s) : i = 1 \/ (i - 1 \in 1 .. Len(s) - 1 /\ (i - 1) + 1 = i)
  BY <1>1
<1>4. 1 \in 1 .. Len(s)
  BY <1>1
<1>5. \A m : In(m, Tail(s)) <=> In(m, s) /\ m # Head(s)
  <2>1. ASSUME NEW m, In(m, Tail(s)) PROVE In(m, s) /\ m # Head(s)
    <3>1. PICK i \in 1 .. Len(s) - 1 : s[i + 1] = m
      BY <1>1, <2>1 DEF In
    <3> QED
      BY <3>1, <1>1, <1>2, <1>4 DEF In
  <2>2. ASSUME NEW m, In(m, s), m # Head(s) PROVE In(m, Tail(s))
    <3>1. PICK i \in 1 .. Len(s) : s[i] = m
      BY <2>2 DEF In
    <3>2. i # 1
      BY <3>1, <2>2, <1>1
    <3>3. i - 1 \in 1 .. Len(s) - 1 /\ Tail(s)[i - 1] = m
      BY <3>1, <3>2, <1>1, <1>3
    <3> QED
      BY <3>3, <1>1 DEF In
  <2> QED
    BY <2>1, <2>2
<1>6. ASSUME NEW i \in 1 .. Len(Tail(s)), NEW j \in 1 .. Len(Tail(s)), Tail(s)[i] = Tail(s)[j]
      PROVE  i = j
  <2>1. s[i + 1] = s[j + 1] /\ i + 1 \in 1 .. Len(s) /\ j + 1 \in 1 .. Len(s)
    BY <1>1, <1>2, <1>6
  <2>2. i + 1 = j + 1
    BY <2>1
  <2> QED
    BY <2>2, <1>1
<1> QED
  BY <1>1, <1>4, <1>5, <1>6 DEF In

(* Where a packet is, it came; and it is nowhere else.                     *)
LEMMA AtOne ==
  ASSUME Placed, NEW x \in Packets, NEW a \in PlaceNames, At(a, x)
  PROVE  x \in DOMAIN arrival /\ \A pl \in PlaceNames : At(pl, x) <=> pl = a
BY Zenon DEF Placed, InOnePlace

(* A step that moves one packet, to one place, and no other.               *)
LEMMA Moves ==
  ASSUME Placed, NEW x \in Packets, NEW b \in PlaceNames,
         DOMAIN arrival' = DOMAIN arrival \cup {x},
         \A pl \in PlaceNames, m \in Packets :
           At(pl, m)' <=> IF m = x THEN pl = b ELSE At(pl, m)
  PROVE  Placed'
<1> SUFFICES ASSUME NEW m \in Packets
             PROVE  IF m \in DOMAIN arrival'
                      THEN \E a \in PlaceNames : \A pl \in PlaceNames : At(pl, m)' <=> pl = a
                      ELSE \A pl \in PlaceNames : ~ At(pl, m)'
  BY DEF Placed, InOnePlace
<1>1. CASE m = x
  BY <1>1
<1>2. CASE m # x
  <2>1. m \in DOMAIN arrival' <=> m \in DOMAIN arrival
    BY <1>2
  <2>2. \A pl \in PlaceNames : At(pl, m)' <=> At(pl, m)
    BY <1>2
  <2> QED
    BY <2>1, <2>2, Zenon DEF Placed, InOnePlace
<1> QED
  BY <1>1, <1>2

(* A step that moves none.                                                 *)
LEMMA Stays ==
  ASSUME Placed, DOMAIN arrival' = DOMAIN arrival,
         \A pl \in PlaceNames, m \in Packets : At(pl, m)' <=> At(pl, m)
  PROVE  Placed'
<1> SUFFICES ASSUME NEW m \in Packets
             PROVE  IF m \in DOMAIN arrival
                      THEN \E a \in PlaceNames : \A pl \in PlaceNames : At(pl, m)' <=> pl = a
                      ELSE \A pl \in PlaceNames : ~ At(pl, m)'
  BY DEF Placed, InOnePlace
<1>1. \A pl \in PlaceNames : At(pl, m)' <=> At(pl, m)
  OBVIOUS
<1> QED
  BY <1>1, Zenon DEF Placed, InOnePlace

LEMMA OnePlaceFollows ==
  ASSUME IInv
  PROVE  OnePlace
<1> SUFFICES ASSUME NEW m \in DOMAIN arrival PROVE Cardinality(Places(m)) = 1
  BY DEF OnePlace
<1>1. PICK a \in PlaceNames : \A pl \in PlaceNames : At(pl, m) <=> pl = a
  BY Zenon DEF IInv, TypeInv, Placed, InOnePlace
<1>2. Places(m) = {pl \in PlaceNames : At(pl, m)}
  BY DEF Places, PlaceNames, At, In, Passed
<1>3. Places(m) = {a}
  BY <1>1, <1>2
<1> QED
  BY <1>3, FS_Singleton

-----------------------------------------------------------------------------
LEMMA InitIInv == ASSUME Init PROVE IInv
<1> USE DEF Init, Q!Init, D!Init, D!NoPackets
<1>1. <<>> \in Seq(Packets) /\ Len(<<>>) = 0 /\ 1 .. 0 = {}
  OBVIOUS
<1>2. \A pl, m : ~ At(pl, m)
  BY <1>1 DEF At, In
<1>3. TypeInv /\ OnceEach /\ ReceivedCame
  BY <1>1 DEF TypeInv, OnceEach, ReceivedCame
<1>4. Placed
  BY <1>2 DEF Placed
<1> QED
  BY <1>3, <1>4 DEF IInv

LEMMA ReceiveKeepsIInv ==
  ASSUME IInv, NEW x \in Packets, Receive(x)
  PROVE  IInv'
<1>1. /\ x \notin DOMAIN arrival /\ DOMAIN arrival' = DOMAIN arrival \cup {x}
      /\ list' = Append(list, x) /\ list \in Seq(Packets)
      /\ UNCHANGED <<received, arbitrator, pq, released, passed, dropped>>
  BY DEF Receive, Q!Enqueue, delayerVars, IInv, TypeInv
<1>2. /\ list' \in Seq(Packets)
      /\ \A m : In(m, list') <=> In(m, list) \/ m = x
  BY <1>1, AppendHas
<1>3. \A pl \in PlaceNames : ~ At(pl, x)
  BY <1>1 DEF IInv, Placed
<1>4. ~ In(x, list)
  BY <1>3 DEF At, PlaceNames
<1>5. TypeInv'
  BY <1>1, <1>2 DEF IInv, TypeInv
<1>6. OnceEach'
  <2>1. /\ Len(list) \in Nat /\ Len(list') = Len(list) + 1 /\ list'[Len(list) + 1] = x
        /\ \A i \in 1 .. Len(list) : list'[i] = list[i] /\ list[i] # x
    BY <1>1, <1>4 DEF In
  <2>2. \A i \in 1 .. Len(list') : i \in 1 .. Len(list) \/ i = Len(list) + 1
    BY <2>1
  <2>3. \A i, j \in 1 .. Len(list') : list'[i] = list'[j] => i = j
    BY <2>1, <2>2 DEF IInv, OnceEach
  <2> QED
    BY <1>1, <2>3 DEF IInv, OnceEach
<1>7. Placed'
  <2>1. \A pl \in PlaceNames, m \in Packets :
          At(pl, m)' <=> IF m = x THEN pl = "queue" ELSE At(pl, m)
    BY <1>1, <1>2, <1>3 DEF At, PlaceNames, Current
  <2>2. "queue" \in PlaceNames
    BY DEF PlaceNames
  <2> QED
    BY <1>1, <2>1, <2>2, Moves DEF IInv
<1>8. ReceivedCame'
  BY <1>1 DEF IInv, ReceivedCame
<1> QED
  BY <1>5, <1>6, <1>7, <1>8 DEF IInv

(* The end of the dequeue: the packet changes hands.                       *)
LEMMA TakeHeadKeepsPlaces ==
  ASSUME IInv, Q!TakeHead, arbitrator = "dequeue", arbitrator' = "decide",
         UNCHANGED <<pq, released, passed, dropped, arrival>>
  PROVE  IInv'
<1> DEFINE x == Head(list)
<1>1. /\ list # <<>> /\ list' = Tail(list) /\ received' = Append(received, x)
      /\ list \in Seq(Packets) /\ received \in Seq(Packets)
      /\ \A i, j \in 1 .. Len(list) : list[i] = list[j] => i = j
  BY DEF Q!TakeHead, IInv, TypeInv, OnceEach
<1>2. /\ list' \in Seq(Packets) /\ x \in Packets /\ In(x, list)
      /\ \A m : In(m, list') <=> In(m, list) /\ m # x
      /\ \A i, j \in 1 .. Len(list') : list'[i] = list'[j] => i = j
  BY <1>1, TailHas
<1> HIDE DEF x
<1>3. /\ received' \in Seq(Packets) /\ received' # <<>> /\ Current' = x
      /\ Len(received') = Len(received) + 1 /\ Len(received) \in Nat
      /\ \A i \in 1 .. Len(received) : received'[i] = received[i]
      /\ received'[Len(received) + 1] = x
  BY <1>1, <1>2 DEF Current
<1>4. x \in DOMAIN arrival /\ \A pl \in PlaceNames : At(pl, x) <=> pl = "queue"
  <2>1. "queue" \in PlaceNames /\ At("queue", x)
    BY <1>2 DEF PlaceNames, At
  <2> QED
    BY <1>2, <2>1, AtOne DEF IInv
<1>5. TypeInv' /\ OnceEach'
  BY <1>2, <1>3 DEF IInv, TypeInv, OnceEach
<1>6. Placed'
  <2>1. \A pl \in PlaceNames, m \in Packets :
          At(pl, m)' <=> IF m = x THEN pl = "arbitrator" ELSE At(pl, m)
    BY <1>2, <1>3, <1>4 DEF At, PlaceNames
  <2>2. "arbitrator" \in PlaceNames /\ DOMAIN arrival' = DOMAIN arrival \cup {x}
    BY <1>4 DEF PlaceNames
  <2> QED
    BY <1>2, <2>1, <2>2, Moves DEF IInv
<1>7. ReceivedCame'
  <2>1. \A i \in 1 .. Len(received') : i \in 1 .. Len(received) \/ i = Len(received) + 1
    BY <1>3
  <2> QED
    BY <1>3, <1>4, <2>1 DEF IInv, ReceivedCame
<1> QED
  BY <1>5, <1>6, <1>7 DEF IInv

(* Steps that move no packet.                                              *)
LEMMA QuietKeepsIInv ==
  ASSUME IInv, UNCHANGED <<list, received, pq, released, passed, dropped, arrival>>,
         arbitrator' # "dequeue" <=> arbitrator # "dequeue"
  PROVE  IInv'
<1>1. TypeInv' /\ OnceEach' /\ ReceivedCame'
  BY DEF IInv, TypeInv, OnceEach, ReceivedCame
<1>2. \A pl \in PlaceNames, m \in Packets : At(pl, m)' <=> At(pl, m)
  BY DEF At, Current
<1>3. Placed'
  BY <1>2, Stays DEF IInv
<1> QED
  BY <1>1, <1>3 DEF IInv

LEMMA DequeueKeepsIInv ==
  ASSUME IInv, ArbitratorDequeue
  PROVE  IInv'
<1>1. /\ arbitrator = "dequeue" /\ UNCHANGED <<pq, released, passed, dropped, arrival>>
      /\ arbitrator' = IF received' = received THEN "dequeue" ELSE "decide"
  BY DEF ArbitratorDequeue, delayerVars
<1>2. CASE Q!TakeHead
  <2>1. received' # received
    <3>1. received' = Append(received, Head(list)) /\ received \in Seq(Packets)
      BY <1>2 DEF Q!TakeHead, IInv, TypeInv
    <3>2. Head(list) \in Packets
      BY <1>2 DEF Q!TakeHead, IInv, TypeInv
    <3>3. Len(received') = Len(received) + 1 /\ Len(received) \in Nat
      BY <3>1, <3>2
    <3> QED
      BY <3>3
  <2> QED
    BY <1>1, <1>2, <2>1, TakeHeadKeepsPlaces
<1>3. CASE UNCHANGED <<list, received>>
  BY <1>1, <1>3, QuietKeepsIInv
<1> QED
  BY <1>2, <1>3 DEF ArbitratorDequeue, Q!DequeuerStep, Q!Dequeue, Q!DequeueWait,
     Q!DequeueResume, Q!DequeueNull

(* The arbitrator thread is done with its packet, which is where the       *)
(* verdict put it.                                                         *)
LEMMA InHand ==
  ASSUME IInv, arbitrator = "act"
  PROVE  /\ Current \in Packets /\ Current \in DOMAIN arrival
         /\ \A pl \in PlaceNames : At(pl, Current) <=> pl = "arbitrator"
<1>1. received \in Seq(Packets) /\ received # <<>>
  BY DEF IInv, TypeInv
<1>2. Current \in Packets
  <2>1. Len(received) \in 1 .. Len(received)
    BY <1>1
  <2> QED
    BY <1>1, <2>1 DEF Current
<1>3. "arbitrator" \in PlaceNames /\ At("arbitrator", Current)
  BY DEF PlaceNames, At
<1> QED
  BY <1>2, <1>3, AtOne DEF IInv

LEMMA JudgedKeepsPlaced ==
  ASSUME IInv, arbitrator = "act", arbitrator' = "dequeue",
         UNCHANGED <<list, arrival>>, NEW b \in {"passed", "dropped", "delayer"},
         \A m : In(m, passed') <=> In(m, passed) \/ (b = "passed" /\ m = Current),
         \A m : m \in dropped' <=> m \in dropped \/ (b = "dropped" /\ m = Current),
         \A m : (\E e \in pq' : e.m = m) <=>
                  (\E e \in pq : e.m = m) \/ (b = "delayer" /\ m = Current),
         DOMAIN released' = DOMAIN released
  PROVE  Placed'
<1>1. /\ Current \in Packets /\ DOMAIN arrival' = DOMAIN arrival \cup {Current}
      /\ b \in PlaceNames
      /\ \A pl \in PlaceNames : At(pl, Current) <=> pl = "arbitrator"
  BY InHand DEF PlaceNames
<1>2. \A pl \in PlaceNames, m \in Packets :
        At(pl, m)' <=> IF m = Current THEN pl = b ELSE At(pl, m)
  BY <1>1 DEF At, PlaceNames
<1> QED
  BY <1>1, <1>2, Moves DEF IInv

LEMMA AcceptKeepsIInv ==
  ASSUME IInv, ArbitratorAccept
  PROVE  IInv'
<1>1. /\ arbitrator = "act" /\ arbitrator' = "dequeue"
      /\ UNCHANGED <<list, received, arrival, pq, released, dropped>>
      /\ passed' = Append(passed, Current) /\ passed \in Seq(Packets)
  BY DEF ArbitratorAccept, NextPacket, queueVars, delayerVars, IInv, TypeInv
<1>2. /\ passed' \in Seq(Packets)
      /\ \A m : In(m, passed') <=> In(m, passed) \/ m = Current
  BY <1>1, InHand, AppendHas
<1>3. Placed'
  BY <1>1, <1>2, JudgedKeepsPlaced
<1>4. TypeInv' /\ OnceEach' /\ ReceivedCame'
  BY <1>1, <1>2 DEF IInv, TypeInv, OnceEach, ReceivedCame
<1> QED
  BY <1>3, <1>4 DEF IInv

LEMMA DropKeepsIInv ==
  ASSUME IInv, ArbitratorDrop
  PROVE  IInv'
<1>1. /\ arbitrator = "act" /\ arbitrator' = "dequeue"
      /\ UNCHANGED <<list, received, arrival, pq, released, passed>>
      /\ dropped' = dropped \cup {Current}
  BY DEF ArbitratorDrop, NextPacket, queueVars, delayerVars
<1>2. Placed'
  BY <1>1, JudgedKeepsPlaced
<1>3. TypeInv' /\ OnceEach' /\ ReceivedCame'
  BY <1>1 DEF IInv, TypeInv, OnceEach, ReceivedCame
<1> QED
  BY <1>2, <1>3 DEF IInv

LEMMA DelayKeepsIInv ==
  ASSUME IInv, ArbitratorDelay
  PROVE  IInv'
<1>1. /\ arbitrator = "act" /\ arbitrator' = "dequeue"
      /\ UNCHANGED <<list, received, arrival, released, passed, dropped>>
  BY DEF ArbitratorDelay, NextPacket, queueVars, D!delay_packet
<1>2. PICK tv : pq' = pq \cup {[m |-> Current, tv |-> tv]}
  BY DEF ArbitratorDelay, D!delay_packet
<1> DEFINE new == [m |-> Current, tv |-> tv]
<1>3. new.m = Current
  OBVIOUS
<1> HIDE DEF new
<1>4. pq' = pq \cup {new}
  BY <1>2 DEF new
<1>5. Placed'
  <2>1. \A m : (\E e \in pq' : e.m = m) <=> (\E e \in pq : e.m = m) \/ m = Current
    BY <1>3, <1>4
  <2> QED
    BY <1>1, <2>1, JudgedKeepsPlaced
<1>6. \A e \in pq : e.m # Current
  <2>1. ~ At("delayer", Current)
    BY <1>1, InHand DEF PlaceNames
  <2> QED
    BY <2>1 DEF At
<1>7. TypeInv' /\ OnceEach' /\ ReceivedCame'
  BY <1>1, <1>3, <1>4, <1>6, InHand DEF IInv, TypeInv, OnceEach, ReceivedCame
<1> QED
  BY <1>5, <1>7 DEF IInv

LEMMA ReleaserKeepsIInv ==
  ASSUME IInv, Releaser
  PROVE  IInv'
<1>1. UNCHANGED <<list, received, arbitrator, arrival, passed, dropped>>
  BY DEF Releaser, queueVars, mainVars
<1>2. CASE D!LoopRelease
  <2>1. PICK e \in pq : pq' = pq \ {e} /\ DOMAIN released' = DOMAIN released \cup {e.m}
    BY <1>2 DEF D!LoopRelease
  <2>2. /\ e.m \in DOMAIN arrival /\ e.m \in Packets
        /\ \A pl \in PlaceNames : At(pl, e.m) <=> pl = "delayer"
    <3>1. "delayer" \in PlaceNames /\ At("delayer", e.m) /\ e.m \in Packets
      BY DEF PlaceNames, At, IInv, TypeInv
    <3> QED
      BY <3>1, AtOne DEF IInv
  <2>3. \A m : (\E f \in pq' : f.m = m) <=> (\E f \in pq : f.m = m) /\ m # e.m
    BY <2>1 DEF IInv, OnceEach
  <2>4. \A pl \in PlaceNames, m \in Packets :
          At(pl, m)' <=> IF m = e.m THEN pl = "released" ELSE At(pl, m)
    BY <1>1, <2>1, <2>2, <2>3 DEF At, PlaceNames, Current
  <2>5. Placed'
    <3>1. "released" \in PlaceNames /\ DOMAIN arrival' = DOMAIN arrival \cup {e.m}
      BY <1>1, <2>2 DEF PlaceNames
    <3> QED
      BY <2>2, <2>4, <3>1, Moves DEF IInv
  <2>6. TypeInv' /\ OnceEach' /\ ReceivedCame'
    BY <1>1, <2>1 DEF IInv, TypeInv, OnceEach, ReceivedCame
  <2> QED
    BY <2>5, <2>6 DEF IInv
<1>3. CASE UNCHANGED <<pq, released>>
  BY <1>1, <1>3, QuietKeepsIInv
<1> QED
  BY <1>2, <1>3 DEF Releaser, D!ReleaserStep, D!LoopLock, D!LoopNoneDue, D!LoopWait,
     D!LoopNoWait, D!LoopTimeout, D!LoopSignalled, D!SpuriousWakeup

LEMMA NextKeepsIInv ==
  ASSUME IInv, [Next]_vars
  PROVE  IInv'
<1>1. CASE QueueSpuriousWakeup
  BY <1>1, QuietKeepsIInv DEF QueueSpuriousWakeup, Q!SpuriousWakeup, delayerVars, mainVars
<1>2. CASE ArbitratorDecide
  BY <1>2, QuietKeepsIInv DEF ArbitratorDecide, queueVars, delayerVars
<1>3. CASE Tick
  BY <1>3, QuietKeepsIInv DEF Tick, D!Tick, queueVars, mainVars
<1>4. CASE UNCHANGED vars
  BY <1>4, QuietKeepsIInv DEF vars, queueVars, delayerVars, mainVars
<1> QED
  BY <1>1, <1>2, <1>3, <1>4, ReceiveKeepsIInv, DequeueKeepsIInv, AcceptKeepsIInv,
     DropKeepsIInv, DelayKeepsIInv, ReleaserKeepsIInv DEF Next, ArbitratorStep

(* main.c:88-211 and 422-485: whatever the three threads do and whenever,  *)
(* the invariant holds.                                                    *)
THEOREM PipelineInvariant == Spec => []IInv
<1>1. Init => IInv
  BY InitIInv
<1>2. IInv /\ [Next]_vars => IInv'
  BY NextKeepsIInv
<1> QED
  BY <1>1, <1>2, PTL DEF Spec

(* Each packet that has come is in exactly one place: none is lost, none   *)
(* judged twice or freed by two threads.                                   *)
THEOREM EachPacketInOnePlace == Spec => []OnePlace
<1>1. IInv => OnePlace
  BY OnePlaceFollows
<1> QED
  BY <1>1, PipelineInvariant, PTL

-----------------------------------------------------------------------------
(* Among the other threads the queue is used as MessagesQueue says: no     *)
(* packet is given to it twice.                                            *)
LEMMA NextIsQueueStep ==
  ASSUME IInv, [Next]_vars
  PROVE  [Q!Next]_Q!vars
<1>1. ASSUME NEW x \in Packets, Receive(x) PROVE Q!Next
  <2>1. x \notin DOMAIN arrival /\ Q!Enqueue(x)
    BY <1>1 DEF Receive
  <2>2. \A i \in 1 .. Len(received) : received[i] # x
    BY <2>1 DEF IInv, ReceivedCame
  <2>3. \A i \in 1 .. Len(list) : list[i] # x
    <3>1. \A pl \in PlaceNames : ~ At(pl, x)
      BY <2>1 DEF IInv, Placed
    <3> QED
      BY <3>1 DEF At, PlaceNames, In
  <2>4. \A i \in 1 .. Len(Q!Enqueued) : Q!Enqueued[i] # x
    <3>1. received \in Seq(Packets) /\ list \in Seq(Packets)
      BY DEF IInv, TypeInv
    <3>2. /\ Len(received) \in Nat /\ Len(list) \in Nat
          /\ Len(received \o list) = Len(received) + Len(list)
          /\ \A i \in 1 .. Len(received) + Len(list) :
                (received \o list)[i] = IF i <= Len(received) THEN received[i]
                                        ELSE list[i - Len(received)]
      BY <3>1
    <3>3. ASSUME NEW i \in 1 .. Len(received) + Len(list)
          PROVE  (received \o list)[i] # x
      <4>1. CASE i <= Len(received)
        BY <4>1, <3>2, <2>2
      <4>2. CASE ~ (i <= Len(received))
        <5>1. i - Len(received) \in 1 .. Len(list)
          BY <4>2, <3>2
        <5> QED
          BY <4>2, <5>1, <3>2, <2>3
      <4> QED
        BY <4>1, <4>2
    <3> QED
      BY <3>2, <3>3 DEF Q!Enqueued
  <2> QED
    BY <2>1, <2>4 DEF Q!Next, Q!Unsent
<1>2. CASE ArbitratorDequeue
  BY <1>2 DEF ArbitratorDequeue, Q!Next
<1>3. CASE QueueSpuriousWakeup
  BY <1>3 DEF QueueSpuriousWakeup, Q!Next
<1>4. CASE UNCHANGED queueVars
  BY <1>4 DEF queueVars, Q!vars
<1> QED
  BY <1>1, <1>2, <1>3, <1>4 DEF Next, vars, ArbitratorStep, ArbitratorDecide,
     ArbitratorAccept, ArbitratorDrop, ArbitratorDelay, Releaser, Tick

(* Every behaviour of the pipeline is one of the queue.                    *)
THEOREM PipelineUsesQueue == Spec => Q!Spec
<1>1. Init => Q!Init
  BY DEF Init
<1>2. IInv /\ [Next]_vars => [Q!Next]_Q!vars
  BY NextIsQueueStep
<1> QED
  BY <1>1, <1>2, PipelineInvariant, PTL DEF Spec, Q!Spec

(* queue.c among the threads of main.c: packets leave it in the order in   *)
(* which they came, and none is left out.                                  *)
THEOREM PacketsStayInOrder == Spec => QueueImplementsFifo
BY PipelineUsesQueue, QueueIsFifo, PTL DEF QueueImplementsFifo

(* The arbitrator thread does not sleep while a packet waits for it.       *)
THEOREM ArbitratorIsWoken == Spec => []Q!NoLostWakeup
BY PipelineUsesQueue, QueueLosesNoWakeup, PTL

-----------------------------------------------------------------------------
(* The delayer and the packet logic among the threads.  What the pipeline  *)
(* does with them is what they do on their own, with packets, times and    *)
(* delays of its own.                                                      *)
LEMMA PartsAssume ==
  /\ UsecPerMsec \in Nat \ {0} /\ UsecPerSec \in Nat \ {0}
  /\ UsecPerSec % UsecPerMsec = 0
  /\ {} \subseteq Nat /\ 0 \in Nat /\ MaxTime \in Nat
  /\ UsecPerSec <= MaxTime
  /\ NumChains \in Nat /\ EmptyPackets \subseteq Packets
  /\ Matches \in [Packets -> SUBSET (1 .. NumChains - 1)]
  /\ ChainDelays \subseteq Nat /\ MaxTime \in Nat
  /\ 1 \in Nat \ {0}
BY TimevalAssumption, PipelineAssumption

LEMMA ReleaserOfParts ==
  ASSUME D!ReleaserStep \/ D!SpuriousWakeup
  PROVE  Parts!ReleaserStep \/ Parts!SpuriousWakeup
BY DEF D!ReleaserStep, D!SpuriousWakeup, D!LoopLock, D!LoopRelease, D!LoopNoneDue, D!LoopWait,
  D!LoopNoWait, D!LoopTimeout, D!LoopSignalled, D!MinTimes, D!Dead,
  Parts!ReleaserStep, Parts!SpuriousWakeup, Parts!LoopLock, Parts!LoopRelease,
  Parts!LoopNoneDue, Parts!LoopWait, Parts!LoopNoWait, Parts!LoopTimeout,
  Parts!LoopSignalled, Parts!MinTimes, Parts!Dead,
  D!TimevalOf, D!NotAfter, D!Microseconds, Parts!TimevalOf, Parts!NotAfter, Parts!Microseconds

LEMMA DelayOfParts ==
  ASSUME NEW m, NEW t, NEW delay, D!delay_packet(m, t, delay)
  PROVE  Parts!delay_packet(m, t, delay)
BY DEF D!delay_packet, D!MutexFree, D!Signals, D!MinTimes,
  Parts!delay_packet, Parts!MutexFree, Parts!Signals, Parts!MinTimes,
  D!TimevalOf, D!NotAfter, D!Before, D!AddDelay,
  Parts!TimevalOf, Parts!NotAfter, Parts!Before, Parts!AddDelay

LEMMA ChainOfParts ==
  ASSUME NEW c, NEW t, NEW draw
  PROVE  /\ L!chain_decide(c, t, draw) = Parts!chain_decide(c, t, draw)
         /\ L!NewReleaseTime(c, t, draw) = Parts!NewReleaseTime(c, t, draw)
<1>1. L!ChainDelay(c, t, draw) = Parts!ChainDelay(c, t, draw)
  BY DEF L!ChainDelay, L!StableDelay, L!TruncDiv, L!AddDelay,
    Parts!ChainDelay, Parts!StableDelay, Parts!TruncDiv, Parts!AddDelay
<1>2. L!chain_decide(c, t, draw) = Parts!chain_decide(c, t, draw)
  BY <1>1 DEF L!chain_decide, L!Accept, Parts!chain_decide, Parts!Accept
<1>3. L!NewReleaseTime(c, t, draw) = Parts!NewReleaseTime(c, t, draw)
  BY <1>1 DEF L!NewReleaseTime, L!AddDelay, Parts!NewReleaseTime, Parts!AddDelay
<1> QED
  BY <1>2, <1>3

LEMMA VerdictOfParts ==
  ASSUME NEW says, NEW v
  PROVE  /\ L!GlobalVerdict(says) = Parts!GlobalVerdict(says)
         /\ L!ZeroDelayIsAccept(v) = Parts!ZeroDelayIsAccept(v)
BY DEF L!GlobalVerdict, L!Accumulate, L!Accept, L!Cardinality, L!ZeroDelayIsAccept,
  Parts!GlobalVerdict, Parts!Accumulate, Parts!Accept, Parts!Cardinality,
  Parts!ZeroDelayIsAccept

LEMMA DecisionOfParts ==
  ASSUME NEW m, L!decide(m)
  PROVE  Parts!decide(m)
<1> DEFINE t == L!TimevalOf(now)
<1>1. /\ L!Draws = Parts!Draws /\ L!NoDraw = Parts!NoDraw /\ L!Chains = Parts!Chains
      /\ t = Parts!TimevalOf(now) /\ L!Accept("UNPROCESSED") = Parts!Accept("UNPROCESSED")
  BY DEF L!Draws, L!NoDraw, L!Chains, L!TimevalOf, L!Accept,
    Parts!Draws, Parts!NoDraw, Parts!Chains, Parts!TimevalOf, Parts!Accept
<1> DEFINE Rest(draw, global) ==
             LET default == global.flag = "UNPROCESSED" /\ NumChains > 0
                 spoke == Matches[m] \cup IF default THEN {0} ELSE {}
             IN  \E default_draw \in IF default THEN L!Draws ELSE {L!NoDraw} :
                   LET drawn == [c \in spoke |-> IF c = 0 THEN default_draw ELSE draw[c]]
                   IN  /\ verdict' = L!ZeroDelayIsAccept(
                                       IF default THEN L!chain_decide(0, t, drawn[0])
                                                  ELSE global)
                       /\ chain_verdicts' = [c \in spoke |->
                                               [says   |-> L!chain_decide(c, t, drawn[c]),
                                                stable |-> drawn[c].stable]]
                       /\ last_packet_release_time' =
                            [c \in L!Chains |-> IF c \in spoke
                                                THEN L!NewReleaseTime(c, t, drawn[c])
                                                ELSE last_packet_release_time[c]]
<1>2. PICK draw \in [Matches[m] -> L!Draws] :
        Rest(draw, L!GlobalVerdict(
                     [c \in L!Chains \ {0} |->
                        IF c \in Matches[m] THEN L!chain_decide(c, t, draw[c])
                                            ELSE L!Accept("UNPROCESSED")]))
  BY DEF L!decide
<1> HIDE DEF t, Rest
<1> DEFINE says == [c \in Parts!Chains \ {0} |->
                       IF c \in Matches[m] THEN Parts!chain_decide(c, t, draw[c])
                                           ELSE Parts!Accept("UNPROCESSED")]
           global == Parts!GlobalVerdict(says)
           default == global.flag = "UNPROCESSED" /\ NumChains > 0
           spoke == Matches[m] \cup IF default THEN {0} ELSE {}
<1>3. says = [c \in L!Chains \ {0} |->
                IF c \in Matches[m] THEN L!chain_decide(c, t, draw[c])
                                    ELSE L!Accept("UNPROCESSED")]
  BY <1>1, ChainOfParts
<1>4. global = L!GlobalVerdict(says)
  BY VerdictOfParts
<1> HIDE DEF says
<1>5. Rest(draw, global)
  BY <1>2, <1>3, <1>4
<1>6. PICK default_draw \in IF default THEN L!Draws ELSE {L!NoDraw} :
        LET drawn == [c \in spoke |-> IF c = 0 THEN default_draw ELSE draw[c]]
        IN  /\ verdict' = L!ZeroDelayIsAccept(
                            IF default THEN L!chain_decide(0, t, drawn[0])
                                       ELSE global)
            /\ chain_verdicts' = [c \in spoke |->
                                    [says   |-> L!chain_decide(c, t, drawn[c]),
                                     stable |-> drawn[c].stable]]
            /\ last_packet_release_time' =
                 [c \in L!Chains |-> IF c \in spoke
                                     THEN L!NewReleaseTime(c, t, drawn[c])
                                     ELSE last_packet_release_time[c]]
  BY <1>5 DEF Rest
<1> DEFINE drawn == [c \in spoke |-> IF c = 0 THEN default_draw ELSE draw[c]]
<1> HIDE DEF global, default, spoke
<1>7. verdict' = Parts!ZeroDelayIsAccept(
                   IF default THEN Parts!chain_decide(0, t, drawn[0]) ELSE global)
  <2>1. verdict' = L!ZeroDelayIsAccept(
                     IF default THEN L!chain_decide(0, t, drawn[0]) ELSE global)
    BY <1>6
  <2> HIDE DEF drawn
  <2>2. L!chain_decide(0, t, drawn[0]) = Parts!chain_decide(0, t, drawn[0])
    BY ChainOfParts
  <2>3. \A v : L!ZeroDelayIsAccept(v) = Parts!ZeroDelayIsAccept(v)
    BY VerdictOfParts
  <2> QED
    BY <2>1, <2>2, <2>3
<1>8. chain_verdicts' = [c \in spoke |->
                           [says   |-> Parts!chain_decide(c, t, drawn[c]),
                            stable |-> drawn[c].stable]]
  BY <1>6, ChainOfParts
<1>9. last_packet_release_time' =
        [c \in Parts!Chains |-> IF c \in spoke
                                  THEN Parts!NewReleaseTime(c, t, drawn[c])
                                  ELSE last_packet_release_time[c]]
  BY <1>1, <1>6, ChainOfParts
<1>10. draw \in [Matches[m] -> Parts!Draws]
      /\ default_draw \in IF default THEN Parts!Draws ELSE {Parts!NoDraw}
  BY <1>1
<1> QED
  BY <1>1, <1>7, <1>8, <1>9, <1>10 DEF Parts!decide, says, global, default, spoke

LEMMA JudgementOfParts ==
  ASSUME NEW m, L!decide_what_to_do_with_packet(m)
  PROVE  Parts!decide_what_to_do_with_packet(m)
BY DecisionOfParts DEF L!decide_what_to_do_with_packet, L!Accept,
  Parts!decide_what_to_do_with_packet, Parts!Accept

(* The invariant of the whole: the parts' own, times for the arrivals, and *)
(* that a packet without data is accepted.                                 *)
EmptyAccepted ==
  arbitrator = "act" /\ Current \in EmptyPackets => verdict.action = "ACCEPT"

WholeInv ==
  /\ IInv /\ Parts!IInv /\ Parts!LogicIInv
  /\ arrival \in [DOMAIN arrival -> Nat]
  /\ EmptyAccepted

LEMMA InitWholeInv == ASSUME Init PROVE WholeInv
<1>1. IInv
  BY InitIInv
<1>2. Parts!IInv
  <2>1. Parts!Init
    BY DEF Init, D!Init, D!Dead, D!NoPackets, Parts!Init, Parts!Dead, Parts!NoPackets
  <2> QED
    BY <2>1, PartsAssume, Parts!InitIInv
<1>3. Parts!LogicIInv
  <2>1. Parts!LogicInit
    BY DEF Init, L!LogicInit, L!NoVerdict, L!Accept, L!Chains,
      Parts!LogicInit, Parts!NoVerdict, Parts!Accept, Parts!Chains
  <2> QED
    BY <2>1, PartsAssume, Parts!InitLogicIInv
<1>4. arrival \in [DOMAIN arrival -> Nat] /\ EmptyAccepted
  BY DEF Init, D!NoPackets, EmptyAccepted
<1> QED
  BY <1>1, <1>2, <1>3, <1>4 DEF WholeInv

(* A packet in the arbitrator's hands has not been in the delayer.         *)
LEMMA HandedOver ==
  ASSUME WholeInv, ArbitratorDelay
  PROVE  /\ Current \in Packets \ DOMAIN promised
         /\ arrival[Current] \in Nat /\ verdict.delay_len \in Nat
         /\ Parts!delay_packet(Current, arrival[Current], verdict.delay_len)
<1>1. /\ Current \in Packets /\ Current \in DOMAIN arrival
      /\ \A pl \in PlaceNames : At(pl, Current) <=> pl = "arbitrator"
  BY InHand DEF WholeInv, ArbitratorDelay
<1>2. ~ At("delayer", Current) /\ ~ At("released", Current)
  BY <1>1 DEF PlaceNames
<1>3. Current \notin DOMAIN promised
  BY <1>2 DEF At, WholeInv, Parts!IInv, Parts!QueuedOrReleased
<1>4. verdict.delay_len \in Nat
  BY DEF WholeInv, Parts!LogicIInv, Parts!Verdicts
<1>5. Parts!delay_packet(Current, arrival[Current], verdict.delay_len)
  BY DelayOfParts DEF ArbitratorDelay
<1> QED
  BY <1>1, <1>3, <1>4, <1>5 DEF WholeInv

(* What a step of the pipeline is to the delayer.                          *)
LEMMA DelayerStep ==
  ASSUME WholeInv, [Next]_vars
  PROVE  \/ \E m \in Packets \ DOMAIN promised, t \in Nat, delay \in Nat :
              Parts!delay_packet(m, t, delay)
         \/ Parts!ReleaserStep \/ Parts!SpuriousWakeup \/ Parts!Tick
         \/ UNCHANGED Parts!vars
<1>1. CASE ArbitratorDelay
  BY <1>1, HandedOver
<1>2. CASE Releaser
  BY <1>2, ReleaserOfParts DEF Releaser
<1>3. CASE Tick
  BY <1>3 DEF Tick, D!Tick, Parts!Tick
<1>4. CASE UNCHANGED delayerVars
  BY <1>4 DEF delayerVars, Parts!vars
<1> QED
  BY <1>1, <1>2, <1>3, <1>4 DEF Next, vars, ArbitratorStep, Receive, ArbitratorDequeue,
     ArbitratorDecide, ArbitratorAccept, ArbitratorDrop, QueueSpuriousWakeup

LEMMA DelayerKeepsIInv ==
  ASSUME WholeInv, [Next]_vars
  PROVE  Parts!IInv'
<1>1. Parts!IInv
  BY DEF WholeInv
<1> QED
  BY <1>1, DelayerStep, PartsAssume, Parts!DelayKeepsIInv, Parts!ReleaserKeepsIInv,
     Parts!TickKeepsIInv, Parts!StutterKeepsIInv

(* What it is to the packet logic: a judgement, the end of one, or nothing. *)
LEMMA LogicStep ==
  ASSUME WholeInv, [Next]_vars
  PROVE  \/ /\ UNCHANGED now /\ \E drawn : Parts!Drawn(drawn)
            /\ verdict' \in Parts!Verdicts /\ Parts!Follows(verdict', chain_verdicts')
         \/ UNCHANGED logicVars
<1>1. CASE ArbitratorDecide
  <2>1. UNCHANGED now /\ Parts!decide_what_to_do_with_packet(Current)
    BY <1>1, JudgementOfParts DEF ArbitratorDecide, delayerVars
  <2>2. Current \in Packets
    <3>1. received \in Seq(Packets) /\ received # <<>>
      BY <1>1 DEF WholeInv, IInv, TypeInv, ArbitratorDecide
    <3>2. Len(received) \in 1 .. Len(received)
      BY <3>1
    <3> QED
      BY <3>1, <3>2 DEF Current
  <2> QED
    BY <2>1, <2>2, PartsAssume, Parts!JudgementEffect DEF WholeInv
<1>2. CASE NextPacket /\ UNCHANGED now
  <2>1. verdict' = Parts!Accept("UNPROCESSED")
    BY <1>2 DEF NextPacket, L!NoVerdict, L!Accept, Parts!Accept
  <2> QED
    BY <1>2, <2>1, PartsAssume, Parts!UnseenEffect DEF NextPacket, WholeInv
<1>3. CASE ArbitratorAccept \/ ArbitratorDrop \/ ArbitratorDelay
  BY <1>2, <1>3 DEF ArbitratorAccept, ArbitratorDrop, ArbitratorDelay, D!delay_packet, delayerVars
<1> QED
  BY <1>1, <1>3 DEF Next, vars, ArbitratorStep, Receive, ArbitratorDequeue, QueueSpuriousWakeup,
     Releaser, Tick

LEMMA LogicKeepsIInv ==
  ASSUME WholeInv, [Next]_vars
  PROVE  Parts!LogicIInv'
<1>1. Parts!LogicIInv
  BY DEF WholeInv
<1>2. now' \in Nat
  BY DelayerKeepsIInv DEF Parts!IInv, Parts!TypeInv
<1>3. CASE UNCHANGED logicVars
  BY <1>1, <1>2, <1>3, PartsAssume, Parts!ClockKeepsLogicIInv DEF logicVars
<1>4. CASE /\ UNCHANGED now /\ \E drawn : Parts!Drawn(drawn)
           /\ verdict' \in Parts!Verdicts /\ Parts!Follows(verdict', chain_verdicts')
  BY <1>1, <1>4, PartsAssume, Parts!EffectKeepsIInv
<1> QED
  BY <1>3, <1>4, LogicStep

LEMMA NextKeepsWholeInv ==
  ASSUME WholeInv, [Next]_vars
  PROVE  WholeInv'
<1>1. IInv'
  BY NextKeepsIInv DEF WholeInv
<1>2. Parts!IInv' /\ Parts!LogicIInv'
  BY DelayerKeepsIInv, LogicKeepsIInv
<1>3. arrival' \in [DOMAIN arrival' -> Nat]
  <2>1. ASSUME NEW m \in Packets, Receive(m) PROVE arrival' \in [DOMAIN arrival' -> Nat]
    <3>1. now \in Nat
      BY DEF WholeInv, Parts!IInv, Parts!TypeInv
    <3> QED
      BY <2>1, <3>1 DEF Receive, WholeInv
  <2>2. CASE UNCHANGED arrival
    BY <2>2 DEF WholeInv
  <2> QED
    BY <2>1, <2>2 DEF Next, vars, mainVars, ArbitratorStep, ArbitratorDequeue, ArbitratorDecide,
       ArbitratorAccept, ArbitratorDrop, ArbitratorDelay, QueueSpuriousWakeup, Releaser, Tick
<1>4. EmptyAccepted'
  <2>1. CASE ArbitratorDecide
    <3>1. received' = received /\ L!decide_what_to_do_with_packet(Current)
      BY <2>1 DEF ArbitratorDecide, queueVars
    <3>2. Current' = Current
      BY <3>1 DEF Current
    <3>3. Current \in EmptyPackets => verdict'.action = "ACCEPT"
      BY <3>1 DEF L!decide_what_to_do_with_packet, L!Accept
    <3> QED
      BY <3>2, <3>3 DEF EmptyAccepted
  <2>2. CASE arbitrator' \in {"dequeue", "decide"}
    BY <2>2 DEF EmptyAccepted
  <2>3. CASE UNCHANGED <<arbitrator, received, verdict>>
    BY <2>3 DEF EmptyAccepted, WholeInv, Current
  <2> QED
    BY <2>1, <2>2, <2>3 DEF Next, vars, ArbitratorStep, Receive, Q!Enqueue, ArbitratorDequeue,
       ArbitratorAccept, ArbitratorDrop, ArbitratorDelay, NextPacket, QueueSpuriousWakeup,
       Q!SpuriousWakeup, Releaser, Tick, queueVars, logicVars, mainVars
<1> QED
  BY <1>1, <1>2, <1>3, <1>4 DEF WholeInv

(* main.c, queue.c, packet_logic.c and delayer.c together: every part      *)
(* keeps its invariant among the others' steps.                            *)
THEOREM WholeInvariant == Spec => []WholeInv
<1>1. Init => WholeInv
  BY InitWholeInv
<1>2. WholeInv /\ [Next]_vars => WholeInv'
  BY NextKeepsWholeInv
<1> QED
  BY <1>1, <1>2, PTL DEF Spec

(* Among the other threads too, no packet leaves before its time, and the  *)
(* delayer loses none: its packets are the arbitrator thread's, with the   *)
(* arrival times of the main thread and the delays of the packet logic.    *)
THEOREM PipelineDelaysEnough == Spec => [](D!NeverEarly /\ D!QueuedOrReleased)
<1>1. WholeInv => D!NeverEarly /\ D!QueuedOrReleased
  BY DEF WholeInv, Parts!IInv, Parts!NeverEarly, Parts!QueuedOrReleased, D!NeverEarly,
     D!QueuedOrReleased
<1> QED
  BY <1>1, WholeInvariant, PTL

(* A packet that the arbitrator thread hands over while the releaser       *)
(* sleeps wakes it if it is due before the others.                         *)
THEOREM PipelineSleepsNoLonger == Spec => []D!SleepsNoLonger
<1>1. Init => Parts!SleepsNoLonger
  BY DEF Init, D!Init, Parts!SleepsNoLonger
<1>2. WholeInv /\ Parts!SleepsNoLonger /\ [Next]_vars => Parts!SleepsNoLonger'
  <2> SUFFICES ASSUME WholeInv, Parts!SleepsNoLonger, [Next]_vars
               PROVE  Parts!SleepsNoLonger'
    OBVIOUS
  <2>1. Parts!IInv
    BY DEF WholeInv
  <2> QED
    BY <2>1, DelayerStep, PartsAssume, Parts!DelaySleepsNoLonger, Parts!OthersSleepNoLonger
<1>3. Parts!SleepsNoLonger => D!SleepsNoLonger
  BY DEF Parts!SleepsNoLonger, D!SleepsNoLonger
<1> QED
  BY <1>1, <1>2, <1>3, WholeInvariant, PTL DEF Spec

(* Of the packets held back, one that is due before the others leaves      *)
(* first, whatever the arbitrator thread adds meanwhile.                   *)
THEOREM PipelineEarliestFirst == Spec => D!EarliestFirst
<1>1. ASSUME WholeInv, [Next]_vars,
             NEW p \in DOMAIN released' \ DOMAIN released, NEW f \in pq'
      PROVE  promised[p] <= promised[f.m]
  <2>1. Parts!LoopRelease
    BY <1>1, DelayerStep DEF Parts!delay_packet, Parts!ReleaserStep, Parts!LoopLock,
       Parts!LoopNoneDue, Parts!LoopWait, Parts!LoopNoWait, Parts!LoopTimeout,
       Parts!LoopSignalled, Parts!SpuriousWakeup, Parts!Tick, Parts!vars
  <2>2. Parts!IInv
    BY <1>1 DEF WholeInv
  <2> QED
    BY <1>1, <2>1, <2>2, PartsAssume, Parts!LeastIsReleased
<1>2. WholeInv /\ [Next]_vars =>
        [\A p \in DOMAIN released' \ DOMAIN released :
           \A e \in pq' : promised[p] <= promised[e.m]]_(D!vars)
  BY <1>1
<1> QED
  BY <1>2, WholeInvariant, PTL DEF Spec, D!EarliestFirst

(* What the arbitrator thread acts on is the verdict of the rules.         *)
THEOREM PipelineFollowsRules == Spec => []L!VerdictFollowsRules
<1>1. \A answers : L!TotalDelay(answers) = Parts!TotalDelay(answers)
  BY DEF L!TotalDelay, Parts!TotalDelay
<1>2. WholeInv => L!VerdictFollowsRules
  BY <1>1 DEF WholeInv, Parts!LogicIInv, Parts!VerdictFollowsRules, L!VerdictFollowsRules
<1> QED
  BY <1>2, WholeInvariant, PTL

(* Each chain remembers when the packets it delayed are to leave, and what *)
(* it delays stably hardly steps back, while packets come and go.          *)
THEOREM PipelineKeepsReleaseTimes == Spec => L!EachChainKeepsItsTime /\ L!StableDrift
<1> DEFINE Kept ==
      \A c \in L!Chains :
        IF c \in DOMAIN chain_verdicts' /\ chain_verdicts'[c].says.action = "DELAY"
          THEN L!Microseconds(last_packet_release_time'[c]) =
                 now + chain_verdicts'[c].says.delay_len * UsecPerMsec
          ELSE UNCHANGED last_packet_release_time[c]
           Drift ==
      \A c \in DOMAIN chain_verdicts' :
        LET old == last_packet_release_time[c]
            new == L!Microseconds(last_packet_release_time'[c])
        IN  /\ chain_verdicts'[c].says.action = "DELAY"
            /\ chain_verdicts'[c].stable
            /\ old.sec # 0
            => new + UsecPerMsec > L!Microseconds(old)
<1>1. ASSUME WholeInv, [Next]_vars,
             ~ UNCHANGED <<last_packet_release_time, chain_verdicts>>
      PROVE  Kept /\ Drift
  <2>1. PICK drawn : Parts!Drawn(drawn)
    BY <1>1, LogicStep DEF logicVars
  <2>2. Parts!LogicIInv
    BY <1>1 DEF WholeInv
  <2>3. DOMAIN chain_verdicts' \subseteq Parts!Chains /\ Parts!Chains = L!Chains
    BY <2>1 DEF Parts!Drawn, Parts!Chains, L!Chains
  <2>4. ASSUME NEW c \in Parts!Chains
        PROVE  IF c \in DOMAIN chain_verdicts'
                 THEN LET last == last_packet_release_time[c]
                          new == last_packet_release_time'[c]
                          answer == chain_verdicts'[c]
                      IN  /\ IF answer.says.action = "DELAY"
                               THEN L!Microseconds(new) =
                                      now + answer.says.delay_len * UsecPerMsec
                               ELSE new = last
                          /\ answer.says.action = "DELAY" /\ answer.stable /\ last.sec # 0
                               => L!Microseconds(new) + UsecPerMsec > L!Microseconds(last)
                 ELSE last_packet_release_time'[c] = last_packet_release_time[c]
    <3>1. \A tv : L!Microseconds(tv) = Parts!Microseconds(tv)
      BY DEF L!Microseconds, Parts!Microseconds
    <3> QED
      BY <2>1, <2>2, <2>4, <3>1, PartsAssume, Parts!ChainStep
  <2>5. Kept
    BY <2>3, <2>4
  <2>6. Drift
    BY <2>3, <2>4
  <2> QED
    BY <2>5, <2>6
<1>2. WholeInv /\ [Next]_vars
        => /\ [Kept]_<<last_packet_release_time, chain_verdicts>>
           /\ [Drift]_<<last_packet_release_time, chain_verdicts>>
  BY <1>1
<1> QED
  BY <1>2, WholeInvariant, PTL DEF Spec, L!EachChainKeepsItsTime, L!StableDrift

-----------------------------------------------------------------------------
(* The refinement.  What waits is what the arbitrator thread has in its    *)
(* hands, if anything, and then the queue.                                 *)
LEMMA Sequences ==
  ASSUME NEW S, NEW s \in Seq(S), NEW x \in S
  PROVE  /\ <<>> \o s = s
         /\ <<x>> \o s # <<>> /\ Head(<<x>> \o s) = x /\ Tail(<<x>> \o s) = s
         /\ s # <<>> => <<Head(s)>> \o Tail(s) = s
         /\ \A y \in S : /\ Append(s, y) = <<>> \o Append(s, y)
                         /\ <<x>> \o Append(s, y) = Append(<<x>> \o s, y)
<1>1. <<>> \o s = s
  OBVIOUS
<1>2. <<x>> \o s # <<>> /\ Head(<<x>> \o s) = x /\ Tail(<<x>> \o s) = s
  OBVIOUS
<1>3. s # <<>> => <<Head(s)>> \o Tail(s) = s
  OBVIOUS
<1>4. ASSUME NEW y \in S
      PROVE  /\ Append(s, y) = <<>> \o Append(s, y)
             /\ <<x>> \o Append(s, y) = Append(<<x>> \o s, y)
  OBVIOUS
<1> QED
  BY <1>1, <1>2, <1>3, <1>4

LEMMA HandsAndQueue ==
  ASSUME IInv
  PROVE  /\ list \in Seq(Packets)
         /\ arbitrator = "dequeue" => Waiting = list
         /\ arbitrator # "dequeue" =>
              /\ Current \in Packets /\ Waiting = <<Current>> \o list
              /\ Waiting # <<>> /\ Head(Waiting) = Current /\ Tail(Waiting) = list
<1>1. list \in Seq(Packets)
  BY DEF IInv, TypeInv
<1>2. CASE arbitrator = "dequeue"
  BY <1>1, <1>2 DEF Waiting
<1>3. CASE arbitrator # "dequeue"
  <2>1. received \in Seq(Packets) /\ received # <<>>
    BY <1>3 DEF IInv, TypeInv
  <2>2. Len(received) \in 1 .. Len(received)
    BY <2>1
  <2>3. Current \in Packets
    BY <2>1, <2>2 DEF Current
  <2>4. Waiting = <<Current>> \o list
    BY <1>3 DEF Waiting
  <2> QED
    BY <1>1, <1>3, <2>3, <2>4, Sequences
<1> QED
  BY <1>1, <1>2, <1>3

LEMMA ReceiveArrives ==
  ASSUME WholeInv, NEW m \in Packets, Receive(m)
  PROVE  Abstract!Arrive(m)
<1>1. /\ list' = Append(list, m) /\ list \in Seq(Packets)
      /\ UNCHANGED <<received, arbitrator, pq, promised, released, passed, dropped, now>>
  BY DEF Receive, Q!Enqueue, delayerVars, WholeInv, IInv, TypeInv
<1>2. Waiting' = Append(Waiting, m)
  <2>1. CASE arbitrator = "dequeue"
    BY <1>1, <2>1, Sequences DEF Waiting
  <2>2. CASE arbitrator # "dequeue"
    <3>1. Current \in Packets /\ Waiting = <<Current>> \o list
      BY <2>2, HandsAndQueue DEF WholeInv
    <3>2. Waiting' = <<Current>> \o Append(list, m)
      BY <1>1, <2>2 DEF Waiting, Current
    <3> QED
      BY <1>1, <3>1, <3>2, Sequences
  <2> QED
    BY <2>1, <2>2
<1>3. Due' = Due /\ Sent' = Sent
  BY <1>1 DEF Due, Sent, Passed
<1> QED
  BY <1>1, <1>2, <1>3 DEF Receive, Abstract!Arrive

(* From the queue into the arbitrator thread's hands.                      *)
LEMMA DequeueChangesNothing ==
  ASSUME WholeInv, ArbitratorDequeue
  PROVE  UNCHANGED Abstract!vars
<1>1. /\ UNCHANGED <<pq, promised, released, passed, dropped, now, arrival>>
      /\ arbitrator = "dequeue"
      /\ arbitrator' = IF received' = received THEN "dequeue" ELSE "decide"
  BY DEF ArbitratorDequeue, delayerVars
<1>2. Due' = Due /\ Sent' = Sent
  BY <1>1 DEF Due, Sent, Passed
<1>3. Waiting' = Waiting
  <2>1. list \in Seq(Packets) /\ received \in Seq(Packets)
    BY DEF WholeInv, IInv, TypeInv
  <2>2. CASE Q!TakeHead
    <3>1. /\ list # <<>> /\ received' = Append(received, Head(list)) /\ list' = Tail(list)
          /\ Head(list) \in Packets
      BY <2>1, <2>2 DEF Q!TakeHead
    <3>2. received' # received /\ Current' = Head(list)
      <4>1. Len(received') = Len(received) + 1 /\ Len(received) \in Nat
        BY <2>1, <3>1
      <4>2. received'[Len(received')] = Head(list)
        BY <2>1, <3>1
      <4> QED
        BY <4>1, <4>2 DEF Current
    <3>3. Waiting' = <<Head(list)>> \o Tail(list) /\ Waiting = list
      BY <1>1, <2>1, <3>1, <3>2 DEF Waiting
    <3> QED
      BY <2>1, <3>1, <3>3, Sequences
  <2>3. CASE UNCHANGED <<list, received>>
    BY <1>1, <2>3 DEF Waiting
  <2> QED
    BY <2>2, <2>3 DEF ArbitratorDequeue, Q!DequeuerStep, Q!Dequeue, Q!DequeueWait,
       Q!DequeueResume, Q!DequeueNull
<1> QED
  BY <1>1, <1>2, <1>3 DEF Abstract!vars

(* A verdict is a verdict on the first packet that waits.                  *)
LEMMA VerdictJudges ==
  ASSUME WholeInv, arbitrator = "act", arbitrator' = "dequeue",
         UNCHANGED <<list, now, arrival>>
  PROVE  /\ Abstract!Judge /\ Head(Waiting) = Current
         /\ Current \in EmptyPackets => verdict.action = "ACCEPT"
<1>1. /\ list \in Seq(Packets)
      /\ Waiting # <<>> /\ Head(Waiting) = Current /\ Tail(Waiting) = list
  BY HandsAndQueue DEF WholeInv
<1>2. Waiting' = list
  BY <1>1 DEF Waiting
<1> QED
  BY <1>1, <1>2 DEF Abstract!Judge, WholeInv, EmptyAccepted

LEMMA AcceptAccepts ==
  ASSUME WholeInv, ArbitratorAccept
  PROVE  Abstract!Accept
<1>1. /\ arbitrator = "act" /\ arbitrator' = "dequeue"
      /\ UNCHANGED <<list, now, arrival, pq, promised, released, dropped>>
      /\ passed' = Append(passed, Current) /\ passed \in Seq(Packets)
  BY DEF ArbitratorAccept, NextPacket, queueVars, delayerVars, WholeInv, IInv, TypeInv
<1>2. Abstract!Judge /\ Head(Waiting) = Current
  BY <1>1, VerdictJudges
<1>3. Current \in Packets
  BY <1>1, HandsAndQueue DEF WholeInv
<1>4. Passed' = Passed \cup {Current}
  <2>1. \A m : In(m, passed') <=> In(m, passed) \/ m = Current
    BY <1>1, <1>3, AppendHas
  <2>2. Passed = {passed[i] : i \in 1 .. Len(passed)}
        /\ Passed' = {passed'[i] : i \in 1 .. Len(passed')}
    BY DEF Passed
  <2> QED
    BY <2>1, <2>2 DEF In
<1>5. Due' = Due /\ Sent' = Sent \cup {Current}
  BY <1>1, <1>4 DEF Due, Sent
<1> QED
  BY <1>1, <1>2, <1>5 DEF Abstract!Accept

LEMMA DropDrops ==
  ASSUME WholeInv, ArbitratorDrop
  PROVE  Abstract!Drop
<1>1. /\ arbitrator = "act" /\ arbitrator' = "dequeue" /\ verdict.action = "DROP"
      /\ UNCHANGED <<list, now, arrival, pq, promised, released, passed>>
      /\ dropped' = dropped \cup {Current}
  BY DEF ArbitratorDrop, NextPacket, queueVars, delayerVars
<1>2. Abstract!Judge /\ Head(Waiting) = Current /\ Current \notin EmptyPackets
  BY <1>1, VerdictJudges
<1>3. Due' = Due /\ Sent' = Sent
  BY <1>1 DEF Due, Sent, Passed
<1> QED
  BY <1>1, <1>2, <1>3 DEF Abstract!Drop

(* A delay that is not zero: the packet is due after it came.              *)
LEMMA DelayDelays ==
  ASSUME WholeInv, ArbitratorDelay
  PROVE  Abstract!Delay
<1> DEFINE tv == Parts!AddDelay(Parts!TimevalOf(arrival[Current]), verdict.delay_len)
           new == [m |-> Current, tv |-> tv]
           time == arrival[Current] + verdict.delay_len * UsecPerMsec
<1>1. /\ arbitrator = "act" /\ arbitrator' = "dequeue" /\ verdict.action = "DELAY"
      /\ UNCHANGED <<list, arrival, passed, dropped>>
  BY DEF ArbitratorDelay, NextPacket, queueVars
<1>2. /\ Current \in Packets \ DOMAIN promised
      /\ arrival[Current] \in Nat /\ verdict.delay_len \in Nat
      /\ Parts!delay_packet(Current, arrival[Current], verdict.delay_len)
  BY HandedOver
<1>3. /\ pq' = pq \cup {new} /\ UNCHANGED <<now, released>>
      /\ promised' = [p \in DOMAIN promised \cup {Current} |->
                        IF p = Current THEN time ELSE promised[p]]
  BY <1>2 DEF Parts!delay_packet
<1>4. new.m = Current
  OBVIOUS
<1> HIDE DEF new
<1>5. time \in Nat /\ arrival[Current] < time
  <2>1. verdict.delay_len > 0
    BY <1>1, <1>2 DEF WholeInv, Parts!LogicIInv, Parts!VerdictFollowsRules
  <2>2. \A d \in Nat \ {0}, u \in Nat \ {0} : d * u \in Nat /\ d * u > 0
    <3> SUFFICES ASSUME NEW d \in Nat \ {0}, NEW u \in Nat \ {0}
                 PROVE  d * u \in Nat /\ d * u > 0
      OBVIOUS
    <3> QED
      OBVIOUS
  <2>3. verdict.delay_len * UsecPerMsec \in Nat /\ verdict.delay_len * UsecPerMsec > 0
    BY <1>2, <2>1, <2>2, TimevalAssumption
  <2> QED
    BY <1>2, <2>3
<1> HIDE DEF time
<1>6. Abstract!Judge /\ Head(Waiting) = Current /\ Current \notin EmptyPackets
  BY <1>1, <1>3, VerdictJudges
<1>7. Sent' = Sent
  BY <1>1, <1>3 DEF Sent, Passed
<1>8. \A p \in DOMAIN Due : p # Current /\ p \in DOMAIN promised /\ Due[p] = promised[p]
                             /\ promised[p] \in Nat
  BY <1>2 DEF Due, WholeInv, Parts!IInv, Parts!QueuedAsPromised, Parts!TypeInv
<1>9. DOMAIN Due' = DOMAIN Due \cup {Current}
  <2>1. DOMAIN Due' = {e.m : e \in pq'} /\ DOMAIN Due = {e.m : e \in pq}
    BY DEF Due
  <2> QED
    BY <1>3, <1>4, <2>1
<1>10. \A p \in DOMAIN Due' : Due'[p] = promised'[p]
  BY DEF Due
<1>11. \A p \in DOMAIN Due : Due'[p] = Due[p]
  BY <1>3, <1>8, <1>9, <1>10
<1>12. Due'[Current] = time
  BY <1>3, <1>9, <1>10
<1>13. Due' \in [DOMAIN Due \cup {Current} -> Nat]
  <2>1. Due' = [p \in DOMAIN Due' |-> promised'[p]]
    BY DEF Due
  <2>2. \A p \in DOMAIN Due' : Due'[p] \in Nat
    BY <1>5, <1>8, <1>9, <1>11, <1>12
  <2> QED
    BY <1>9, <2>1, <2>2
<1> QED
  BY <1>1, <1>5, <1>6, <1>7, <1>11, <1>12, <1>13 DEF Abstract!Delay

LEMMA ReleaseReleases ==
  ASSUME WholeInv, Releaser
  PROVE  (\E m \in Packets : Abstract!Release(m)) \/ UNCHANGED Abstract!vars
<1>1. UNCHANGED <<list, received, arbitrator, arrival, passed, dropped>>
  BY DEF Releaser, queueVars, mainVars
<1>2. Waiting' = Waiting
  BY <1>1 DEF Waiting, Current
<1>3. Parts!IInv
  BY DEF WholeInv
<1>4. CASE Parts!LoopRelease
  <2>1. PICK e \in pq :
          /\ Parts!NotAfter(e.tv, loop_time) /\ pq' = pq \ {e}
          /\ released' = [p \in DOMAIN released \cup {e.m} |->
                            IF p = e.m THEN now ELSE released[p]]
    BY <1>4 DEF Parts!LoopRelease
  <2>2. releaser = "releasing" /\ UNCHANGED <<now, promised>>
    BY <1>4 DEF Parts!LoopRelease
  <2>3. promised[e.m] <= now
    BY <1>3, <2>1, <2>2, PartsAssume, Parts!ReleasedIsDue
  <2>4. e.m \in Packets /\ \A f, g \in pq : f.m = g.m => f = g
    BY DEF WholeInv, IInv, TypeInv, OnceEach
  <2>5. e.m \in DOMAIN released' \ DOMAIN released
    BY <1>3, <2>1 DEF Parts!IInv, Parts!QueuedOrReleased
  <2>6. \A f \in pq' : promised[e.m] <= promised[f.m]
    BY <1>3, <1>4, <2>5, PartsAssume, Parts!LeastIsReleased
  <2>7. promised[e.m] \in Nat
    BY <1>3 DEF Parts!IInv, Parts!TypeInv, Parts!QueuedAsPromised
  <2>8. \A f \in pq : promised[e.m] <= promised[f.m]
    BY <2>1, <2>6, <2>7
  <2>9. DOMAIN Due = {f.m : f \in pq} /\ \A f \in pq : Due[f.m] = promised[f.m]
    BY DEF Due
  <2>10. Due' = [p \in DOMAIN Due \ {e.m} |-> Due[p]]
    <3>1. {f.m : f \in pq'} = {f.m : f \in pq} \ {e.m}
      BY <2>1, <2>4
    <3>2. Due' = [p \in {f.m : f \in pq'} |-> promised[p]]
      BY <2>2 DEF Due
    <3> QED
      BY <2>9, <3>1, <3>2
  <2>11. Sent' = Sent \cup {e.m}
    BY <1>1, <2>1 DEF Sent, Passed
  <2>12. e.m \in DOMAIN Due /\ Due[e.m] <= now
         /\ \A p \in DOMAIN Due : Due[e.m] <= Due[p]
    BY <2>3, <2>8, <2>9
  <2>13. Abstract!Release(e.m)
    BY <1>1, <1>2, <2>2, <2>10, <2>11, <2>12 DEF Abstract!Release
  <2> QED
    BY <2>4, <2>13
<1>5. CASE UNCHANGED <<now, pq, promised, released>>
  <2>1. Due' = Due /\ Sent' = Sent
    BY <1>1, <1>5 DEF Due, Sent, Passed
  <2> QED
    BY <1>1, <1>2, <1>5, <2>1 DEF Abstract!vars
<1>6. Parts!ReleaserStep \/ Parts!SpuriousWakeup
  BY ReleaserOfParts DEF Releaser
<1> QED
  BY <1>4, <1>5, <1>6 DEF Parts!ReleaserStep, Parts!LoopLock, Parts!LoopNoneDue, Parts!LoopWait,
     Parts!LoopNoWait, Parts!LoopTimeout, Parts!LoopSignalled, Parts!SpuriousWakeup

LEMMA StepImplementsArbitrator ==
  ASSUME WholeInv, [Next]_vars
  PROVE  [Abstract!Next]_(Abstract!vars)
<1> DEFINE Quiet == UNCHANGED <<Waiting, pq, promised, released, passed, dropped, arrival>>
<1>1. ASSUME Quiet PROVE Due' = Due /\ Sent' = Sent
  BY <1>1 DEF Due, Sent, Passed
<1>2. CASE Tick
  <2>1. Quiet /\ now' = now + 1
    BY <1>2 DEF Tick, D!Tick, queueVars, mainVars, Waiting, Current
  <2> HIDE DEF Quiet
  <2>2. Abstract!Tick
    BY <1>1, <2>1 DEF Abstract!Tick, Quiet
  <2> QED
    BY <2>2 DEF Abstract!Next
<1>3. CASE QueueSpuriousWakeup \/ ArbitratorDecide \/ UNCHANGED vars
  <2>1. Quiet /\ now' = now
    BY <1>3 DEF QueueSpuriousWakeup, Q!SpuriousWakeup, ArbitratorDecide, vars, queueVars,
       delayerVars, mainVars, Waiting, Current
  <2> HIDE DEF Quiet
  <2> QED
    BY <1>1, <2>1 DEF Abstract!vars, Quiet
<1> HIDE DEF Quiet
<1>4. CASE Releaser
  BY <1>4, ReleaseReleases DEF Abstract!Next
<1>5. ASSUME NEW m \in Packets, Receive(m) PROVE Abstract!Next
  BY <1>5, ReceiveArrives DEF Abstract!Next
<1>6. CASE ArbitratorDequeue
  BY <1>6, DequeueChangesNothing
<1>7. CASE ArbitratorAccept \/ ArbitratorDrop \/ ArbitratorDelay
  BY <1>7, AcceptAccepts, DropDrops, DelayDelays DEF Abstract!Next
<1> QED
  BY <1>2, <1>3, <1>4, <1>5, <1>6, <1>7 DEF Next, ArbitratorStep

(* The arbitrator as its user sees it: whatever the threads, the queue and *)
(* the heap do in between, every packet gets one verdict, in the order of  *)
(* arrival, and a delayed one leaves after it is due, the earliest first.  *)
THEOREM PipelineImplementsArbitrator == Spec => ImplementsArbitrator
<1>1. Init => Abstract!Init
  <2> SUFFICES ASSUME Init PROVE Abstract!Init
    OBVIOUS
  <2>1. /\ now = UsecPerSec /\ pq = {} /\ list = <<>> /\ arbitrator = "dequeue"
        /\ passed = <<>> /\ dropped = {} /\ DOMAIN released = {} /\ DOMAIN arrival = {}
    BY DEF Init, D!Init, D!NoPackets, Q!Init
  <2>2. Waiting = <<>> /\ DOMAIN Due = {} /\ Sent = {}
    BY <2>1 DEF Waiting, Due, Sent, Passed
  <2> QED
    BY <2>1, <2>2, TimevalAssumption DEF Abstract!Init
<1>2. WholeInv /\ [Next]_vars => [Abstract!Next]_(Abstract!vars)
  BY StepImplementsArbitrator
<1> QED
  BY <1>1, <1>2, WholeInvariant, PTL DEF Spec, ImplementsArbitrator, Abstract!Spec
=============================================================================
