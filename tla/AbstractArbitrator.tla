------------------------- MODULE AbstractArbitrator -------------------------
(***************************************************************************)
(* What the arbitrator promises of the packets that it is given: each gets *)
(* one verdict, in the order in which they came, and a packet that is      *)
(* delayed leaves after it came, when its time has come and those due      *)
(* before it have left.  There are no threads, no queue and no timevals.   *)
(***************************************************************************)
EXTENDS Integers, Sequences

CONSTANTS Packets,
          EmptyPackets  \* never dropped or delayed

VARIABLES now,
          arrival,  \* when each packet came
          waiting,  \* the packets without a verdict, in order
          due,      \* when each packet held back is to leave
          sent, dropped

vars == <<now, arrival, waiting, due, sent, dropped>>

Init ==
  /\ now \in Nat
  /\ DOMAIN arrival = {} /\ waiting = <<>> /\ DOMAIN due = {}
  /\ sent = {} /\ dropped = {}

Arrive(m) ==
  /\ m \notin DOMAIN arrival
  /\ arrival' = [p \in DOMAIN arrival \cup {m} |-> IF p = m THEN now ELSE arrival[p]]
  /\ waiting' = Append(waiting, m)
  /\ UNCHANGED <<now, due, sent, dropped>>

(* A verdict is for the packet that has waited longest. *)
Judge ==
  /\ waiting # <<>>
  /\ waiting' = Tail(waiting)
  /\ UNCHANGED <<now, arrival>>

Accept ==
  /\ Judge
  /\ sent' = sent \cup {Head(waiting)}
  /\ UNCHANGED <<due, dropped>>

Drop ==
  /\ Judge
  /\ Head(waiting) \notin EmptyPackets
  /\ dropped' = dropped \cup {Head(waiting)}
  /\ UNCHANGED <<due, sent>>

Delay ==
  /\ Judge
  /\ Head(waiting) \notin EmptyPackets
  /\ due' \in [DOMAIN due \cup {Head(waiting)} -> Nat]
  /\ \A p \in DOMAIN due : due'[p] = due[p]
  /\ arrival[Head(waiting)] < due'[Head(waiting)]
  /\ UNCHANGED <<sent, dropped>>

Release(m) ==
  /\ m \in DOMAIN due
  /\ due[m] <= now
  /\ \A p \in DOMAIN due : due[m] <= due[p]
  /\ due' = [p \in DOMAIN due \ {m} |-> due[p]]
  /\ sent' = sent \cup {m}
  /\ UNCHANGED <<now, arrival, waiting, dropped>>

Tick ==
  /\ now' = now + 1
  /\ UNCHANGED <<arrival, waiting, due, sent, dropped>>

Next == \/ Accept \/ Drop \/ Delay \/ Tick
        \/ \E m \in Packets : Arrive(m) \/ Release(m)

Spec == Init /\ [][Next]_vars
=============================================================================
