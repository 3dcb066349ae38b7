---------------------------- MODULE AbstractFifo ----------------------------
(***************************************************************************)
(* A first-in first-out queue that keeps a record of its output.           *)
(***************************************************************************)
EXTENDS Sequences

CONSTANT Messages

VARIABLES queue, out

vars == <<queue, out>>

Init == queue = <<>> /\ out = <<>>

Put(m) == queue' = Append(queue, m) /\ UNCHANGED out

Take ==
  /\ queue # <<>>
  /\ out' = Append(out, Head(queue))
  /\ queue' = Tail(queue)

Next == Take \/ \E m \in Messages : Put(m)

Spec == Init /\ [][Next]_vars
=============================================================================
