--------------------------- MODULE AbstractPQueue ---------------------------
(***************************************************************************)
(* What a priority queue promises: it holds what was pushed and not yet    *)
(* popped, and a pop takes an element with the least key.                  *)
(***************************************************************************)
EXTENDS Integers

CONSTANTS Elements,  \* what may be queued, each at most once at a time
          Key(_)     \* the key the queue is ordered by

VARIABLES content, popped

vars == <<content, popped>>

Init == content = {} /\ popped = {}

Least(S) == {e \in S : \A f \in S : Key(e) <= Key(f)}

Push(e) ==
  /\ e \in Elements \ content
  /\ content' = content \cup {e}
  /\ popped' = {}

Pop ==
  \/ /\ content = {} /\ popped' = {} /\ UNCHANGED content
  \/ \E e \in Least(content) : content' = content \ {e} /\ popped' = {e}

Next == Pop \/ \E e \in Elements : Push(e)

Spec == Init /\ [][Next]_vars
=============================================================================
