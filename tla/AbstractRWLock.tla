--------------------------- MODULE AbstractRWLock ---------------------------
(***************************************************************************)
(* What a readers-writers lock promises to its clients: any number of      *)
(* readers at a time, or one writer and nobody else.                       *)
(***************************************************************************)
CONSTANT Threads

VARIABLES readers,  \* the threads that hold the lock for reading
          writers   \* the threads that hold the lock for writing

vars == <<readers, writers>>

Init == readers = {} /\ writers = {}

AcquireRead(t) ==
  /\ t \notin readers \cup writers
  /\ writers = {}
  /\ readers' = readers \cup {t}
  /\ UNCHANGED writers

AcquireWrite(t) ==
  /\ readers \cup writers = {}
  /\ writers' = {t}
  /\ UNCHANGED readers

ReleaseRead(t) ==
  /\ t \in readers
  /\ readers' = readers \ {t}
  /\ UNCHANGED writers

ReleaseWrite(t) ==
  /\ t \in writers
  /\ writers' = writers \ {t}
  /\ UNCHANGED readers

Next == \E t \in Threads :
          AcquireRead(t) \/ AcquireWrite(t) \/ ReleaseRead(t) \/ ReleaseWrite(t)

Spec == Init /\ [][Next]_vars
=============================================================================
