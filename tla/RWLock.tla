------------------------------- MODULE RWLock -------------------------------
(***************************************************************************)
(* The user-mode readers-writers lock of C/arbitrator/rwlock.c: a mutex,   *)
(* two condition variables and four counters.                              *)
(*                                                                         *)
(* Every function keeps the mutex from its first to its last statement and *)
(* gives it up only inside pthread_cond_wait, so the code between two      *)
(* releases of the mutex is one atomic step here, and the mutex itself     *)
(* does not appear.  A thread inside pthread_cond_wait is a member of      *)
(* cond_read or cond_write; signal removes one member, broadcast all, and  *)
(* a spurious wakeup, which POSIX allows, any.  A thread that was removed  *)
(* has yet to take the mutex again and to test its loop condition again.   *)
(*                                                                         *)
(* fairness_counter is not modelled: the code never initialises it and     *)
(* never reads it.  Nor are error returns of pthread_cond_wait.            *)
(***************************************************************************)
EXTENDS Integers, FiniteSets

CONSTANTS Readers,  \* threads that lock for reading: arbitrator, switcher
          Writers   \* threads that lock for writing: the interface thread

ASSUME ThreadsAssumption ==
  /\ IsFiniteSet(Readers) /\ IsFiniteSet(Writers)
  /\ Readers \cap Writers = {}

Threads == Readers \cup Writers

VARIABLES active_readers, active_writers, waiting_readers, waiting_writers,
          cond_read, cond_write,  \* the threads blocked in pthread_cond_wait
          pc                      \* where each thread is in the lock's code

counters == <<active_readers, active_writers, waiting_readers, waiting_writers>>
vars == <<counters, cond_read, cond_write, pc>>

Init ==
  /\ active_readers = 0 /\ active_writers = 0
  /\ waiting_readers = 0 /\ waiting_writers = 0
  /\ cond_read = {} /\ cond_write = {}
  /\ pc = [t \in Threads |-> "out"]

(* Mutant: readers do not make way for waiting writers. *)
allow_reader_unfair == active_writers = 0

allow_reader == active_writers = 0 /\ waiting_writers = 0

(* Mutant: a writer does not look at the readers. *)
allow_writer_among_readers == active_writers = 0

allow_writer == active_writers = 0 /\ active_readers = 0

-----------------------------------------------------------------------------
(* ip_noise_rwlock_down_read: straight through, or into pthread_cond_wait  *)
DownRead(t) ==
  /\ pc[t] = "out"
  /\ allow_reader
  /\ active_readers' = active_readers + 1
  /\ pc' = [pc EXCEPT ![t] = "reading"]
  /\ UNCHANGED <<active_writers, waiting_readers, waiting_writers,
                 cond_read, cond_write>>

DownReadWait(t) ==
  /\ pc[t] = "out"
  /\ ~ allow_reader
  /\ waiting_readers' = waiting_readers + 1
  /\ cond_read' = cond_read \cup {t}
  /\ pc' = [pc EXCEPT ![t] = "down_read"]
  /\ UNCHANGED <<active_readers, active_writers, waiting_writers, cond_write>>

(* Mutant: the reader that stops waiting is not uncounted. *)
DownReadResumeUncounted(t) ==
  /\ pc[t] = "down_read" /\ t \notin cond_read
  /\ allow_reader
  /\ active_readers' = active_readers + 1
  /\ pc' = [pc EXCEPT ![t] = "reading"]
  /\ UNCHANGED <<waiting_readers, active_writers, waiting_writers,
                 cond_read, cond_write>>

(* pthread_cond_wait returned: the while loop tests allow_reader again     *)
DownReadResume(t) ==
  /\ pc[t] = "down_read" /\ t \notin cond_read
  /\ allow_reader
  /\ waiting_readers' = waiting_readers - 1
  /\ active_readers' = active_readers + 1
  /\ pc' = [pc EXCEPT ![t] = "reading"]
  /\ UNCHANGED <<active_writers, waiting_writers, cond_read, cond_write>>

DownReadWaitAgain(t) ==
  /\ pc[t] = "down_read" /\ t \notin cond_read
  /\ ~ allow_reader
  /\ cond_read' = cond_read \cup {t}
  /\ UNCHANGED <<counters, cond_write, pc>>

(* ip_noise_rwlock_down_write                                              *)
DownWrite(t) ==
  /\ pc[t] = "out"
  /\ allow_writer
  /\ active_writers' = active_writers + 1
  /\ pc' = [pc EXCEPT ![t] = "writing"]
  /\ UNCHANGED <<active_readers, waiting_readers, waiting_writers,
                 cond_read, cond_write>>

DownWriteWait(t) ==
  /\ pc[t] = "out"
  /\ ~ allow_writer
  /\ waiting_writers' = waiting_writers + 1
  /\ cond_write' = cond_write \cup {t}
  /\ pc' = [pc EXCEPT ![t] = "down_write"]
  /\ UNCHANGED <<active_readers, active_writers, waiting_readers, cond_read>>

DownWriteResume(t) ==
  /\ pc[t] = "down_write" /\ t \notin cond_write
  /\ allow_writer
  /\ waiting_writers' = waiting_writers - 1
  /\ active_writers' = active_writers + 1
  /\ pc' = [pc EXCEPT ![t] = "writing"]
  /\ UNCHANGED <<active_readers, waiting_readers, cond_read, cond_write>>

DownWriteWaitAgain(t) ==
  /\ pc[t] = "down_write" /\ t \notin cond_write
  /\ ~ allow_writer
  /\ cond_write' = cond_write \cup {t}
  /\ UNCHANGED <<counters, cond_read, pc>>

-----------------------------------------------------------------------------
(* Both up functions end with: broadcast cond_write, signal cond_read.     *)
SignalReader ==
  IF cond_read = {}
    THEN UNCHANGED cond_read
    ELSE \E s \in cond_read : cond_read' = cond_read \ {s}

(* Mutants: only the writers, or only a reader, are woken. *)
WakeWritersOnly == cond_write' = {} /\ UNCHANGED cond_read
WakeReaderOnly == UNCHANGED cond_write /\ SignalReader

WakeWaiters == cond_write' = {} /\ SignalReader

UpRead(t) ==
  /\ pc[t] = "reading"
  /\ active_readers' = active_readers - 1
  /\ WakeWaiters
  /\ pc' = [pc EXCEPT ![t] = "out"]
  /\ UNCHANGED <<active_writers, waiting_readers, waiting_writers>>

UpWrite(t) ==
  /\ pc[t] = "writing"
  /\ active_writers' = active_writers - 1
  /\ WakeWaiters
  /\ pc' = [pc EXCEPT ![t] = "out"]
  /\ UNCHANGED <<active_readers, waiting_readers, waiting_writers>>

SpuriousWakeup(t) ==
  /\ t \in cond_read \cup cond_write
  /\ cond_read' = cond_read \ {t}
  /\ cond_write' = cond_write \ {t}
  /\ UNCHANGED <<counters, pc>>

ReaderStep(t) == DownRead(t) \/ DownReadWait(t) \/ DownReadResume(t)
                   \/ DownReadWaitAgain(t) \/ UpRead(t)
WriterStep(t) == DownWrite(t) \/ DownWriteWait(t) \/ DownWriteResume(t)
                   \/ DownWriteWaitAgain(t) \/ UpWrite(t)

Next == \/ \E t \in Readers : ReaderStep(t)
        \/ \E t \in Writers : WriterStep(t)
        \/ \E t \in Threads : SpuriousWakeup(t)

Spec == Init /\ [][Next]_vars

(***************************************************************************)
(* The scheduler runs every thread that can run, and whoever holds the     *)
(* lock gives it back (the critical sections in packet_logic.c, switcher.c *)
(* and iface.c have no unbounded wait).  Nobody is obliged to ask for the  *)
(* lock, and no spurious wakeup is obliged to happen.                      *)
(***************************************************************************)
Fairness ==
  /\ \A t \in Readers : WF_vars(UpRead(t) \/ DownReadResume(t)
                                  \/ DownReadWaitAgain(t))
  /\ \A t \in Writers : WF_vars(UpWrite(t) \/ DownWriteResume(t)
                                  \/ DownWriteWaitAgain(t))

FairSpec == Spec /\ Fairness

-----------------------------------------------------------------------------
At(place) == {t \in Threads : pc[t] = place}

(* Types of the variables of rwlock.h's struct and of the thread places.   *)
TypeOK ==
  /\ pc \in [Threads -> {"out", "down_read", "reading", "down_write", "writing"}]
  /\ active_readers \in Nat /\ active_writers \in Nat
  /\ waiting_readers \in Nat /\ waiting_writers \in Nat
  /\ cond_read \subseteq Threads /\ cond_write \subseteq Threads

(* The four counters say how many threads are where.  The lock decides     *)
(* from the counters only, so a miscounted wakeup is a broken lock.        *)
CountersExact ==
  /\ active_readers = Cardinality(At("reading"))
  /\ active_writers = Cardinality(At("writing"))
  /\ waiting_readers = Cardinality(At("down_read"))
  /\ waiting_writers = Cardinality(At("down_write"))

(* A writer is alone: what packet_logic.c and switcher.c rely on while     *)
(* iface.c frees and replaces the data under the write lock.               *)
Exclusion ==
  /\ At("writing") # {} => At("reading") = {}
  /\ \A s, t \in At("writing") : s = t

(* Only a thread inside down_read (down_write) is blocked on cond_read     *)
(* (cond_write).                                                           *)
BlockedWhereItWaits ==
  /\ cond_read \subseteq At("down_read")
  /\ cond_write \subseteq At("down_write")

(* No lost wakeup.  Both up functions wake all writers but only one        *)
(* reader.  Whenever a thread is blocked, some other thread is on its way  *)
(* to an up function or to a test of the loop condition, which passes the  *)
(* wakeup on: a blocked writer implies a holder, and a blocked reader      *)
(* implies a holder, a waiting writer or an already woken reader.          *)
NoLostWakeup ==
  /\ cond_write # {} => At("reading") \cup At("writing") # {}
  /\ cond_read # {} => \/ At("reading") \cup At("writing") # {}
                       \/ At("down_write") # {}
                       \/ At("down_read") \ cond_read # {}

(* The inductive invariant: what the theorems of RWLockProofs rest on.     *)
IInv == /\ TypeOK /\ CountersExact /\ Exclusion
        /\ BlockedWhereItWaits /\ NoLostWakeup

(* Writers come first: no reader gets the lock while a writer waits,       *)
(* whichever of the two was woken first (allow_reader looks at             *)
(* waiting_writers, which only the writers themselves maintain).           *)
WritersFirst ==
  [][\A t \in Threads :
       pc[t] # "reading" /\ pc'[t] = "reading" => At("down_write") = {}]_vars

(* While writers wait the lock does not sit idle and is not passed from    *)
(* reader to reader for ever: some writer gets it (which one, the lock     *)
(* does not promise; the program has one writer at a time, the thread of   *)
(* iface.c).                                                               *)
WritersServed == At("down_write") # {} ~> At("writing") # {}

(* Readers can be starved by a writer that keeps coming back; once the     *)
(* writers stay away, every blocked reader is served, although each up     *)
(* wakes only one of them.                                                 *)
ReadersServed ==
  <>[](\A w \in Writers : pc[w] = "out") =>
    \A t \in Readers : pc[t] = "down_read" ~> pc[t] = "reading"

(* The lock implements the abstract readers-writers lock. *)
Abstract == INSTANCE AbstractRWLock WITH
              readers <- At("reading"), writers <- At("writing")
ImplementsRWLock == Abstract!Spec
=============================================================================
