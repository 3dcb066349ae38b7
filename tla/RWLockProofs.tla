---------------------------- MODULE RWLockProofs ----------------------------
(***************************************************************************)
(* Theorems about the readers-writers lock, for any finite sets of readers *)
(* and writers: type correctness, the inductive invariant (exact counters, *)
(* exclusion, no lost wakeup), and that the lock implements the abstract   *)
(* readers-writers lock.                                                   *)
(***************************************************************************)
EXTENDS RWLock, FiniteSetTheorems, TLAPS

Places == {"out", "down_read", "reading", "down_write", "writing"}

(* The set of threads at any place is finite. *)
LEMMA AtFinite == ASSUME NEW p PROVE IsFiniteSet(At(p)) /\ Cardinality(At(p)) \in Nat
<1>1. IsFiniteSet(Threads)
  BY ThreadsAssumption, FS_Union DEF Threads
<1>2. At(p) \subseteq Threads
  BY DEF At
<1> QED
  BY <1>1, <1>2, FS_Subset, FS_CardinalityType

(* A thread that moves from place q to place p changes those two sets, and *)
(* their sizes by one, and no other set.                                   *)
LEMMA Move ==
  ASSUME pc \in [Threads -> Places], NEW t \in Threads,
         NEW q \in Places, NEW p \in Places, p # q,
         pc[t] = q, pc' = [pc EXCEPT ![t] = p]
  PROVE  /\ At(p)' = At(p) \cup {t} /\ t \notin At(p)
         /\ At(q)' = At(q) \ {t} /\ t \in At(q)
         /\ \A r \in Places \ {p, q} : At(r)' = At(r)
         /\ Cardinality(At(p)') = Cardinality(At(p)) + 1
         /\ Cardinality(At(q)') = Cardinality(At(q)) - 1
         /\ Cardinality(At(q)) > 0
<1>1. At(p)' = At(p) \cup {t} /\ t \notin At(p)
  BY DEF At
<1>2. At(q)' = At(q) \ {t} /\ t \in At(q)
  BY DEF At
<1>3. \A r \in Places \ {p, q} : At(r)' = At(r)
  BY DEF At
<1>4. Cardinality(At(p)') = Cardinality(At(p)) + 1
  BY <1>1, AtFinite, FS_AddElement
<1>5. Cardinality(At(q)') = Cardinality(At(q)) - 1
  BY <1>2, AtFinite, FS_RemoveElement
<1>6. Cardinality(At(q)) > 0
  BY <1>2, AtFinite, FS_EmptySet
<1> QED
  BY <1>1, <1>2, <1>3, <1>4, <1>5, <1>6

(* The counters decide the tests of the two wait loops. *)
LEMMA CountersDecide ==
  ASSUME CountersExact
  PROVE  /\ active_readers = 0 <=> At("reading") = {}
         /\ active_writers = 0 <=> At("writing") = {}
         /\ waiting_writers = 0 <=> At("down_write") = {}
BY AtFinite, FS_EmptySet DEF CountersExact

-----------------------------------------------------------------------------
(* The initial state satisfies the inductive invariant. *)
LEMMA InitIInv == Init => IInv
<1> SUFFICES ASSUME Init PROVE IInv
  OBVIOUS
<1>1. At("out") = Threads /\ \A p \in Places \ {"out"} : At(p) = {}
  BY DEF Init, At, Places
<1>2. TypeOK
  BY DEF Init, TypeOK
<1>3. CountersExact
  BY <1>1, FS_EmptySet DEF Init, CountersExact, Places
<1>4. Exclusion /\ BlockedWhereItWaits /\ NoLostWakeup
  BY <1>1 DEF Init, Exclusion, BlockedWhereItWaits, NoLostWakeup, Places
<1> QED
  BY <1>2, <1>3, <1>4 DEF IInv

(* DownRead preserves the inductive invariant. *)
LEMMA DownReadIInv ==
  ASSUME IInv, NEW t \in Threads, DownRead(t)
  PROVE  IInv'
<1> USE DEF IInv
<1>1. /\ At("reading")' = At("reading") \cup {t} /\ t \notin At("reading")
      /\ At("out")' = At("out") \ {t} /\ t \in At("out")
      /\ \A r \in Places \ {"reading", "out"} : At(r)' = At(r)
      /\ Cardinality(At("reading")') = Cardinality(At("reading")) + 1
      /\ Cardinality(At("out")') = Cardinality(At("out")) - 1
      /\ Cardinality(At("out")) > 0
  <2>1. pc \in [Threads -> Places]
    BY DEF TypeOK, Places
  <2>2. pc[t] = "out" /\ pc' = [pc EXCEPT ![t] = "reading"]
    BY DEF DownRead
  <2>3. "reading" \in Places /\ "out" \in Places /\ "reading" # "out"
    BY DEF Places
  <2> HIDE DEF IInv
  <2> QED
    BY <2>1, <2>2, <2>3, Move
<1>2. CountersDecide!2
  BY CountersDecide
<1>3. TypeOK'
  BY <1>1, AtFinite DEF TypeOK, CountersExact, DownRead
<1>4. CountersExact'
  BY <1>1, AtFinite DEF CountersExact, DownRead, Places
<1>5. Exclusion'
  BY <1>1, <1>2 DEF Exclusion, DownRead, allow_reader, Places
<1>6. BlockedWhereItWaits'
  BY <1>1 DEF BlockedWhereItWaits, DownRead, Places
<1>7. NoLostWakeup'
  BY <1>1, <1>2 DEF NoLostWakeup, BlockedWhereItWaits, Exclusion, DownRead, allow_reader, Places
<1> QED
  BY <1>3, <1>4, <1>5, <1>6, <1>7

(* DownReadWait preserves the inductive invariant. *)
LEMMA DownReadWaitIInv ==
  ASSUME IInv, NEW t \in Threads, DownReadWait(t)
  PROVE  IInv'
<1> USE DEF IInv
<1>1. /\ At("down_read")' = At("down_read") \cup {t} /\ t \notin At("down_read")
      /\ At("out")' = At("out") \ {t} /\ t \in At("out")
      /\ \A r \in Places \ {"down_read", "out"} : At(r)' = At(r)
      /\ Cardinality(At("down_read")') = Cardinality(At("down_read")) + 1
      /\ Cardinality(At("out")') = Cardinality(At("out")) - 1
      /\ Cardinality(At("out")) > 0
  <2>1. pc \in [Threads -> Places]
    BY DEF TypeOK, Places
  <2>2. pc[t] = "out" /\ pc' = [pc EXCEPT ![t] = "down_read"]
    BY DEF DownReadWait
  <2>3. "down_read" \in Places /\ "out" \in Places /\ "down_read" # "out"
    BY DEF Places
  <2> HIDE DEF IInv
  <2> QED
    BY <2>1, <2>2, <2>3, Move
<1>2. CountersDecide!2
  BY CountersDecide
<1>3. TypeOK'
  BY <1>1, AtFinite DEF TypeOK, CountersExact, DownReadWait
<1>4. CountersExact'
  BY <1>1, AtFinite DEF CountersExact, DownReadWait, Places
<1>5. Exclusion'
  BY <1>1, <1>2 DEF Exclusion, DownReadWait, allow_reader, Places
<1>6. BlockedWhereItWaits'
  BY <1>1 DEF BlockedWhereItWaits, DownReadWait, Places
<1>7. NoLostWakeup'
  BY <1>1, <1>2 DEF NoLostWakeup, BlockedWhereItWaits, Exclusion, DownReadWait, allow_reader, Places
<1> QED
  BY <1>3, <1>4, <1>5, <1>6, <1>7

(* DownReadResume preserves the inductive invariant. *)
LEMMA DownReadResumeIInv ==
  ASSUME IInv, NEW t \in Threads, DownReadResume(t)
  PROVE  IInv'
<1> USE DEF IInv
<1>1. /\ At("reading")' = At("reading") \cup {t} /\ t \notin At("reading")
      /\ At("down_read")' = At("down_read") \ {t} /\ t \in At("down_read")
      /\ \A r \in Places \ {"reading", "down_read"} : At(r)' = At(r)
      /\ Cardinality(At("reading")') = Cardinality(At("reading")) + 1
      /\ Cardinality(At("down_read")') = Cardinality(At("down_read")) - 1
      /\ Cardinality(At("down_read")) > 0
  <2>1. pc \in [Threads -> Places]
    BY DEF TypeOK, Places
  <2>2. pc[t] = "down_read" /\ pc' = [pc EXCEPT ![t] = "reading"]
    BY DEF DownReadResume
  <2>3. "reading" \in Places /\ "down_read" \in Places /\ "reading" # "down_read"
    BY DEF Places
  <2> HIDE DEF IInv
  <2> QED
    BY <2>1, <2>2, <2>3, Move
<1>2. CountersDecide!2
  BY CountersDecide
<1>3. TypeOK'
  BY <1>1, AtFinite DEF TypeOK, CountersExact, DownReadResume
<1>4. CountersExact'
  BY <1>1, AtFinite DEF CountersExact, DownReadResume, Places
<1>5. Exclusion'
  BY <1>1, <1>2 DEF Exclusion, DownReadResume, allow_reader, Places
<1>6. BlockedWhereItWaits'
  BY <1>1 DEF BlockedWhereItWaits, DownReadResume, Places
<1>7. NoLostWakeup'
  BY <1>1, <1>2 DEF NoLostWakeup, BlockedWhereItWaits, Exclusion, DownReadResume, allow_reader, Places
<1> QED
  BY <1>3, <1>4, <1>5, <1>6, <1>7

(* DownWrite preserves the inductive invariant. *)
LEMMA DownWriteIInv ==
  ASSUME IInv, NEW t \in Threads, DownWrite(t)
  PROVE  IInv'
<1> USE DEF IInv
<1>1. /\ At("writing")' = At("writing") \cup {t} /\ t \notin At("writing")
      /\ At("out")' = At("out") \ {t} /\ t \in At("out")
      /\ \A r \in Places \ {"writing", "out"} : At(r)' = At(r)
      /\ Cardinality(At("writing")') = Cardinality(At("writing")) + 1
      /\ Cardinality(At("out")') = Cardinality(At("out")) - 1
      /\ Cardinality(At("out")) > 0
  <2>1. pc \in [Threads -> Places]
    BY DEF TypeOK, Places
  <2>2. pc[t] = "out" /\ pc' = [pc EXCEPT ![t] = "writing"]
    BY DEF DownWrite
  <2>3. "writing" \in Places /\ "out" \in Places /\ "writing" # "out"
    BY DEF Places
  <2> HIDE DEF IInv
  <2> QED
    BY <2>1, <2>2, <2>3, Move
<1>2. CountersDecide!2
  BY CountersDecide
<1>3. TypeOK'
  BY <1>1, AtFinite DEF TypeOK, CountersExact, DownWrite
<1>4. CountersExact'
  BY <1>1, AtFinite DEF CountersExact, DownWrite, Places
<1>5. Exclusion'
  BY <1>1, <1>2 DEF Exclusion, DownWrite, allow_writer, Places
<1>6. BlockedWhereItWaits'
  BY <1>1 DEF BlockedWhereItWaits, DownWrite, Places
<1>7. NoLostWakeup'
  BY <1>1, <1>2 DEF NoLostWakeup, BlockedWhereItWaits, Exclusion, DownWrite, allow_writer, Places
<1> QED
  BY <1>3, <1>4, <1>5, <1>6, <1>7

(* DownWriteWait preserves the inductive invariant. *)
LEMMA DownWriteWaitIInv ==
  ASSUME IInv, NEW t \in Threads, DownWriteWait(t)
  PROVE  IInv'
<1> USE DEF IInv
<1>1. /\ At("down_write")' = At("down_write") \cup {t} /\ t \notin At("down_write")
      /\ At("out")' = At("out") \ {t} /\ t \in At("out")
      /\ \A r \in Places \ {"down_write", "out"} : At(r)' = At(r)
      /\ Cardinality(At("down_write")') = Cardinality(At("down_write")) + 1
      /\ Cardinality(At("out")') = Cardinality(At("out")) - 1
      /\ Cardinality(At("out")) > 0
  <2>1. pc \in [Threads -> Places]
    BY DEF TypeOK, Places
  <2>2. pc[t] = "out" /\ pc' = [pc EXCEPT ![t] = "down_write"]
    BY DEF DownWriteWait
  <2>3. "down_write" \in Places /\ "out" \in Places /\ "down_write" # "out"
    BY DEF Places
  <2> HIDE DEF IInv
  <2> QED
    BY <2>1, <2>2, <2>3, Move
<1>2. CountersDecide!2
  BY CountersDecide
<1>3. TypeOK'
  BY <1>1, AtFinite DEF TypeOK, CountersExact, DownWriteWait
<1>4. CountersExact'
  BY <1>1, AtFinite DEF CountersExact, DownWriteWait, Places
<1>5. Exclusion'
  BY <1>1, <1>2 DEF Exclusion, DownWriteWait, allow_writer, Places
<1>6. BlockedWhereItWaits'
  BY <1>1 DEF BlockedWhereItWaits, DownWriteWait, Places
<1>7. NoLostWakeup'
  BY <1>1, <1>2 DEF NoLostWakeup, BlockedWhereItWaits, Exclusion, DownWriteWait, allow_writer, Places
<1> QED
  BY <1>3, <1>4, <1>5, <1>6, <1>7

(* DownWriteResume preserves the inductive invariant. *)
LEMMA DownWriteResumeIInv ==
  ASSUME IInv, NEW t \in Threads, DownWriteResume(t)
  PROVE  IInv'
<1> USE DEF IInv
<1>1. /\ At("writing")' = At("writing") \cup {t} /\ t \notin At("writing")
      /\ At("down_write")' = At("down_write") \ {t} /\ t \in At("down_write")
      /\ \A r \in Places \ {"writing", "down_write"} : At(r)' = At(r)
      /\ Cardinality(At("writing")') = Cardinality(At("writing")) + 1
      /\ Cardinality(At("down_write")') = Cardinality(At("down_write")) - 1
      /\ Cardinality(At("down_write")) > 0
  <2>1. pc \in [Threads -> Places]
    BY DEF TypeOK, Places
  <2>2. pc[t] = "down_write" /\ pc' = [pc EXCEPT ![t] = "writing"]
    BY DEF DownWriteResume
  <2>3. "writing" \in Places /\ "down_write" \in Places /\ "writing" # "down_write"
    BY DEF Places
  <2> HIDE DEF IInv
  <2> QED
    BY <2>1, <2>2, <2>3, Move
<1>2. CountersDecide!2
  BY CountersDecide
<1>3. TypeOK'
  BY <1>1, AtFinite DEF TypeOK, CountersExact, DownWriteResume
<1>4. CountersExact'
  BY <1>1, AtFinite DEF CountersExact, DownWriteResume, Places
<1>5. Exclusion'
  BY <1>1, <1>2 DEF Exclusion, DownWriteResume, allow_writer, Places
<1>6. BlockedWhereItWaits'
  BY <1>1 DEF BlockedWhereItWaits, DownWriteResume, Places
<1>7. NoLostWakeup'
  BY <1>1, <1>2 DEF NoLostWakeup, BlockedWhereItWaits, Exclusion, DownWriteResume, allow_writer, Places
<1> QED
  BY <1>3, <1>4, <1>5, <1>6, <1>7

(* UpRead preserves the inductive invariant. *)
LEMMA UpReadIInv ==
  ASSUME IInv, NEW t \in Threads, UpRead(t)
  PROVE  IInv'
<1> USE DEF IInv
<1>1. /\ At("out")' = At("out") \cup {t} /\ t \notin At("out")
      /\ At("reading")' = At("reading") \ {t} /\ t \in At("reading")
      /\ \A r \in Places \ {"out", "reading"} : At(r)' = At(r)
      /\ Cardinality(At("out")') = Cardinality(At("out")) + 1
      /\ Cardinality(At("reading")') = Cardinality(At("reading")) - 1
      /\ Cardinality(At("reading")) > 0
  <2>1. pc \in [Threads -> Places]
    BY DEF TypeOK, Places
  <2>2. pc[t] = "reading" /\ pc' = [pc EXCEPT ![t] = "out"]
    BY DEF UpRead
  <2>3. "out" \in Places /\ "reading" \in Places /\ "out" # "reading"
    BY DEF Places
  <2> HIDE DEF IInv
  <2> QED
    BY <2>1, <2>2, <2>3, Move
<1>2. CountersDecide!2
  BY CountersDecide
<1>3. TypeOK'
  BY <1>1, AtFinite DEF TypeOK, CountersExact, UpRead, WakeWaiters, SignalReader
<1>4. CountersExact'
  BY <1>1, AtFinite DEF CountersExact, UpRead, Places
<1>5. Exclusion'
  BY <1>1, <1>2 DEF Exclusion, UpRead, Places
<1>6. BlockedWhereItWaits'
  BY <1>1 DEF BlockedWhereItWaits, UpRead, WakeWaiters, SignalReader, Places
<1>7. NoLostWakeup'
  BY <1>1, <1>2 DEF NoLostWakeup, BlockedWhereItWaits, Exclusion, UpRead, WakeWaiters, SignalReader, Places
<1> QED
  BY <1>3, <1>4, <1>5, <1>6, <1>7

(* UpWrite preserves the inductive invariant. *)
LEMMA UpWriteIInv ==
  ASSUME IInv, NEW t \in Threads, UpWrite(t)
  PROVE  IInv'
<1> USE DEF IInv
<1>1. /\ At("out")' = At("out") \cup {t} /\ t \notin At("out")
      /\ At("writing")' = At("writing") \ {t} /\ t \in At("writing")
      /\ \A r \in Places \ {"out", "writing"} : At(r)' = At(r)
      /\ Cardinality(At("out")') = Cardinality(At("out")) + 1
      /\ Cardinality(At("writing")') = Cardinality(At("writing")) - 1
      /\ Cardinality(At("writing")) > 0
  <2>1. pc \in [Threads -> Places]
    BY DEF TypeOK, Places
  <2>2. pc[t] = "writing" /\ pc' = [pc EXCEPT ![t] = "out"]
    BY DEF UpWrite
  <2>3. "out" \in Places /\ "writing" \in Places /\ "out" # "writing"
    BY DEF Places
  <2> HIDE DEF IInv
  <2> QED
    BY <2>1, <2>2, <2>3, Move
<1>2. CountersDecide!2
  BY CountersDecide
<1>3. TypeOK'
  BY <1>1, AtFinite DEF TypeOK, CountersExact, UpWrite, WakeWaiters, SignalReader
<1>4. CountersExact'
  BY <1>1, AtFinite DEF CountersExact, UpWrite, Places
<1>5. Exclusion'
  BY <1>1, <1>2 DEF Exclusion, UpWrite, Places
<1>6. BlockedWhereItWaits'
  BY <1>1 DEF BlockedWhereItWaits, UpWrite, WakeWaiters, SignalReader, Places
<1>7. NoLostWakeup'
  BY <1>1, <1>2 DEF NoLostWakeup, BlockedWhereItWaits, Exclusion, UpWrite, WakeWaiters, SignalReader, Places
<1> QED
  BY <1>3, <1>4, <1>5, <1>6, <1>7

(* DownReadWaitAgain moves no thread, so only the blocked sets change. *)
LEMMA DownReadWaitAgainIInv ==
  ASSUME IInv, NEW t \in Threads, DownReadWaitAgain(t)
  PROVE  IInv'
<1> USE DEF IInv, DownReadWaitAgain, counters
<1>1. pc' = pc /\ \A p : At(p)' = At(p)
  BY DEF At
<1>2. CountersDecide!2
  BY CountersDecide
<1>3. TypeOK' /\ CountersExact' /\ Exclusion'
  BY <1>1 DEF TypeOK, CountersExact, Exclusion
<1>4. BlockedWhereItWaits'
  BY <1>1 DEF BlockedWhereItWaits, At
<1>5. NoLostWakeup'
  BY <1>1, <1>2 DEF NoLostWakeup, BlockedWhereItWaits, At, allow_reader
<1> QED
  BY <1>3, <1>4, <1>5

(* DownWriteWaitAgain moves no thread, so only the blocked sets change. *)
LEMMA DownWriteWaitAgainIInv ==
  ASSUME IInv, NEW t \in Threads, DownWriteWaitAgain(t)
  PROVE  IInv'
<1> USE DEF IInv, DownWriteWaitAgain, counters
<1>1. pc' = pc /\ \A p : At(p)' = At(p)
  BY DEF At
<1>2. CountersDecide!2
  BY CountersDecide
<1>3. TypeOK' /\ CountersExact' /\ Exclusion'
  BY <1>1 DEF TypeOK, CountersExact, Exclusion
<1>4. BlockedWhereItWaits'
  BY <1>1 DEF BlockedWhereItWaits, At
<1>5. NoLostWakeup'
  BY <1>1, <1>2 DEF NoLostWakeup, BlockedWhereItWaits, At, allow_writer
<1> QED
  BY <1>3, <1>4, <1>5

(* SpuriousWakeup moves no thread, so only the blocked sets change. *)
LEMMA SpuriousWakeupIInv ==
  ASSUME IInv, NEW t \in Threads, SpuriousWakeup(t)
  PROVE  IInv'
<1> USE DEF IInv, SpuriousWakeup, counters
<1>1. pc' = pc /\ \A p : At(p)' = At(p)
  BY DEF At
<1>2. CountersDecide!2
  BY CountersDecide
<1>3. TypeOK' /\ CountersExact' /\ Exclusion'
  BY <1>1 DEF TypeOK, CountersExact, Exclusion
<1>4. BlockedWhereItWaits'
  BY <1>1 DEF BlockedWhereItWaits, At
<1>5. NoLostWakeup'
  BY <1>1, <1>2 DEF NoLostWakeup, BlockedWhereItWaits, At
<1> QED
  BY <1>3, <1>4, <1>5

(* Every step preserves the inductive invariant. *)
LEMMA NextIInv == IInv /\ [Next]_vars => IInv'
<1> SUFFICES ASSUME IInv, [Next]_vars PROVE IInv'
  OBVIOUS
<1>1. ASSUME NEW t \in Readers, ReaderStep(t) PROVE IInv'
  <2>1. t \in Threads
    BY DEF Threads
  <2> QED
    BY <1>1, <2>1, DownReadIInv, DownReadWaitIInv, DownReadResumeIInv,
       DownReadWaitAgainIInv, UpReadIInv DEF ReaderStep
<1>2. ASSUME NEW t \in Writers, WriterStep(t) PROVE IInv'
  <2>1. t \in Threads
    BY DEF Threads
  <2> QED
    BY <1>2, <2>1, DownWriteIInv, DownWriteWaitIInv, DownWriteResumeIInv,
       DownWriteWaitAgainIInv, UpWriteIInv DEF WriterStep
<1>3. ASSUME NEW t \in Threads, SpuriousWakeup(t) PROVE IInv'
  BY <1>3, SpuriousWakeupIInv
<1>4. CASE UNCHANGED vars
  BY <1>4 DEF vars, counters, IInv, TypeOK, CountersExact, Exclusion,
              BlockedWhereItWaits, NoLostWakeup, At
<1> QED
  BY <1>1, <1>2, <1>3, <1>4 DEF Next

(* In every reachable state the counters are exact, a writer is alone, and *)
(* no wakeup is lost.                                                      *)
THEOREM LockInvariant == Spec => []IInv
BY InitIInv, NextIInv, PTL DEF Spec

(* No lost wakeup, on its own. *)
THEOREM NoLostWakeupAlways == Spec => []NoLostWakeup
<1>1. IInv => NoLostWakeup
  BY DEF IInv
<1> QED
  BY <1>1, LockInvariant, PTL

(* Type correctness, on its own. *)
THEOREM TypeCorrect == Spec => []TypeOK
<1>1. IInv => TypeOK
  BY DEF IInv
<1> QED
  BY <1>1, LockInvariant, PTL

-----------------------------------------------------------------------------
(* How the set of threads at each place changes in a step. *)
LEMMA PlacesStep ==
  ASSUME IInv, NEW t \in Threads, NEW q \in Places, NEW p \in Places, p # q,
         pc[t] = q, pc' = [pc EXCEPT ![t] = p]
  PROVE  /\ At(p)' = At(p) \cup {t} /\ t \notin At(p)
         /\ At(q)' = At(q) \ {t} /\ t \in At(q)
         /\ \A r \in Places \ {p, q} : At(r)' = At(r)
<1>1. pc \in [Threads -> Places]
  BY DEF IInv, TypeOK, Places
<1> QED
  BY <1>1, Move

(* A step of the lock is a step of the abstract lock, or none. *)
LEMMA StepRefines == IInv /\ [Next]_vars => [Abstract!Next]_(Abstract!vars)
<1> SUFFICES ASSUME IInv, [Next]_vars PROVE [Abstract!Next]_(Abstract!vars)
  OBVIOUS
<1>0. CountersDecide!2
  BY CountersDecide DEF IInv
<1>1. ASSUME NEW t \in Threads, DownRead(t) \/ DownReadResume(t)
      PROVE  Abstract!AcquireRead(t)
  <2>1. /\ pc[t] = "out" \/ pc[t] = "down_read"
        /\ pc' = [pc EXCEPT ![t] = "reading"]
        /\ At("writing") = {}
    BY <1>0, <1>1 DEF DownRead, DownReadResume, allow_reader
  <2> QED
    BY <2>1, PlacesStep DEF Abstract!AcquireRead, Places
<1>2. ASSUME NEW t \in Threads, DownWrite(t) \/ DownWriteResume(t)
      PROVE  Abstract!AcquireWrite(t)
  <2>1. /\ pc[t] = "out" \/ pc[t] = "down_write"
        /\ pc' = [pc EXCEPT ![t] = "writing"]
        /\ At("writing") = {} /\ At("reading") = {}
    BY <1>0, <1>2 DEF DownWrite, DownWriteResume, allow_writer
  <2> QED
    BY <2>1, PlacesStep DEF Abstract!AcquireWrite, Places
<1>3. ASSUME NEW t \in Threads, UpRead(t) PROVE Abstract!ReleaseRead(t)
  BY <1>3, PlacesStep DEF UpRead, Abstract!ReleaseRead, Places
<1>4. ASSUME NEW t \in Threads, UpWrite(t) PROVE Abstract!ReleaseWrite(t)
  BY <1>4, PlacesStep DEF UpWrite, Abstract!ReleaseWrite, Places
<1>5. ASSUME NEW t \in Threads, DownReadWait(t) \/ DownWriteWait(t)
      PROVE  UNCHANGED Abstract!vars
  BY <1>5, PlacesStep DEF DownReadWait, DownWriteWait, Abstract!vars, Places
<1>6. CASE UNCHANGED pc
  BY <1>6 DEF Abstract!vars, At
<1> QED
  BY <1>1, <1>2, <1>3, <1>4, <1>5, <1>6
  DEF Next, ReaderStep, WriterStep, Threads, Abstract!Next, DownReadWaitAgain,
      DownWriteWaitAgain, SpuriousWakeup, vars

(* The lock of rwlock.c implements the abstract readers-writers lock:      *)
(* packet_logic.c, switcher.c and iface.c may rely on that one instead.    *)
THEOREM LockImplementsAbstract == Spec => ImplementsRWLock
<1>1. Init => Abstract!Init
  BY DEF Init, Abstract!Init, At
<1> QED
  BY <1>1, StepRefines, LockInvariant, PTL DEF Spec, ImplementsRWLock, Abstract!Spec

(* No reader passes a waiting writer, whoever was woken first. *)
THEOREM WritersComeFirst == Spec => WritersFirst
<1> DEFINE First == \A t \in Threads :
             pc[t] # "reading" /\ pc'[t] = "reading" => At("down_write") = {}
<1>1. IInv /\ [Next]_vars => [First]_vars
  <2> SUFFICES ASSUME IInv, Next, NEW t \in Threads,
                      pc[t] # "reading", pc'[t] = "reading"
               PROVE  At("down_write") = {}
    OBVIOUS
  <2>1. CountersDecide!2
    BY CountersDecide DEF IInv
  <2>2. pc \in [Threads -> Places]
    BY DEF IInv, TypeOK, Places
  <2>3. \E s \in Threads : DownRead(s) \/ DownReadResume(s)
    BY <2>2 DEF Next, ReaderStep, WriterStep, Threads, DownReadWait,
      DownReadWaitAgain, UpRead, DownWrite, DownWriteWait, DownWriteResume,
      DownWriteWaitAgain, UpWrite, SpuriousWakeup
  <2> QED
    BY <2>1, <2>3 DEF DownRead, DownReadResume, allow_reader
<1> QED
  BY <1>1, LockInvariant, PTL DEF Spec, WritersFirst
=============================================================================
