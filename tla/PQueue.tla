------------------------------- MODULE PQueue -------------------------------
(***************************************************************************)
(* The binary heap of C/arbitrator/pqueue.c, which orders the delayed      *)
(* packets (delayer.c) and the pending state switches (switcher.c).  Both  *)
(* users pass IsAscendingHeap = 0, the branch modelled here: the root is   *)
(* the smallest element.                                                   *)
(*                                                                         *)
(* The array Elements[1..CurrentSize] is the sequence heap.  Its growth by *)
(* 256 places when full is not modelled: realloc keeps the contents.       *)
(* The element type is a record with a key, the cmp callback a comparison  *)
(* of keys.                                                                *)
(***************************************************************************)
EXTENDS Integers, Sequences, FiniteSets

CONSTANT Elements  \* records [key |-> Int, ...] that may be pushed

ASSUME ElementsAssumption == \A e \in Elements : e.key \in Int

VARIABLES heap,    \* Elements[1 .. CurrentSize]
          popped   \* what the last call returned: {} stands for NULL

heapVars == <<heap, popped>>

cmp(e, f) == e.key - f.key

Parent(i) == i \div 2
LeftChild(i) == 2 * i

(* Mutant: the hole climbs one level at most. *)
PushOneUp(h, item) ==
  LET n == Len(h) + 1
  IN  IF n > 1 /\ cmp(h[Parent(n)], item) > 0
        THEN [Append(h, item) EXCEPT ![n] = h[Parent(n)], ![Parent(n)] = item]
        ELSE Append(h, item)

(***************************************************************************)
(* PQueuePush: the hole at index n = CurrentSize + 1 climbs while the      *)
(* parent is greater than the item, and each parent passed moves down.     *)
(***************************************************************************)
Push(h, item) ==
  LET climb[i \in 1 .. Len(h) + 1] ==
        IF i = 1 \/ ~ (cmp(h[Parent(i)], item) > 0)
          THEN [Append(h, item) EXCEPT ![i] = item]
          ELSE [climb[Parent(i)] EXCEPT ![i] = h[Parent(i)]]
  IN  climb[Len(h) + 1]

(* Mutant: the hole always sinks to the left. *)
LeftmostChild(h, size, i) == LeftChild(i)

(* The smaller of the two children; of an only child the only one.         *)
SmallerChild(h, size, i) ==
  IF LeftChild(i) # size /\ cmp(h[LeftChild(i) + 1], h[LeftChild(i)]) < 0
    THEN LeftChild(i) + 1
    ELSE LeftChild(i)

(***************************************************************************)
(* PQueuePop: the last element leaves its place and the hole at the root   *)
(* sinks while its smaller child is smaller than that element, and each    *)
(* child passed moves up.                                                  *)
(***************************************************************************)
Sunk(h, size, last) ==
  LET sink[i \in 1 .. size] ==
        LET child == SmallerChild(h, size, i)
        IN  IF LeftChild(i) > size \/ ~ (cmp(last, h[child]) > 0)
              THEN [SubSeq(h, 1, size) EXCEPT ![i] = last]
              ELSE [sink[child] EXCEPT ![i] = h[child]]
  IN  IF size = 0 THEN <<>> ELSE sink[1]

Pop(h) == Sunk(h, Len(h) - 1, h[Len(h)])

(* PQueuePeekMinimum, as a set: {} for NULL. *)
Peek(h) == IF h = <<>> THEN {} ELSE {h[1]}

-----------------------------------------------------------------------------
Content == {heap[i] : i \in 1 .. Len(heap)}

HeapInit == heap = <<>> /\ popped = {}

PQueuePush(item) ==
  /\ item \notin Content
  /\ heap' = Push(heap, item)
  /\ popped' = {}

PQueuePopEmpty ==
  /\ heap = <<>>
  /\ popped' = {}
  /\ UNCHANGED heap

PQueuePop ==
  /\ heap # <<>>
  /\ popped' = Peek(heap)
  /\ heap' = Pop(heap)

HeapNext == PQueuePopEmpty \/ PQueuePop \/ \E e \in Elements : PQueuePush(e)

HeapSpec == HeapInit /\ [][HeapNext]_heapVars

-----------------------------------------------------------------------------
(* The array holds elements, none of them twice. *)
HeapTypeOK ==
  /\ heap \in Seq(Elements) /\ popped \subseteq Elements
  /\ Cardinality(Content) = Len(heap)

(* The heap order: no element is smaller than its parent.  Every shift of  *)
(* push and pop must keep it, for the last leaf and an only child too.     *)
HeapOrder ==
  \A i \in 2 .. Len(heap) : ~ (cmp(heap[Parent(i)], heap[i]) > 0)

(* The heap implements the abstract priority queue: nothing is lost or     *)
(* duplicated by the shifts, and each pop returns an element with the      *)
(* least key (which one of several equal ones is not promised: packets     *)
(* due at the same time may be released in any order).                     *)
Abstract == INSTANCE AbstractPQueue WITH
              content <- Content, Key <- LAMBDA e : e.key
ImplementsPQueue == Abstract!Spec
=============================================================================
