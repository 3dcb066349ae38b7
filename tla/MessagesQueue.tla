--------------------------- MODULE MessagesQueue ---------------------------
(***************************************************************************)
(* The thread-safe queue of C/arbitrator/queue.c, through which the        *)
(* receiver (main.c:422-485) hands packets to the arbitrator thread        *)
(* (main.c:88-156).  As in RWLock, a step is the code between two releases *)
(* of the queue's mutex.                                                   *)
(*                                                                         *)
(* dequeue tests queue->head once, with an `if`: after any return from     *)
(* pthread_cond_wait it takes the head, whatever it is.  POSIX allows that *)
(* function to return without a signal; then head may be NULL and the read *)
(* of ret->next is a null dereference, which ends the process: crashed.    *)
(***************************************************************************)
EXTENDS Integers, Sequences

CONSTANT Messages

VARIABLES list,      \* the linked list from head to tail
          num_msgs,  \* the counter that decides whether enqueue signals
          dequeuer,  \* "out", "blocked" in pthread_cond_wait, or "woken"
          received,  \* what dequeue has returned so far, in order
          crashed

vars == <<list, num_msgs, dequeuer, received, crashed>>

Init ==
  /\ list = <<>> /\ num_msgs = 0
  /\ dequeuer = "out" /\ received = <<>> /\ crashed = FALSE

(* Mutants: the message goes to the head; the signal comes one too late.   *)
EnqueueAtHead(m) ==
  /\ ~ crashed
  /\ list' = <<m>> \o list
  /\ num_msgs' = num_msgs + 1
  /\ dequeuer' = IF num_msgs' = 1 /\ dequeuer = "blocked" THEN "woken"
                                                          ELSE dequeuer
  /\ UNCHANGED <<received, crashed>>
EnqueueSignalsLate(m) ==
  /\ ~ crashed
  /\ list' = Append(list, m)
  /\ num_msgs' = num_msgs + 1
  /\ dequeuer' = IF num_msgs = 1 /\ dequeuer = "blocked" THEN "woken"
                                                         ELSE dequeuer
  /\ UNCHANGED <<received, crashed>>

(* ip_noise_messages_queue_enqueue *)
Enqueue(m) ==
  /\ ~ crashed
  /\ list' = Append(list, m)
  /\ num_msgs' = num_msgs + 1
  /\ dequeuer' = IF num_msgs' = 1 /\ dequeuer = "blocked" THEN "woken"
                                                          ELSE dequeuer
  /\ UNCHANGED <<received, crashed>>

(* The end of ip_noise_messages_queue_dequeue: unlink the head. *)
TakeHead ==
  /\ list # <<>>
  /\ received' = Append(received, Head(list))
  /\ list' = Tail(list)
  /\ num_msgs' = num_msgs - 1
  /\ dequeuer' = "out"
  /\ UNCHANGED crashed

Dequeue == ~ crashed /\ dequeuer = "out" /\ TakeHead

DequeueWait ==
  /\ ~ crashed /\ dequeuer = "out" /\ list = <<>>
  /\ dequeuer' = "blocked"
  /\ UNCHANGED <<list, num_msgs, received, crashed>>

DequeueResume == ~ crashed /\ dequeuer = "woken" /\ TakeHead

DequeueNull ==
  /\ ~ crashed /\ dequeuer = "woken" /\ list = <<>>
  /\ crashed' = TRUE
  /\ UNCHANGED <<list, num_msgs, dequeuer, received>>

SpuriousWakeup ==
  /\ ~ crashed /\ dequeuer = "blocked"
  /\ dequeuer' = "woken"
  /\ UNCHANGED <<list, num_msgs, received, crashed>>

DequeuerStep == Dequeue \/ DequeueWait \/ DequeueResume \/ DequeueNull

-----------------------------------------------------------------------------
(* Everything the queue has been given, in order. *)
Enqueued == received \o list

Unsent == Messages \ {Enqueued[i] : i \in 1 .. Len(Enqueued)}

Next == \/ \E m \in Unsent : Enqueue(m)
        \/ DequeuerStep
        \/ SpuriousWakeup

Spec == Init /\ [][Next]_vars

(* The arbitrator thread calls dequeue in a loop and the scheduler lets it *)
(* run; packets and spurious wakeups come when they like.                  *)
FairSpec == Spec /\ WF_vars(DequeuerStep)

-----------------------------------------------------------------------------
TypeOK ==
  /\ list \in Seq(Messages) /\ received \in Seq(Messages)
  /\ num_msgs \in Nat /\ crashed \in BOOLEAN
  /\ dequeuer \in {"out", "blocked", "woken"}

(* The counter is the length of the list: enqueue signals when the counter *)
(* reaches one, and only that signal ever wakes the dequeuer.              *)
CounterExact == num_msgs = Len(list)

(* No message lies in the queue while its only consumer sleeps. *)
NoLostWakeup == dequeuer = "blocked" => list = <<>>

(* The inductive invariant. *)
IInv == TypeOK /\ CounterExact /\ NoLostWakeup

(* The queue is a FIFO: what dequeue returns is a prefix of what enqueue   *)
(* was given.  FIFO states it as a machine with one sequence of messages.  *)
Fifo == INSTANCE AbstractFifo WITH queue <- list, out <- received
ImplementsFifo == Fifo!Spec
=============================================================================
