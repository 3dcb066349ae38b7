--------------------------- MODULE IFaceTransact ---------------------------
(***************************************************************************)
(* One connection to the user-mode interface (C/arbitrator/iface.c and     *)
(* text_queue_in.c).  The poll_conn thread puts what the client sends into *)
(* a text queue; the interface thread reads transactions from it, an       *)
(* opcode and its parameters at a time.  Whatever is missing makes it roll *)
(* the queue back to the last commit and begin again, so it tries the same *)
(* transaction until all of it has come.                                   *)
(*                                                                         *)
(* A word is what one read asks for (an opcode, an integer, a name, a      *)
(* probability); a word that has come in part is as good as none.  The     *)
(* words of the connection are numbered from 1, and the queue holds those  *)
(* from consumed + 1 to arrived.  What a handler does to the data is one   *)
(* entry of executed here.                                                 *)
(***************************************************************************)
EXTENDS Integers, Sequences

CONSTANTS Opcodes,    \* opcodes a client may send
          Unknown,    \* those that are not in the table of operations
          Ending,     \* those whose handler ends the connection
          Words,      \* opcode |-> the words of a transaction with it
          ScriptLen   \* bound on the transactions of a connection

ASSUME OpcodesAssumption ==
  /\ Unknown \subseteq Opcodes /\ Ending \subseteq Opcodes \ Unknown
  /\ Words \in [Opcodes -> Nat \ {0}]
  /\ \A o \in Unknown : Words[o] = 1
  /\ ScriptLen \in Nat

VARIABLES
  script,          \* the opcodes that the client sends, in order
  arrived,         \* the words put into the text queue so far
  is_conn_closed,
  consumed,        \* the words that commits removed from it
  ptr_offset,      \* the words read since the last commit or rollback
  iface,           \* "opcode", "params", or "closed" when _continue is 0
  tx,              \* the transaction being read
  nread,           \* the words of it that were read
  start,           \* history: the words before it
  executed         \* history: the transactions whose handlers were called

queueVars == <<arrived, is_conn_closed, consumed, ptr_offset>>
transactVars == <<script, queueVars, iface, tx, nread, start, executed>>

(* The last word of transaction i of the script. *)
End[i \in 0 .. ScriptLen] == IF i = 0 THEN 0 ELSE End[i - 1] + Words[script[i]]

TransactInit ==
  /\ script \in [1 .. ScriptLen -> Opcodes]
  /\ arrived = 0 /\ is_conn_closed = FALSE
  /\ consumed = 0 /\ ptr_offset = 0
  /\ iface = "opcode" /\ tx = 0 /\ nread = 0 /\ start = 0
  /\ executed = <<>>

-----------------------------------------------------------------------------
(* poll_conn: the client sends another word, or closes in mid-stream.      *)
PutBytes ==
  /\ ~ is_conn_closed
  /\ arrived < End[ScriptLen]
  /\ arrived' = arrived + 1
  /\ UNCHANGED <<script, is_conn_closed, consumed, ptr_offset, iface, tx,
                 nread, start, executed>>

SetConnClosed ==
  /\ ~ is_conn_closed
  /\ is_conn_closed' = TRUE
  /\ UNCHANGED <<script, arrived, consumed, ptr_offset, iface, tx, nread,
                 start, executed>>

(* ip_noise_text_queue_in_read_bytes: a word, or one of two refusals.      *)
Position == consumed + ptr_offset

ReadOk == Position < arrived
ReadNotFully == ~ ReadOk /\ ~ is_conn_closed
ReadConnTerm == ~ ReadOk /\ is_conn_closed

Rollback == ptr_offset' = 0 /\ UNCHANGED <<arrived, is_conn_closed, consumed>>

(* Mutants: nothing is removed; more is removed than was read. *)
CommitNothing == Rollback
CommitEverything == consumed' = arrived /\ ptr_offset' = 0
                      /\ UNCHANGED <<arrived, is_conn_closed>>

Commit == consumed' = Position /\ ptr_offset' = 0
            /\ UNCHANGED <<arrived, is_conn_closed>>
Advance == ptr_offset' = ptr_offset + 1
             /\ UNCHANGED <<arrived, is_conn_closed, consumed>>

(* ip_noise_arbitrator_iface_transact: the opcode                          *)
ReadOpcode ==
  /\ iface = "opcode" /\ ReadOk
  /\ Advance
  /\ start' = Position
  /\ tx' = CHOOSE i \in 1 .. ScriptLen : End[i - 1] = Position
  /\ nread' = 1
  /\ iface' = IF script[tx'] \in Unknown THEN "opcode" ELSE "params"
  /\ UNCHANGED <<script, executed>>

(* A parameter, read for the table of operations or by the handler itself  *)
ReadParam ==
  /\ iface = "params" /\ nread < Words[script[tx]] /\ ReadOk
  /\ Advance
  /\ nread' = nread + 1
  /\ UNCHANGED <<script, iface, tx, start, executed>>

Wanting == \/ iface = "opcode"
           \/ iface = "params" /\ nread < Words[script[tx]]

(* Mutant: a transaction in parts is taken for the end of the connection.  *)
NotFullyCloses ==
  /\ Wanting /\ ReadNotFully
  /\ Rollback
  /\ iface' = "closed"
  /\ UNCHANGED <<script, tx, nread, start, executed>>

NotFully ==
  /\ Wanting /\ ReadNotFully
  /\ Rollback
  /\ iface' = "opcode"
  /\ UNCHANGED <<script, tx, nread, start, executed>>

ConnTerm ==
  /\ Wanting /\ ReadConnTerm
  /\ iface' = "closed"
  /\ UNCHANGED <<script, queueVars, tx, nread, start, executed>>

(* The handler has all it wants: its effect, the commit and the reply.     *)
(* The handler of end_connection sets _continue to 0.                      *)
Finish ==
  /\ iface = "params" /\ nread = Words[script[tx]]
  /\ executed' = Append(executed, tx)
  /\ Commit
  /\ iface' = IF script[tx] \in Ending THEN "closed" ELSE "opcode"
  /\ UNCHANGED <<script, tx, nread, start>>

IfaceStep == ReadOpcode \/ ReadParam \/ NotFully \/ ConnTerm \/ Finish

TransactNext == PutBytes \/ SetConnClosed \/ IfaceStep

TransactSpec == TransactInit /\ [][TransactNext]_transactVars

(* The interface thread is scheduled; the client owes it nothing. *)
TransactFairSpec == TransactSpec /\ WF_transactVars(IfaceStep)

-----------------------------------------------------------------------------
(* Types. *)
TransactTypeOK ==
  /\ script \in [1 .. ScriptLen -> Opcodes]
  /\ arrived \in 0 .. End[ScriptLen]
  /\ consumed \in 0 .. arrived /\ Position \in 0 .. arrived
  /\ iface \in {"opcode", "params", "closed"}
  /\ tx \in 0 .. ScriptLen /\ executed \in Seq(1 .. ScriptLen)

(* The known transactions up to the one that ends the connection.          *)
Expected(i) ==
  script[i] \notin Unknown /\ \A j \in 1 .. i - 1 : script[j] \notin Ending

LastExecuted == IF executed = <<>> THEN 0 ELSE executed[Len(executed)]

(* However the words trickle in, the handlers are called for the known     *)
(* transactions of the script, in its order and once each: a rollback      *)
(* repeats no effect and a commit skips none (iface.c:1394-1419).          *)
ExecutedInOrder ==
  /\ \A j, k \in DOMAIN executed : j < k => executed[j] < executed[k]
  /\ {executed[k] : k \in DOMAIN executed} = {i \in 1 .. LastExecuted : Expected(i)}

(* The queue is committed exactly up to the end of the last transaction    *)
(* that was executed: never inside one, and never before its effect.       *)
CommittedIsExecuted == consumed = End[LastExecuted]

(* A transaction that has come completely is executed, with no more input  *)
(* and after any number of failed attempts.                                *)
EventuallyExecuted ==
  \A i \in 1 .. ScriptLen :
    Expected(i) /\ End[i] <= arrived ~>
      \E k \in 1 .. Len(executed) : executed[k] = i

(* iface.c:1394-1396: "Restore the input to the place it was before this   *)
(* transaction. This way, when new data arrives, we will still process the *)
(* old data".                                                              *)
RollsBackToItsStart ==
  [][iface = "params" /\ iface' = "opcode" /\ executed' = executed
       => Position' = start]_transactVars
=============================================================================
