-------------------------- MODULE IFaceConnection --------------------------
(***************************************************************************)
(* The lives of the interface's threads across connections, user-mode      *)
(* build: poll_conn and write_poll_conn, init_connection and               *)
(* close_connection (C/arbitrator/iface.c), the output queue               *)
(* (text_queue_out.c) and the pair of named pipes (conn.c).                *)
(*                                                                         *)
(* Each connection starts a reader and a writer thread, numbered like it.  *)
(* They follow self->conn and self->text_queue_..., which belong to the    *)
(* present connection, and may outlive their own.  A request is one item   *)
(* of the input pipe; a reply is some integers, each one item of the       *)
(* output queue.  Client k is the one of connection k; like Translator.pm  *)
(* it waits for each reply before it asks again, and may leave at any      *)
(* time.  What requests do to the data is left to IFaceHandlers.           *)
(***************************************************************************)
EXTENDS Integers, Sequences

CONSTANTS Connections,  \* bound on the connections
          Script,       \* the integers in the reply to each request of a
                        \* client; the last request is end_connection
          GROW_BY       \* IP_NOISE_TEXT_QUEUE_OUT_GROW_BY

ASSUME ConnectionAssumption ==
  /\ Connections \in Nat /\ GROW_BY \in Nat \ {0}
  /\ Script \in Seq(Nat \ {0}) /\ Script # <<>>

VARIABLES
  client,          \* the last client that came
  client_at,       \* "away", "asking" or "waiting" for a reply
  asked,           \* the requests it made
  to_arb,          \* the pipe of requests
  iface,           \* where the interface thread is
  conn_open,       \* the descriptors of self->conn are open
  text_queue_in, is_conn_closed,
  owed,            \* integers of the present reply that are to be written
  buffer, ptr_offset, max_size,  \* the output queue; length is Len(buffer)
  reader, writer,  \* where the threads of each connection are
  in_hand,         \* what each writer took out of the queue
  cancelled,       \* the writers that pthread_cancel was called for
  killed,          \* the process was killed
  replied,         \* history: integers queued in each connection
  received,        \* history: what each client was sent
  spoilt           \* history: the queue was compacted with a loss

inVars == <<to_arb, text_queue_in, is_conn_closed, reader>>
outVars == <<buffer, ptr_offset, max_size, writer, in_hand>>
clientVars == <<client, client_at, asked>>
history == <<replied, received, spoilt>>
connectionVars == <<inVars, outVars, clientVars, iface, conn_open, owed,
                    cancelled, killed, history>>

ConnThreads == 1 .. Connections

(* self->conn and its queues are those of the last client's connection.    *)
conn == client

Nothing == <<0, 0>>

ConnectionInit ==
  /\ client = 0 /\ client_at = "away" /\ asked = 0 /\ to_arb = <<>>
  /\ iface = "opening" /\ conn_open = FALSE
  /\ text_queue_in = <<>> /\ is_conn_closed = FALSE /\ owed = 0
  /\ buffer = <<>> /\ ptr_offset = 0 /\ max_size = 0
  /\ reader = [t \in ConnThreads |-> "none"]
  /\ writer = [t \in ConnThreads |-> "none"]
  /\ in_hand = [t \in ConnThreads |-> Nothing] /\ cancelled = {}
  /\ killed = FALSE
  /\ replied = [k \in ConnThreads |-> 0]
  /\ received = [k \in ConnThreads |-> <<>>]
  /\ spoilt = FALSE

-----------------------------------------------------------------------------
(* init_connection: conn_open waits for a client to open its ends; then    *)
(* the queues are replaced and the two threads started.                    *)
InitConnection ==
  /\ iface = "opening" /\ client_at = "away" /\ client < Connections
  /\ iface' = "transacting" /\ conn_open' = TRUE
  /\ client' = client + 1 /\ client_at' = "asking" /\ asked' = 0
  /\ text_queue_in' = <<>> /\ is_conn_closed' = FALSE
  /\ buffer' = <<>> /\ ptr_offset' = 0 /\ max_size' = GROW_BY
  /\ reader' = [reader EXCEPT ![client'] = "reading"]
  /\ writer' = [writer EXCEPT ![client'] = "polling"]
  /\ UNCHANGED <<to_arb, in_hand, owed, cancelled, killed, history>>

(* The client                                                              *)
Total(n) ==
  LET sum[i \in 0 .. Len(Script)] == IF i = 0 THEN 0 ELSE sum[i - 1] + Script[i]
  IN  sum[n]

ClientAsks ==
  /\ client_at = "asking" /\ asked < Len(Script)
  /\ asked' = asked + 1 /\ client_at' = "waiting"
  /\ to_arb' = Append(to_arb, asked')
  /\ UNCHANGED <<client, text_queue_in, is_conn_closed, reader, outVars, iface,
                 conn_open, owed, cancelled, killed, history>>

(* It has its reply: it asks on, or leaves after the last request.         *)
ClientAnswered ==
  /\ client_at = "waiting" /\ Len(received[client]) >= Total(asked)
  /\ client_at' = IF asked = Len(Script) THEN "away" ELSE "asking"
  /\ UNCHANGED <<client, asked, inVars, outVars, iface, conn_open, owed,
                 cancelled, killed, history>>

(* It finds the end of the pipe instead of a reply.                        *)
ClientFindsEnd ==
  /\ client_at # "away" /\ ~ conn_open
  /\ client_at' = "away"
  /\ UNCHANGED <<client, asked, inVars, outVars, iface, conn_open, owed,
                 cancelled, killed, history>>

ClientLeaves ==
  /\ client_at # "away"
  /\ client_at' = "away"
  /\ UNCHANGED <<client, asked, inVars, outVars, iface, conn_open, owed,
                 cancelled, killed, history>>

-----------------------------------------------------------------------------
(* poll_conn: read blocks until there is a byte or nobody has the pipe     *)
(* open for writing.  The byte goes to the queue of the present            *)
(* connection, and the next read is from its descriptor: if that is closed *)
(* the read fails, like at the end of the pipe.                            *)
PollConnRead(r) ==
  /\ reader[r] = "reading" /\ to_arb # <<>>
  /\ to_arb' = Tail(to_arb)
  /\ text_queue_in' = Append(text_queue_in, Head(to_arb))
  /\ reader' = [reader EXCEPT ![r] = IF conn_open THEN "reading" ELSE "failed"]
  /\ UNCHANGED <<is_conn_closed, outVars, clientVars, iface, conn_open, owed,
                 cancelled, killed, history>>

PollConnFails(r) ==
  /\ reader[r] = "reading" /\ to_arb = <<>> /\ client_at = "away"
  /\ reader' = [reader EXCEPT ![r] = "failed"]
  /\ UNCHANGED <<to_arb, text_queue_in, is_conn_closed, outVars, clientVars,
                 iface, conn_open, owed, cancelled, killed, history>>

PollConnCloses(r) ==
  /\ reader[r] = "failed"
  /\ is_conn_closed' = TRUE
  /\ reader' = [reader EXCEPT ![r] = "ended"]
  /\ UNCHANGED <<to_arb, text_queue_in, outVars, clientVars, iface, conn_open,
                 owed, cancelled, killed, history>>

-----------------------------------------------------------------------------
(* iface_transact, as far as the connection goes                           *)
Transact ==
  /\ iface = "transacting" /\ text_queue_in # <<>>
  /\ text_queue_in' = Tail(text_queue_in)
  /\ owed' = Script[Head(text_queue_in)]
  /\ iface' = IF Head(text_queue_in) = Len(Script) THEN "last reply" ELSE "replying"
  /\ UNCHANGED <<to_arb, is_conn_closed, reader, outVars, clientVars, conn_open,
                 cancelled, killed, history>>

ConnTerm ==
  /\ iface = "transacting" /\ text_queue_in = <<>> /\ is_conn_closed
  /\ iface' = "closing"
  /\ UNCHANGED <<inVars, outVars, clientVars, conn_open, owed, cancelled,
                 killed, history>>

(* input_bytes compacts a full buffer, with the two ends of its memmove    *)
(* exchanged: the unread part becomes a copy of the first bytes.           *)
Full == Len(buffer) + 1 > max_size
Unread == Len(buffer) - ptr_offset

Compacted ==
  IF Full
    THEN [i \in 1 .. Unread |-> IF i <= ptr_offset THEN buffer[i]
                                                   ELSE buffer[i - ptr_offset]]
    ELSE buffer

(* The writer thread holds another mutex: its addition to ptr_offset may   *)
(* come after the reset, with the old value.                               *)
NewPtrOffsets ==
  IF ~ Full THEN {ptr_offset}
  ELSE IF \E t \in ConnThreads : writer[t] = "polling" THEN {0, ptr_offset}
  ELSE {0}

(* write_int: one integer more for the output queue.                       *)
WriteInt ==
  /\ iface \in {"replying", "last reply"} /\ owed > 0
  /\ \E ptr \in NewPtrOffsets :
       /\ ptr_offset' = ptr
       /\ spoilt' = (spoilt \/ (Full /\ (ptr # 0 \/ (Unread > 0 /\ ptr_offset > 0))))
  /\ replied' = [replied EXCEPT ![conn] = @ + 1]
  /\ buffer' = Append(Compacted, <<conn, replied'[conn]>>)
  /\ max_size' = IF Len(Compacted) + 1 > max_size
                   THEN Len(Compacted) + 1 + GROW_BY ELSE max_size
  /\ owed' = owed - 1
  /\ UNCHANGED <<inVars, writer, in_hand, clientVars, iface, conn_open,
                 cancelled, killed, received>>

Replied ==
  /\ iface \in {"replying", "last reply"} /\ owed = 0
  /\ iface' = IF iface = "replying" THEN "transacting" ELSE "closing"
  /\ UNCHANGED <<inVars, outVars, clientVars, conn_open, owed, cancelled,
                 killed, history>>

-----------------------------------------------------------------------------
(* write_poll_conn: an item is taken out under the mutex, then written.    *)
(* A negative number of bytes makes the memcpy leave the buffer.           *)
WritePollTakes(w) ==
  /\ writer[w] = "polling" /\ Unread > 0
  /\ in_hand' = [in_hand EXCEPT ![w] = buffer[ptr_offset + 1]]
  /\ ptr_offset' = ptr_offset + 1
  /\ writer' = [writer EXCEPT ![w] = "writing"]
  /\ UNCHANGED <<inVars, buffer, max_size, clientVars, iface, conn_open, owed,
                 cancelled, killed, history>>

WritePollNegative(w) ==
  /\ writer[w] = "polling" /\ Unread < 0
  /\ killed' = TRUE
  /\ UNCHANGED <<inVars, outVars, clientVars, iface, conn_open, owed, cancelled,
                 history>>

(* write is the only point where a cancelled writer ends, with the byte    *)
(* still in its hand.  A pipe that nobody reads kills the process.         *)
WritePollWrites(w) ==
  /\ writer[w] = "writing"
  /\ in_hand' = [in_hand EXCEPT ![w] = Nothing]
  /\ \/ /\ w \in cancelled
        /\ writer' = [writer EXCEPT ![w] = "ended"]
        /\ UNCHANGED <<received, killed>>
     \/ /\ w \notin cancelled /\ client_at # "away"
        /\ received' = [received EXCEPT ![conn] = Append(@, in_hand[w])]
        /\ writer' = [writer EXCEPT ![w] = "polling"]
        /\ UNCHANGED killed
     \/ /\ w \notin cancelled /\ client_at = "away"
        /\ killed' = TRUE
        /\ UNCHANGED <<received, writer>>
  /\ UNCHANGED <<inVars, buffer, ptr_offset, max_size, clientVars, iface,
                 conn_open, owed, cancelled, replied, spoilt>>

-----------------------------------------------------------------------------
(* close_connection, without its locking and the swap of the data          *)
(* Mutant: the writer is left running. *)
CloseCancelsNot ==
  /\ iface = "closing"
  /\ iface' = "destroying"
  /\ UNCHANGED <<inVars, outVars, clientVars, conn_open, owed, cancelled,
                 killed, history>>

CloseCancels ==
  /\ iface = "closing"
  /\ cancelled' = cancelled \cup {conn}
  /\ iface' = "destroying"
  /\ UNCHANGED <<inVars, outVars, clientVars, conn_open, owed, killed, history>>

(* Mutant: the descriptors stay open. *)
ConnDestroyKeeps ==
  /\ iface = "destroying"
  /\ iface' = "sleeping"
  /\ UNCHANGED <<inVars, outVars, clientVars, conn_open, owed, cancelled,
                 killed, history>>

ConnDestroy ==
  /\ iface = "destroying"
  /\ conn_open' = FALSE
  /\ iface' = "sleeping"
  /\ UNCHANGED <<inVars, outVars, clientVars, owed, cancelled, killed, history>>

(* sleep(1): "to make sure we do not re-open the already open connection". *)
(* A second is taken to be enough for the client to leave and for the      *)
(* reader, whose pipe has come to its end, to note it.                     *)
Awake ==
  /\ iface = "sleeping"
  /\ client_at = "away" /\ \A t \in ConnThreads : reader[t] \in {"none", "ended"}
  /\ iface' = "opening"
  /\ UNCHANGED <<inVars, outVars, clientVars, conn_open, owed, cancelled,
                 killed, history>>

-----------------------------------------------------------------------------
IfaceStep == Transact \/ ConnTerm \/ WriteInt \/ Replied
               \/ CloseCancels \/ ConnDestroy \/ Awake
PollConnStep(r) == PollConnRead(r) \/ PollConnFails(r) \/ PollConnCloses(r)
WritePollStep(w) == WritePollTakes(w) \/ WritePollNegative(w) \/ WritePollWrites(w)
ClientStep == ClientAnswered \/ ClientFindsEnd

ConnectionNext ==
  /\ ~ killed
  /\ \/ InitConnection \/ ClientAsks \/ ClientLeaves \/ ClientStep \/ IfaceStep
     \/ \E t \in ConnThreads : PollConnStep(t) \/ WritePollStep(t)

ConnectionSpec == ConnectionInit /\ [][ConnectionNext]_connectionVars

(* The threads are scheduled, and a client takes what has come.  No client *)
(* need come, ask or leave.                                                *)
ConnectionFairness ==
  /\ WF_connectionVars(~ killed /\ IfaceStep)
  /\ WF_connectionVars(~ killed /\ ClientStep)
  /\ \A t \in ConnThreads : WF_connectionVars(~ killed /\ PollConnStep(t))
                          /\ WF_connectionVars(~ killed /\ WritePollStep(t))

ConnectionFairSpec == ConnectionSpec /\ ConnectionFairness

-----------------------------------------------------------------------------
(* A client is sent the integers of its own replies, in their order and    *)
(* none twice; each writer that an earlier connection left behind may      *)
(* swallow one of them, and no more.  This holds although queue and writer *)
(* do not share a mutex (iface.c:1214 and 366), until the queue is         *)
(* compacted under the writer or with unread integers.                     *)
RepliesInOrder ==
  \A k \in ConnThreads :
    LET got == received[k]
    IN  ~ spoilt =>
          /\ \A j \in 1 .. Len(got) : got[j][1] = k
          /\ \A j \in 1 .. Len(got) - 1 : got[j][2] < got[j + 1][2]
          /\ got # <<>> => got[Len(got)][2] - Len(got) <= k - 1

(* A client of the first connection does not wait for ever: it has its     *)
(* reply, or finds the pipe closed if the reply to end_connection went     *)
(* down with the writer.                                                   *)
FirstIsAnswered ==
  client = 1 /\ client_at = "waiting" ~> client_at # "waiting" \/ killed \/ spoilt

(* Translator.pm:283-288, what a transaction involves: "3. Retrieving the  *)
(* transaction's return code. 4. Retrieving possible return values."  So   *)
(* the integers that reach a client are all those queued so far.           *)
RepliesArriveWhole ==
  \A k \in ConnThreads : \A j \in 1 .. Len(received[k]) : received[k][j] = <<k, j>>
=============================================================================
