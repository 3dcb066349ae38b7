----------------------------- MODULE Arbitrator -----------------------------
(***************************************************************************)
(* The threads of the user-mode arbitrator that share the configuration    *)
(* *data: the interface thread, which duplicates it, edits the copy during *)
(* a connection and puts the copy in its place at the end (iface.c); the   *)
(* switcher, which changes the current states of the chains (switcher.c);  *)
(* and the arbitrator thread, which reads them (packet_logic.c).  They     *)
(* meet at the lock of RWLock, at the pointer *data, which is also read    *)
(* without the lock, and at flags->reinit_switcher, which is always        *)
(* accessed without a lock of its own.                                     *)
(*                                                                         *)
(* Version v of the data is the one that connection v installed; version 0 *)
(* is the empty one of main.c.  data_copy is version data + 1.  The reads  *)
(* of freed or unset memory are undefined behaviour: reading the lock      *)
(* pointer of a freed struct yields the old value or kills the process,    *)
(* following a chain or a state that is not there kills it.                *)
(***************************************************************************)
EXTENDS Integers, Sequences, FiniteSets

CONSTANTS MaxConnections, MaxChains, MaxStates  \* bounds

ASSUME BoundsAssumption ==
  MaxConnections \in Nat /\ MaxChains \in Nat /\ MaxStates \in Nat

VARIABLES
  active_readers, active_writers, waiting_readers, waiting_writers,
  cond_read, cond_write, pc,  \* the lock, and each thread's place in it
  chains,           \* the chains of each version of the data
  data,             \* *data: the version in force
  freed,            \* the versions that were freed
  reinit_switcher,  \* flags->reinit_switcher
  pq,               \* the chains that have an event in the switcher's queue
  iface, switcher, arbitrator,      \* where the threads are
  switcher_data, arbitrator_data,   \* the pointers they read before locking
  crashed,
  reinited          \* history: the version of the last switcher_reinit

(* The interface thread locks for reading and for writing: it appears in   *)
(* the lock once in each role, and iface says which one it is in.          *)
RW == INSTANCE RWLock WITH Readers <- {"switcher", "arbitrator", "duplicate"},
                           Writers <- {"close"}

lockVars == <<active_readers, active_writers, waiting_readers, waiting_writers,
              cond_read, cond_write, pc>>
ifaceVars == <<data, freed, iface>>
switcherVars == <<pq, switcher, switcher_data, reinited>>
arbitratorVars == <<arbitrator, arbitrator_data>>
vars == <<lockVars, ifaceVars, switcherVars, arbitratorVars,
          chains, reinit_switcher, crashed>>

ChainsOf(v) == 0 .. Len(chains[v]) - 1
Chain(v, c) == chains[v][c + 1]
InRange(chain) == chain.current_state < chain.num_states

data_copy == data + 1

(* A pointer local that is not read any more. *)
Dead == -1

Init ==
  /\ RW!Init
  /\ chains = [v \in 0 .. MaxConnections |-> <<>>]
  /\ data = 0 /\ freed = {}
  /\ reinit_switcher = 1
  /\ pq = {}
  /\ iface = "closed" /\ switcher = "start" /\ arbitrator = "start"
  /\ switcher_data = Dead /\ arbitrator_data = Dead
  /\ crashed = FALSE
  /\ reinited = -1

(* Reading version->lock: all versions share one lock (data_duplicate).    *)
ReadLockOf(version) ==
  IF version \in freed THEN crashed' \in BOOLEAN ELSE UNCHANGED crashed

AskRead(t) == RW!DownRead(t) \/ RW!DownReadWait(t)

-----------------------------------------------------------------------------
(* iface.c: init_connection                                                *)
OpenConnection ==
  /\ iface = "closed" /\ data < MaxConnections
  /\ AskRead("duplicate")
  /\ iface' = "open"
  /\ UNCHANGED <<data, freed, switcherVars, arbitratorVars, chains,
                 reinit_switcher, crashed>>

Duplicate ==
  /\ iface = "open" /\ pc["duplicate"] = "reading"
  /\ chains' = [chains EXCEPT ![data_copy] = chains[data]]
  /\ iface' = "duplicated"
  /\ UNCHANGED <<lockVars, data, freed, switcherVars, arbitratorVars,
                 reinit_switcher, crashed>>

EndDuplicate ==
  /\ iface = "duplicated"
  /\ RW!UpRead("duplicate")
  /\ iface' = "connected"
  /\ UNCHANGED <<data, freed, switcherVars, arbitratorVars, chains,
                 reinit_switcher, crashed>>

(* The handlers that change which chains and states there are work on the  *)
(* copy.  chain_alloc does not set current_state: it is any number, here   *)
(* one up to MaxStates, which no state has as its index.                   *)
NewChain ==
  /\ Len(chains[data_copy]) < MaxChains
  /\ \E garbage \in 0 .. MaxStates :
       chains' = [chains EXCEPT ![data_copy] =
         Append(@, [num_states |-> 0, current_state |-> garbage])]

(* Mutant: the handler works on the data in force. *)
NewStateInPlace ==
  \E c \in ChainsOf(data) :
    /\ Chain(data, c).num_states < MaxStates
    /\ chains' = [chains EXCEPT ![data][c + 1].num_states = @ + 1]

NewState ==
  \E c \in ChainsOf(data_copy) :
    /\ Chain(data_copy, c).num_states < MaxStates
    /\ chains' = [chains EXCEPT ![data_copy][c + 1].num_states = @ + 1]

ClearAll == chains' = [chains EXCEPT ![data_copy] = <<>>]

Edit ==
  /\ iface = "connected"
  /\ NewChain \/ NewState \/ ClearAll
  /\ UNCHANGED <<lockVars, ifaceVars, switcherVars, arbitratorVars,
                 reinit_switcher, crashed>>

(* iface.c: close_connection, one action per access to what is shared.     *)
(* The connection may end at any time, by end_connection or because the    *)
(* client went away.                                                       *)
CloseRaiseFlag ==
  /\ iface = "connected"
  /\ reinit_switcher' = 1
  /\ iface' = "flagged"
  /\ UNCHANGED <<lockVars, data, freed, switcherVars, arbitratorVars,
                 chains, crashed>>

CloseAsk ==
  /\ iface = "flagged"
  /\ RW!DownWrite("close") \/ RW!DownWriteWait("close")
  /\ iface' = "closing"
  /\ UNCHANGED <<data, freed, switcherVars, arbitratorVars, chains,
                 reinit_switcher, crashed>>

(* Mutant: the old data is freed before the lock is had. *)
CloseFreeDataUnlocked ==
  /\ iface = "closing"
  /\ freed' = freed \cup {data}
  /\ chains' = [chains EXCEPT ![data] = <<>>]
  /\ iface' = "freed"
  /\ UNCHANGED <<lockVars, data, switcherVars, arbitratorVars,
                 reinit_switcher, crashed>>

CloseFreeData ==
  /\ iface = "closing" /\ pc["close"] = "writing"
  /\ freed' = freed \cup {data}
  /\ chains' = [chains EXCEPT ![data] = <<>>]
  /\ iface' = "freed"
  /\ UNCHANGED <<lockVars, data, switcherVars, arbitratorVars,
                 reinit_switcher, crashed>>

CloseSwapData ==
  /\ iface = "freed"
  /\ data' = data_copy
  /\ iface' = "swapped"
  /\ UNCHANGED <<lockVars, freed, switcherVars, arbitratorVars, chains,
                 reinit_switcher, crashed>>

CloseUp ==
  /\ iface = "swapped"
  /\ RW!UpWrite("close")
  /\ iface' = "closed"
  /\ UNCHANGED <<data, freed, switcherVars, arbitratorVars, chains,
                 reinit_switcher, crashed>>

-----------------------------------------------------------------------------
(* switcher.c: ip_noise_arbitrator_switcher_poll, again and again.         *)
SwitcherReadData ==
  /\ switcher = "start"
  /\ switcher_data' = data
  /\ switcher' = "data"
  /\ UNCHANGED <<lockVars, ifaceVars, pq, reinited, arbitratorVars, chains,
                 reinit_switcher, crashed>>

SwitcherReadLock ==
  /\ switcher = "data"
  /\ ReadLockOf(switcher_data)
  /\ switcher_data' = Dead
  /\ switcher' = "lock"
  /\ UNCHANGED <<lockVars, ifaceVars, pq, reinited, arbitratorVars, chains,
                 reinit_switcher>>

SwitcherAsk ==
  /\ switcher = "lock"
  /\ AskRead("switcher")
  /\ switcher' = "locking"
  /\ UNCHANGED <<ifaceVars, pq, switcher_data, reinited, arbitratorVars,
                 chains, reinit_switcher, crashed>>

(* Mutant: the old events stay. *)
SwitcherReinitKeepsEvents ==
  /\ switcher = "locking" /\ pc["switcher"] = "reading"
  /\ reinit_switcher = 1
  /\ pq' = pq \cup ChainsOf(data)
  /\ chains' = [chains EXCEPT ![data] =
       [i \in DOMAIN @ |-> [@[i] EXCEPT !.current_state = 0]]]
  /\ reinited' = data
  /\ switcher' = "reinited"
  /\ UNCHANGED <<lockVars, ifaceVars, switcher_data, arbitratorVars,
                 reinit_switcher, crashed>>

(* ip_noise_arbitrator_switcher_reinit: an event for every chain           *)
SwitcherReinit ==
  /\ switcher = "locking" /\ pc["switcher"] = "reading"
  /\ reinit_switcher = 1
  /\ pq' = ChainsOf(data)
  /\ chains' = [chains EXCEPT ![data] =
       [i \in DOMAIN @ |-> [@[i] EXCEPT !.current_state = 0]]]
  /\ reinited' = data
  /\ switcher' = "reinited"
  /\ UNCHANGED <<lockVars, ifaceVars, switcher_data, arbitratorVars,
                 reinit_switcher, crashed>>

SwitcherClearFlag ==
  /\ switcher = "reinited"
  /\ reinit_switcher' = 0
  /\ switcher' = "serving"
  /\ UNCHANGED <<lockVars, ifaceVars, pq, switcher_data, reinited,
                 arbitratorVars, chains, crashed>>

SwitcherNoReinit ==
  /\ switcher = "locking" /\ pc["switcher"] = "reading"
  /\ reinit_switcher = 0
  /\ switcher' = "serving"
  /\ UNCHANGED <<lockVars, ifaceVars, pq, switcher_data, reinited,
                 arbitratorVars, chains, reinit_switcher, crashed>>

(* A due event is popped, switch_chain moves its chain to another state or *)
(* leaves it where it is, and the chain's next event is pushed.            *)
SwitcherSwitch(c) ==
  /\ switcher = "serving"
  /\ c \in pq
  /\ IF c \in ChainsOf(data) /\ InRange(Chain(data, c))
       THEN /\ \E s \in 0 .. Chain(data, c).num_states - 1 :
                 chains' = [chains EXCEPT ![data][c + 1].current_state = s]
            /\ UNCHANGED crashed
       ELSE crashed' = TRUE /\ UNCHANGED chains
  /\ UNCHANGED <<lockVars, ifaceVars, switcherVars, arbitratorVars,
                 reinit_switcher>>

SwitcherUp ==
  /\ switcher = "serving"
  /\ RW!UpRead("switcher")
  /\ switcher' = "start"
  /\ UNCHANGED <<ifaceVars, pq, switcher_data, reinited, arbitratorVars,
                 chains, reinit_switcher, crashed>>

-----------------------------------------------------------------------------
(* packet_logic.c: a packet is decided on.                                 *)
ArbitratorReadData ==
  /\ arbitrator = "start"
  /\ arbitrator_data' = data
  /\ arbitrator' = "data"
  /\ UNCHANGED <<lockVars, ifaceVars, switcherVars, chains,
                 reinit_switcher, crashed>>

ArbitratorReadLock ==
  /\ arbitrator = "data"
  /\ ReadLockOf(arbitrator_data)
  /\ arbitrator_data' = Dead
  /\ arbitrator' = "lock"
  /\ UNCHANGED <<lockVars, ifaceVars, switcherVars, chains, reinit_switcher>>

ArbitratorAsk ==
  /\ arbitrator = "lock"
  /\ AskRead("arbitrator")
  /\ arbitrator' = "locking"
  /\ UNCHANGED <<ifaceVars, switcherVars, arbitrator_data, chains,
                 reinit_switcher, crashed>>

(* chain_decide follows the current state of a chain that the packet       *)
(* matches.                                                                *)
ArbitratorChainDecide(c) ==
  /\ arbitrator = "locking" /\ pc["arbitrator"] = "reading"
  /\ c \in ChainsOf(data)
  /\ crashed' = ~ InRange(Chain(data, c))
  /\ UNCHANGED <<lockVars, ifaceVars, switcherVars, arbitratorVars, chains,
                 reinit_switcher>>

ArbitratorUp ==
  /\ arbitrator = "locking"
  /\ RW!UpRead("arbitrator")
  /\ arbitrator' = "start"
  /\ UNCHANGED <<ifaceVars, switcherVars, arbitrator_data, chains,
                 reinit_switcher, crashed>>

-----------------------------------------------------------------------------
(* Inside the lock: a woken thread tests its condition again; a wakeup may *)
(* be spurious.                                                            *)
LockRetry(t) ==
  /\ RW!DownReadResume(t) \/ RW!DownReadWaitAgain(t)
       \/ RW!DownWriteResume(t) \/ RW!DownWriteWaitAgain(t)
  /\ UNCHANGED <<ifaceVars, switcherVars, arbitratorVars, chains,
                 reinit_switcher, crashed>>

LockSpuriousWakeup ==
  /\ \E t \in RW!Threads : RW!SpuriousWakeup(t)
  /\ UNCHANGED <<ifaceVars, switcherVars, arbitratorVars, chains,
                 reinit_switcher, crashed>>

Close == CloseRaiseFlag \/ CloseAsk \/ CloseFreeData \/ CloseSwapData \/ CloseUp
IfaceStep == OpenConnection \/ Duplicate \/ EndDuplicate \/ Edit \/ Close

PollBegin == SwitcherReadData \/ SwitcherReadLock \/ SwitcherAsk
PollEnd == SwitcherReinit \/ SwitcherClearFlag \/ SwitcherNoReinit \/ SwitcherUp
SwitcherStep == PollBegin \/ PollEnd \/ \E c \in 0 .. MaxChains - 1 : SwitcherSwitch(c)

PacketStep == ArbitratorReadData \/ ArbitratorReadLock \/ ArbitratorAsk \/ ArbitratorUp
                \/ \E c \in 0 .. MaxChains - 1 : ArbitratorChainDecide(c)

Next ==
  /\ ~ crashed
  /\ IfaceStep \/ SwitcherStep \/ PacketStep
       \/ LockSpuriousWakeup \/ \E t \in RW!Threads : LockRetry(t)

Spec == Init /\ [][Next]_vars

(* The threads are scheduled: a poll and a decision that have begun end    *)
(* (a new event lies at or after the time the poll compares with, so the   *)
(* loop over the due events is finite), the switcher polls for ever, and   *)
(* a connection that has begun to close does.  Clients and packets need    *)
(* not come, and a client need not go.                                     *)
FairSpec ==
  /\ Spec
  /\ WF_vars(~ crashed /\ (PollBegin \/ PollEnd))
  /\ WF_vars(~ crashed /\ ArbitratorUp)
  /\ WF_vars(~ crashed /\ (Duplicate \/ EndDuplicate))
  /\ WF_vars(~ crashed /\ (CloseAsk \/ CloseFreeData \/ CloseSwapData \/ CloseUp))
  /\ \A t \in RW!Threads : WF_vars(~ crashed /\ LockRetry(t))

-----------------------------------------------------------------------------
(* What a reader follows from *data while it holds the lock was not freed: *)
(* close_connection frees and replaces inside one write section            *)
(* (packet_logic.c and switcher.c follow *data only under the lock).       *)
LiveUnderLock ==
  \A t \in DOMAIN pc : pc[t] = "reading" => data \notin freed

(* While a reader holds the lock the configuration keeps its shape: the    *)
(* data is not replaced and no chain or state comes or goes, whatever the  *)
(* connection is doing to its copy at that time.                           *)
SteadyWhileReading ==
  [][\A t \in DOMAIN pc : pc[t] = "reading" =>
       /\ data' = data
       /\ Len(chains'[data]) = Len(chains[data])
       /\ \A i \in 1 .. Len(chains[data]) :
            chains'[data][i].num_states = chains[data][i].num_states]_vars

(* Once the switcher has reinitialised from the data in force, every chain *)
(* and nothing else has a switch event, and every chain that has a state   *)
(* is in one of them, through all later switches and until the next swap.  *)
ReinitedIsScheduled ==
  reinited = data /\ data \notin freed =>
    /\ pq = ChainsOf(data)
    /\ \A c \in ChainsOf(data) : \/ InRange(Chain(data, c))
                                 \/ Chain(data, c).num_states = 0

(* A raised flag is noticed: the switcher always gets its read lock, and   *)
(* polls, however the packets and the connections contend with it.         *)
FlagIsConsumed == reinit_switcher = 1 ~> reinit_switcher = 0 \/ crashed

(* A connection that has begun to close gets the write lock, with readers  *)
(* coming and going all the time, and ends.                                *)
CloseTerminates == iface = "flagged" ~> iface = "closed" \/ crashed

(* Docs/Users_Guide/main.html:441-442: "In each chain, the states are      *)
(* switched at exponential times from the time of the last switch."  When  *)
(* no connection is being closed and no reinitialisation is due, every     *)
(* chain has the event that its next switch comes from.                    *)
EveryChainIsSwitched ==
  /\ ~ crashed
  /\ iface \in {"closed", "open", "duplicated", "connected"}
  /\ switcher # "reinited" /\ reinit_switcher = 0
  => ChainsOf(data) \subseteq pq
=============================================================================
