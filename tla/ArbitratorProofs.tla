-------------------------- MODULE ArbitratorProofs --------------------------
(***************************************************************************)
(* Proofs about Arbitrator, for any number of connections, chains and      *)
(* states: what the lock guards, while one thread replaces the data and    *)
(* three roles read it.  What the lock itself does is taken from           *)
(* RWLockProofs, whose theorems hold for the roles of these threads.       *)
(***************************************************************************)
EXTENDS Arbitrator, FiniteSetTheorems, TLAPS

Lock == INSTANCE RWLockProofs WITH Readers <- {"switcher", "arbitrator", "duplicate"},
                                   Writers <- {"close"}

-----------------------------------------------------------------------------
(* The lock                                                                *)
LEMMA RolesAreFinite ==
  /\ Lock!IsFiniteSet({"switcher", "arbitrator", "duplicate"})
  /\ Lock!IsFiniteSet({"close"})
<1>1. IsFiniteSet({"close"}) /\ IsFiniteSet({"switcher"})
  BY FS_Singleton
<1>2. IsFiniteSet({"switcher"} \cup {"arbitrator"})
  BY <1>1, FS_AddElement
<1>3. IsFiniteSet(({"switcher"} \cup {"arbitrator"}) \cup {"duplicate"})
  BY <1>2, FS_AddElement
<1>4. ({"switcher"} \cup {"arbitrator"}) \cup {"duplicate"} =
        {"switcher", "arbitrator", "duplicate"}
  OBVIOUS
<1> QED
  BY <1>1, <1>3, <1>4 DEF Lock!IsFiniteSet, IsFiniteSet

(* The threads use the lock as RWLock supposes: the switcher, the          *)
(* arbitrator and the duplicating connection as readers only, the closing  *)
(* one as the writer.  Every step of the program is then a step of the     *)
(* lock, or leaves it alone.                                               *)
LockReaders == {"switcher", "arbitrator", "duplicate"}

RolesKept ==
  /\ \A t \in LockReaders : pc[t] \in {"out", "down_read", "reading"}
  /\ pc["close"] \in {"out", "down_write", "writing"}

LEMMA RetryInRole ==
  ASSUME RolesKept, NEW t \in RW!Threads, LockRetry(t)
  PROVE  \/ t \in LockReaders /\ RW!ReaderStep(t)
         \/ t = "close" /\ RW!WriterStep(t)
<1>1. CASE t \in LockReaders
  <2>1. pc[t] # "down_write"
    BY <1>1 DEF RolesKept
  <2>2. RW!DownReadResume(t) \/ RW!DownReadWaitAgain(t)
    BY <2>1 DEF LockRetry, RW!DownWriteResume, RW!DownWriteWaitAgain
  <2> QED
    BY <1>1, <2>2 DEF RW!ReaderStep
<1>2. CASE t = "close"
  <2>1. pc[t] # "down_read"
    BY <1>2 DEF RolesKept
  <2>2. RW!DownWriteResume(t) \/ RW!DownWriteWaitAgain(t)
    BY <2>1 DEF LockRetry, RW!DownReadResume, RW!DownReadWaitAgain
  <2> QED
    BY <1>2, <2>2 DEF RW!WriterStep
<1> QED
  BY <1>1, <1>2 DEF RW!Threads, LockReaders

LEMMA NextInRoles ==
  ASSUME RolesKept, Next
  PROVE  RW!Next \/ UNCHANGED lockVars
<1>1. (\E t \in LockReaders : RW!ReaderStep(t)) \/ RW!WriterStep("close") => RW!Next
  BY DEF RW!Next, LockReaders
<1>2. /\ "switcher" \in LockReaders /\ "arbitrator" \in LockReaders
      /\ "duplicate" \in LockReaders
  BY DEF LockReaders
<1>3. CASE IfaceStep
  <2>1. CASE OpenConnection \/ EndDuplicate
    BY <1>1, <1>2, <2>1 DEF OpenConnection, EndDuplicate, AskRead, RW!ReaderStep
  <2>2. CASE CloseAsk \/ CloseUp
    BY <1>1, <2>2 DEF CloseAsk, CloseUp, RW!WriterStep
  <2>3. CASE Duplicate \/ Edit \/ CloseRaiseFlag \/ CloseFreeData \/ CloseSwapData
    BY <2>3 DEF Duplicate, Edit, CloseRaiseFlag, CloseFreeData, CloseSwapData
  <2> QED
    BY <1>3, <2>1, <2>2, <2>3 DEF IfaceStep, Close
<1>4. CASE SwitcherStep
  <2>1. CASE SwitcherAsk \/ SwitcherUp
    BY <1>1, <1>2, <2>1 DEF SwitcherAsk, SwitcherUp, AskRead, RW!ReaderStep
  <2>2. CASE \/ SwitcherReadData \/ SwitcherReadLock \/ SwitcherReinit
             \/ SwitcherClearFlag \/ SwitcherNoReinit
             \/ \E c \in 0 .. MaxChains - 1 : SwitcherSwitch(c)
    BY <2>2 DEF SwitcherReadData, SwitcherReadLock, SwitcherReinit, SwitcherClearFlag,
       SwitcherNoReinit, SwitcherSwitch
  <2> QED
    BY <1>4, <2>1, <2>2 DEF SwitcherStep, PollBegin, PollEnd
<1>5. CASE PacketStep
  <2>1. CASE ArbitratorAsk \/ ArbitratorUp
    BY <1>1, <1>2, <2>1 DEF ArbitratorAsk, ArbitratorUp, AskRead, RW!ReaderStep
  <2>2. CASE \/ ArbitratorReadData \/ ArbitratorReadLock
             \/ \E c \in 0 .. MaxChains - 1 : ArbitratorChainDecide(c)
    BY <2>2 DEF ArbitratorReadData, ArbitratorReadLock, ArbitratorChainDecide
  <2> QED
    BY <1>5, <2>1, <2>2 DEF PacketStep
<1>6. CASE LockSpuriousWakeup
  BY <1>6 DEF LockSpuriousWakeup, RW!Next
<1>7. CASE \E t \in RW!Threads : LockRetry(t)
  BY <1>1, <1>7, RetryInRole
<1> QED
  BY <1>3, <1>4, <1>5, <1>6, <1>7 DEF Next

LEMMA LockStepKeepsRoles ==
  ASSUME Lock!IInv, RolesKept, RW!Next
  PROVE  RolesKept'
<1>1. pc \in [LockReaders \cup {"close"} ->
               {"out", "down_read", "reading", "down_write", "writing"}]
  BY DEF Lock!IInv, Lock!TypeOK, Lock!Threads, LockReaders
<1>2. "close" \notin LockReaders
  BY DEF LockReaders
<1>3. ASSUME NEW t \in LockReaders, RW!ReaderStep(t) PROVE RolesKept'
  <2>1. \/ pc' = pc
        \/ \E p \in {"out", "down_read", "reading"} : pc' = [pc EXCEPT ![t] = p]
    BY <1>3 DEF RW!ReaderStep, RW!DownRead, RW!DownReadWait, RW!DownReadResume,
       RW!DownReadWaitAgain, RW!UpRead
  <2> QED
    BY <1>1, <1>2, <1>3, <2>1 DEF RolesKept
<1>4. ASSUME RW!WriterStep("close") PROVE RolesKept'
  <2>1. \/ pc' = pc
        \/ \E p \in {"out", "down_write", "writing"} : pc' = [pc EXCEPT !["close"] = p]
    BY <1>4 DEF RW!WriterStep, RW!DownWrite, RW!DownWriteWait, RW!DownWriteResume,
       RW!DownWriteWaitAgain, RW!UpWrite
  <2> QED
    BY <1>1, <1>2, <2>1 DEF RolesKept
<1>5. ASSUME NEW t \in RW!Threads, RW!SpuriousWakeup(t) PROVE RolesKept'
  BY <1>5 DEF RW!SpuriousWakeup, RolesKept
<1> QED
  BY <1>3, <1>4, <1>5 DEF RW!Next, LockReaders

(* RW and Lock are two instances of the same lock. *)
LEMMA SameLock ==
  /\ RW!Init => Lock!Init
  /\ RW!Next => Lock!Next
  /\ UNCHANGED lockVars => UNCHANGED Lock!vars
<1>1. RW!Init => Lock!Init
  BY DEF RW!Init, Lock!Init, RW!Threads, Lock!Threads
<1>2. ASSUME NEW t, RW!ReaderStep(t) PROVE Lock!ReaderStep(t)
  BY <1>2 DEF RW!ReaderStep, Lock!ReaderStep, RW!DownRead, Lock!DownRead,
     RW!DownReadWait, Lock!DownReadWait, RW!DownReadResume, Lock!DownReadResume,
     RW!DownReadWaitAgain, Lock!DownReadWaitAgain, RW!UpRead, Lock!UpRead,
     RW!allow_reader, Lock!allow_reader, RW!WakeWaiters, Lock!WakeWaiters,
     RW!SignalReader, Lock!SignalReader, RW!counters, Lock!counters
<1>3. ASSUME NEW t, RW!WriterStep(t) PROVE Lock!WriterStep(t)
  BY <1>3 DEF RW!WriterStep, Lock!WriterStep, RW!DownWrite, Lock!DownWrite,
     RW!DownWriteWait, Lock!DownWriteWait, RW!DownWriteResume, Lock!DownWriteResume,
     RW!DownWriteWaitAgain, Lock!DownWriteWaitAgain, RW!UpWrite, Lock!UpWrite,
     RW!allow_writer, Lock!allow_writer, RW!WakeWaiters, Lock!WakeWaiters,
     RW!SignalReader, Lock!SignalReader, RW!counters, Lock!counters
<1>4. ASSUME NEW t, RW!SpuriousWakeup(t) PROVE Lock!SpuriousWakeup(t)
  BY <1>4 DEF RW!SpuriousWakeup, Lock!SpuriousWakeup, RW!counters, Lock!counters
<1>5. RW!Next => Lock!Next
  <2>1. RW!Threads = Lock!Threads
    BY DEF RW!Threads, Lock!Threads
  <2> QED
    BY <1>2, <1>3, <1>4, <2>1 DEF RW!Next, Lock!Next
<1>6. UNCHANGED lockVars => UNCHANGED Lock!vars
  BY DEF lockVars, Lock!vars, Lock!counters
<1> QED
  BY <1>1, <1>5, <1>6

LEMMA InitLock == ASSUME Init PROVE Lock!IInv /\ RolesKept
<1>1. Lock!Init
  BY SameLock DEF Init
<1>2. RolesKept
  BY DEF Init, RW!Init, RW!Threads, RolesKept, LockReaders
<1> QED
  BY <1>1, <1>2, RolesAreFinite, Lock!InitIInv

LEMMA NextUsesLock ==
  ASSUME RolesKept, [Next]_vars
  PROVE  [Lock!Next]_(Lock!vars)
<1>1. UNCHANGED vars => UNCHANGED lockVars
  BY DEF vars
<1> QED
  BY <1>1, NextInRoles, SameLock

LEMMA NextKeepsLock ==
  ASSUME Lock!IInv, RolesKept, [Next]_vars
  PROVE  Lock!IInv' /\ RolesKept'
<1>1. Lock!IInv'
  BY NextUsesLock, RolesAreFinite, Lock!NextIInv
<1>2. RolesKept'
  <2>1. UNCHANGED vars => UNCHANGED lockVars
    BY DEF vars
  <2>2. CASE UNCHANGED lockVars
    BY <2>2 DEF RolesKept, lockVars
  <2> QED
    BY <2>1, <2>2, NextInRoles, LockStepKeepsRoles
<1> QED
  BY <1>1, <1>2

(* What the lock gives: no reader beside the writer, whose place in the    *)
(* lock changes by its own steps only.                                     *)
LEMMA WriterIsAlone ==
  ASSUME Lock!IInv, pc["close"] = "writing", NEW t \in DOMAIN pc
  PROVE  pc[t] # "reading"
BY DEF Lock!IInv, Lock!Exclusion, Lock!At, Lock!TypeOK, Lock!Threads

LEMMA WriterKeepsLock ==
  ASSUME Lock!IInv, Next, iface = "freed", pc["close"] = "writing"
  PROVE  pc'["close"] = "writing"
<1>1. pc \in [RW!Threads -> {"out", "down_read", "reading", "down_write", "writing"}]
  BY DEF Lock!IInv, Lock!TypeOK, Lock!Threads, RW!Threads
<1>2. "close" \in RW!Threads
  BY DEF RW!Threads
<1>3. CASE IfaceStep
  BY <1>3 DEF IfaceStep, OpenConnection, Duplicate, EndDuplicate, Edit, Close,
     CloseRaiseFlag, CloseAsk, CloseFreeData, CloseSwapData, CloseUp, lockVars
<1>4. CASE SwitcherStep
  BY <1>1, <1>2, <1>4 DEF SwitcherStep, PollBegin, PollEnd, SwitcherReadData, SwitcherReadLock,
     SwitcherAsk, SwitcherReinit, SwitcherClearFlag, SwitcherNoReinit, SwitcherUp,
     SwitcherSwitch, AskRead, RW!DownRead, RW!DownReadWait, RW!UpRead, lockVars
<1>5. CASE PacketStep
  BY <1>1, <1>2, <1>5 DEF PacketStep, ArbitratorReadData, ArbitratorReadLock, ArbitratorAsk,
     ArbitratorUp, ArbitratorChainDecide, AskRead, RW!DownRead, RW!DownReadWait, RW!UpRead,
     lockVars
<1>6. CASE LockSpuriousWakeup
  BY <1>6 DEF LockSpuriousWakeup, RW!SpuriousWakeup
<1>7. CASE \E t \in RW!Threads : LockRetry(t)
  BY <1>1, <1>2, <1>7 DEF LockRetry, RW!DownReadResume, RW!DownReadWaitAgain, RW!DownWriteResume,
     RW!DownWriteWaitAgain
<1> QED
  BY <1>3, <1>4, <1>5, <1>6, <1>7 DEF Next

-----------------------------------------------------------------------------
(* The data.  The old version is freed only inside the write section, and  *)
(* is out of force when it ends; no version beyond the copy exists; and    *)
(* the events belong to the version that the switcher reinitialised from.  *)
ChainType == [num_states : Nat, current_state : Nat]

TypeInv ==
  /\ data \in 0 .. MaxConnections
  /\ iface \notin {"closed", "swapped"} => data < MaxConnections
  /\ chains \in [0 .. MaxConnections -> Seq(ChainType)]
  /\ reinited \in Int

FreedInWriteSection ==
  /\ freed \subseteq 0 .. data
  /\ data \in freed => iface = "freed"
  /\ iface = "freed" => pc["close"] = "writing"

IInv ==
  /\ Lock!IInv /\ RolesKept /\ TypeInv /\ FreedInWriteSection
  /\ reinited <= data /\ ReinitedIsScheduled

LEMMA InitIInv == ASSUME Init PROVE IInv
<1>1. Lock!IInv /\ RolesKept
  BY InitLock
<1>2. TypeInv
  BY BoundsAssumption DEF Init, TypeInv
<1>3. FreedInWriteSection /\ reinited <= data /\ ReinitedIsScheduled
  BY DEF Init, FreedInWriteSection, ReinitedIsScheduled
<1> QED
  BY <1>1, <1>2, <1>3 DEF IInv

LEMMA ChainEdits ==
  ASSUME NEW x \in ChainType, NEW n \in Nat
  PROVE  /\ [x EXCEPT !.num_states = @ + 1] \in ChainType
         /\ [x EXCEPT !.current_state = n] \in ChainType
         /\ [x EXCEPT !.current_state = n].num_states = x.num_states
         /\ [x EXCEPT !.current_state = n].current_state = n
BY DEF ChainType

(* How the steps change the chains: the connection those of its copy, the  *)
(* switcher the current states in the data.                                *)
LEMMA CopyChanges ==
  ASSUME IInv, Duplicate \/ Edit
  PROVE  /\ chains' \in [0 .. MaxConnections -> Seq(ChainType)]
         /\ chains'[data] = chains[data]
<1>1. /\ data \in 0 .. MaxConnections /\ data_copy \in 0 .. MaxConnections
      /\ data # data_copy /\ MaxStates \in Nat
      /\ chains \in [0 .. MaxConnections -> Seq(ChainType)]
  BY BoundsAssumption DEF IInv, TypeInv, Duplicate, Edit, data_copy
<1>2. ASSUME NEW v \in Seq(ChainType), chains' = [chains EXCEPT ![data_copy] = v]
      PROVE  /\ chains' \in [0 .. MaxConnections -> Seq(ChainType)]
             /\ chains'[data] = chains[data]
  BY <1>1, <1>2
<1>3. CASE Duplicate
  BY <1>1, <1>2, <1>3 DEF Duplicate
<1>4. CASE NewChain
  <2>1. PICK garbage \in 0 .. MaxStates :
          chains' = [chains EXCEPT ![data_copy] =
            Append(@, [num_states |-> 0, current_state |-> garbage])]
    BY <1>4 DEF NewChain
  <2>2. [num_states |-> 0, current_state |-> garbage] \in ChainType
    BY <1>1 DEF ChainType
  <2>3. chains[data_copy] \in Seq(ChainType)
    BY <1>1
  <2>4. Append(chains[data_copy], [num_states |-> 0, current_state |-> garbage])
          \in Seq(ChainType)
    BY <2>2, <2>3
  <2> QED
    BY <1>1, <1>2, <2>1, <2>4
<1>5. CASE NewState
  <2> DEFINE old == chains[data_copy]
  <2>1. PICK c \in ChainsOf(data_copy) :
          chains' = [chains EXCEPT ![data_copy][c + 1].num_states = @ + 1]
    BY <1>5 DEF NewState
  <2>2. old \in Seq(ChainType) /\ c + 1 \in 1 .. Len(old)
    BY <1>1, <2>1 DEF ChainsOf
  <2>3. [old[c + 1] EXCEPT !.num_states = @ + 1] \in ChainType
    <3>1. old[c + 1] \in ChainType
      BY <2>2
    <3> QED
      BY <3>1, ChainEdits
  <2>4. [old EXCEPT ![c + 1].num_states = @ + 1] \in Seq(ChainType)
    BY <2>2, <2>3
  <2>5. chains' = [chains EXCEPT ![data_copy] = [old EXCEPT ![c + 1].num_states = @ + 1]]
    BY <2>1
  <2> QED
    BY <1>2, <2>4, <2>5
<1>6. CASE ClearAll
  BY <1>1, <1>2, <1>6 DEF ClearAll
<1> QED
  BY <1>3, <1>4, <1>5, <1>6 DEF Edit

LEMMA SwitcherChanges ==
  ASSUME IInv, SwitcherReinit \/ \E c \in 0 .. MaxChains - 1 : SwitcherSwitch(c)
  PROVE  /\ chains' \in [0 .. MaxConnections -> Seq(ChainType)]
         /\ Len(chains'[data]) = Len(chains[data])
         /\ \A i \in 1 .. Len(chains[data]) :
              chains'[data][i].num_states = chains[data][i].num_states
<1> DEFINE old == chains[data]
<1>1. /\ data \in DOMAIN chains /\ chains \in [0 .. MaxConnections -> Seq(ChainType)]
      /\ old \in Seq(ChainType)
  BY DEF IInv, TypeInv
<1>2. CASE SwitcherReinit
  <2> DEFINE new == [i \in DOMAIN old |-> [old[i] EXCEPT !.current_state = 0]]
  <2>1. chains' = [chains EXCEPT ![data] = new]
    BY <1>2 DEF SwitcherReinit
  <2>2. \A i \in DOMAIN old : new[i] \in ChainType /\ new[i].num_states = old[i].num_states
    <3> HIDE DEF old
    <3>1. \A i \in DOMAIN old : old[i] \in ChainType
      BY <1>1
    <3> QED
      BY <3>1, ChainEdits
  <2>3. new \in Seq(ChainType) /\ Len(new) = Len(old)
    BY <1>1, <2>2
  <2> QED
    BY <1>1, <2>1, <2>2, <2>3
<1>3. CASE \E c \in 0 .. MaxChains - 1 : SwitcherSwitch(c)
  <2>1. PICK c \in 0 .. MaxChains - 1 : SwitcherSwitch(c)
    BY <1>3
  <2>2. CASE UNCHANGED chains
    BY <1>1, <2>2
  <2>3. CASE ~ UNCHANGED chains
    <3>1. PICK s \in 0 .. Chain(data, c).num_states - 1 :
            chains' = [chains EXCEPT ![data][c + 1].current_state = s]
      BY <2>1, <2>3 DEF SwitcherSwitch
    <3>2. c + 1 \in 1 .. Len(old) /\ s \in Nat
      BY <1>1, <2>1, <2>3, <3>1 DEF SwitcherSwitch, ChainsOf, Chain, ChainType
    <3> DEFINE new == [old EXCEPT ![c + 1].current_state = s]
    <3>3. chains' = [chains EXCEPT ![data] = new]
      BY <3>1
    <3>4. [old[c + 1] EXCEPT !.current_state = s] \in ChainType
      <4>1. old[c + 1] \in ChainType
        BY <1>1, <3>2
      <4> QED
        BY <3>2, <4>1, ChainEdits
    <3>5. new \in Seq(ChainType) /\ Len(new) = Len(old)
      BY <1>1, <3>2, <3>4
    <3>6. \A i \in 1 .. Len(old) : new[i].num_states = old[i].num_states
      BY <1>1, <3>2 DEF ChainType
    <3> QED
      BY <1>1, <3>3, <3>5, <3>6
  <2> QED
    BY <2>2, <2>3
<1> QED
  BY <1>2, <1>3

(* Steps that leave the data and the events alone.                         *)
LEMMA QuietStepKeepsIInv ==
  ASSUME IInv, Lock!IInv', RolesKept', UNCHANGED <<data, chains, freed, pq, reinited>>,
         iface' \notin {"closed", "swapped"} => data < MaxConnections,
         iface' = "freed" <=> iface = "freed",
         iface = "freed" => pc'["close"] = "writing"
  PROVE  IInv'
<1>1. TypeInv' /\ FreedInWriteSection'
  BY DEF IInv, TypeInv, FreedInWriteSection
<1>2. ReinitedIsScheduled'
  BY DEF IInv, ReinitedIsScheduled, ChainsOf, InRange, Chain
<1> QED
  BY <1>1, <1>2 DEF IInv

LEMMA CopyStepKeepsIInv ==
  ASSUME IInv, Lock!IInv', RolesKept', Duplicate \/ Edit
  PROVE  IInv'
<1>1. /\ chains' \in [0 .. MaxConnections -> Seq(ChainType)]
      /\ chains'[data] = chains[data]
  BY CopyChanges
<1>2. /\ UNCHANGED <<data, freed, pq, reinited>>
      /\ iface # "freed" /\ iface' # "freed" /\ iface \notin {"closed", "swapped"}
  BY DEF Duplicate, Edit, ifaceVars, switcherVars
<1>3. TypeInv' /\ FreedInWriteSection'
  BY <1>1, <1>2 DEF IInv, TypeInv, FreedInWriteSection
<1>4. ReinitedIsScheduled'
  BY <1>1, <1>2 DEF IInv, ReinitedIsScheduled, ChainsOf, InRange, Chain
<1> QED
  BY <1>2, <1>3, <1>4 DEF IInv

(* After a reinitialisation each chain is in state 0, if it has any.       *)
LEMMA ReinitKeepsIInv ==
  ASSUME IInv, Lock!IInv', RolesKept', SwitcherReinit
  PROVE  IInv'
<1>1. /\ UNCHANGED <<iface, data, freed>> /\ UNCHANGED lockVars
      /\ pq' = ChainsOf(data) /\ reinited' = data
      /\ chains' = [chains EXCEPT ![data] =
           [i \in DOMAIN @ |-> [@[i] EXCEPT !.current_state = 0]]]
  BY DEF SwitcherReinit, ifaceVars
<1>2. /\ chains' \in [0 .. MaxConnections -> Seq(ChainType)]
      /\ Len(chains'[data]) = Len(chains[data])
  BY SwitcherChanges
<1>3. TypeInv' /\ FreedInWriteSection'
  BY <1>1, <1>2 DEF IInv, TypeInv, FreedInWriteSection, lockVars
<1>4. ASSUME NEW c \in ChainsOf(data)'
      PROVE  InRange(Chain(data, c))' \/ Chain(data, c)'.num_states = 0
  <2>1. chains[data] \in Seq(ChainType) /\ data \in DOMAIN chains
    BY DEF IInv, TypeInv
  <2>2. c + 1 \in DOMAIN chains[data] /\ chains[data][c + 1] \in ChainType
    BY <1>1, <1>2, <2>1 DEF ChainsOf
  <2>3. chains'[data][c + 1] = [chains[data][c + 1] EXCEPT !.current_state = 0]
    BY <1>1, <2>1, <2>2
  <2>4. /\ chains'[data][c + 1].current_state = 0
        /\ chains'[data][c + 1].num_states \in Nat
    BY <2>2, <2>3 DEF ChainType
  <2> QED
    BY <1>1, <2>4 DEF InRange, Chain
<1>5. ReinitedIsScheduled'
  BY <1>1, <1>2, <1>4 DEF ReinitedIsScheduled, ChainsOf
<1>6. reinited' <= data'
  BY <1>1 DEF IInv, TypeInv
<1> QED
  BY <1>3, <1>5, <1>6 DEF IInv

(* A switch moves one chain into one of its states. *)
LEMMA SwitchKeepsIInv ==
  ASSUME IInv, Lock!IInv', RolesKept', NEW c \in 0 .. MaxChains - 1, SwitcherSwitch(c)
  PROVE  IInv'
<1>1. UNCHANGED <<iface, data, freed, pq, reinited>> /\ UNCHANGED lockVars
  BY DEF SwitcherSwitch, ifaceVars, switcherVars
<1>2. /\ chains' \in [0 .. MaxConnections -> Seq(ChainType)]
      /\ Len(chains'[data]) = Len(chains[data])
      /\ \A i \in 1 .. Len(chains[data]) :
           chains'[data][i].num_states = chains[data][i].num_states
  BY SwitcherChanges
<1>3. TypeInv' /\ FreedInWriteSection'
  BY <1>1, <1>2 DEF IInv, TypeInv, FreedInWriteSection, lockVars
<1>4. ASSUME NEW d \in ChainsOf(data),
             InRange(Chain(data, d)) \/ Chain(data, d).num_states = 0
      PROVE  InRange(Chain(data, d))' \/ Chain(data, d)'.num_states = 0
  <2>1. /\ chains[data] \in Seq(ChainType) /\ data \in DOMAIN chains
        /\ d + 1 \in 1 .. Len(chains[data])
    BY DEF IInv, TypeInv, ChainsOf
  <2>2. CASE UNCHANGED chains
    BY <1>1, <1>4, <2>2 DEF InRange, Chain
  <2>3. CASE ~ UNCHANGED chains
    <3>1. PICK s \in 0 .. Chain(data, c).num_states - 1 :
            chains' = [chains EXCEPT ![data][c + 1].current_state = s]
      BY <2>3 DEF SwitcherSwitch
    <3>2. c + 1 \in 1 .. Len(chains[data]) /\ chains[data][c + 1] \in ChainType
      BY <2>1, <2>3 DEF SwitcherSwitch, ChainsOf
    <3>3. CASE d = c
      <4>1. chains'[data][d + 1] = [chains[data][c + 1] EXCEPT !.current_state = s]
        BY <2>1, <3>1, <3>2, <3>3
      <4>2. s \in Nat /\ s < chains[data][c + 1].num_states
        BY <3>1, <3>2 DEF Chain, ChainType
      <4>3. /\ chains'[data][d + 1].current_state = s
            /\ chains'[data][d + 1].num_states = chains[data][c + 1].num_states
        BY <3>2, <4>1, <4>2, ChainEdits
      <4> QED
        BY <1>1, <4>2, <4>3 DEF InRange, Chain
    <3>4. CASE d # c
      <4>1. chains'[data][d + 1] = chains[data][d + 1]
        BY <2>1, <3>1, <3>2, <3>4 DEF ChainsOf
      <4> QED
        BY <1>1, <1>4, <4>1 DEF InRange, Chain
    <3> QED
      BY <3>3, <3>4
  <2> QED
    BY <2>2, <2>3
<1>5. ReinitedIsScheduled'
  <2>1. ChainsOf(data)' = ChainsOf(data)
    BY <1>1, <1>2 DEF ChainsOf
  <2> QED
    BY <1>1, <1>4, <2>1 DEF IInv, ReinitedIsScheduled
<1> QED
  BY <1>1, <1>3, <1>5 DEF IInv

(* The data is freed: now it may not be read; and it is replaced.          *)
LEMMA ReplaceKeepsIInv ==
  ASSUME IInv, Lock!IInv', RolesKept', CloseFreeData \/ CloseSwapData
  PROVE  IInv'
<1>1. CASE CloseFreeData
  <2>1. /\ pc' = pc /\ pc["close"] = "writing" /\ iface = "closing" /\ iface' = "freed"
        /\ freed' = freed \cup {data}
        /\ UNCHANGED <<data, pq, reinited>>
        /\ chains' = [chains EXCEPT ![data] = <<>>]
    BY <1>1 DEF CloseFreeData, lockVars, switcherVars
  <2>2. TypeInv' /\ FreedInWriteSection' /\ ReinitedIsScheduled'
    BY <2>1 DEF IInv, TypeInv, FreedInWriteSection, ReinitedIsScheduled
  <2> QED
    BY <2>1, <2>2 DEF IInv
<1>2. CASE CloseSwapData
  <2>1. /\ iface = "freed" /\ iface' = "swapped" /\ data' = data + 1
        /\ UNCHANGED <<chains, freed, pq, reinited>>
    BY <1>2 DEF CloseSwapData, data_copy, switcherVars
  <2>2. data \in Nat /\ data + 1 \in 0 .. MaxConnections
    BY <2>1, BoundsAssumption DEF IInv, TypeInv
  <2>3. freed \subseteq 0 .. data + 1 /\ data + 1 \notin freed
    BY <2>2 DEF IInv, FreedInWriteSection
  <2>4. TypeInv' /\ FreedInWriteSection'
    BY <2>1, <2>2, <2>3 DEF IInv, TypeInv, FreedInWriteSection
  <2>5. reinited' < data'
    BY <2>1, <2>2 DEF IInv, TypeInv
  <2>6. ReinitedIsScheduled'
    BY <2>1, <2>2, <2>5 DEF ReinitedIsScheduled
  <2> QED
    BY <2>1, <2>2, <2>4, <2>5, <2>6 DEF IInv, TypeInv
<1> QED
  BY <1>1, <1>2

LEMMA NextKeepsIInv ==
  ASSUME IInv, [Next]_vars
  PROVE  IInv'
<1>1. Lock!IInv' /\ RolesKept'
  BY NextKeepsLock DEF IInv
<1>2. Next /\ iface = "freed" => pc'["close"] = "writing"
  BY WriterKeepsLock DEF IInv, FreedInWriteSection
<1>3. iface \notin {"closed", "swapped"} => data < MaxConnections
  BY DEF IInv, TypeInv
<1>4. CASE OpenConnection \/ EndDuplicate \/ CloseRaiseFlag \/ CloseAsk \/ CloseUp
  <2>1. /\ UNCHANGED <<data, chains, freed, pq, reinited>>
        /\ iface # "freed" /\ iface' # "freed"
        /\ iface' \notin {"closed", "swapped"} => data < MaxConnections
    BY <1>3, <1>4 DEF OpenConnection, EndDuplicate, CloseRaiseFlag, CloseAsk, CloseUp,
       switcherVars
  <2> QED
    BY <1>1, <2>1, QuietStepKeepsIInv
<1>5. CASE \/ Next /\ (PollBegin \/ SwitcherClearFlag \/ SwitcherNoReinit \/ SwitcherUp)
           \/ Next /\ PacketStep
           \/ Next /\ (LockSpuriousWakeup \/ \E t \in RW!Threads : LockRetry(t))
  <2>1. UNCHANGED <<iface, data, chains, freed, pq, reinited>>
    BY <1>5 DEF PollBegin, SwitcherReadData, SwitcherReadLock, SwitcherAsk,
       SwitcherClearFlag, SwitcherNoReinit, SwitcherUp, PacketStep, ArbitratorReadData,
       ArbitratorReadLock, ArbitratorAsk, ArbitratorUp, ArbitratorChainDecide,
       LockSpuriousWakeup, LockRetry, ifaceVars, switcherVars
  <2> QED
    BY <1>1, <1>2, <1>3, <1>5, <2>1, QuietStepKeepsIInv
<1>6. CASE Duplicate \/ Edit
  BY <1>1, <1>6, CopyStepKeepsIInv
<1>7. CASE SwitcherReinit
  BY <1>1, <1>7, ReinitKeepsIInv
<1>8. CASE \E c \in 0 .. MaxChains - 1 : SwitcherSwitch(c)
  BY <1>1, <1>8, SwitchKeepsIInv
<1>9. CASE CloseFreeData \/ CloseSwapData
  BY <1>1, <1>9, ReplaceKeepsIInv
<1>10. CASE UNCHANGED vars
  <2>1. /\ UNCHANGED <<iface, data, chains, freed, pq, reinited>>
        /\ UNCHANGED pc
    BY <1>10 DEF vars, ifaceVars, switcherVars, lockVars
  <2> QED
    BY <1>1, <1>3, <2>1, QuietStepKeepsIInv DEF IInv, FreedInWriteSection
<1> QED
  BY <1>4, <1>5, <1>6, <1>7, <1>8, <1>9, <1>10
     DEF Next, IfaceStep, Close, SwitcherStep, PollEnd

-----------------------------------------------------------------------------
(* The lock of rwlock.c as its four roles use it, and what it guards.      *)
THEOREM ArbitratorInvariant == Spec => []IInv
<1>1. Init => IInv
  BY InitIInv
<1>2. IInv /\ [Next]_vars => IInv'
  BY NextKeepsIInv
<1> QED
  BY <1>1, <1>2, PTL DEF Spec

(* packet_logic.c and switcher.c follow *data under the read lock, where   *)
(* close_connection never has it freed.                                    *)
THEOREM DataLivesUnderLock == Spec => []LiveUnderLock
<1>1. IInv => LiveUnderLock
  <2> SUFFICES ASSUME IInv, NEW t \in DOMAIN pc, pc[t] = "reading" PROVE data \notin freed
    BY DEF LiveUnderLock
  <2>1. pc["close"] # "writing"
    BY WriterIsAlone DEF IInv
  <2> QED
    BY <2>1 DEF IInv, FreedInWriteSection
<1> QED
  BY <1>1, ArbitratorInvariant, PTL

(* After a reinitialisation every chain keeps its event and a state in     *)
(* range, whatever the connection does to its copy, until the next swap.   *)
THEOREM ReinitedStaysScheduled == Spec => []ReinitedIsScheduled
<1>1. IInv => ReinitedIsScheduled
  BY DEF IInv
<1> QED
  BY <1>1, ArbitratorInvariant, PTL

(* What a reader has seen of the configuration holds until it unlocks: the *)
(* handlers change the copy only, the switcher current states only, and    *)
(* the swap waits for the readers.                                         *)
THEOREM ConfigurationSteady == Spec => SteadyWhileReading
<1>1. ASSUME IInv, [Next]_vars, NEW t \in DOMAIN pc, pc[t] = "reading"
      PROVE  /\ data' = data
             /\ Len(chains'[data]) = Len(chains[data])
             /\ \A i \in 1 .. Len(chains[data]) :
                  chains'[data][i].num_states = chains[data][i].num_states
  <2>1. pc["close"] # "writing" /\ iface # "freed"
    BY <1>1, WriterIsAlone DEF IInv, FreedInWriteSection
  <2>2. CASE Duplicate \/ Edit
    <3>1. chains'[data] = chains[data]
      BY <1>1, <2>2, CopyChanges
    <3>2. data' = data
      BY <2>2 DEF Duplicate, Edit, ifaceVars
    <3> QED
      BY <3>1, <3>2
  <2>3. CASE SwitcherReinit \/ \E c \in 0 .. MaxChains - 1 : SwitcherSwitch(c)
    <3>1. data' = data
      BY <2>3 DEF SwitcherReinit, SwitcherSwitch, ifaceVars
    <3> QED
      BY <1>1, <2>3, <3>1, SwitcherChanges
  <2>4. ~ (CloseFreeData \/ CloseSwapData)
    BY <2>1 DEF CloseFreeData, CloseSwapData
  <2>5. CASE \/ OpenConnection \/ EndDuplicate \/ CloseRaiseFlag \/ CloseAsk \/ CloseUp
             \/ PollBegin \/ SwitcherClearFlag \/ SwitcherNoReinit \/ SwitcherUp
             \/ PacketStep \/ LockSpuriousWakeup
             \/ (\E r \in RW!Threads : LockRetry(r)) \/ UNCHANGED vars
    BY <2>5 DEF OpenConnection, EndDuplicate, CloseRaiseFlag, CloseAsk, CloseUp,
       PollBegin, SwitcherReadData, SwitcherReadLock, SwitcherAsk,
       SwitcherClearFlag, SwitcherNoReinit, SwitcherUp, PacketStep, ArbitratorReadData,
       ArbitratorReadLock, ArbitratorAsk, ArbitratorUp, ArbitratorChainDecide,
       LockSpuriousWakeup, LockRetry, ifaceVars, vars
  <2> QED
    BY <1>1, <2>2, <2>3, <2>4, <2>5 DEF Next, IfaceStep, Close, SwitcherStep, PollEnd
<1>2. IInv /\ [Next]_vars =>
        [\A t \in DOMAIN pc : pc[t] = "reading" =>
           /\ data' = data
           /\ Len(chains'[data]) = Len(chains[data])
           /\ \A i \in 1 .. Len(chains[data]) :
                chains'[data][i].num_states = chains[data][i].num_states]_vars
  BY <1>1
<1> QED
  BY <1>2, ArbitratorInvariant, PTL DEF Spec, SteadyWhileReading

(* Refinement of the component by the whole: every step of the program is  *)
(* one step of rwlock.c by a thread in its role, or leaves the lock alone. *)
THEOREM ArbitratorUsesLock == Spec => Lock!Spec
<1>1. Init => Lock!Init
  BY SameLock DEF Init
<1>2. IInv /\ [Next]_vars => [Lock!Next]_(Lock!vars)
  BY NextUsesLock DEF IInv
<1> QED
  BY <1>1, <1>2, ArbitratorInvariant, PTL DEF Spec, Lock!Spec

(* A packet or a poll never gets the lock past a connection that is        *)
(* waiting to close: allow_reader looks at waiting_writers.                *)
THEOREM ClosingComesFirst == Spec => Lock!WritersFirst
<1>1. Lock!Spec => Lock!WritersFirst
  BY RolesAreFinite, Lock!WritersComeFirst
<1> QED
  BY <1>1, ArbitratorUsesLock, PTL

(* The threads meet as at an abstract readers-writers lock: the closing    *)
(* connection alone, or any of the readers.                                *)
THEOREM ArbitratorImplementsRWLock == Spec => Lock!ImplementsRWLock
<1>1. Lock!Spec => Lock!ImplementsRWLock
  BY RolesAreFinite, Lock!LockImplementsAbstract
<1> QED
  BY <1>1, ArbitratorUsesLock, PTL

(* No wakeup is lost between the three threads: when one is blocked in     *)
(* pthread_cond_wait, another is on its way to wake it.                    *)
THEOREM ArbitratorLosesNoWakeup == Spec => []Lock!NoLostWakeup
<1>1. Lock!IInv => Lock!NoLostWakeup
  BY DEF Lock!IInv
<1>2. IInv => Lock!IInv
  BY DEF IInv
<1> QED
  BY <1>1, <1>2, ArbitratorInvariant, PTL
=============================================================================
