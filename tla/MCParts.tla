------------------------------ MODULE MCParts ------------------------------
(* Five components that share no state, each checked on its own: a         *)
(* behaviour is one of the component that part names, and the others rest. *)
EXTENDS PQueue, Delayer, PacketLogic, SplitLinear, IFaceTransact, TLC

CONSTANTS Parts,      \* the components to be checked
          NumElements, both, one, none, empty,
          clear_all, new_chain, set_drop_prob, end_connection, unknown

VARIABLE part

-----------------------------------------------------------------------------
(* A heap of up to NumElements elements, most keys twice. *)
MCElements == {[key |-> i \div 2, id |-> i] : i \in 1 .. NumElements}

(* Chain 1 takes packets from one net, chain 2 a UDP port of one address:  *)
(* headers that pass both, one and none.                                   *)
F == INSTANCE Filters WITH AddressBits <- 3, ByteBits <- 8, ProtocolBytes <- 3,
                           TosBytes <- 1, MaxLength <- 3

ChainFilter ==
  <<[F!NewFilter EXCEPT
       !.source = <<[ip |-> 4, net_mask |-> 2,
                     port_ranges |-> <<[start |-> 0, end |-> 3]>>]>>],
    [F!NewFilter EXCEPT
       !.source = <<[ip |-> 5, net_mask |-> 0,
                     port_ranges |-> <<[start |-> 2, end |-> 2]>>]>>,
       !.protocols = F!SetMaskBit(F!FullMask(3, FALSE), 17, TRUE)]>>

Header(ip, protocol) ==
  [source_ip |-> ip, dest_ip |-> 1, source_port |-> 2, dest_port |-> 1,
   protocol |-> protocol, tos |-> 0, length |-> 1]

HeaderOf == both :> Header(5, 17) @@ one :> Header(5, 6)
              @@ none :> Header(3, 17) @@ empty :> Header(5, 17)

Passes ==
  [p \in {both, one, none, empty} |->
     {c \in 1 .. 2 :
        F!is_in_chain_filter(ChainFilter[c], F!PacketInfo(HeaderOf[p])) = {TRUE}}]

MCMatches == Passes  \* so that TLC evaluates Passes once

(* Transactions of one, two and four words, and an unknown opcode.         *)
MCWords == clear_all :> 1 @@ new_chain :> 2 @@ set_drop_prob :> 4
             @@ end_connection :> 1 @@ unknown :> 1

-----------------------------------------------------------------------------
verdictVars == <<last_packet_release_time, verdict, chain_verdicts>>
delayerVars == <<pq, releaser, loop_time, deadline, released, promised>>
partsVars == <<part, now, heapVars, tableVars, verdictVars, delayerVars, transactVars>>

PartsInit ==
  /\ part \in Parts
  /\ HeapInit /\ LogicInit /\ Init
  /\ IF part = "split_linear" THEN TableInit
       ELSE points = <<>> /\ sampled = 0 /\ sampled_delay = {}
  /\ script \in IF part = "transact" THEN [1 .. ScriptLen -> Opcodes]
                                     ELSE {[i \in 1 .. ScriptLen |-> unknown]}
  /\ TransactInit

PQueueStep ==
  /\ part = "pqueue" /\ HeapNext
  /\ UNCHANGED <<part, now, tableVars, verdictVars, delayerVars, transactVars>>
SplitLinearStep ==
  /\ part = "split_linear" /\ Sample
  /\ UNCHANGED <<part, now, heapVars, verdictVars, delayerVars, transactVars>>
PacketLogicStep ==
  /\ part = "packet_logic" /\ LogicNext
  /\ UNCHANGED <<part, heapVars, tableVars, delayerVars, transactVars>>
AllButDelayer == <<part, heapVars, tableVars, verdictVars, transactVars>>
DelayerStep == part = "delayer" /\ Next /\ UNCHANGED AllButDelayer
AllButTransact == <<part, now, heapVars, tableVars, verdictVars, delayerVars>>
TransactStep == part = "transact" /\ TransactNext /\ UNCHANGED AllButTransact

PartsNext == PQueueStep \/ SplitLinearStep \/ PacketLogicStep \/ DelayerStep
               \/ TransactStep

(* The fairness of Delayer and IFaceTransact, each for its own part.       *)
PartsSpec ==
  /\ PartsInit /\ [][PartsNext]_partsVars
  /\ WF_partsVars(part = "delayer" /\ ReleaserStep /\ UNCHANGED AllButDelayer)
  /\ WF_partsVars(part = "delayer" /\ Tick /\ UNCHANGED AllButDelayer)
  /\ WF_partsVars(part = "transact" /\ IfaceStep /\ UNCHANGED AllButTransact)

=============================================================================
