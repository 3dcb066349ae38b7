--------------------------- MODULE IFaceHandlers ---------------------------
(***************************************************************************)
(* What the client's transactions do to the configuration: the handlers of *)
(* C/arbitrator/iface_handlers.c, the readers of their parameters, and the *)
(* copy of the data that a connection edits (iface.c).                     *)
(*                                                                         *)
(* An action is one transaction, whose parameters came whole (how they are *)
(* read piece by piece is the matter of IFaceTransact); but the handler of *)
(* set_move_probs reads lists of its own and can fail in their middle, so  *)
(* it has an action per parameter that it reads and entry that it writes.  *)
(* The client sends raw values; the Read operators say what the arbitrator *)
(* takes them for.  Chains and states are sequences, from 1; the indices   *)
(* of the code, as in last_chain, count from 0.  Left out are a chain's    *)
(* current state and last release time, which no handler touches, the      *)
(* dictionaries of names, and capacities.                                  *)
(***************************************************************************)
EXTENDS Filters, SequencesExt

CONSTANTS
  One,          \* the probability 1; probabilities are 0 .. One
  RawProbs, RawInts, RawFilters, RawPoints, RawTables,  \* what a client may send
  Names,        \* of chains and states
  Lengths,      \* packet lengths, as limits and in packets
  PacketInfos,  \* headers of packets
  MaxChains, MaxStates, MaxEdits,            \* bounds
  Unset         \* what malloc left behind, or a pointer that was freed

(* A list ends before its terminator: for port ranges one that is upside   *)
(* down, for addresses the one with all of its bits set.                   *)
EndOfRanges(r) == r.start > r.end
EndOfList(s) == s.ip = PowerOfTwo[AddressBits] - 1

Ended(sent, Ends(_)) == \E i \in 1 .. Len(sent) : Ends(sent[i])

(* A state is named by its index, or (2) as the last one.                  *)
RawStates == [which : {0}, index : 0 .. MaxStates] \cup [which : {2}, index : {0}]

ASSUME HandlersAssumption ==
  /\ One \in Nat \ {0} /\ RawProbs \subseteq Int /\ RawInts \subseteq Int
  /\ MaxChains \in Nat /\ MaxStates \in Nat /\ MaxEdits \in Nat
  /\ RawFilters \subseteq
       Seq([ip : Addresses, net_mask : Int, port_ranges : Seq([start : Int, end : Int])])
  /\ \A sent \in RawFilters :
       /\ Ended(sent, EndOfList)
       /\ \A i \in 1 .. Len(sent) : Ended(sent[i].port_ranges, EndOfRanges)
  /\ RawTables \subseteq
       [sources : Seq(RawStates), dests : Seq(RawStates), probs : Seq(Seq(Int))]
  /\ \A sent \in RawTables :
       /\ Len(sent.probs) = Len(sent.sources)
       /\ \A s \in 1 .. Len(sent.probs) : Len(sent.probs[s]) = Len(sent.dests)
  /\ Lengths \subseteq Nat
  /\ PacketInfos \subseteq
       [source_ip : Addresses, dest_ip : Addresses, source_port : Nat, dest_port : Nat,
        protocol : 0 .. ProtocolBytes * ByteBits - 1, tos : Nat, length : Nat]
  /\ RawPoints \subseteq Seq([prob : Int, delay : Int])
  /\ Unset \notin Int /\ Unset \notin Seq([prob : Nat, delay : Nat])

VARIABLES
  data,        \* the chains of *data, the installed configuration
  data_copy,   \* the chains that the connection edits
  connected,
  last_chain, last_state,
  reply,       \* the last return code
  edits,       \* history: the number of edits so far
  move,        \* set_move_probs' place in its lists and its table
  dead         \* the process called exit or left the tables

lasts == <<last_chain, last_state>>
vars == <<data, data_copy, connected, lasts, reply, edits, move, dead>>

-----------------------------------------------------------------------------
(* read_param_type, a type at a time                                       *)
ReadInt(raw) == IF raw < 0 THEN 0 ELSE raw
ReadBool(raw) == ReadInt(raw) # 0
ReadProb(raw) == IF raw < 0 \/ raw > One THEN 0 ELSE raw
ReadDelay(raw) == IF ReadInt(raw) = 0 THEN 1000 ELSE raw

ReadDelayFunctionType(raw) ==
  CASE ReadInt(raw) = 0 -> "EXP"
    [] ReadInt(raw) = 1 -> "SPLIT_LINEAR"
    [] OTHER            -> "NONE"

ReadWhichLength(raw) ==
  CASE raw = 1 -> "GT" [] raw = 2 -> "LT"
    [] raw = 3 -> "BETWEEN" [] raw = 4 -> "NOT_BETWEEN"
    [] OTHER -> "DONT_CARE"

Before(sent, Ends(_)) == SubSeq(sent, 1, SelectInSeq(sent, Ends) - 1)

ReadPortRanges(sent) == Before(sent, EndOfRanges)

ReadIPFilter(sent) ==
  LET specs == Before(sent, EndOfList)
  IN  IF specs = <<>> THEN <<LeftByMalloc>>
      ELSE [i \in 1 .. Len(specs) |->
              [ip |-> specs[i].ip, net_mask |-> ReadInt(specs[i].net_mask),
               port_ranges |-> ReadPortRanges(specs[i].port_ranges)]]

(* Points end with the first one that is read as probability 1.            *)
ReadPoints(sent) ==
  LET n == SelectInSeq(sent, LAMBDA p : ReadProb(p.prob) >= One)
  IN  [i \in 1 .. n |-> [prob |-> ReadProb(sent[i].prob),
                         delay |-> ReadInt(sent[i].delay)]]

-----------------------------------------------------------------------------
(* The members of asked record what the client asked of the filter: the    *)
(* lists as they were sent, if any were, the sets behind the masks, and    *)
(* the numbers of the limits and of which of them count.                   *)
NothingAsked ==
  [source |-> <<>>, dest |-> <<>>,
   protocols |-> 0 .. ProtocolBytes * ByteBits - 1,
   tos |-> 0 .. TosBytes * ByteBits - 1,
   length_min |-> 0, length_max |-> MaxLength, which_length |-> 0]

chain_alloc(name) ==
  [name |-> name, states |-> <<>>, filter |-> NewFilter, asked |-> NothingAsked]

state_alloc(name) ==
  [name |-> name, drop_prob |-> 0, delay_prob |-> 0,
   delay_function |-> [type |-> "NONE", lambda |-> Unset, points |-> Unset],
   time_factor |-> 1000, stable_delay_prob |-> 0, move_tos |-> <<>>]

(* Of the delay function's union only the member in use is copied.         *)
delay_function_duplicate(old) ==
  [type |-> old.type,
   lambda |-> IF old.type = "EXP" THEN old.lambda ELSE Unset,
   points |-> IF old.type = "SPLIT_LINEAR" THEN old.points ELSE Unset]

state_duplicate_forgets(old) ==     \* mutant: the stable delay is forgotten
  [name |-> old.name, drop_prob |-> old.drop_prob, delay_prob |-> old.delay_prob,
   delay_function |-> delay_function_duplicate(old.delay_function),
   time_factor |-> old.time_factor, stable_delay_prob |-> Unset,
   move_tos |-> old.move_tos]

state_duplicate(old) ==
  [name |-> old.name, drop_prob |-> old.drop_prob, delay_prob |-> old.delay_prob,
   delay_function |-> delay_function_duplicate(old.delay_function),
   time_factor |-> old.time_factor, stable_delay_prob |-> old.stable_delay_prob,
   move_tos |-> old.move_tos]

ip_spec_duplicate(old) ==
  [i \in 1 .. Len(old) |-> [ip |-> old[i].ip, net_mask |-> old[i].net_mask,
                            port_ranges |-> old[i].port_ranges]]

filter_duplicate(old) ==
  [source |-> ip_spec_duplicate(old.source), dest |-> ip_spec_duplicate(old.dest),
   protocols |-> old.protocols, tos |-> old.tos,
   min_packet_len |-> old.min_packet_len, max_packet_len |-> old.max_packet_len,
   which_packet_len |-> old.which_packet_len]

(* The name of the copy is never set. *)
chain_duplicate(old) ==
  [name |-> Unset,
   states |-> [i \in 1 .. Len(old.states) |-> state_duplicate(old.states[i])],
   filter |-> filter_duplicate(old.filter), asked |-> old.asked]

data_duplicate(old) == [i \in 1 .. Len(old) |-> chain_duplicate(old[i])]

(* get_chain and get_state test the upper bound of an index only.          *)
ChainMissing == last_chain >= Len(data_copy)
chain == data_copy[last_chain + 1]
StateMissing(s) == ~ ChainMissing => s >= Len(chain.states)

ReadState(raw, last) == IF raw.which = 2 THEN last ELSE raw.index

-----------------------------------------------------------------------------
Idle == [pc |-> "idle"]

Init ==
  /\ data = <<>> /\ data_copy = <<>> /\ connected = FALSE
  /\ last_chain = -1
  /\ last_state = -1    \* never set: it is used after new_chain only
  /\ reply = "none" /\ edits = 0 /\ move = Idle /\ dead = FALSE

Ready == connected /\ ~ dead /\ move = Idle

Refuse(code) ==
  /\ reply' = code /\ move' = Idle
  /\ UNCHANGED <<data, data_copy, connected, lasts, edits, dead>>

Die ==
  /\ dead' = TRUE
  /\ UNCHANGED <<data, data_copy, connected, lasts, reply, edits, move>>

Accept ==
  /\ edits < MaxEdits /\ edits' = edits + 1
  /\ reply' = "OK" /\ move' = Idle
  /\ UNCHANGED <<data, connected, dead>>

(* A handler that edits the last chain.                                    *)
OnChain(Edited(_)) ==
  /\ Ready
  /\ \/ ChainMissing /\ Refuse("INDEX_OUT_OF_RANGE")
     \/ last_chain < 0 /\ Die
     \/ /\ ~ ChainMissing /\ last_chain >= 0
        /\ Accept
        /\ data_copy' = [data_copy EXCEPT ![last_chain + 1] = Edited(@)]
        /\ UNCHANGED lasts

(* A handler that edits state s of the last chain, if that state suits it. *)
OnState(s, Suits(_), Edited(_)) ==
  /\ Ready
  /\ \/ last_chain < 0 /\ Die
     \/ /\ last_chain >= 0
        /\ \/ StateMissing(s) /\ Refuse("INDEX_OUT_OF_RANGE")
           \/ ~ ChainMissing /\ s < 0 /\ Die
           \/ /\ ~ StateMissing(s) /\ s >= 0
              /\ ~ Suits(chain.states[s + 1])
              /\ Refuse("POINTS_ON_OTHER_TYPE")
           \/ /\ ~ StateMissing(s) /\ s >= 0
              /\ Suits(chain.states[s + 1])
              /\ Accept
              /\ data_copy' = [data_copy EXCEPT
                                 ![last_chain + 1].states[s + 1] = Edited(@)]
              /\ UNCHANGED lasts

AsItIs(state) == TRUE

-----------------------------------------------------------------------------
(* Mutant: the last state of the chain before stays the last one.          *)
NewChainKeepsState(name) ==
  /\ Ready /\ Len(data_copy) < MaxChains
  /\ Accept
  /\ data_copy' = Append(data_copy, chain_alloc(name))
  /\ last_chain' = Len(data_copy) /\ UNCHANGED last_state

NewChain(name) ==
  /\ Ready /\ Len(data_copy) < MaxChains
  /\ Accept
  /\ data_copy' = Append(data_copy, chain_alloc(name))
  /\ last_chain' = Len(data_copy) /\ last_state' = -1

(* The older states get a move to the new one with probability 0, and the  *)
(* new one stays where it is.                                              *)
Widened(state) == [state EXCEPT !.move_tos = Append(@, 0)]

(* Mutant: the older states keep their tables. *)
WithNewStateNarrow(states, name) ==
  Append(states, [state_alloc(name) EXCEPT
                    !.move_tos = Append([i \in 1 .. Len(states) |-> 0], One)])

WithNewState(states, name) ==
  Append([i \in 1 .. Len(states) |-> Widened(states[i])],
         [state_alloc(name) EXCEPT
            !.move_tos = Append([i \in 1 .. Len(states) |-> 0], One)])

NewState(name) ==
  /\ Ready
  /\ \/ ChainMissing /\ Refuse("INDEX_OUT_OF_RANGE")
     \/ last_chain < 0 /\ Die
     \/ /\ ~ ChainMissing /\ last_chain >= 0
        /\ Len(chain.states) < MaxStates
        /\ Accept
        /\ data_copy' = [data_copy EXCEPT
                           ![last_chain + 1].states = WithNewState(@, name)]
        /\ last_state' = Len(chain.states) /\ UNCHANGED last_chain

(* set_move_probs reads its sources, its destinations and the table of     *)
(* their probabilities, and writes when it has all of them.  before is     *)
(* history: the copy as the handler found it.                              *)
SetMoveProbs(sent) ==
  /\ Ready
  /\ \/ ChainMissing /\ Refuse("INDEX_OUT_OF_RANGE")
     \/ last_chain < 0 /\ Die
     \/ /\ ~ ChainMissing /\ last_chain >= 0
        /\ edits < MaxEdits
        /\ move' = [pc |-> "states", sent |-> sent, named |-> 0, s |-> 1, d |-> 1,
                    before |-> data_copy]
        /\ UNCHANGED <<data, data_copy, connected, lasts, reply, edits, dead>>

Named(sent) == sent.sources \o sent.dests

LoopOver ==
  CASE move.pc = "states" -> move.named = Len(Named(move.sent))
    [] move.pc \in {"probs", "write"} ->
         move.s > Len(move.sent.sources) \/ move.sent.dests = <<>>

In(loop) == ~ dead /\ move.pc = loop /\ ~ LoopOver
Reading == In("states") \/ In("probs")

ReadMoveState ==
  /\ In("states")
  /\ LET s == ReadState(Named(move.sent)[move.named + 1], last_state)
     IN  \/ StateMissing(s) /\ Refuse("INDEX_OUT_OF_RANGE")
         \/ /\ ~ StateMissing(s)
            /\ move' = [move EXCEPT !.named = @ + 1]
            /\ UNCHANGED <<data, data_copy, connected, lasts, reply, edits, dead>>

(* The next place of the table, row by row.                                *)
NextPlace ==
  move' = IF move.d < Len(move.sent.dests) THEN [move EXCEPT !.d = @ + 1]
          ELSE [move EXCEPT !.s = @ + 1, !.d = 1]

Source(sent, s, last) == ReadState(sent.sources[s], last)
Dest(sent, d, last) == ReadState(sent.dests[d], last)

Row == Source(move.sent, move.s, last_state)
Column == Dest(move.sent, move.d, last_state)

Written ==
  [data_copy EXCEPT ![last_chain + 1].states[Row + 1].move_tos[Column + 1] =
     ReadProb(move.sent.probs[move.s][move.d])]

(* Mutant: a probability is written as soon as it is read.                 *)
ReadMoveProbWrites ==
  /\ In("probs") /\ NextPlace
  /\ data_copy' = Written
  /\ UNCHANGED <<data, connected, lasts, reply, edits, dead>>

ReadMoveProb ==
  /\ In("probs") /\ NextPlace
  /\ UNCHANGED <<data, data_copy, connected, lasts, reply, edits, dead>>

(* There is no state -1 and no place for it in a table.                    *)
WriteMove ==
  /\ In("write")
  /\ \/ -1 \in {Row, Column} /\ Die
     \/ /\ -1 \notin {Row, Column}
        /\ data_copy' = Written /\ NextPlace
        /\ UNCHANGED <<data, connected, lasts, reply, edits, dead>>

Enter(loop) ==
  /\ move' = [move EXCEPT !.pc = loop, !.s = 1, !.d = 1]
  /\ UNCHANGED <<data, data_copy, connected, lasts, reply, edits, dead>>

NextLoop ==
  /\ ~ dead /\ move # Idle /\ LoopOver
  /\ \/ move.pc = "states" /\ Enter("probs")
     \/ move.pc = "probs" /\ Enter("write")
     \/ move.pc = "write" /\ Accept /\ UNCHANGED <<data_copy, lasts>>

(* A parameter has not come yet: the input is rolled back, and the request *)
(* is read again from its beginning.                                       *)
MoveNotFully ==
  /\ Reading
  /\ move' = [move EXCEPT !.pc = "states", !.named = 0, !.s = 1, !.d = 1]
  /\ UNCHANGED <<data, data_copy, connected, lasts, reply, edits, dead>>

MoveInTable ==
  ReadMoveState \/ ReadMoveProb \/ WriteMove \/ NextLoop \/ MoveNotFully

-----------------------------------------------------------------------------
(* The filter of a chain                                                   *)
SetSource(sent) ==
  OnChain(LAMBDA c : [c EXCEPT !.filter.source = ReadIPFilter(sent),
                               !.asked.source = sent])
SetDest(sent) ==
  OnChain(LAMBDA c : [c EXCEPT !.filter.dest = ReadIPFilter(sent),
                               !.asked.dest = sent])

(* What the client asks for with a number n of a mask of bytes bytes.      *)
AskedFor(set, bytes, n, on) ==
  LET all == 0 .. bytes * ByteBits - 1
      named == IF n \in all THEN {n} ELSE all
  IN  IF on THEN set \cup named ELSE set \ named

SetProtocol(n, on) ==
  OnChain(LAMBDA c :
    [c EXCEPT
       !.filter.protocols = SetMaskBit(@, ReadInt(n), ReadBool(on)),
       !.asked.protocols = AskedFor(@, ProtocolBytes, ReadInt(n), ReadBool(on))])
SetTos(n, on) ==
  OnChain(LAMBDA c :
    [c EXCEPT
       !.filter.tos = SetMaskBit(@, ReadInt(n), ReadBool(on)),
       !.asked.tos = AskedFor(@, TosBytes, ReadInt(n), ReadBool(on))])

SetLengthMin(n) ==
  OnChain(LAMBDA c : [c EXCEPT !.filter.min_packet_len = ReadInt(n),
                               !.asked.length_min = n])
SetLengthMax(n) ==
  OnChain(LAMBDA c : [c EXCEPT !.filter.max_packet_len = ReadInt(n),
                               !.asked.length_max = n])
SetWhichLength(n) ==
  OnChain(LAMBDA c : [c EXCEPT !.filter.which_packet_len = ReadWhichLength(n),
                               !.asked.which_length = n])

-----------------------------------------------------------------------------
(* A state                                                                 *)
SetDropDelayProb(s, drop, delay) ==
  OnState(s, AsItIs, LAMBDA t : [t EXCEPT !.drop_prob = ReadProb(drop),
                                       !.delay_prob = ReadProb(delay)])

(* Mutant: the new type's points are not reset. *)
WithTypeUnset(f, type) ==
  [f EXCEPT !.type = type,
            !.points = IF type = "SPLIT_LINEAR" THEN @ ELSE Unset]

(* The lambda and the points share their place.  The points are freed when *)
(* the type is left, and start as the null pointer when it is taken.       *)
WithType(f, type) ==
  CASE type = "SPLIT_LINEAR" ->
         [type |-> type, lambda |-> Unset, points |-> <<>>]
    [] f.type = "SPLIT_LINEAR" /\ type # "SPLIT_LINEAR" ->
         [type |-> type, lambda |-> Unset, points |-> Unset]
    [] OTHER -> [f EXCEPT !.type = type]

SetDelayType(s, raw) ==
  OnState(s, AsItIs, LAMBDA t :
    [t EXCEPT !.delay_function = WithType(@, ReadDelayFunctionType(raw))])

SetSplitLinearPoints(s, sent) ==
  OnState(s, LAMBDA t : t.delay_function.type = "SPLIT_LINEAR",
          LAMBDA t : [t EXCEPT !.delay_function.points = ReadPoints(sent)])
SetLambda(s, raw) ==
  OnState(s, LAMBDA t : t.delay_function.type = "EXP",
          LAMBDA t : [t EXCEPT !.delay_function.lambda = ReadInt(raw)])
SetTimeFactor(s, raw) ==
  OnState(s, AsItIs, LAMBDA t : [t EXCEPT !.time_factor = ReadDelay(raw)])
SetStableDelayProb(s, raw) ==
  OnState(s, AsItIs, LAMBDA t : [t EXCEPT !.stable_delay_prob = ReadProb(raw)])

-----------------------------------------------------------------------------
ClearAll ==
  /\ Ready
  /\ Accept
  /\ data_copy' = <<>> /\ UNCHANGED lasts

(* init_connection copies the data for the client to edit.  When the       *)
(* connection is over, by end_connection or because the client is gone,    *)
(* perhaps in the middle of set_move_probs' lists, the copy is installed   *)
(* as it is; the last chain and state stay.                                *)
Open ==
  /\ ~ connected /\ ~ dead
  /\ connected' = TRUE /\ reply' = "none"
  /\ data_copy' = data_duplicate(data)
  /\ UNCHANGED <<data, lasts, edits, move, dead>>

Close ==
  /\ connected' = FALSE
  /\ data' = data_copy /\ move' = Idle
  /\ UNCHANGED <<data_copy, lasts, edits, dead>>

EndConnection == Ready /\ reply' = "OK" /\ Close
ClientGone == (Ready \/ Reading) /\ reply' = "none" /\ Close

(* A chain or a state may be named in other ways by the protocol: exit(-1) *)
UnknownWhich == (Ready \/ In("states")) /\ Die

FilterStep ==
  \/ \E sent \in RawFilters : SetSource(sent) \/ SetDest(sent)
  \/ \E n \in RawInts, on \in {0, 1} : SetProtocol(n, on) \/ SetTos(n, on)
  \/ \E n \in Lengths : SetLengthMin(n) \/ SetLengthMax(n)
  \/ \E n \in 0 .. 4 : SetWhichLength(n)

StateStep ==
  \E s \in {ReadState(raw, last_state) : raw \in RawStates} :
    \/ \E drop, delay \in RawProbs : SetDropDelayProb(s, drop, delay)
    \/ \E raw \in 0 .. 2 : SetDelayType(s, raw)
    \/ \E sent \in RawPoints : SetSplitLinearPoints(s, sent)
    \/ \E raw \in RawInts : SetLambda(s, raw) \/ SetTimeFactor(s, raw)
    \/ \E raw \in RawProbs : SetStableDelayProb(s, raw)

MoveStep == MoveInTable \/ \E sent \in RawTables : SetMoveProbs(sent)

Next ==
  \/ \E name \in Names : NewChain(name) \/ NewState(name)
  \/ MoveStep \/ FilterStep \/ StateStep
  \/ ClearAll \/ Open \/ EndConnection \/ ClientGone \/ UnknownWhich

Spec == Init /\ [][Next]_vars

-----------------------------------------------------------------------------
Configurations == {data, data_copy}
ChainsOf(config) == {config[i] : i \in 1 .. Len(config)}

(* The move table of every state of a chain has a place for each state of  *)
(* the chain, in the installed data and in the copy: the switcher walks    *)
(* num_states places of it (switcher.c:210-222).                           *)
SquareTables ==
  \A config \in Configurations : \A c \in ChainsOf(config) :
    \A i \in 1 .. Len(c.states) : Len(c.states[i].move_tos) = Len(c.states)

(* The indices that outlive a chain, a clear_all and a connection name a   *)
(* state of the last chain, or none: get_state tests their upper bound     *)
(* against whichever chain is now the last one (iface.c:497-528).          *)
LastsWithinData ==
  last_chain \in 0 .. Len(data_copy) - 1 =>
    last_state \in -1 .. Len(chain.states) - 1

(* set_move_probs changes all that it was asked to change or nothing: what *)
(* ends it in the middle of its lists (a state out of range, a client that *)
(* is gone, however often its input was rolled back before that) leaves    *)
(* the copy as the handler found it, and its success means that each place *)
(* of a table that its lists name has the probability of their last        *)
(* mention of it, and nothing else has changed (iface_handlers.c:269-369). *)
Places(sent) == (1 .. Len(sent.sources)) \X (1 .. Len(sent.dests))

Earlier(p, q) == p[1] < q[1] \/ (p[1] = q[1] /\ p[2] < q[2])

Naming(sent, places, i, j, last) ==
  {p \in places : Source(sent, p[1], last) = i - 1 /\ Dest(sent, p[2], last) = j - 1}

LastOf(places) == CHOOSE p \in places : \A q \in places : q = p \/ Earlier(q, p)

Moved(states, sent, places, last) ==
  [i \in 1 .. Len(states) |->
     [states[i] EXCEPT !.move_tos =
        [j \in 1 .. Len(@) |->
           IF Naming(sent, places, i, j, last) = {} THEN @[j]
           ELSE LET p == LastOf(Naming(sent, places, i, j, last))
                IN  ReadProb(sent.probs[p[1]][p[2]])]]]

WholeOrNothing ==
  [][move # Idle /\ move' = Idle =>
       data_copy' =
         IF reply' # "OK" THEN move.before
         ELSE [move.before EXCEPT ![last_chain + 1].states =
                 Moved(@, move.sent, Places(move.sent), last_state)]]_vars

(* What a delay function means to packet_logic.c:342-434. *)
DelayMeaning(f) ==
  CASE f.type = "EXP"          -> [type |-> f.type, lambda |-> f.lambda]
    [] f.type = "SPLIT_LINEAR" -> [type |-> f.type, points |-> f.points]
    [] f.type = "NONE"         -> [type |-> f.type]

Meaning(config) ==
  [i \in 1 .. Len(config) |->
     <<config[i].filter,
       [j \in 1 .. Len(config[i].states) |->
          [config[i].states[j] EXCEPT !.delay_function = DelayMeaning(@)]]>>]

(* A connection starts from a copy that means what the installed data      *)
(* mean, after whatever was edited: the same filters, and states with the  *)
(* same names, probabilities, delays and moves (iface.c:74-176).  It is no *)
(* copy of the chains' names: chain_duplicate forgets them (iface.c:178),  *)
(* and the switcher prints what malloc left there (switcher.c:216-220).    *)
CopyKeepsMeaning ==
  [][~ connected /\ connected' => Meaning(data_copy') = Meaning(data)]_vars

(* A state that delays by points has points of its own, perhaps none yet:  *)
(* never the ones freed with an earlier type, nor what malloc left there   *)
(* (iface_handlers.c:626-637, iface.c:149-164 and 233-239).                *)
PointsAreOwned ==
  \A config \in Configurations : \A c \in ChainsOf(config) :
    \A i \in 1 .. Len(c.states) :
      c.states[i].delay_function.type = "SPLIT_LINEAR" =>
        c.states[i].delay_function.points # Unset

(* The packets that a chain was asked to pass, as the documents have it:   *)
(* an address that agrees with a member of a list in all bits but the low  *)
(* net_mask ones (iface.h:113), with a port in one of the member's ranges, *)
(* or any port where it has none (iface.h:114); a length strictly beyond a *)
(* limit or between two (iface.h:94-95, Protocol.txt:132-135, guide        *)
(* main.html:697-699).                                                     *)
BitOf(n, i) == (n \div PowerOfTwo[i]) % 2

Members(sent, Ends(_)) == {i \in 1 .. Len(sent) : \A j \in 1 .. i : ~ Ends(sent[j])}

Ranges(spec) ==
  {spec.port_ranges[r] : r \in Members(spec.port_ranges, EndOfRanges)}

AskedAddress(sent, ip, port) ==
  sent # <<>> =>
    \E i \in Members(sent, EndOfList) :
      /\ \A b \in 0 .. AddressBits - 1 :
           b >= sent[i].net_mask => BitOf(ip, b) = BitOf(sent[i].ip, b)
      /\ \/ port = NoPort \/ Ranges(sent[i]) = {}
         \/ \E r \in Ranges(sent[i]) : r.start <= port /\ port <= r.end

AskedLength(asked, length) ==
  LET greater == length > asked.length_min
      lower == length < asked.length_max
  IN  CASE asked.which_length = 1 -> greater
        [] asked.which_length = 2 -> lower
        [] asked.which_length = 3 -> greater /\ lower
        [] asked.which_length = 4 -> ~ (greater /\ lower)
        [] OTHER -> TRUE

Asked(c, info) ==
  /\ AskedAddress(c.asked.source, info.source_ip, info.source_port)
  /\ AskedAddress(c.asked.dest, info.dest_ip, info.dest_port)
  /\ info.protocol \in c.asked.protocols /\ info.tos \in c.asked.tos
  /\ AskedLength(c.asked, info.length)

(* Where the code does otherwise than its documents, or than anything: a   *)
(* list of the terminator only (iface.c:798); a net mask of the whole      *)
(* width, an undefined shift (packet_logic.c:164); a member without port   *)
(* ranges, which no packet with a port fits (packet_logic.c:173); a length *)
(* equal to a limit in use, which counts as within (packet_logic.c:264,    *)
(* 273, 282, 291); a TOS beyond the mask (packet_logic.c:237).             *)
AgreedAddress(sent, port) ==
  sent # <<>> =>
    /\ Members(sent, EndOfList) # {}
    /\ \A i \in Members(sent, EndOfList) :
         /\ sent[i].net_mask < AddressBits
         /\ port # NoPort => Ranges(sent[i]) # {}

LimitsInUse(asked) ==
  CASE asked.which_length = 1 -> {asked.length_min}
    [] asked.which_length = 2 -> {asked.length_max}
    [] asked.which_length \in {3, 4} -> {asked.length_min, asked.length_max}
    [] OTHER -> {}

Agreed(c, info) ==
  /\ AgreedAddress(c.asked.source, info.source_port)
  /\ AgreedAddress(c.asked.dest, info.dest_port)
  /\ info.length \notin LimitsInUse(c.asked)
  /\ info.tos < TosBytes * ByteBits

(* Wherever the code agrees with its documents, a chain passes exactly the *)
(* packets that its client asked for, for all sequences of requests to its *)
(* filter and their copies.                                                *)
PassesWhatWasAsked ==
  \A c \in ChainsOf(data) : \A header \in PacketInfos :
    Agreed(c, PacketInfo(header)) =>
      is_in_chain_filter(c.filter, PacketInfo(header)) = {Asked(c, PacketInfo(header))}

(* Protocol.txt:104-108: a TOS index above 63 means that "all bits are     *)
(* enabled or disabled".  A chain that was asked for no TOS value passes   *)
(* no packet.                                                              *)
NoTosNoPacket ==
  \A c \in ChainsOf(data) :
    c.asked.tos = {} =>
      \A header \in PacketInfos :
        TRUE \notin is_in_chain_filter(c.filter, PacketInfo(header))
=============================================================================
