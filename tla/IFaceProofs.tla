----------------------------- MODULE IFaceProofs -----------------------------
(***************************************************************************)
(* Proofs about the interface of the arbitrator.  Of IFaceHandlers, for    *)
(* any values a client may send and any bounds: the move tables stay       *)
(* square, the remembered indices stay within the data, points are owned,  *)
(* set_move_probs makes the whole of its changes or none, filters pass     *)
(* what was asked, and a copy means what was copied.                       *)
(* Of IFaceTransact, for any transactions of any length and any number of  *)
(* them: what is executed, and what is committed.                          *)
(***************************************************************************)
EXTENDS IFaceHandlers, IFaceTransact, Induction, SequenceTheorems, TLAPS

(* Most of what a state holds does not matter here: of the data only the   *)
(* shape is described, without a set of values, and the filters.           *)
IsSeq(s) == Len(s) \in Nat /\ s = [i \in 1 .. Len(s) |-> s[i]]

FunctionShape(f) ==
  /\ DOMAIN f = {"type", "lambda", "points"}
  /\ f.type \in {"EXP", "SPLIT_LINEAR", "NONE"}
  /\ f.type = "SPLIT_LINEAR" => f.points # Unset

StateFields ==
  {"name", "drop_prob", "delay_prob", "delay_function", "time_factor",
   "stable_delay_prob", "move_tos"}

StateShape(t, n) ==
  /\ t = [x \in StateFields |-> t[x]]
  /\ FunctionShape(t.delay_function)
  /\ IsSeq(t.move_tos) /\ Len(t.move_tos) = n

PortRanges == [start : Int, end : Int]

SpecFields == {"ip", "net_mask", "port_ranges"}

AddressList(specs) ==
  /\ IsSeq(specs)
  /\ \A i \in 1 .. Len(specs) : specs[i] = [x \in SpecFields |-> specs[i][x]]

FilterFields ==
  {"source", "dest", "protocols", "tos", "min_packet_len", "max_packet_len",
   "which_packet_len"}

FilterShape(f) ==
  /\ f = [x \in FilterFields |-> f[x]]
  /\ AddressList(f.source) /\ AddressList(f.dest)

(* The mask has the bits of the numbers that were asked for.               *)
MaskFor(set, mask, bytes) ==
  /\ DOMAIN mask = 0 .. bytes - 1
  /\ \A n \in 0 .. bytes * ByteBits - 1 :
       n \in set <=> n % ByteBits \in mask[n \div ByteBits]

ListAsSent(specs, sent) ==
  \/ specs = <<>> /\ sent = <<>>
  \/ sent \in RawFilters /\ specs = ReadIPFilter(sent)

LengthsAsSent(filter, asked) ==
  /\ filter.min_packet_len = asked.length_min /\ asked.length_min \in Nat
  /\ filter.max_packet_len = asked.length_max /\ asked.length_max \in Nat
  /\ filter.which_packet_len = ReadWhichLength(asked.which_length)
  /\ asked.which_length \in 0 .. 4

AskedFields ==
  {"source", "dest", "protocols", "tos", "length_min", "length_max", "which_length"}

(* The filter is what the handlers make of what was asked.                 *)
MeansAsked(filter, asked) ==
  /\ DOMAIN asked = AskedFields
  /\ ListAsSent(filter.source, asked.source) /\ ListAsSent(filter.dest, asked.dest)
  /\ MaskFor(asked.protocols, filter.protocols, ProtocolBytes)
  /\ MaskFor(asked.tos, filter.tos, TosBytes)
  /\ LengthsAsSent(filter, asked)

ChainFields == {"name", "states", "filter", "asked"}

ChainShape(c) ==
  /\ c = [x \in ChainFields |-> c[x]]
  /\ FilterShape(c.filter) /\ MeansAsked(c.filter, c.asked)
  /\ IsSeq(c.states)
  /\ \A i \in 1 .. Len(c.states) : StateShape(c.states[i], Len(c.states))

DataShape(d) == IsSeq(d) /\ \A i \in 1 .. Len(d) : ChainShape(d[i])

(* A copy in which set_move_probs has written some places of its table.    *)
WithMoves(config, sent, places, k, last) ==
  [config EXCEPT ![k + 1] =
     [config[k + 1] EXCEPT !.states = Moved(@, sent, places, last)]]

(* One place of a table, among the states of a chain and in a copy.        *)
WithPlace(states, i, j, v) == [states EXCEPT ![i].move_tos[j] = v]
WithEntry(config, k, i, j, v) == [config EXCEPT ![k].states[i].move_tos[j] = v]

With(places, s, d) == places \cup {<<s, d>>}
ProbAt(sent, s, d) == ReadProb(sent.probs[s][d])

(* The place s, d of a table comes after some others, and is for entry i,  *)
(* j of the tables of a chain with states.                                 *)
ComesNext(sent, P, s, d, i, j, states) ==
  /\ P \in SUBSET (Int \X Int) /\ s \in Int /\ d \in Int
  /\ \A q \in P : Earlier(q, <<s, d>>)
  /\ i \in 1 .. Len(states) /\ j \in 1 .. Len(states)
  /\ Source(sent, s, last_state) = i - 1 /\ Dest(sent, d, last_state) = j - 1

PlacesBefore(sent, s, d) == {p \in Places(sent) : Earlier(p, <<s, d>>)}

MoveFields == {"pc", "sent", "named", "s", "d", "before"}

(* In the middle of set_move_probs, at m, the copy is the one that it      *)
(* found, with the places that come before its own place in the table once *)
(* it writes.                                                              *)
MoveOK(m, copy) ==
  /\ DOMAIN m = MoveFields
  /\ m.pc \in {"states", "probs", "write"} /\ m.sent \in RawTables
  /\ last_chain \in 0 .. Len(m.before) - 1
  /\ DataShape(m.before)
  /\ m.named \in 0 .. Len(Named(m.sent))
  /\ m.pc # "states" => m.named = Len(Named(m.sent))
  /\ \A k \in 1 .. m.named :
       ReadState(Named(m.sent)[k], last_state) < Len(m.before[last_chain + 1].states)
  /\ m.s \in Nat \ {0} /\ m.d \in Nat \ {0}
  /\ m.sent.dests # <<>> => m.d <= Len(m.sent.dests)
  /\ copy = IF m.pc = "write"
               THEN WithMoves(m.before, m.sent, PlacesBefore(m.sent, m.s, m.d),
                              last_chain, last_state)
               ELSE m.before

MoveInv == move # Idle => connected /\ MoveOK(move, data_copy)

(* Between connections the copy is what was installed last, so that the    *)
(* indices fit the duplicate that the next connection starts from.         *)
IInv ==
  /\ DataShape(data) /\ DataShape(data_copy)
  /\ last_chain \in Int /\ last_chain >= -1 /\ last_state \in Int
  /\ ~ connected => data_copy = data
  /\ LastsWithinData
  /\ MoveInv

-----------------------------------------------------------------------------
(* Sequences without a set of members                                      *)
LEMMA FunctionIsSeq ==
  ASSUME NEW s, NEW n \in Nat, s = [i \in 1 .. n |-> s[i]]
  PROVE  IsSeq(s) /\ Len(s) = n
<1> DEFINE S == {s[i] : i \in 1 .. n}
<1>1. s \in [1 .. n -> S]
  OBVIOUS
<1>2. s \in Seq(S)
  BY <1>1, SeqDef
<1>3. Len(s) \in Nat /\ DOMAIN s = 1 .. Len(s)
  BY <1>2, LenProperties
<1>4. Len(s) = n
  BY <1>3, DOMAIN s = 1 .. n
<1> QED
  BY <1>4 DEF IsSeq

LEMMA SeqIsSeq ==
  ASSUME NEW S, NEW s \in Seq(S)
  PROVE  IsSeq(s)
BY LenProperties DEF IsSeq

LEMMA AppendIsSeq ==
  ASSUME NEW s, IsSeq(s), NEW x
  PROVE  /\ IsSeq(Append(s, x)) /\ Len(Append(s, x)) = Len(s) + 1
         /\ \A i \in 1 .. Len(s) : Append(s, x)[i] = s[i]
         /\ Append(s, x)[Len(s) + 1] = x
<1> DEFINE S == {s[i] : i \in 1 .. Len(s)} \cup {x}
<1>1. s \in [1 .. Len(s) -> S] /\ Len(s) \in Nat
  BY DEF IsSeq
<1>2. s \in Seq(S) /\ x \in S
  BY <1>1, SeqDef
<1> HIDE DEF S
<1>3. /\ Append(s, x) \in Seq(S) /\ Len(Append(s, x)) = Len(s) + 1
      /\ \A i \in 1 .. Len(s) : Append(s, x)[i] = s[i]
      /\ Append(s, x)[Len(s) + 1] = x
  BY <1>2, AppendProperties
<1> QED
  BY <1>3, SeqIsSeq

LEMMA ExceptIsSeq ==
  ASSUME NEW s, IsSeq(s), NEW k \in 1 .. Len(s), NEW x
  PROVE  /\ IsSeq([s EXCEPT ![k] = x]) /\ Len([s EXCEPT ![k] = x]) = Len(s)
         /\ [s EXCEPT ![k] = x][k] = x
         /\ \A i \in 1 .. Len(s) \ {k} : [s EXCEPT ![k] = x][i] = s[i]
<1> DEFINE e == [s EXCEPT ![k] = x]
<1>1. Len(s) \in Nat /\ DOMAIN s = 1 .. Len(s)
  BY DEF IsSeq
<1>2. e = [i \in 1 .. Len(s) |-> e[i]]
  BY <1>1
<1>3. IsSeq(e) /\ Len(e) = Len(s)
  BY <1>1, <1>2, FunctionIsSeq
<1> QED
  BY <1>1, <1>3

-----------------------------------------------------------------------------
(* What the arbitrator reads of lists                                      *)
LEMMA LeastOrNone ==
  ASSUME NEW n \in Nat, NEW I \in SUBSET (1 .. n)
  PROVE  /\ (IF I # {} THEN Min(I) ELSE 0) \in 0 .. n
         /\ I # {} => Min(I) \in I /\ \A k \in I : Min(I) <= k
<1>1. CASE I = {}
  BY <1>1
<1>2. CASE I # {}
  <2>1. I \in SUBSET Nat
    OBVIOUS
  <2>2. \E m \in I : \A k \in I : m <= k
    BY <1>2, <2>1, LeastNatural
  <2>3. Min(I) \in I /\ \A k \in I : Min(I) <= k
    BY <2>2 DEF Min
  <2>4. Min(I) \in 1 .. n
    BY <2>3
  <2> HIDE DEF Min
  <2> QED
    BY <1>2, <2>3, <2>4
<1> QED
  BY <1>1, <1>2

(* The points that were read are a list, which no stale pointer is.        *)
LEMMA ReadPointsAreOwned ==
  ASSUME NEW sent \in RawPoints
  PROVE  ReadPoints(sent) # Unset
<1> DEFINE I == {i \in 1 .. Len(sent) : ReadProb(sent[i].prob) >= One}
           n == IF I # {} THEN Min(I) ELSE 0
           P == [prob : Nat, delay : Nat]
           read == [i \in 1 .. n |-> [prob |-> ReadProb(sent[i].prob),
                                     delay |-> ReadInt(sent[i].delay)]]
<1>1. sent \in Seq([prob : Int, delay : Int]) /\ One \in Nat
  BY HandlersAssumption
<1>2. Len(sent) \in Nat /\ \A i \in 1 .. Len(sent) : sent[i] \in [prob : Int, delay : Int]
  BY <1>1, ElementOfSeq, LenProperties
<1>3. n \in 0 .. Len(sent)
  BY <1>2, LeastOrNone
<1>4. ReadPoints(sent) = read
  BY DEF ReadPoints, SelectInSeq
<1> HIDE DEF n
<1>5. ASSUME NEW i \in 1 .. n
      PROVE  read[i] \in P
  <2>1. sent[i] \in [prob : Int, delay : Int]
    BY <1>2, <1>3
  <2>2. ReadProb(sent[i].prob) \in Nat /\ ReadInt(sent[i].delay) \in Nat
    BY <1>1, <2>1 DEF ReadProb, ReadInt
  <2> QED
    BY <2>2
<1>6. read \in [1 .. n -> P] /\ n \in Nat
  BY <1>2, <1>3, <1>5
<1> HIDE DEF read, P
<1>7. read \in Seq(P)
  BY <1>6, SeqDef
<1> QED
  BY <1>4, <1>7, HandlersAssumption DEF P

(* What is left of a list before the first of the places I that end it.    *)
LEMMA BeforeEnd ==
  ASSUME NEW S, NEW sent \in Seq(S), NEW I \in SUBSET (1 .. Len(sent)), I # {}
  PROVE  LET front == SubSeq(sent, 1, (IF I # {} THEN Min(I) ELSE 0) - 1)
         IN  /\ front \in Seq(S)
             /\ {i \in 1 .. Len(sent) : \A j \in 1 .. i : j \notin I} = 1 .. Len(front)
             /\ \A i \in 1 .. Len(front) : i \in 1 .. Len(sent) /\ front[i] = sent[i]
<1> DEFINE n == Min(I)
           front == SubSeq(sent, 1, n - 1)
<1>1. Len(sent) \in Nat /\ \A i \in 1 .. Len(sent) : sent[i] \in S
  BY LenProperties, ElementOfSeq
<1>2. n \in I /\ n \in 1 .. Len(sent) /\ \A k \in I : n <= k
  BY <1>1, LeastOrNone
<1> HIDE DEF n
<1>3. /\ front \in Seq(S) /\ Len(front) = n - 1
      /\ \A i \in 1 .. n - 1 : front[i] = sent[i]
  <2>1. 1 \in Int /\ n - 1 \in Int /\ \A i \in 1 .. n - 1 : sent[i] \in S
    BY <1>1, <1>2
  <2> QED
    BY <1>1, <1>2, <2>1, SubSeqProperties
<1> HIDE DEF front
<1>4. {i \in 1 .. Len(sent) : \A j \in 1 .. i : j \notin I} = 1 .. n - 1
  BY <1>1, <1>2
<1>5. \A i \in 1 .. n - 1 : i \in 1 .. Len(sent)
  BY <1>1, <1>2
<1> QED
  BY <1>3, <1>4, <1>5 DEF n, front

(* The ranges and the members that a list has before its end.              *)
LEMMA ReadPortRangesIsList ==
  ASSUME NEW sent \in Seq(PortRanges), Ended(sent, EndOfRanges)
  PROVE  /\ ReadPortRanges(sent) \in Seq(PortRanges)
         /\ Members(sent, EndOfRanges) = 1 .. Len(ReadPortRanges(sent))
         /\ \A i \in 1 .. Len(ReadPortRanges(sent)) :
              i \in 1 .. Len(sent) /\ ReadPortRanges(sent)[i] = sent[i]
<1> DEFINE I == {i \in 1 .. Len(sent) : EndOfRanges(sent[i])}
           front == SubSeq(sent, 1, (IF I # {} THEN Min(I) ELSE 0) - 1)
           rest == {i \in 1 .. Len(sent) : \A j \in 1 .. i : j \notin I}
<1>1. ReadPortRanges(sent) = front
  BY DEF ReadPortRanges, Before, SelectInSeq
<1>2. I # {} /\ I \in SUBSET (1 .. Len(sent))
  BY DEF Ended
<1>3. Members(sent, EndOfRanges) = rest
  <2>1. Len(sent) \in Nat
    BY LenProperties
  <2>2. ASSUME NEW i \in 1 .. Len(sent), NEW j \in 1 .. i
        PROVE  j \notin I <=> ~ EndOfRanges(sent[j])
    <3>1. j \in 1 .. Len(sent)
      BY <2>1
    <3> QED
      BY <3>1
  <2> QED
    BY <2>2 DEF Members
<1> HIDE DEF I
<1>4. /\ front \in Seq(PortRanges) /\ rest = 1 .. Len(front)
      /\ \A i \in 1 .. Len(front) : i \in 1 .. Len(sent) /\ front[i] = sent[i]
  BY <1>2, BeforeEnd
<1> QED
  BY <1>1, <1>3, <1>4

SentSpec == [ip : Addresses, net_mask : Int, port_ranges : Seq(PortRanges)]

LEMMA ReadSpecsIsList ==
  ASSUME NEW sent \in Seq(SentSpec), Ended(sent, EndOfList)
  PROVE  /\ Before(sent, EndOfList) \in Seq(SentSpec)
         /\ Members(sent, EndOfList) = 1 .. Len(Before(sent, EndOfList))
         /\ \A i \in 1 .. Len(Before(sent, EndOfList)) :
              i \in 1 .. Len(sent) /\ Before(sent, EndOfList)[i] = sent[i]
<1> DEFINE I == {i \in 1 .. Len(sent) : EndOfList(sent[i])}
           front == SubSeq(sent, 1, (IF I # {} THEN Min(I) ELSE 0) - 1)
           rest == {i \in 1 .. Len(sent) : \A j \in 1 .. i : j \notin I}
<1>1. Before(sent, EndOfList) = front
  BY DEF Before, SelectInSeq
<1>2. I # {} /\ I \in SUBSET (1 .. Len(sent))
  BY DEF Ended
<1>3. Members(sent, EndOfList) = rest
  <2>1. Len(sent) \in Nat
    BY LenProperties
  <2>2. ASSUME NEW i \in 1 .. Len(sent), NEW j \in 1 .. i
        PROVE  j \notin I <=> ~ EndOfList(sent[j])
    <3>1. j \in 1 .. Len(sent)
      BY <2>1
    <3> QED
      BY <3>1
  <2> QED
    BY <2>2 DEF Members
<1> HIDE DEF I
<1>4. /\ front \in Seq(SentSpec) /\ rest = 1 .. Len(front)
      /\ \A i \in 1 .. Len(front) : i \in 1 .. Len(sent) /\ front[i] = sent[i]
  BY <1>2, BeforeEnd
<1> QED
  BY <1>1, <1>3, <1>4

(* A list of addresses as it is read has members of the one shape.         *)
LEMMA ReadFilterIsList ==
  ASSUME NEW sent \in RawFilters
  PROVE  AddressList(ReadIPFilter(sent))
<1> DEFINE specs == Before(sent, EndOfList)
           read == [i \in 1 .. Len(specs) |->
                      [ip |-> specs[i].ip, net_mask |-> ReadInt(specs[i].net_mask),
                       port_ranges |-> ReadPortRanges(specs[i].port_ranges)]]
<1>1. CASE specs = <<>>
  <2>1. ReadIPFilter(sent) = <<LeftByMalloc>>
    BY <1>1 DEF ReadIPFilter
  <2>2. IsSeq(<<LeftByMalloc>>)
    BY SeqIsSeq DEF IsSeq
  <2>3. LeftByMalloc = [x \in SpecFields |-> LeftByMalloc[x]]
    BY DEF LeftByMalloc, SpecFields
  <2> QED
    BY <2>1, <2>2, <2>3 DEF AddressList
<1>2. CASE specs # <<>>
  <2>1. ReadIPFilter(sent) = read
    BY <1>2 DEF ReadIPFilter
  <2>2. Len(specs) \in Nat
    <3>1. sent \in Seq(SentSpec) /\ Ended(sent, EndOfList)
      BY HandlersAssumption DEF SentSpec, PortRanges
    <3> QED
      BY <3>1, ReadSpecsIsList, LenProperties
  <2> HIDE DEF specs
  <2>3. IsSeq(read) /\ Len(read) = Len(specs)
    BY <2>2, FunctionIsSeq
  <2>4. \A i \in 1 .. Len(specs) : read[i] = [x \in SpecFields |-> read[i][x]]
    BY DEF SpecFields
  <2> QED
    BY <2>1, <2>3, <2>4 DEF AddressList
<1> QED
  BY <1>1, <1>2

-----------------------------------------------------------------------------
(* Bits of addresses and of masks                                          *)
LEMMA PowersOfTwo ==
  /\ PowerOfTwo[0] = 1
  /\ \A n \in Nat : PowerOfTwo[n] \in Nat \ {0} /\ PowerOfTwo[n + 1] = 2 * PowerOfTwo[n]
<1> DEFINE g == [p \in Nat \X Nat |-> 2 * p[2]]
           IsPower(f) == f = [n \in Nat |-> IF n = 0 THEN 1 ELSE 2 * f[n - 1]]
<1>1. PICK f \in [Nat -> Nat] : f[0] = 1 /\ \A n \in Nat \ {0} : f[n] = 2 * f[n - 1]
  <2>1. g \in [Nat \X Nat -> Nat] /\ 1 \in Nat
    OBVIOUS
  <2>2. \A n, m \in Nat : g[<<n, m>>] = 2 * m
    OBVIOUS
  <2> HIDE DEF g
  <2>3. PICK f \in [Nat -> Nat] : GoesOn(f, 1, g)
    BY <2>1, RecursiveFunction
  <2>4. \A n \in Nat \ {0} : n - 1 \in Nat
    OBVIOUS
  <2> QED
    BY <2>2, <2>3, <2>4 DEF GoesOn
<1>2. IsPower([n \in Nat |-> f[n]])
  <2>1. ASSUME NEW n \in Nat
        PROVE  f[n] = IF n = 0 THEN 1 ELSE 2 * [k \in Nat |-> f[k]][n - 1]
    BY <1>1
  <2> QED
    BY <2>1
<1>3. IsPower(PowerOfTwo)
  <2>1. PowerOfTwo = CHOOSE h : IsPower(h)
    BY DEF PowerOfTwo
  <2> QED
    BY <1>2, <2>1
<1>4. /\ PowerOfTwo[0] = 1
      /\ \A n \in Nat : PowerOfTwo[n + 1] = 2 * PowerOfTwo[n]
  <2>1. PowerOfTwo[0] = 1 /\ \A n \in Nat \ {0} : PowerOfTwo[n] = 2 * PowerOfTwo[n - 1]
    BY <1>3
  <2>2. \A n \in Nat : n + 1 \in Nat \ {0} /\ (n + 1) - 1 = n
    OBVIOUS
  <2> QED
    BY <2>1, <2>2
<1> DEFINE T == {n \in Nat : PowerOfTwo[n] \in Nat \ {0}}
<1>5. 0 \in T /\ \A n \in Nat : n \in T => n + 1 \in T
  BY <1>4
<1>6. Nat \subseteq T
  <2> HIDE DEF T
  <2> QED
    BY <1>5, NaturalInduction
<1> QED
  BY <1>4, <1>6

LEMMA ShiftOnce ==
  ASSUME NEW a \in Nat, NEW n \in Nat
  PROVE  /\ a \div PowerOfTwo[n] \in Nat
         /\ a \div PowerOfTwo[n + 1] = (a \div PowerOfTwo[n]) \div 2
<1>1. ASSUME NEW d \in Nat \ {0}
      PROVE  a \div d \in Nat /\ a \div (2 * d) = (a \div d) \div 2
  BY <1>1
<1> QED
  BY <1>1, PowersOfTwo

(* Two addresses agree when shifted if they do in the bits that are left.  *)
LEMMA SamePrefixes ==
  ASSUME NEW a \in Addresses, NEW c \in Addresses, NEW m \in 0 .. AddressBits - 1
  PROVE  a \div PowerOfTwo[m] = c \div PowerOfTwo[m]
           <=> \A b \in m .. AddressBits - 1 : BitOf(a, b) = BitOf(c, b)
<1> DEFINE Same(n) == a \div PowerOfTwo[n] = c \div PowerOfTwo[n]
<1>1. AddressBits \in Nat /\ a \in Nat /\ c \in Nat
  BY PowersOfTwo, FiltersAssumption DEF Addresses
<1>2. ASSUME NEW n \in Nat
      PROVE  Same(n) <=> Same(n + 1) /\ BitOf(a, n) = BitOf(c, n)
  <2>1. ASSUME NEW x \in Nat, NEW y \in Nat
        PROVE  x = y <=> (x \div 2 = y \div 2) /\ ((x % 2) = (y % 2))
    BY <2>1
  <2> DEFINE x == a \div PowerOfTwo[n]
             y == c \div PowerOfTwo[n]
  <2>2. /\ x \in Nat /\ a \div PowerOfTwo[n + 1] = x \div 2
        /\ y \in Nat /\ c \div PowerOfTwo[n + 1] = y \div 2
    BY <1>1, ShiftOnce
  <2>3. BitOf(a, n) = (x % 2) /\ BitOf(c, n) = (y % 2)
    BY DEF BitOf
  <2> HIDE DEF x, y
  <2> QED
    BY <2>1, <2>2, <2>3 DEF x, y
<1>3. Same(AddressBits)
  <2>1. ASSUME NEW d \in Nat \ {0}, NEW x \in 0 .. d - 1 PROVE x \div d = 0
    BY <2>1
  <2> QED
    BY <1>1, <2>1, PowersOfTwo DEF Addresses
<1> HIDE DEF Same
<1>4. ASSUME Same(m), NEW b \in m .. AddressBits - 1 PROVE BitOf(a, b) = BitOf(c, b)
  <2> DEFINE T == {k \in Nat : Same(m + k)}
  <2>1. 0 \in T /\ \A k \in Nat : k \in T => k + 1 \in T
    <3>1. m + 0 = m /\ \A k \in Nat : m + (k + 1) = (m + k) + 1 /\ m + k \in Nat
      BY <1>1
    <3> QED
      BY <1>2, <1>4, <3>1
  <2>2. Nat \subseteq T
    <3> HIDE DEF T
    <3> QED
      BY <2>1, NaturalInduction
  <2>3. b - m \in Nat /\ m + (b - m) = b /\ b \in Nat
    BY <1>1
  <2>4. Same(b)
    BY <2>2, <2>3
  <2> QED
    BY <1>2, <2>3, <2>4
<1>5. ASSUME \A b \in m .. AddressBits - 1 : BitOf(a, b) = BitOf(c, b) PROVE Same(m)
  <2> DEFINE T == {k \in 0 .. AddressBits - m : Same(AddressBits - k)}
             z == AddressBits - m
  <2>1. z \in Nat /\ m \in Nat
    BY <1>1
  <2>2. 0 \in T
    BY <1>1, <1>3, <2>1
  <2>3. ASSUME NEW k \in 0 .. z - 1, k \in T PROVE k + 1 \in T
    <3> DEFINE n == AddressBits - (k + 1)
    <3>1. n \in m .. AddressBits - 1 /\ n \in Nat /\ n + 1 = AddressBits - k
      BY <1>1, <2>1
    <3>2. Same(n)
      BY <1>2, <1>5, <2>3, <3>1
    <3> QED
      BY <2>1, <3>2
  <2>4. 0 .. z \subseteq T
    <3> HIDE DEF T, z
    <3> QED
      BY <2>1, <2>2, <2>3, InductionTo
  <2>5. z \in T /\ AddressBits - z = m
    BY <1>1, <2>1, <2>4
  <2> QED
    BY <2>5
<1> QED
  BY <1>4, <1>5 DEF Same

(* Where the bit of a number stands in a mask.                             *)
LEMMA PlaceOfBit ==
  ASSUME NEW bytes \in Nat, NEW n \in Nat
  PROVE  /\ n \div ByteBits \in Nat /\ n % ByteBits \in Bits
         /\ n \in 0 .. bytes * ByteBits - 1 <=> n \div ByteBits \in 0 .. bytes - 1
         /\ \A m \in Nat : (m \div ByteBits = n \div ByteBits) /\ ((m % ByteBits) = (n % ByteBits))
                              => m = n
<1>1. ByteBits \in Nat /\ ByteBits > 0
  BY FiltersAssumption
<1>2. ASSUME NEW d \in Nat, d > 0
      PROVE  /\ n \div d \in Nat /\ n % d \in 0 .. d - 1
             /\ n < bytes * d <=> n \div d < bytes
             /\ \A m \in Nat : (m \div d = n \div d) /\ ((m % d) = (n % d)) => m = n
  BY <1>2
<1>3. bytes * ByteBits \in Nat
  BY <1>1
<1>4. /\ n \div ByteBits \in Nat /\ n % ByteBits \in 0 .. ByteBits - 1
      /\ n < bytes * ByteBits <=> n \div ByteBits < bytes
  BY <1>1, <1>2
<1>5. n \in 0 .. bytes * ByteBits - 1 <=> n \div ByteBits \in 0 .. bytes - 1
  BY <1>3, <1>4
<1> QED
  BY <1>1, <1>2, <1>4, <1>5 DEF Bits

LEMMA FullMaskForAll ==
  ASSUME NEW bytes \in Nat
  PROVE  MaskFor(0 .. bytes * ByteBits - 1, FullMask(bytes, TRUE), bytes)
<1> SUFFICES ASSUME NEW n \in 0 .. bytes * ByteBits - 1
             PROVE  n % ByteBits \in FullMask(bytes, TRUE)[n \div ByteBits]
  BY DEF MaskFor, FullMask
<1>1. n \in Nat
  BY FiltersAssumption
<1>2. n \div ByteBits \in 0 .. bytes - 1 /\ n % ByteBits \in Bits
  BY <1>1, PlaceOfBit
<1> QED
  BY <1>2 DEF FullMask

(* One bit is set, or all of them.                                         *)
LEMMA SetMaskBitAsAsked ==
  ASSUME NEW set, NEW mask, NEW bytes \in Nat, MaskFor(set, mask, bytes),
         NEW n \in Nat, NEW on \in BOOLEAN
  PROVE  MaskFor(AskedFor(set, bytes, n, on), SetMaskBit(mask, n, on), bytes)
<1> DEFINE all == 0 .. bytes * ByteBits - 1
           byte == n \div ByteBits
           bit == n % ByteBits
           new == SetMaskBit(mask, n, on)
<1>1. /\ DOMAIN mask = 0 .. bytes - 1
      /\ \A m \in all : m \in set <=> m % ByteBits \in mask[m \div ByteBits]
  BY DEF MaskFor
<1>2. \A m \in all : m \in Nat /\ m \div ByteBits \in DOMAIN mask /\ m % ByteBits \in Bits
  <2>1. \A m \in all : m \in Nat
    OBVIOUS
  <2> QED
    BY <1>1, <2>1, PlaceOfBit
<1>3. n \in all <=> byte \in DOMAIN mask
  BY <1>1, PlaceOfBit
<1>4. CASE n \in all
  <2>1. new = [mask EXCEPT ![byte] = IF on THEN @ \cup {bit} ELSE @ \ {bit}]
    BY <1>3, <1>4 DEF SetMaskBit
  <2>2. AskedFor(set, bytes, n, on) = IF on THEN set \cup {n} ELSE set \ {n}
    BY <1>4 DEF AskedFor
  <2>3. \A m \in all : (m \div ByteBits = byte) /\ ((m % ByteBits) = bit) => m = n
    BY <1>2, PlaceOfBit
  <2>4. byte \in DOMAIN mask
    BY <1>3, <1>4
  <2>5. DOMAIN new = DOMAIN mask
    BY <2>1
  <2> HIDE DEF all, byte, bit, new
  <2>6. ASSUME NEW m \in all
        PROVE  m \in AskedFor(set, bytes, n, on) <=> m % ByteBits \in new[m \div ByteBits]
    <3>1. CASE m = n
      <4>1. new[byte] = IF on THEN mask[byte] \cup {bit} ELSE mask[byte] \ {bit}
        BY <2>1, <2>4
      <4>2. m \div ByteBits = byte /\ m % ByteBits = bit
        BY <3>1 DEF byte, bit
      <4> QED
        BY <2>2, <3>1, <4>1, <4>2
    <3>2. CASE m # n
      <4>1. m \in AskedFor(set, bytes, n, on) <=> m \in set
        BY <2>2, <3>2
      <4>2. ~ ((m \div ByteBits = byte) /\ ((m % ByteBits) = bit))
        BY <2>3, <3>2
      <4>3. m \div ByteBits \in DOMAIN mask
        BY <1>2
      <4>4. m % ByteBits \in new[m \div ByteBits] <=> m % ByteBits \in mask[m \div ByteBits]
        BY <2>1, <2>4, <4>2, <4>3
      <4> QED
        BY <1>1, <4>1, <4>4
    <3> QED
      BY <3>1, <3>2
  <2> QED
    BY <1>1, <2>5, <2>6 DEF MaskFor, new, all
<1>5. CASE n \notin all
  <2>1. new = [b \in DOMAIN mask |-> IF on THEN Bits ELSE {}]
    BY <1>3, <1>5 DEF SetMaskBit
  <2>2. AskedFor(set, bytes, n, on) = IF on THEN set \cup all ELSE set \ all
    BY <1>5 DEF AskedFor
  <2> HIDE DEF all, new
  <2>3. \A m \in all : m \in AskedFor(set, bytes, n, on) <=> m % ByteBits \in new[m \div ByteBits]
    BY <1>2, <2>1, <2>2
  <2>4. DOMAIN new = DOMAIN mask
    BY <2>1
  <2> QED
    BY <1>1, <2>3, <2>4 DEF MaskFor, new, all
<1> QED
  BY <1>4, <1>5

-----------------------------------------------------------------------------
(* The effects of the handlers on the shape                                *)

(* Most handlers put a chain with as many states in the last one's place,  *)
(* and leave no request half done.                                         *)
EditsChain ==
  \E k \in 1 .. Len(data_copy) : \E c :
    /\ ChainShape(c) /\ Len(c.states) = Len(data_copy[k].states)
    /\ data_copy' = [data_copy EXCEPT ![k] = c]
    /\ UNCHANGED <<data, connected, lasts>> /\ move' = Idle

Rests == UNCHANGED <<data, data_copy, connected, lasts>> /\ move' \in {move, Idle}

(* Nothing is asked of the place in set_move_probs' lists between them.    *)
LEMMA SamePlaceKeepsMoveInv ==
  ASSUME MoveInv,
         move' = Idle \/ UNCHANGED <<data_copy, connected, lasts, move>>
  PROVE  MoveInv'
<1>1. CASE move' = Idle
  BY <1>1 DEF MoveInv
<1>2. CASE UNCHANGED <<data_copy, connected, lasts, move>>
  BY <1>2 DEF MoveInv, MoveOK, lasts
<1> QED
  BY <1>1, <1>2

(* Such an edit keeps the invariant: no length changes that an index is    *)
(* compared with.                                                          *)
LEMMA EditsChainKeepsIInv ==
  ASSUME IInv, connected, EditsChain
  PROVE  IInv'
<1>1. PICK k \in 1 .. Len(data_copy) : \E c :
        /\ ChainShape(c) /\ Len(c.states) = Len(data_copy[k].states)
        /\ data_copy' = [data_copy EXCEPT ![k] = c]
        /\ UNCHANGED <<data, connected, lasts>> /\ move' = Idle
  BY DEF EditsChain
<1>2. PICK c :
        /\ ChainShape(c) /\ Len(c.states) = Len(data_copy[k].states)
        /\ data_copy' = [data_copy EXCEPT ![k] = c]
        /\ UNCHANGED <<data, connected, lasts>> /\ move' = Idle
  BY <1>1
<1>3. IsSeq(data_copy)
  BY DEF IInv, DataShape
<1> DEFINE e == [data_copy EXCEPT ![k] = c]
<1>4. /\ IsSeq(e) /\ Len(e) = Len(data_copy) /\ e[k] = c
      /\ \A i \in 1 .. Len(data_copy) \ {k} : e[i] = data_copy[i]
  BY <1>3, ExceptIsSeq
<1> HIDE DEF e
<1>9. data_copy' = e
  BY <1>2 DEF e
<1>5. DataShape(data_copy')
  <2>1. ASSUME NEW i \in 1 .. Len(data_copy)
        PROVE  ChainShape(e[i])
    BY <1>2, <1>4 DEF IInv, DataShape
  <2> QED
    BY <1>4, <1>9, <2>1 DEF DataShape
<1>6. \A i \in 1 .. Len(data_copy) :
        Len(data_copy'[i].states) = Len(data_copy[i].states)
  BY <1>2, <1>4, <1>9
<1>7. LastsWithinData'
  <2> SUFFICES ASSUME last_chain \in 0 .. Len(data_copy) - 1
               PROVE  last_state \in -1 .. Len(data_copy'[last_chain + 1].states) - 1
    BY <1>2, <1>4, <1>9 DEF LastsWithinData, chain, lasts
  <2>1. last_chain + 1 \in 1 .. Len(data_copy)
    BY <1>3 DEF IsSeq
  <2>2. last_state \in -1 .. Len(data_copy[last_chain + 1].states) - 1
    BY DEF IInv, LastsWithinData, chain
  <2> QED
    BY <1>6, <2>1, <2>2
<1>8. MoveInv'
  BY <1>2, SamePlaceKeepsMoveInv DEF IInv
<1> QED
  BY <1>2, <1>5, <1>7, <1>8 DEF IInv, lasts

LEMMA RestsKeepsIInv ==
  ASSUME IInv, Rests
  PROVE  IInv'
<1>1. MoveInv'
  BY SamePlaceKeepsMoveInv DEF IInv, Rests
<1> QED
  BY <1>1 DEF IInv, Rests, lasts, LastsWithinData, chain

(* Another filter, with what it was asked, in a chain.                     *)
LEMMA SameStatesKeepShape ==
  ASSUME NEW c, ChainShape(c), NEW f, FilterShape(f), NEW asked, MeansAsked(f, asked)
  PROVE  LET d == [c EXCEPT !.filter = f, !.asked = asked]
         IN  ChainShape(d) /\ Len(d.states) = Len(c.states)
<1> DEFINE d == [c EXCEPT !.filter = f, !.asked = asked]
<1>1. /\ d = [x \in ChainFields |-> d[x]] /\ d.states = c.states
      /\ d.filter = f /\ d.asked = asked
  BY DEF ChainShape, ChainFields
<1> HIDE DEF d
<1>2. ChainShape(d) /\ Len(d.states) = Len(c.states)
  BY <1>1 DEF ChainShape
<1> QED
  BY <1>2 DEF d

(* Other states in a chain.                                                *)
LEMMA OtherStatesKeepShape ==
  ASSUME NEW c, ChainShape(c), NEW states, IsSeq(states),
         \A i \in 1 .. Len(states) : StateShape(states[i], Len(states))
  PROVE  LET d == [c EXCEPT !.states = states]
         IN  ChainShape(d) /\ d.states = states
<1> DEFINE d == [c EXCEPT !.states = states]
<1>1. /\ d = [x \in ChainFields |-> d[x]] /\ d.states = states
      /\ d.filter = c.filter /\ d.asked = c.asked
  BY DEF ChainShape, ChainFields
<1> HIDE DEF d
<1>2. ChainShape(d) /\ d.states = states
  BY <1>1 DEF ChainShape
<1> QED
  BY <1>2 DEF d

(* Another state in the place of one, with its move table.                 *)
LEMMA SameMovesKeepShape ==
  ASSUME NEW c, ChainShape(c), NEW i \in 1 .. Len(c.states),
         NEW t, t = [x \in StateFields |-> t[x]], t.move_tos = c.states[i].move_tos,
         FunctionShape(t.delay_function)
  PROVE  LET d == [c EXCEPT !.states = [c.states EXCEPT ![i] = t]]
         IN  ChainShape(d) /\ Len(d.states) = Len(c.states)
<1> DEFINE states == [c.states EXCEPT ![i] = t]
<1>1. /\ IsSeq(states) /\ Len(states) = Len(c.states) /\ states[i] = t
      /\ \A j \in 1 .. Len(c.states) \ {i} : states[j] = c.states[j]
  <2>1. IsSeq(c.states)
    BY DEF ChainShape
  <2> QED
    BY <2>1, ExceptIsSeq
<1>2. StateShape(t, Len(c.states))
  <2>1. StateShape(c.states[i], Len(c.states))
    BY DEF ChainShape
  <2> QED
    BY <2>1 DEF StateShape
<1> HIDE DEF states
<1>3. \A j \in 1 .. Len(states) : StateShape(states[j], Len(states))
  BY <1>1, <1>2 DEF ChainShape
<1> QED
  BY <1>1, <1>3, OtherStatesKeepShape DEF states

(* Another move table in a state.                                          *)
LEMMA OtherMovesKeepShape ==
  ASSUME NEW t, NEW n, StateShape(t, n), NEW table, IsSeq(table)
  PROVE  StateShape([t EXCEPT !.move_tos = table], Len(table))
<1> DEFINE new == [t EXCEPT !.move_tos = table]
<1>1. /\ new = [x \in StateFields |-> new[x]] /\ new.move_tos = table
      /\ new.delay_function = t.delay_function
  BY DEF StateShape, StateFields
<1> HIDE DEF new
<1>2. StateShape(new, Len(table))
  BY <1>1 DEF StateShape
<1> QED
  BY <1>2 DEF new

(* new_state: the older tables are widened, the new one is as wide.        *)
LEMMA WithNewStateShape ==
  ASSUME NEW c, ChainShape(c), NEW name
  PROVE  LET d == [c EXCEPT !.states = WithNewState(c.states, name)]
         IN  ChainShape(d) /\ Len(d.states) = Len(c.states) + 1
<1> DEFINE n == Len(c.states)
           wide == [i \in 1 .. n |-> Widened(c.states[i])]
           row == Append([i \in 1 .. n |-> 0], One)
           new == [state_alloc(name) EXCEPT !.move_tos = row]
<1>1. n \in Nat /\ IsSeq(wide) /\ Len(wide) = n
  BY FunctionIsSeq DEF ChainShape, IsSeq
<1>2. StateShape(new, n + 1)
  <2>1. IsSeq([i \in 1 .. n |-> 0]) /\ Len([i \in 1 .. n |-> 0]) = n
    BY <1>1, FunctionIsSeq
  <2>2. IsSeq(row) /\ Len(row) = n + 1
    BY <2>1, AppendIsSeq
  <2> HIDE DEF row
  <2>3. StateShape(state_alloc(name), 0)
    <3>1. IsSeq(<<>>) /\ Len(<<>>) = 0
      BY EmptySeq, SeqIsSeq
    <3> QED
      BY <3>1 DEF StateShape, StateFields, state_alloc, FunctionShape
  <2> QED
    BY <2>2, <2>3, OtherMovesKeepShape
<1>3. ASSUME NEW i \in 1 .. n
      PROVE  StateShape(wide[i], n + 1)
  <2> DEFINE table == Append(c.states[i].move_tos, 0)
  <2>1. StateShape(c.states[i], n)
    BY DEF ChainShape
  <2>2. IsSeq(table) /\ Len(table) = n + 1
    BY <2>1, AppendIsSeq DEF StateShape
  <2>3. wide[i] = [c.states[i] EXCEPT !.move_tos = table]
    BY DEF Widened
  <2> HIDE DEF wide, table
  <2>4. StateShape([c.states[i] EXCEPT !.move_tos = table], Len(table))
    BY <2>1, <2>2, OtherMovesKeepShape
  <2> QED
    BY <2>2, <2>3, <2>4
<1> HIDE DEF wide, new
<1>4. /\ IsSeq(Append(wide, new)) /\ Len(Append(wide, new)) = n + 1
      /\ \A i \in 1 .. n : Append(wide, new)[i] = wide[i]
      /\ Append(wide, new)[n + 1] = new
  BY <1>1, AppendIsSeq
<1>5. \A i \in 1 .. n + 1 : StateShape(Append(wide, new)[i], n + 1)
  BY <1>1, <1>2, <1>3, <1>4
<1>6. WithNewState(c.states, name) = Append(wide, new)
  BY DEF WithNewState, wide, new
<1> QED
  BY <1>4, <1>5, <1>6, OtherStatesKeepShape

(* set_move_probs: the tables keep their widths.                           *)
LEMMA MovedShape ==
  ASSUME NEW c, ChainShape(c), NEW sent, NEW places, NEW last
  PROVE  LET d == [c EXCEPT !.states = Moved(@, sent, places, last)]
         IN  ChainShape(d) /\ d.states = Moved(c.states, sent, places, last)
             /\ Len(d.states) = Len(c.states)
<1> DEFINE n == Len(c.states)
           moved == Moved(c.states, sent, places, last)
<1>1. n \in Nat
  BY DEF ChainShape, IsSeq
<1>2. IsSeq(moved) /\ Len(moved) = n
  BY <1>1, FunctionIsSeq DEF Moved
<1>3. ASSUME NEW i \in 1 .. n
      PROVE  StateShape(moved[i], n)
  <2> DEFINE Value(j) ==
        IF Naming(sent, places, i, j, last) = {} THEN c.states[i].move_tos[j]
        ELSE LET p == LastOf(Naming(sent, places, i, j, last))
             IN  ReadProb(sent.probs[p[1]][p[2]])
      table == [j \in 1 .. Len(c.states[i].move_tos) |-> Value(j)]
  <2>1. StateShape(c.states[i], n)
    BY DEF ChainShape
  <2>2. moved[i] = [c.states[i] EXCEPT !.move_tos = table]
    BY DEF Moved
  <2> HIDE DEF Value
  <2>3. IsSeq(table) /\ Len(table) = n
    <3>1. table = [j \in 1 .. n |-> table[j]]
      BY <2>1 DEF StateShape
    <3> HIDE DEF table
    <3> QED
      BY <1>1, <3>1, FunctionIsSeq
  <2> HIDE DEF table, moved
  <2> QED
    BY <2>1, <2>2, <2>3, OtherMovesKeepShape
<1> HIDE DEF moved
<1>4. /\ ChainShape([c EXCEPT !.states = moved])
      /\ [c EXCEPT !.states = moved].states = moved
  BY <1>2, <1>3, OtherStatesKeepShape
<1> QED
  BY <1>2, <1>4 DEF moved

(* state_duplicate copies what a delay function means, and all else.       *)
LEMMA DuplicateStateShape ==
  ASSUME NEW t, NEW n, StateShape(t, n)
  PROVE  /\ StateShape(state_duplicate(t), n)
         /\ [state_duplicate(t) EXCEPT !.delay_function = DelayMeaning(@)] =
              [t EXCEPT !.delay_function = DelayMeaning(@)]
<1> DEFINE f == t.delay_function
           h == delay_function_duplicate(f)
           v == state_duplicate(t)
<1>1. /\ v = [x \in StateFields |-> v[x]] /\ v.delay_function = h
      /\ \A x \in StateFields \ {"delay_function"} : v[x] = t[x]
  BY DEF state_duplicate, StateFields
<1>2. FunctionShape(f)
  BY DEF StateShape
<1>3. FunctionShape(h) /\ DelayMeaning(h) = DelayMeaning(f)
  BY <1>2 DEF FunctionShape, DelayMeaning, delay_function_duplicate
<1> HIDE DEF f, h, v
<1>4. StateShape(v, n)
  <2>1. v.move_tos = t.move_tos
    BY <1>1 DEF StateFields
  <2> QED
    BY <1>1, <1>3, <2>1 DEF StateShape
<1>5. [v EXCEPT !.delay_function = DelayMeaning(@)] =
        [t EXCEPT !.delay_function = DelayMeaning(@)]
  <2>1. t = [x \in StateFields |-> t[x]]
    BY DEF StateShape
  <2>2. DelayMeaning(v.delay_function) = DelayMeaning(t.delay_function)
    BY <1>1, <1>3 DEF f
  <2> QED
    BY <1>1, <2>1, <2>2
<1> QED
  BY <1>4, <1>5 DEF v

(* filter_duplicate copies the two lists of addresses as they are.         *)
LEMMA DuplicateListSame ==
  ASSUME NEW specs, AddressList(specs)
  PROVE  ip_spec_duplicate(specs) = specs
<1>1. ASSUME NEW i \in 1 .. Len(specs)
      PROVE  [ip |-> specs[i].ip, net_mask |-> specs[i].net_mask,
              port_ranges |-> specs[i].port_ranges] = specs[i]
  <2>1. specs[i] = [x \in SpecFields |-> specs[i][x]]
    BY DEF AddressList
  <2> QED
    BY <2>1 DEF SpecFields
<1> QED
  BY <1>1 DEF AddressList, IsSeq, ip_spec_duplicate

LEMMA DuplicateFilterSame ==
  ASSUME NEW f, FilterShape(f)
  PROVE  filter_duplicate(f) = f
<1>1. ip_spec_duplicate(f.source) = f.source /\ ip_spec_duplicate(f.dest) = f.dest
  BY DuplicateListSame DEF FilterShape
<1>2. f = [x \in FilterFields |-> f[x]]
  BY DEF FilterShape
<1> QED
  BY <1>1, <1>2 DEF filter_duplicate, FilterFields

LEMMA DuplicateChain ==
  ASSUME NEW c, ChainShape(c)
  PROVE  /\ chain_duplicate(c) = [x \in ChainFields |-> chain_duplicate(c)[x]]
         /\ chain_duplicate(c).states =
              [i \in 1 .. Len(c.states) |-> state_duplicate(c.states[i])]
         /\ chain_duplicate(c).filter = c.filter
         /\ chain_duplicate(c).asked = c.asked
<1> DEFINE filter == filter_duplicate(c.filter)
<1>1. filter = c.filter
  BY DuplicateFilterSame DEF ChainShape
<1> HIDE DEF filter
<1>2. chain_duplicate(c).filter = filter
  BY DEF chain_duplicate, filter
<1> QED
  BY <1>1, <1>2 DEF chain_duplicate, ChainFields

(* data_duplicate keeps the shape, and the numbers of chains and states.   *)
LEMMA DuplicateShape ==
  ASSUME NEW d, DataShape(d)
  PROVE  /\ DataShape(data_duplicate(d)) /\ Len(data_duplicate(d)) = Len(d)
         /\ \A k \in 1 .. Len(d) :
              Len(data_duplicate(d)[k].states) = Len(d[k].states)
<1> DEFINE copy == data_duplicate(d)
<1>1. Len(d) \in Nat
  BY DEF DataShape, IsSeq
<1>2. IsSeq(copy) /\ Len(copy) = Len(d)
  BY <1>1, FunctionIsSeq DEF data_duplicate
<1>3. ASSUME NEW k \in 1 .. Len(d)
      PROVE  ChainShape(copy[k]) /\ Len(copy[k].states) = Len(d[k].states)
  <2> DEFINE n == Len(d[k].states)
             states == [i \in 1 .. n |-> state_duplicate(d[k].states[i])]
  <2>1. ChainShape(d[k])
    BY DEF DataShape
  <2>2. n \in Nat /\ IsSeq(states) /\ Len(states) = n
    BY <2>1, FunctionIsSeq DEF ChainShape, IsSeq
  <2>3. ASSUME NEW i \in 1 .. n
        PROVE  StateShape(states[i], n)
    BY <2>1, DuplicateStateShape DEF ChainShape
  <2>4. copy[k] = chain_duplicate(d[k])
    BY DEF data_duplicate
  <2>5. /\ copy[k] = [x \in ChainFields |-> copy[k][x]] /\ copy[k].states = states
        /\ copy[k].filter = d[k].filter /\ copy[k].asked = d[k].asked
    BY <2>1, <2>4, DuplicateChain
  <2> HIDE DEF copy, states
  <2> QED
    BY <2>1, <2>2, <2>3, <2>5 DEF ChainShape
<1> QED
  BY <1>2, <1>3 DEF DataShape

(* data_duplicate forgets nothing that means something.                    *)
LEMMA DuplicateMeaning ==
  ASSUME NEW d, DataShape(d)
  PROVE  Meaning(data_duplicate(d)) = Meaning(d)
<1> DEFINE copy == data_duplicate(d)
           Sense(t) == [t EXCEPT !.delay_function = DelayMeaning(@)]
           ChainSense(c) == <<c.filter, [j \in 1 .. Len(c.states) |-> Sense(c.states[j])]>>
<1>1. Len(copy) = Len(d) /\ \A k \in 1 .. Len(d) : copy[k] = chain_duplicate(d[k])
  BY DuplicateShape DEF data_duplicate
<1>2. ASSUME NEW k \in 1 .. Len(d)
      PROVE  ChainSense(copy[k]) = ChainSense(d[k])
  <2>1. ChainShape(d[k])
    BY DEF DataShape
  <2>2. /\ copy[k].filter = d[k].filter
        /\ Len(copy[k].states) = Len(d[k].states)
        /\ copy[k].states =
             [i \in 1 .. Len(d[k].states) |-> state_duplicate(d[k].states[i])]
    BY <1>1, <2>1, DuplicateChain, DuplicateShape
  <2>3. ASSUME NEW j \in 1 .. Len(d[k].states)
        PROVE  Sense(copy[k].states[j]) = Sense(d[k].states[j])
    <3>1. copy[k].states[j] = state_duplicate(d[k].states[j])
      BY <2>2
    <3>2. StateShape(d[k].states[j], Len(d[k].states))
      BY <2>1 DEF ChainShape
    <3>3. Sense(state_duplicate(d[k].states[j])) = Sense(d[k].states[j])
      BY <3>2, DuplicateStateShape
    <3> HIDE DEF Sense, copy
    <3> QED
      BY <3>1, <3>3
  <2> HIDE DEF Sense, copy
  <2> QED
    BY <2>2, <2>3
<1>3. /\ Meaning(copy) = [i \in 1 .. Len(copy) |-> ChainSense(copy[i])]
      /\ Meaning(d) = [i \in 1 .. Len(d) |-> ChainSense(d[i])]
  BY DEF Meaning
<1> HIDE DEF ChainSense, copy
<1>4. Meaning(copy) = Meaning(d)
  BY <1>1, <1>2, <1>3
<1> QED
  BY <1>4 DEF copy

-----------------------------------------------------------------------------
(* What a request comes to: a refusal (or the end of the process), or a    *)
(* new value for the last chain or for one of its states.                  *)
EditsLast(d) ==
  /\ connected /\ ~ ChainMissing /\ last_chain >= 0
  /\ data_copy' = [data_copy EXCEPT ![last_chain + 1] = d]
  /\ UNCHANGED <<data, connected, lasts>> /\ move' = Idle

EditsState(s, t) ==
  /\ s >= 0 /\ ~ StateMissing(s)
  /\ EditsLast([chain EXCEPT !.states = [chain.states EXCEPT ![s + 1] = t]])

LEMMA LastChainShape ==
  ASSUME IInv, ~ ChainMissing, last_chain >= 0
  PROVE  last_chain + 1 \in 1 .. Len(data_copy) /\ ChainShape(chain)
<1>1. Len(data_copy) \in Nat /\ last_chain \in Int
  BY DEF IInv, DataShape, IsSeq
<1>2. last_chain + 1 \in 1 .. Len(data_copy)
  BY <1>1 DEF ChainMissing
<1> QED
  BY <1>2 DEF IInv, DataShape, chain

LEMMA EditsLastKeepsIInv ==
  ASSUME IInv, NEW d, EditsLast(d),
         ChainShape(d), Len(d.states) = Len(chain.states)
  PROVE  IInv'
<1>1. last_chain + 1 \in 1 .. Len(data_copy)
  BY LastChainShape DEF EditsLast
<1>2. EditsChain
  BY <1>1 DEF EditsLast, EditsChain, chain
<1> QED
  BY <1>2, EditsChainKeepsIInv DEF EditsLast

(* An answer to a request that edits the last chain's filter, expanded.    *)
FilterEdit ==
  Rests \/ \E f, asked : /\ FilterShape(f) /\ MeansAsked(f, asked)
                         /\ EditsLast([chain EXCEPT !.filter = f, !.asked = asked])

LEMMA FilterEdited ==
  ASSUME IInv, NEW f, NEW asked,
         Rests \/ EditsLast([chain EXCEPT !.filter = f, !.asked = asked]),
         FilterShape(chain.filter) /\ MeansAsked(chain.filter, chain.asked)
           => FilterShape(f) /\ MeansAsked(f, asked)
  PROVE  FilterEdit
<1> DEFINE new == [chain EXCEPT !.filter = f, !.asked = asked]
<1>1. EditsLast(new) => ChainShape(chain)
  BY LastChainShape DEF EditsLast
<1>2. EditsLast(new) => FilterShape(f) /\ MeansAsked(f, asked)
  BY <1>1 DEF ChainShape
<1> QED
  BY <1>2 DEF FilterEdit

LEMMA FilterOutcome ==
  ASSUME IInv, FilterStep
  PROVE  FilterEdit
<1> DEFINE old == chain.filter
           Request(f, asked) == EditsLast([chain EXCEPT !.filter = f, !.asked = asked])
<1>1. ASSUME NEW sent \in RawFilters, SetSource(sent)
      PROVE  FilterEdit
  <2> DEFINE list == ReadIPFilter(sent)
             f == [old EXCEPT !.source = list]
             asked == [chain.asked EXCEPT !.source = sent]
  <2>1. Rests \/ Request(f, asked)
    BY <1>1, ZenonT(60) DEF SetSource, OnChain, Refuse, Die, Accept, Ready, Rests,
                          EditsLast, chain
  <2>2. AddressList(list) /\ ListAsSent(list, sent)
    BY ReadFilterIsList DEF ListAsSent
  <2> HIDE DEF list
  <2>3. ASSUME FilterShape(old), MeansAsked(old, chain.asked)
        PROVE  FilterShape(f) /\ MeansAsked(f, asked)
    <3>1. /\ f = [x \in FilterFields |-> f[x]] /\ f.source = list
          /\ \A x \in FilterFields \ {"source"} : f[x] = old[x]
      BY <2>3 DEF FilterShape, FilterFields
    <3>2. /\ DOMAIN asked = AskedFields /\ asked.source = sent
          /\ \A x \in AskedFields \ {"source"} : asked[x] = chain.asked[x]
      BY <2>3 DEF MeansAsked, AskedFields
    <3> HIDE DEF f, asked
    <3>3. FilterShape(f)
      BY <2>2, <2>3, <3>1 DEF FilterShape, FilterFields
    <3>4. MeansAsked(f, asked)
      BY <2>2, <2>3, <3>1, <3>2
      DEF MeansAsked, LengthsAsSent, FilterFields, AskedFields
    <3> QED
      BY <3>3, <3>4
  <2> HIDE DEF f, asked
  <2> QED
    BY <2>1, <2>3, FilterEdited
<1>2. ASSUME NEW sent \in RawFilters, SetDest(sent)
      PROVE  FilterEdit
  <2> DEFINE list == ReadIPFilter(sent)
             f == [old EXCEPT !.dest = list]
             asked == [chain.asked EXCEPT !.dest = sent]
  <2>1. Rests \/ Request(f, asked)
    BY <1>2, ZenonT(60) DEF SetDest, OnChain, Refuse, Die, Accept, Ready, Rests,
                          EditsLast, chain
  <2>2. AddressList(list) /\ ListAsSent(list, sent)
    BY ReadFilterIsList DEF ListAsSent
  <2> HIDE DEF list
  <2>3. ASSUME FilterShape(old), MeansAsked(old, chain.asked)
        PROVE  FilterShape(f) /\ MeansAsked(f, asked)
    <3>1. /\ f = [x \in FilterFields |-> f[x]] /\ f.dest = list
          /\ \A x \in FilterFields \ {"dest"} : f[x] = old[x]
      BY <2>3 DEF FilterShape, FilterFields
    <3>2. /\ DOMAIN asked = AskedFields /\ asked.dest = sent
          /\ \A x \in AskedFields \ {"dest"} : asked[x] = chain.asked[x]
      BY <2>3 DEF MeansAsked, AskedFields
    <3> HIDE DEF f, asked
    <3>3. FilterShape(f)
      BY <2>2, <2>3, <3>1 DEF FilterShape, FilterFields
    <3>4. MeansAsked(f, asked)
      BY <2>2, <2>3, <3>1, <3>2
      DEF MeansAsked, LengthsAsSent, FilterFields, AskedFields
    <3> QED
      BY <3>3, <3>4
  <2> HIDE DEF f, asked
  <2> QED
    BY <2>1, <2>3, FilterEdited
<1>3. ASSUME NEW n \in Lengths, SetLengthMin(n)
      PROVE  FilterEdit
  <2> DEFINE new == ReadInt(n)
             f == [old EXCEPT !.min_packet_len = new]
             asked == [chain.asked EXCEPT !.length_min = n]
  <2>1. Rests \/ Request(f, asked)
    BY <1>3, ZenonT(60) DEF SetLengthMin, OnChain, Refuse, Die, Accept, Ready, Rests,
                          EditsLast, chain
  <2>2. new = n /\ n \in Nat
    BY HandlersAssumption DEF ReadInt
  <2> HIDE DEF new
  <2>3. ASSUME FilterShape(old), MeansAsked(old, chain.asked)
        PROVE  FilterShape(f) /\ MeansAsked(f, asked)
    <3>1. /\ f = [x \in FilterFields |-> f[x]] /\ f.min_packet_len = new
          /\ \A x \in FilterFields \ {"min_packet_len"} : f[x] = old[x]
      BY <2>3 DEF FilterShape, FilterFields
    <3>2. /\ DOMAIN asked = AskedFields /\ asked.length_min = n
          /\ \A x \in AskedFields \ {"length_min"} : asked[x] = chain.asked[x]
      BY <2>3 DEF MeansAsked, AskedFields
    <3> HIDE DEF f, asked
    <3>3. FilterShape(f)
      BY <2>3, <3>1 DEF FilterShape, FilterFields
    <3>4. MeansAsked(f, asked)
      BY <2>2, <2>3, <3>1, <3>2
      DEF MeansAsked, LengthsAsSent, FilterFields, AskedFields
    <3> QED
      BY <3>3, <3>4
  <2> HIDE DEF f, asked
  <2> QED
    BY <2>1, <2>3, FilterEdited
<1>4. ASSUME NEW n \in Lengths, SetLengthMax(n)
      PROVE  FilterEdit
  <2> DEFINE new == ReadInt(n)
             f == [old EXCEPT !.max_packet_len = new]
             asked == [chain.asked EXCEPT !.length_max = n]
  <2>1. Rests \/ Request(f, asked)
    BY <1>4, ZenonT(60) DEF SetLengthMax, OnChain, Refuse, Die, Accept, Ready, Rests,
                          EditsLast, chain
  <2>2. new = n /\ n \in Nat
    BY HandlersAssumption DEF ReadInt
  <2> HIDE DEF new
  <2>3. ASSUME FilterShape(old), MeansAsked(old, chain.asked)
        PROVE  FilterShape(f) /\ MeansAsked(f, asked)
    <3>1. /\ f = [x \in FilterFields |-> f[x]] /\ f.max_packet_len = new
          /\ \A x \in FilterFields \ {"max_packet_len"} : f[x] = old[x]
      BY <2>3 DEF FilterShape, FilterFields
    <3>2. /\ DOMAIN asked = AskedFields /\ asked.length_max = n
          /\ \A x \in AskedFields \ {"length_max"} : asked[x] = chain.asked[x]
      BY <2>3 DEF MeansAsked, AskedFields
    <3> HIDE DEF f, asked
    <3>3. FilterShape(f)
      BY <2>3, <3>1 DEF FilterShape, FilterFields
    <3>4. MeansAsked(f, asked)
      BY <2>2, <2>3, <3>1, <3>2
      DEF MeansAsked, LengthsAsSent, FilterFields, AskedFields
    <3> QED
      BY <3>3, <3>4
  <2> HIDE DEF f, asked
  <2> QED
    BY <2>1, <2>3, FilterEdited
<1>5. ASSUME NEW n \in 0 .. 4, SetWhichLength(n)
      PROVE  FilterEdit
  <2> DEFINE new == ReadWhichLength(n)
             f == [old EXCEPT !.which_packet_len = new]
             asked == [chain.asked EXCEPT !.which_length = n]
  <2>1. Rests \/ Request(f, asked)
    BY <1>5, ZenonT(60) DEF SetWhichLength, OnChain, Refuse, Die, Accept, Ready, Rests,
                          EditsLast, chain
  <2>2. new = ReadWhichLength(n) /\ n \in 0 .. 4
    OBVIOUS
  <2> HIDE DEF new
  <2>3. ASSUME FilterShape(old), MeansAsked(old, chain.asked)
        PROVE  FilterShape(f) /\ MeansAsked(f, asked)
    <3>1. /\ f = [x \in FilterFields |-> f[x]] /\ f.which_packet_len = new
          /\ \A x \in FilterFields \ {"which_packet_len"} : f[x] = old[x]
      BY <2>3 DEF FilterShape, FilterFields
    <3>2. /\ DOMAIN asked = AskedFields /\ asked.which_length = n
          /\ \A x \in AskedFields \ {"which_length"} : asked[x] = chain.asked[x]
      BY <2>3 DEF MeansAsked, AskedFields
    <3> HIDE DEF f, asked
    <3>3. FilterShape(f)
      BY <2>3, <3>1 DEF FilterShape, FilterFields
    <3>4. MeansAsked(f, asked)
      BY <2>2, <2>3, <3>1, <3>2
      DEF MeansAsked, LengthsAsSent, FilterFields, AskedFields
    <3> QED
      BY <3>3, <3>4
  <2> HIDE DEF f, asked
  <2> QED
    BY <2>1, <2>3, FilterEdited
<1>6. ASSUME NEW n \in RawInts, NEW on \in {0, 1}, SetProtocol(n, on)
      PROVE  FilterEdit
  <2> DEFINE number == ReadInt(n)
             bit == ReadBool(on)
             mask == SetMaskBit(old.protocols, number, bit)
             set == AskedFor(chain.asked.protocols, ProtocolBytes, number, bit)
             f == [old EXCEPT !.protocols = mask]
             asked == [chain.asked EXCEPT !.protocols = set]
  <2>1. Rests \/ Request(f, asked)
    BY <1>6, ZenonT(60) DEF SetProtocol, OnChain, Refuse, Die, Accept, Ready, Rests,
                          EditsLast, chain
  <2>2. number \in Nat /\ bit \in BOOLEAN
    BY HandlersAssumption DEF ReadInt, ReadBool
  <2> HIDE DEF number, bit
  <2>3. ASSUME FilterShape(old), MeansAsked(old, chain.asked)
        PROVE  FilterShape(f) /\ MeansAsked(f, asked)
    <3>0. MaskFor(set, mask, ProtocolBytes)
      BY <2>2, <2>3, SetMaskBitAsAsked, FiltersAssumption DEF MeansAsked
    <3> HIDE DEF mask, set
    <3>1. /\ f = [x \in FilterFields |-> f[x]] /\ f.protocols = mask
          /\ \A x \in FilterFields \ {"protocols"} : f[x] = old[x]
      BY <2>3 DEF FilterShape, FilterFields
    <3>2. /\ DOMAIN asked = AskedFields /\ asked.protocols = set
          /\ \A x \in AskedFields \ {"protocols"} : asked[x] = chain.asked[x]
      BY <2>3 DEF MeansAsked, AskedFields
    <3> HIDE DEF f, asked
    <3>3. FilterShape(f)
      BY <2>3, <3>1 DEF FilterShape, FilterFields
    <3>4. MeansAsked(f, asked)
      BY <2>3, <3>0, <3>1, <3>2
      DEF MeansAsked, LengthsAsSent, FilterFields, AskedFields
    <3> QED
      BY <3>3, <3>4
  <2> HIDE DEF f, asked
  <2> QED
    BY <2>1, <2>3, FilterEdited
<1>7. ASSUME NEW n \in RawInts, NEW on \in {0, 1}, SetTos(n, on)
      PROVE  FilterEdit
  <2> DEFINE number == ReadInt(n)
             bit == ReadBool(on)
             mask == SetMaskBit(old.tos, number, bit)
             set == AskedFor(chain.asked.tos, TosBytes, number, bit)
             f == [old EXCEPT !.tos = mask]
             asked == [chain.asked EXCEPT !.tos = set]
  <2>1. Rests \/ Request(f, asked)
    BY <1>7, ZenonT(60) DEF SetTos, OnChain, Refuse, Die, Accept, Ready, Rests,
                          EditsLast, chain
  <2>2. number \in Nat /\ bit \in BOOLEAN
    BY HandlersAssumption DEF ReadInt, ReadBool
  <2> HIDE DEF number, bit
  <2>3. ASSUME FilterShape(old), MeansAsked(old, chain.asked)
        PROVE  FilterShape(f) /\ MeansAsked(f, asked)
    <3>0. MaskFor(set, mask, TosBytes)
      BY <2>2, <2>3, SetMaskBitAsAsked, FiltersAssumption DEF MeansAsked
    <3> HIDE DEF mask, set
    <3>1. /\ f = [x \in FilterFields |-> f[x]] /\ f.tos = mask
          /\ \A x \in FilterFields \ {"tos"} : f[x] = old[x]
      BY <2>3 DEF FilterShape, FilterFields
    <3>2. /\ DOMAIN asked = AskedFields /\ asked.tos = set
          /\ \A x \in AskedFields \ {"tos"} : asked[x] = chain.asked[x]
      BY <2>3 DEF MeansAsked, AskedFields
    <3> HIDE DEF f, asked
    <3>3. FilterShape(f)
      BY <2>3, <3>1 DEF FilterShape, FilterFields
    <3>4. MeansAsked(f, asked)
      BY <2>3, <3>0, <3>1, <3>2
      DEF MeansAsked, LengthsAsSent, FilterFields, AskedFields
    <3> QED
      BY <3>3, <3>4
  <2> HIDE DEF f, asked
  <2> QED
    BY <2>1, <2>3, FilterEdited
<1> QED
  BY <1>1, <1>2, <1>3, <1>4, <1>5, <1>6, <1>7 DEF FilterStep

(* The handlers of a state leave its move table alone.                     *)
KeepsMoves(s, t) ==
  /\ t = [x \in StateFields |-> t[x]] /\ t.move_tos = chain.states[s + 1].move_tos
  /\ FunctionShape(t.delay_function)

StateEdit(s) == Rests \/ \E t : EditsState(s, t) /\ KeepsMoves(s, t)

LEMMA NamedStateShape ==
  ASSUME IInv, NEW s \in Int, NEW t, EditsState(s, t)
  PROVE  s + 1 \in 1 .. Len(chain.states)
         /\ chain.states[s + 1] = [x \in StateFields |-> chain.states[s + 1][x]]
         /\ FunctionShape(chain.states[s + 1].delay_function)
<1>1. ChainShape(chain)
  BY LastChainShape DEF EditsState, EditsLast
<1>2. s + 1 \in 1 .. Len(chain.states)
  BY <1>1 DEF EditsState, EditsLast, StateMissing, ChainShape, IsSeq
<1> QED
  BY <1>1, <1>2 DEF ChainShape, StateShape

(* An edit in place is one of the chain with that state put in.            *)
AcceptsState(s, t) ==
  /\ connected /\ last_chain >= 0 /\ s >= 0 /\ ~ StateMissing(s)
  /\ data_copy' = [data_copy EXCEPT ![last_chain + 1].states[s + 1] = t]
  /\ UNCHANGED <<data, connected, lasts>> /\ move' = Idle

LEMMA AcceptsIsEdit ==
  ASSUME NEW s, NEW t, AcceptsState(s, t)
  PROVE  EditsState(s, t)
<1>1. [data_copy EXCEPT ![last_chain + 1].states[s + 1] = t]
        = [data_copy EXCEPT ![last_chain + 1] =
             [chain EXCEPT !.states = [chain.states EXCEPT ![s + 1] = t]]]
  BY DEF chain
<1> QED
  BY <1>1 DEF AcceptsState, EditsState, EditsLast, StateMissing

LEMMA AcceptedStateShape ==
  ASSUME IInv, NEW s \in Int, NEW t, AcceptsState(s, t)
  PROVE  /\ chain.states[s + 1] = [x \in StateFields |-> chain.states[s + 1][x]]
         /\ FunctionShape(chain.states[s + 1].delay_function)
<1>1. EditsState(s, t)
  BY AcceptsIsEdit
<1> QED
  BY <1>1, NamedStateShape

(* A new type comes with points of its own, or with none.                  *)
LEMMA WithTypeShape ==
  ASSUME NEW f, FunctionShape(f), NEW raw \in Int
  PROVE  FunctionShape(WithType(f, ReadDelayFunctionType(raw)))
<1> DEFINE type == ReadDelayFunctionType(raw)
<1>1. type \in {"EXP", "SPLIT_LINEAR", "NONE"}
  BY DEF ReadDelayFunctionType
<1>2. <<>> # Unset
  BY EmptySeq, HandlersAssumption
<1> SUFFICES FunctionShape(WithType(f, type))
  OBVIOUS
<1> HIDE DEF type
<1>3. CASE type = "SPLIT_LINEAR"
  BY <1>2, <1>3 DEF WithType, FunctionShape
<1>4. CASE f.type = "SPLIT_LINEAR" /\ type # "SPLIT_LINEAR"
  BY <1>1, <1>4 DEF WithType, FunctionShape
<1>5. CASE f.type # "SPLIT_LINEAR" /\ type # "SPLIT_LINEAR"
  <2>1. WithType(f, type) = [f EXCEPT !.type = type]
    BY <1>5 DEF WithType
  <2> QED
    BY <1>1, <1>5, <2>1 DEF FunctionShape
<1> QED
  BY <1>3, <1>4, <1>5

LEMMA StateOutcome ==
  ASSUME IInv, NEW s \in Int,
         \/ \E drop, delay \in RawProbs : SetDropDelayProb(s, drop, delay)
         \/ \E raw \in 0 .. 2 : SetDelayType(s, raw)
         \/ \E sent \in RawPoints : SetSplitLinearPoints(s, sent)
         \/ \E raw \in RawInts : SetLambda(s, raw) \/ SetTimeFactor(s, raw)
         \/ \E raw \in RawProbs : SetStableDelayProb(s, raw)
  PROVE  StateEdit(s)
<1>1. ASSUME NEW drop \in RawProbs, NEW delay \in RawProbs, SetDropDelayProb(s, drop, delay)
      PROVE  StateEdit(s)
  <2> DEFINE old == chain.states[s + 1]
             new == [old EXCEPT !.drop_prob = ReadProb(drop),
                             !.delay_prob = ReadProb(delay)]
  <2>1. Rests \/ AcceptsState(s, new)
    BY <1>1 DEF SetDropDelayProb, OnState, AsItIs, Refuse, Die, Accept, Ready, Rests,
                AcceptsState, chain
  <2>2. AcceptsState(s, new) => KeepsMoves(s, new)
    <3>1. AcceptsState(s, new) =>
            /\ old = [x \in StateFields |-> old[x]] /\ FunctionShape(old.delay_function)
      BY AcceptedStateShape
    <3> HIDE DEF old
    <3>2. /\ old = [x \in StateFields |-> old[x]] /\ FunctionShape(old.delay_function)
          => /\ new = [x \in StateFields |-> new[x]] /\ new.move_tos = old.move_tos
             /\ FunctionShape(new.delay_function)
      BY DEF StateFields, FunctionShape
    <3> HIDE DEF new
    <3> QED
      BY <3>1, <3>2 DEF KeepsMoves, old
  <2> HIDE DEF new
  <2> QED
    BY <2>1, <2>2, AcceptsIsEdit DEF StateEdit
<1>2. ASSUME NEW raw \in 0 .. 2, SetDelayType(s, raw)
      PROVE  StateEdit(s)
  <2> DEFINE old == chain.states[s + 1]
             f == WithType(old.delay_function, ReadDelayFunctionType(raw))
             new == [old EXCEPT !.delay_function = f]
  <2>0. FunctionShape(old.delay_function) => FunctionShape(f)
    BY WithTypeShape
  <2>1. Rests \/ AcceptsState(s, new)
    BY <1>2 DEF SetDelayType, OnState, AsItIs, Refuse, Die, Accept, Ready, Rests,
                AcceptsState, chain
  <2> HIDE DEF f
  <2>2. AcceptsState(s, new) => KeepsMoves(s, new)
    BY <2>0, AcceptedStateShape DEF KeepsMoves, StateFields
  <2> HIDE DEF new
  <2> QED
    BY <2>1, <2>2, AcceptsIsEdit DEF StateEdit
<1>3. ASSUME NEW sent \in RawPoints, SetSplitLinearPoints(s, sent)
      PROVE  StateEdit(s)
  <2> DEFINE old == chain.states[s + 1]
             read == ReadPoints(sent)
             new == [old EXCEPT !.delay_function.points = read]
  <2>0. read # Unset
    BY ReadPointsAreOwned
  <2>1. Rests \/ AcceptsState(s, new)
    BY <1>3 DEF SetSplitLinearPoints, OnState, AsItIs, Refuse, Die, Accept, Ready, Rests,
                AcceptsState, chain
  <2> HIDE DEF read
  <2>2. AcceptsState(s, new) => KeepsMoves(s, new)
    <3>1. AcceptsState(s, new) =>
            /\ old = [x \in StateFields |-> old[x]] /\ FunctionShape(old.delay_function)
      BY AcceptedStateShape
    <3> HIDE DEF old
    <3>2. /\ old = [x \in StateFields |-> old[x]] /\ FunctionShape(old.delay_function)
          => /\ new = [x \in StateFields |-> new[x]] /\ new.move_tos = old.move_tos
             /\ FunctionShape(new.delay_function)
      BY <2>0 DEF StateFields, FunctionShape
    <3> HIDE DEF new
    <3> QED
      BY <3>1, <3>2 DEF KeepsMoves, old
  <2> HIDE DEF new
  <2> QED
    BY <2>1, <2>2, AcceptsIsEdit DEF StateEdit
<1>4. ASSUME NEW raw \in RawInts, SetLambda(s, raw)
      PROVE  StateEdit(s)
  <2> DEFINE old == chain.states[s + 1]
             new == [old EXCEPT !.delay_function.lambda = ReadInt(raw)]
  <2>1. Rests \/ AcceptsState(s, new)
    BY <1>4 DEF SetLambda, OnState, AsItIs, Refuse, Die, Accept, Ready, Rests,
                AcceptsState, chain
  <2>2. AcceptsState(s, new) => KeepsMoves(s, new)
    <3>1. AcceptsState(s, new) =>
            /\ old = [x \in StateFields |-> old[x]] /\ FunctionShape(old.delay_function)
      BY AcceptedStateShape
    <3> HIDE DEF old
    <3>2. /\ old = [x \in StateFields |-> old[x]] /\ FunctionShape(old.delay_function)
          => /\ new = [x \in StateFields |-> new[x]] /\ new.move_tos = old.move_tos
             /\ FunctionShape(new.delay_function)
      BY DEF StateFields, FunctionShape
    <3> HIDE DEF new
    <3> QED
      BY <3>1, <3>2 DEF KeepsMoves, old
  <2> HIDE DEF new
  <2> QED
    BY <2>1, <2>2, AcceptsIsEdit DEF StateEdit
<1>5. ASSUME NEW raw \in RawInts, SetTimeFactor(s, raw)
      PROVE  StateEdit(s)
  <2> DEFINE old == chain.states[s + 1]
             new == [old EXCEPT !.time_factor = ReadDelay(raw)]
  <2>1. Rests \/ AcceptsState(s, new)
    BY <1>5 DEF SetTimeFactor, OnState, AsItIs, Refuse, Die, Accept, Ready, Rests,
                AcceptsState, chain
  <2>2. AcceptsState(s, new) => KeepsMoves(s, new)
    <3>1. AcceptsState(s, new) =>
            /\ old = [x \in StateFields |-> old[x]] /\ FunctionShape(old.delay_function)
      BY AcceptedStateShape
    <3> HIDE DEF old
    <3>2. /\ old = [x \in StateFields |-> old[x]] /\ FunctionShape(old.delay_function)
          => /\ new = [x \in StateFields |-> new[x]] /\ new.move_tos = old.move_tos
             /\ FunctionShape(new.delay_function)
      BY DEF StateFields, FunctionShape
    <3> HIDE DEF new
    <3> QED
      BY <3>1, <3>2 DEF KeepsMoves, old
  <2> HIDE DEF new
  <2> QED
    BY <2>1, <2>2, AcceptsIsEdit DEF StateEdit
<1>6. ASSUME NEW raw \in RawProbs, SetStableDelayProb(s, raw)
      PROVE  StateEdit(s)
  <2> DEFINE old == chain.states[s + 1]
             new == [old EXCEPT !.stable_delay_prob = ReadProb(raw)]
  <2>1. Rests \/ AcceptsState(s, new)
    BY <1>6 DEF SetStableDelayProb, OnState, AsItIs, Refuse, Die, Accept, Ready, Rests,
                AcceptsState, chain
  <2>2. AcceptsState(s, new) => KeepsMoves(s, new)
    <3>1. AcceptsState(s, new) =>
            /\ old = [x \in StateFields |-> old[x]] /\ FunctionShape(old.delay_function)
      BY AcceptedStateShape
    <3> HIDE DEF old
    <3>2. /\ old = [x \in StateFields |-> old[x]] /\ FunctionShape(old.delay_function)
          => /\ new = [x \in StateFields |-> new[x]] /\ new.move_tos = old.move_tos
             /\ FunctionShape(new.delay_function)
      BY DEF StateFields, FunctionShape
    <3> HIDE DEF new
    <3> QED
      BY <3>1, <3>2 DEF KeepsMoves, old
  <2> HIDE DEF new
  <2> QED
    BY <2>1, <2>2, AcceptsIsEdit DEF StateEdit
<1> QED
  BY <1>1, <1>2, <1>3, <1>4, <1>5, <1>6

(* The states that StateStep names.                                        *)
LEMMA StateStepOutcome ==
  ASSUME IInv, StateStep
  PROVE  \E s \in Int : StateEdit(s)
<1>1. PICK raw \in RawStates :
        LET s == ReadState(raw, last_state)
        IN  \/ \E drop, delay \in RawProbs : SetDropDelayProb(s, drop, delay)
            \/ \E r \in 0 .. 2 : SetDelayType(s, r)
            \/ \E sent \in RawPoints : SetSplitLinearPoints(s, sent)
            \/ \E r \in RawInts : SetLambda(s, r) \/ SetTimeFactor(s, r)
            \/ \E r \in RawProbs : SetStableDelayProb(s, r)
  BY DEF StateStep
<1>2. ReadState(raw, last_state) \in Int
  BY HandlersAssumption DEF ReadState, RawStates, IInv, HandlersAssumption
<1> QED
  BY <1>1, <1>2, StateOutcome

-----------------------------------------------------------------------------
(* set_move_probs in its lists and in its table                            *)
LEMMA SentLists ==
  ASSUME NEW sent \in RawTables
  PROVE  /\ Len(sent.sources) \in Nat /\ Len(sent.dests) \in Nat
         /\ sent.dests # <<>> <=> Len(sent.dests) # 0
         /\ Len(Named(sent)) \in Nat
         /\ Len(Named(sent)) = Len(sent.sources) + Len(sent.dests)
         /\ \A k \in 1 .. Len(Named(sent)) : Named(sent)[k] \in RawStates
         /\ \A s \in 1 .. Len(sent.sources) : sent.sources[s] = Named(sent)[s]
         /\ \A d \in 1 .. Len(sent.dests) :
              sent.dests[d] = Named(sent)[Len(sent.sources) + d]
<1>1. sent.sources \in Seq(RawStates) /\ sent.dests \in Seq(RawStates)
  BY HandlersAssumption
<1>2. Len(sent.sources) \in Nat /\ Len(sent.dests) \in Nat
  BY <1>1, LenProperties
<1>3. sent.dests # <<>> <=> Len(sent.dests) # 0
  BY <1>1, EmptySeq
<1>4. /\ Named(sent) \in Seq(RawStates)
      /\ Len(Named(sent)) = Len(sent.sources) + Len(sent.dests)
      /\ \A k \in 1 .. Len(sent.sources) + Len(sent.dests) :
           Named(sent)[k] = IF k <= Len(sent.sources) THEN sent.sources[k]
                            ELSE sent.dests[k - Len(sent.sources)]
  BY <1>1, ConcatProperties DEF Named
<1>5. \A k \in 1 .. Len(Named(sent)) : Named(sent)[k] \in RawStates
  BY <1>4, ElementOfSeq
<1>6. \A s \in 1 .. Len(sent.sources) : sent.sources[s] = Named(sent)[s]
  <2>1. \A m, n \in Nat : \A s \in 1 .. m : s \in 1 .. m + n /\ s <= m
    OBVIOUS
  <2> QED
    BY <1>2, <1>4, <2>1
<1>7. ASSUME NEW d \in 1 .. Len(sent.dests)
      PROVE  sent.dests[d] = Named(sent)[Len(sent.sources) + d]
  <2> DEFINE k == Len(sent.sources) + d
  <2>0. \A m, n \in Nat : \A e \in 1 .. n :
          m + e \in 1 .. m + n /\ ~ (m + e <= m) /\ (m + e) - m = e
    OBVIOUS
  <2>1. /\ k \in 1 .. Len(sent.sources) + Len(sent.dests)
        /\ ~ (k <= Len(sent.sources)) /\ k - Len(sent.sources) = d
    BY <1>2, <2>0
  <2> QED
    BY <1>4, <2>1
<1>8. Len(Named(sent)) \in Nat
  <2>1. \A m, n \in Nat : m + n \in Nat
    OBVIOUS
  <2> QED
    BY <1>2, <1>4, <2>1
<1> QED
  BY <1>2, <1>3, <1>4, <1>5, <1>6, <1>7, <1>8

(* The places of a table are passed one after the other, from none to all. *)
LEMMA PlacesPass ==
  ASSUME NEW sent, Len(sent.sources) \in Nat, Len(sent.dests) \in Nat
  PROVE  /\ PlacesBefore(sent, 1, 1) = {}
         /\ \A s, d \in Nat \ {0} :
              s > Len(sent.sources) \/ Len(sent.dests) = 0
                => PlacesBefore(sent, s, d) = Places(sent)
         /\ \A s \in 1 .. Len(sent.sources), d \in 1 .. Len(sent.dests) :
              PlacesBefore(sent, s, d) \cup {<<s, d>>} =
                IF d < Len(sent.dests) THEN PlacesBefore(sent, s, d + 1)
                ELSE PlacesBefore(sent, s + 1, 1)
<1> DEFINE m == Len(sent.sources)
           n == Len(sent.dests)
<1>1. \A s, d : PlacesBefore(sent, s, d) =
                  {p \in (1 .. m) \X (1 .. n) : p[1] < s \/ (p[1] = s /\ p[2] < d)}
  BY DEF PlacesBefore, Places, Earlier
<1>2. Places(sent) = (1 .. m) \X (1 .. n)
  BY DEF Places
<1> HIDE DEF m, n
<1>3. m \in Nat /\ n \in Nat
  BY DEF m, n
<1>4. PlacesBefore(sent, 1, 1) = {}
  BY <1>1, <1>3
<1>5. ASSUME NEW s \in Nat \ {0}, NEW d \in Nat \ {0}, s > m \/ n = 0
      PROVE  PlacesBefore(sent, s, d) = Places(sent)
  BY <1>1, <1>2, <1>3, <1>5
<1>6. ASSUME NEW s \in 1 .. m, NEW d \in 1 .. n
      PROVE  PlacesBefore(sent, s, d) \cup {<<s, d>>} =
               IF d < n THEN PlacesBefore(sent, s, d + 1)
               ELSE PlacesBefore(sent, s + 1, 1)
  <2> DEFINE Before2(p, s2, d2) == p[1] < s2 \/ (p[1] = s2 /\ p[2] < d2)
  <2>1. ASSUME NEW a \in 1 .. m, NEW b \in 1 .. n
        PROVE  /\ d < n => (Before2(<<a, b>>, s, d + 1)
                              <=> Before2(<<a, b>>, s, d) \/ <<a, b>> = <<s, d>>)
               /\ ~ (d < n) => (Before2(<<a, b>>, s + 1, 1)
                                  <=> Before2(<<a, b>>, s, d) \/ <<a, b>> = <<s, d>>)
    BY <1>3, <2>1
  <2>2. \A p \in (1 .. m) \X (1 .. n) : \E a \in 1 .. m, b \in 1 .. n : p = <<a, b>>
    OBVIOUS
  <2>3. <<s, d>> \in (1 .. m) \X (1 .. n)
    OBVIOUS
  <2>4. \A s2, d2 : PlacesBefore(sent, s2, d2) =
                      {p \in (1 .. m) \X (1 .. n) : Before2(p, s2, d2)}
    BY <1>1
  <2> HIDE DEF Before2
  <2> QED
    BY <2>1, <2>2, <2>3, <2>4
<1> QED
  BY <1>4, <1>5, <1>6 DEF m, n

LEMMA LastOfLater ==
  ASSUME NEW P \in SUBSET (Int \X Int), NEW p \in Int \X Int,
         \A q \in P : Earlier(q, p)
  PROVE  LastOf(P \cup {p}) = p
<1> DEFINE Latest(r) == \A q \in P \cup {p} : q = r \/ Earlier(q, r)
<1>1. p \in P \cup {p} /\ Latest(p)
  OBVIOUS
<1>2. ASSUME NEW r \in P \cup {p}, Latest(r)
      PROVE  r = p
  <2>1. CASE r \in P
    <3>1. Earlier(r, p)
      BY <2>1
    <3>2. p = r \/ Earlier(p, r)
      BY <1>2
    <3>3. ~ (Earlier(r, p) /\ Earlier(p, r))
      BY <2>1 DEF Earlier
    <3> QED
      BY <3>1, <3>2, <3>3
  <2> QED
    BY <2>1
<1>3. LastOf(P \cup {p}) = CHOOSE r \in P \cup {p} : Latest(r)
  BY DEF LastOf
<1> HIDE DEF Latest
<1>4. LET r == CHOOSE r \in P \cup {p} : Latest(r) IN r \in P \cup {p} /\ Latest(r)
  BY <1>1
<1> QED
  BY <1>2, <1>3, <1>4

(* One more place, later than the others: its probability is the one that  *)
(* counts.                                                                 *)
LEMMA MovedFurther ==
  ASSUME NEW c, ChainShape(c), NEW sent, NEW P, NEW s, NEW d, NEW i, NEW j,
         ComesNext(sent, P, s, d, i, j, c.states)
  PROVE  Moved(c.states, sent, With(P, s, d), last_state) =
           WithPlace(Moved(c.states, sent, P, last_state), i, j, ProbAt(sent, s, d))
<1> DEFINE n == Len(c.states)
           v == ReadProb(sent.probs[s][d])
           Q == P \cup {<<s, d>>}
           V(R, k, l) == IF Naming(sent, R, k, l, last_state) = {}
                           THEN c.states[k].move_tos[l]
                         ELSE LET p == LastOf(Naming(sent, R, k, l, last_state))
                              IN  ReadProb(sent.probs[p[1]][p[2]])
           T(R, k) == [l \in 1 .. Len(c.states[k].move_tos) |-> V(R, k, l)]
           S(R, k) == [c.states[k] EXCEPT !.move_tos = T(R, k)]
           M(R) == [k \in 1 .. n |-> S(R, k)]
<1>0. /\ P \in SUBSET (Int \X Int) /\ s \in Int /\ d \in Int
      /\ \A q \in P : Earlier(q, <<s, d>>)
      /\ i \in 1 .. n /\ j \in 1 .. n
      /\ Source(sent, s, last_state) = i - 1 /\ Dest(sent, d, last_state) = j - 1
  BY DEF ComesNext
<1>1. n \in Nat /\ \A k \in 1 .. n : StateShape(c.states[k], n)
  BY DEF ChainShape, IsSeq
<1>2. ASSUME NEW R
      PROVE  Moved(c.states, sent, R, last_state) = M(R)
  BY DEF Moved
<1>3. V(Q, i, j) = v
  <2>1. Naming(sent, Q, i, j, last_state) = Naming(sent, P, i, j, last_state) \cup {<<s, d>>}
    BY <1>0 DEF Naming
  <2> DEFINE earlier == Naming(sent, P, i, j, last_state)
             last == <<s, d>>
  <2>2. LastOf(earlier \cup {last}) = last
    <3>1. earlier \in SUBSET (Int \X Int) /\ \A q \in earlier : Earlier(q, last)
      BY <1>0 DEF Naming
    <3>2. last \in Int \X Int
      BY <1>0
    <3> HIDE DEF earlier, last
    <3> QED
      BY <3>1, <3>2, LastOfLater
  <2> DEFINE N == Naming(sent, Q, i, j, last_state)
             p == LastOf(N)
  <2>3. N # {} /\ p = <<s, d>>
    BY <2>1, <2>2
  <2>4. V(Q, i, j) = ReadProb(sent.probs[p[1]][p[2]])
    BY <2>3
  <2> HIDE DEF p
  <2>5. p[1] = s /\ p[2] = d
    BY <2>3
  <2> HIDE DEF V
  <2> QED
    BY <2>4, <2>5
<1>4. ASSUME NEW k \in 1 .. n, NEW l \in 1 .. n, ~ (k = i /\ l = j)
      PROVE  V(Q, k, l) = V(P, k, l)
  <2>1. ~ (Source(sent, s, last_state) = k - 1 /\ Dest(sent, d, last_state) = l - 1)
    BY <1>0, <1>1, <1>4
  <2>2. Naming(sent, Q, k, l, last_state) = Naming(sent, P, k, l, last_state)
    BY <2>1 DEF Naming
  <2> QED
    BY <2>2
<1> HIDE DEF V
<1>5. ASSUME NEW R, NEW k \in 1 .. n
      PROVE  T(R, k) = [l \in 1 .. n |-> V(R, k, l)]
  <2>1. Len(c.states[k].move_tos) = n
    BY <1>1 DEF StateShape
  <2> QED
    BY <2>1
<1> HIDE DEF T, v, Q
<1>6. T(Q, i) = [T(P, i) EXCEPT ![j] = v]
  <2>1. i \in 1 .. n /\ j \in 1 .. n
    BY <1>0
  <2>2. T(Q, i) = [l \in 1 .. n |-> V(Q, i, l)] /\ T(P, i) = [l \in 1 .. n |-> V(P, i, l)]
    BY <1>5, <2>1
  <2>3. \A l \in 1 .. n : l # j => V(Q, i, l) = V(P, i, l)
    BY <1>4, <2>1
  <2> DEFINE a == V(Q, i, j)
             before == [l \in 1 .. n |-> V(P, i, l)]
             after == [l \in 1 .. n |-> V(Q, i, l)]
  <2>4. after = [before EXCEPT ![j] = a]
    <3>1. \A l \in 1 .. n : after[l] = [before EXCEPT ![j] = a][l]
      BY <2>1, <2>3
    <3> QED
      BY <3>1
  <2> HIDE DEF a, before, after
  <2> QED
    BY <1>3, <2>2, <2>4 DEF before, after, a
<1>7. ASSUME NEW k \in 1 .. n, k # i
      PROVE  T(Q, k) = T(P, k)
  <2>1. T(Q, k) = [l \in 1 .. n |-> V(Q, k, l)] /\ T(P, k) = [l \in 1 .. n |-> V(P, k, l)]
    BY <1>5
  <2>2. \A l \in 1 .. n : V(Q, k, l) = V(P, k, l)
    BY <1>4, <1>7
  <2> HIDE DEF n
  <2> QED
    BY <2>1, <2>2
<1>8. S(Q, i) = [S(P, i) EXCEPT !.move_tos = [T(P, i) EXCEPT ![j] = v]]
        /\ S(P, i).move_tos = T(P, i)
  <2>1. c.states[i] = [x \in StateFields |-> c.states[i][x]]
    BY <1>0, <1>1 DEF StateShape
  <2> QED
    BY <1>6, <2>1 DEF StateFields
<1>9. ASSUME NEW k \in 1 .. n, k # i
      PROVE  S(Q, k) = S(P, k)
  BY <1>7, <1>9
<1> HIDE DEF S
<1>10. M(Q) = [M(P) EXCEPT ![i] = [S(P, i) EXCEPT !.move_tos = [T(P, i) EXCEPT ![j] = v]]]
  BY <1>8, <1>9
<1>11. M(P)[i] = S(P, i)
  BY <1>0
<1> HIDE DEF M
<1>12. [M(P) EXCEPT ![i].move_tos[j] = v]
         = [M(P) EXCEPT ![i] = [M(P)[i] EXCEPT !.move_tos = [M(P)[i].move_tos EXCEPT ![j] = v]]]
  OBVIOUS
<1>13. M(Q) = [M(P) EXCEPT ![i].move_tos[j] = v]
  BY <1>8, <1>10, <1>11, <1>12
<1> QED
  BY <1>2, <1>13 DEF Q, v, WithPlace, With, ProbAt

LEMMA MovedNothing ==
  ASSUME NEW c, ChainShape(c), NEW sent
  PROVE  Moved(c.states, sent, {}, last_state) = c.states
<1> DEFINE n == Len(c.states)
<1>1. ASSUME NEW i \in 1 .. n
      PROVE  Moved(c.states, sent, {}, last_state)[i] = c.states[i]
  <2> DEFINE old == c.states[i]
             table == [j \in 1 .. Len(old.move_tos) |-> old.move_tos[j]]
  <2>1. old = [x \in StateFields |-> old[x]] /\ table = old.move_tos
    BY DEF ChainShape, StateShape, IsSeq
  <2>2. \A j : Naming(sent, {}, i, j, last_state) = {}
    BY DEF Naming
  <2>3. Moved(c.states, sent, {}, last_state)[i] = [old EXCEPT !.move_tos = table]
    BY <2>2 DEF Moved
  <2> HIDE DEF old, table
  <2>4. [old EXCEPT !.move_tos = old.move_tos] = old
    BY <2>1
  <2> QED
    BY <2>1, <2>3, <2>4 DEF old
<1>2. /\ Moved(c.states, sent, {}, last_state)
           = [i \in 1 .. n |-> Moved(c.states, sent, {}, last_state)[i]]
      /\ c.states = [i \in 1 .. n |-> c.states[i]]
  BY DEF Moved, ChainShape, IsSeq
<1> QED
  BY <1>1, <1>2

LEMMA WithMovesShape ==
  ASSUME NEW config, DataShape(config), last_chain + 1 \in 1 .. Len(config),
         NEW sent, NEW places
  PROVE  LET new == WithMoves(config, sent, places, last_chain, last_state)
             k == last_chain + 1
         IN  /\ DataShape(new) /\ Len(new) = Len(config)
             /\ new[k].states = Moved(config[k].states, sent, places, last_state)
             /\ Len(new[k].states) = Len(config[k].states)
<1> DEFINE k == last_chain + 1
           c == [config[k] EXCEPT !.states = Moved(@, sent, places, last_state)]
           new == [config EXCEPT ![k] = c]
<1>1. ChainShape(config[k]) /\ IsSeq(config)
  BY DEF DataShape
<1>2. /\ ChainShape(c) /\ c.states = Moved(config[k].states, sent, places, last_state)
      /\ Len(c.states) = Len(config[k].states)
  BY <1>1, MovedShape
<1> HIDE DEF c
<1>3. /\ IsSeq(new) /\ Len(new) = Len(config) /\ new[k] = c
      /\ \A i \in 1 .. Len(config) \ {k} : new[i] = config[i]
  BY <1>1, ExceptIsSeq
<1>4. new = WithMoves(config, sent, places, last_chain, last_state)
  BY DEF WithMoves, c
<1> HIDE DEF new
<1>5. DataShape(new)
  <2>1. ASSUME NEW i \in 1 .. Len(config)
        PROVE  ChainShape(new[i])
    BY <1>2, <1>3 DEF DataShape
  <2> QED
    BY <1>3, <2>1 DEF DataShape
<1> QED
  BY <1>2, <1>3, <1>4, <1>5

LEMMA WithNoMoves ==
  ASSUME NEW config, DataShape(config), last_chain + 1 \in 1 .. Len(config), NEW sent
  PROVE  WithMoves(config, sent, {}, last_chain, last_state) = config
<1> DEFINE k == last_chain + 1
           c == config[k]
<1>1. ChainShape(c) /\ config = [i \in 1 .. Len(config) |-> config[i]]
  BY DEF DataShape, IsSeq
<1>2. Moved(c.states, sent, {}, last_state) = c.states
  BY <1>1, MovedNothing
<1>3. [c EXCEPT !.states = c.states] = c
  BY <1>1 DEF ChainShape
<1>4. WithMoves(config, sent, {}, last_chain, last_state) = [config EXCEPT ![k] = c]
  BY <1>2, <1>3 DEF WithMoves
<1> HIDE DEF k
<1>5. [config EXCEPT ![k] = config[k]] = config
  BY <1>1
<1> QED
  BY <1>4, <1>5

LEMMA WithMovesFurther ==
  ASSUME NEW config, DataShape(config), last_chain + 1 \in 1 .. Len(config),
         NEW sent, NEW P, NEW s, NEW d, NEW i, NEW j,
         ComesNext(sent, P, s, d, i, j, config[last_chain + 1].states)
  PROVE  WithMoves(config, sent, With(P, s, d), last_chain, last_state) =
           WithEntry(WithMoves(config, sent, P, last_chain, last_state),
                     last_chain + 1, i, j, ProbAt(sent, s, d))
<1> DEFINE k == last_chain + 1
           c == config[k]
           v == ProbAt(sent, s, d)
           old == Moved(c.states, sent, P, last_state)
           new == Moved(c.states, sent, With(P, s, d), last_state)
<1>1. ChainShape(c) /\ config = [x \in 1 .. Len(config) |-> config[x]]
  BY DEF DataShape, IsSeq
<1>2. new = [old EXCEPT ![i].move_tos[j] = v]
  <2>1. ComesNext(sent, P, s, d, i, j, c.states)
    OBVIOUS
  <2>2. new = WithPlace(old, i, j, v)
    <3> HIDE DEF c
    <3> QED
      BY <1>1, <2>1, MovedFurther
  <2> HIDE DEF new, old, v
  <2> QED
    BY <2>2 DEF WithPlace
<1>3. /\ WithMoves(config, sent, P, last_chain, last_state)
           = [config EXCEPT ![k] = [c EXCEPT !.states = old]]
      /\ WithMoves(config, sent, With(P, s, d), last_chain, last_state)
           = [config EXCEPT ![k] = [c EXCEPT !.states = new]]
  BY DEF WithMoves
<1>4. c = [x \in ChainFields |-> c[x]]
  BY <1>1 DEF ChainShape
<1> HIDE DEF k, c, v, old, new
<1> DEFINE before == [config EXCEPT ![k] = [c EXCEPT !.states = old]]
<1>5. before[k] = [c EXCEPT !.states = old] /\ before[k].states = old
  <2>1. k \in 1 .. Len(config)
    BY DEF k
  <2> QED
    BY <1>1, <1>4, <2>1 DEF ChainFields
<1>6. [before EXCEPT ![k].states[i].move_tos[j] = v]
        = [before EXCEPT ![k] = [before[k] EXCEPT !.states =
             [before[k].states EXCEPT ![i].move_tos[j] = v]]]
  OBVIOUS
<1>7. [before EXCEPT ![k] = [before[k] EXCEPT !.states = new]]
        = [config EXCEPT ![k] = [c EXCEPT !.states = new]]
  <2>1. [before[k] EXCEPT !.states = new] = [c EXCEPT !.states = new]
    <3>1. [[c EXCEPT !.states = old] EXCEPT !.states = new] = [c EXCEPT !.states = new]
      BY <1>4
    <3> QED
      BY <1>5, <3>1
  <2> QED
    BY <1>1, <2>1
<1> HIDE DEF before
<1>8. [before EXCEPT ![k].states[i].move_tos[j] = v]
        = [config EXCEPT ![k] = [c EXCEPT !.states = new]]
  BY <1>2, <1>5, <1>6, <1>7
<1> QED
  BY <1>3, <1>8 DEF k, v, before, WithEntry

-----------------------------------------------------------------------------
(* The steps of set_move_probs                                             *)
LEMMA MovingCopyShape ==
  ASSUME NEW m, NEW copy, MoveOK(m, copy)
  PROVE  LET k == last_chain + 1
         IN  /\ k \in 1 .. Len(m.before) /\ DataShape(copy) /\ ChainShape(m.before[k])
             /\ Len(copy) = Len(m.before)
             /\ Len(copy[k].states) = Len(m.before[k].states)
<1>1. DataShape(m.before) /\ last_chain \in 0 .. Len(m.before) - 1 /\ Len(m.before) \in Nat
  BY DEF MoveOK, DataShape, IsSeq
<1>2. last_chain + 1 \in 1 .. Len(m.before)
  BY <1>1
<1>3. \/ copy = m.before
      \/ copy = WithMoves(m.before, m.sent, PlacesBefore(m.sent, m.s, m.d),
                          last_chain, last_state)
  BY DEF MoveOK
<1>4. ChainShape(m.before[last_chain + 1])
  BY <1>1, <1>2 DEF DataShape
<1> QED
  BY <1>1, <1>2, <1>3, <1>4, WithMovesShape

LEMMA MovingKeepsIInv ==
  ASSUME IInv, connected, NEW m, MoveOK(m, data_copy), UNCHANGED <<data, connected, lasts>>,
         MoveOK(move', data_copy'), move'.before = m.before
  PROVE  IInv'
<1> DEFINE k == last_chain + 1
<1>1. /\ k \in 1 .. Len(m.before) /\ Len(data_copy) = Len(m.before)
      /\ Len(data_copy[k].states) = Len(m.before[k].states)
  BY MovingCopyShape
<1>2. /\ DataShape(data_copy') /\ Len(data_copy') = Len(m.before)
      /\ Len(data_copy'[k].states) = Len(m.before[k].states)
  BY MovingCopyShape
<1>3. LastsWithinData'
  BY <1>1, <1>2 DEF IInv, LastsWithinData, chain, lasts
<1>4. MoveInv'
  BY DEF MoveInv, MoveOK, lasts
<1> QED
  BY <1>2, <1>3, <1>4 DEF IInv, lasts

LEMMA MovingFacts ==
  ASSUME IInv, move # Idle
  PROVE  LET n == Len(move.before[last_chain + 1].states)
         IN  /\ connected /\ MoveOK(move, data_copy) /\ ~ ChainMissing /\ n \in Nat
             /\ Len(chain.states) = n /\ last_state \in -1 .. n - 1
<1>1. connected /\ MoveOK(move, data_copy)
  BY DEF IInv, MoveInv
<1>2. /\ last_chain + 1 \in 1 .. Len(move.before)
      /\ Len(data_copy) = Len(move.before) /\ ChainShape(move.before[last_chain + 1])
      /\ Len(chain.states) = Len(move.before[last_chain + 1].states)
  BY <1>1, MovingCopyShape DEF chain
<1>3. last_chain \in 0 .. Len(data_copy) - 1
  BY <1>1, <1>2 DEF MoveOK
<1> QED
  BY <1>1, <1>2, <1>3 DEF IInv, LastsWithinData, ChainMissing, ChainShape, IsSeq

LEMMA SetMoveProbsKeepsIInv ==
  ASSUME IInv, NEW sent \in RawTables, SetMoveProbs(sent)
  PROVE  IInv'
<1>1. CASE Rests
  BY <1>1, RestsKeepsIInv
<1>2. CASE ~ Rests
  <2> DEFINE begun == [pc |-> "states", sent |-> sent, named |-> 0, s |-> 1, d |-> 1,
                       before |-> data_copy]
  <2>1. /\ connected /\ move' = begun /\ last_chain >= 0 /\ ~ ChainMissing
        /\ UNCHANGED <<data, data_copy, connected, lasts>>
    BY <1>2 DEF SetMoveProbs, Ready, Refuse, Die, Rests
  <2>2. /\ last_chain \in 0 .. Len(data_copy) - 1 /\ DataShape(data_copy)
        /\ Len(data_copy) \in Nat
    BY <2>1 DEF IInv, DataShape, IsSeq, ChainMissing
  <2>3. MoveOK(begun, data_copy)
    <3>1. sent.dests # <<>> => 1 <= Len(sent.dests)
      BY SentLists
    <3>2. Len(Named(sent)) \in Nat
      BY SentLists
    <3> QED
      BY <2>2, <3>1, <3>2 DEF MoveOK, MoveFields
  <2>4. begun.before = data_copy
    OBVIOUS
  <2> HIDE DEF begun
  <2> QED
    BY <2>1, <2>3, <2>4, MovingKeepsIInv DEF lasts
<1> QED
  BY <1>1, <1>2

(* Another place, or none yet, while the lists or the probabilities are    *)
(* read.                                                                   *)
LEMMA ReadMoveStateKeepsIInv ==
  ASSUME IInv, ReadMoveState
  PROVE  IInv'
<1>1. CASE Rests
  BY <1>1, RestsKeepsIInv
<1>2. CASE ~ Rests
  <2> DEFINE n == Len(move.before[last_chain + 1].states)
             next == [move EXCEPT !.named = @ + 1]
             named == Named(move.sent)[move.named + 1]
  <2>1. /\ move.pc = "states" /\ move' = next /\ ~ StateMissing(ReadState(named, last_state))
        /\ ~ LoopOver /\ UNCHANGED <<data, data_copy, connected, lasts>>
    BY <1>2 DEF ReadMoveState, In, Refuse, Rests
  <2>2. move # Idle
    BY <2>1 DEF Idle
  <2>3. /\ connected /\ MoveOK(move, data_copy) /\ ~ ChainMissing /\ n \in Nat
        /\ Len(chain.states) = n /\ last_state \in -1 .. n - 1
    BY <2>2, MovingFacts
  <2>4. move.named \in 0 .. Len(Named(move.sent)) /\ move.named # Len(Named(move.sent))
    BY <2>1, <2>3 DEF MoveOK, LoopOver
  <2>5. /\ Len(Named(move.sent)) \in Nat
        /\ \A k \in 1 .. Len(Named(move.sent)) : Named(move.sent)[k] \in RawStates
    <3>1. move.sent \in RawTables
      BY <2>3 DEF MoveOK
    <3> QED
      BY <3>1, SentLists
  <2>6. move.named + 1 \in 1 .. Len(Named(move.sent)) /\ named \in RawStates
    BY <2>4, <2>5
  <2>7. ReadState(named, last_state) \in Int /\ ReadState(named, last_state) < n
    <3>1. ReadState(named, last_state) \in Int
      BY <2>3, <2>6, HandlersAssumption DEF ReadState, RawStates
    <3> QED
      BY <2>1, <2>3, <3>1 DEF StateMissing
  <2>8. /\ DOMAIN next = MoveFields /\ next.named = move.named + 1
        /\ next.pc = move.pc /\ next.sent = move.sent /\ next.s = move.s
        /\ next.d = move.d /\ next.before = move.before
    BY <2>3 DEF MoveOK, MoveFields
  <2> HIDE DEF next
  <2>9. \A k \in 1 .. next.named : ReadState(Named(move.sent)[k], last_state) < n
    <3>1. \A k \in 1 .. move.named : ReadState(Named(move.sent)[k], last_state) < n
      BY <2>3 DEF MoveOK
    <3>2. \A k \in 1 .. next.named : k \in 1 .. move.named \/ k = move.named + 1
      BY <2>4, <2>5, <2>8
    <3> QED
      BY <2>7, <3>1, <3>2
  <2>10. MoveOK(next, data_copy)
    BY <2>1, <2>3, <2>5, <2>6, <2>8, <2>9 DEF MoveOK
  <2> QED
    BY <2>1, <2>3, <2>8, <2>10, MovingKeepsIInv DEF lasts
<1> QED
  BY <1>1, <1>2

(* The place after one that is in the table.                               *)
LEMMA NextPlaceInTable ==
  ASSUME NEW copy, MoveOK(move, copy), move.pc \in {"probs", "write"}, ~ LoopOver, NextPlace
  PROVE  LET sent == move.sent
         IN  /\ move.s \in 1 .. Len(sent.sources) /\ move.d \in 1 .. Len(sent.dests)
             /\ DOMAIN move' = MoveFields /\ move'.pc = move.pc /\ move'.sent = sent
             /\ move'.named = move.named /\ move'.before = move.before
             /\ move'.s \in Nat \ {0} /\ move'.d \in 1 .. Len(sent.dests)
             /\ PlacesBefore(sent, move'.s, move'.d)
                  = PlacesBefore(sent, move.s, move.d) \cup {<<move.s, move.d>>}
<1> DEFINE sent == move.sent
<1>1. /\ DOMAIN move = MoveFields /\ sent \in RawTables
      /\ move.s \in Nat \ {0} /\ move.d \in Nat \ {0}
      /\ sent.dests # <<>> => move.d <= Len(sent.dests)
  BY DEF MoveOK
<1>2. ~ (move.s > Len(sent.sources)) /\ sent.dests # <<>>
  BY DEF LoopOver
<1>3. Len(sent.sources) \in Nat /\ Len(sent.dests) \in Nat
  BY <1>1, SentLists
<1>4. move.s \in 1 .. Len(sent.sources) /\ move.d \in 1 .. Len(sent.dests)
  BY <1>1, <1>2, <1>3
<1>5. PlacesBefore(sent, move.s, move.d) \cup {<<move.s, move.d>>} =
        IF move.d < Len(sent.dests) THEN PlacesBefore(sent, move.s, move.d + 1)
        ELSE PlacesBefore(sent, move.s + 1, 1)
  BY <1>3, <1>4, PlacesPass
<1>6. CASE move.d < Len(sent.dests)
  <2>1. move' = [move EXCEPT !.d = @ + 1]
    BY <1>6 DEF NextPlace
  <2>2. /\ DOMAIN move' = MoveFields /\ move'.pc = move.pc /\ move'.sent = sent
        /\ move'.named = move.named /\ move'.before = move.before
        /\ move'.s = move.s /\ move'.d = move.d + 1
    BY <1>1, <2>1 DEF MoveFields
  <2> QED
    BY <1>1, <1>3, <1>4, <1>5, <1>6, <2>2
<1>7. CASE ~ (move.d < Len(sent.dests))
  <2>1. move' = [move EXCEPT !.s = @ + 1, !.d = 1]
    BY <1>7 DEF NextPlace
  <2>2. /\ DOMAIN move' = MoveFields /\ move'.pc = move.pc /\ move'.sent = sent
        /\ move'.named = move.named /\ move'.before = move.before
        /\ move'.s = move.s + 1 /\ move'.d = 1
    BY <1>1, <2>1 DEF MoveFields
  <2> QED
    BY <1>1, <1>3, <1>4, <1>5, <1>7, <2>2
<1> QED
  BY <1>6, <1>7

LEMMA ReadMoveProbKeepsIInv ==
  ASSUME IInv, ReadMoveProb
  PROVE  IInv'
<1>1. /\ move.pc = "probs" /\ ~ LoopOver /\ NextPlace
      /\ UNCHANGED <<data, data_copy, connected, lasts>>
  BY DEF ReadMoveProb, In
<1>2. connected /\ MoveOK(move, data_copy)
  BY <1>1, MovingFacts DEF Idle
<1>3. /\ DOMAIN move' = MoveFields /\ move'.pc = move.pc /\ move'.sent = move.sent
      /\ move'.named = move.named /\ move'.before = move.before
      /\ move'.s \in Nat \ {0} /\ move'.d \in 1 .. Len(move.sent.dests)
  BY <1>1, <1>2, NextPlaceInTable
<1>4. Len(move.sent.dests) \in Nat
  BY <1>2, SentLists DEF MoveOK
<1>5. MoveOK(move', data_copy')
  BY <1>1, <1>2, <1>3, <1>4 DEF MoveOK
<1> QED
  BY <1>1, <1>2, <1>3, <1>5, MovingKeepsIInv DEF lasts

(* A state that the lists name is one of the chain, or none.               *)
LEMMA NamedByLists ==
  ASSUME IInv, move # Idle, move.pc = "write",
         NEW s \in 1 .. Len(move.sent.sources), NEW d \in 1 .. Len(move.sent.dests)
  PROVE  LET n == Len(move.before[last_chain + 1].states)
         IN  /\ n \in Nat
             /\ Source(move.sent, s, last_state) \in -1 .. n - 1
             /\ Dest(move.sent, d, last_state) \in -1 .. n - 1
<1> DEFINE n == Len(move.before[last_chain + 1].states)
           named == Named(move.sent)
<1>1. MoveOK(move, data_copy) /\ n \in Nat /\ last_state \in -1 .. n - 1
  BY MovingFacts
<1>2. \A k \in 1 .. Len(named) : ReadState(named[k], last_state) < n
  BY <1>1 DEF MoveOK
<1>3. /\ Len(move.sent.sources) \in Nat /\ Len(move.sent.dests) \in Nat
      /\ Len(named) = Len(move.sent.sources) + Len(move.sent.dests)
      /\ \A k \in 1 .. Len(named) : named[k] \in RawStates
      /\ move.sent.sources[s] = named[s]
      /\ move.sent.dests[d] = named[Len(move.sent.sources) + d]
  BY <1>1, SentLists DEF MoveOK
<1> HIDE DEF n, named
<1>4. ASSUME NEW raw \in RawStates
      PROVE  ReadState(raw, last_state) \in Int /\ ReadState(raw, last_state) >= -1
  BY <1>1, HandlersAssumption DEF ReadState, RawStates
<1>5. s \in 1 .. Len(named) /\ Len(move.sent.sources) + d \in 1 .. Len(named)
  <2>1. \A a, b \in Nat : \A x \in 1 .. a, y \in 1 .. b :
          x \in 1 .. a + b /\ a + y \in 1 .. a + b
    OBVIOUS
  <2> QED
    BY <1>3, <2>1
<1>6. Source(move.sent, s, last_state) = ReadState(named[s], last_state)
      /\ Dest(move.sent, d, last_state) = ReadState(named[Len(move.sent.sources) + d], last_state)
  BY <1>3 DEF Source, Dest
<1>7. Source(move.sent, s, last_state) \in -1 .. n - 1
        /\ Dest(move.sent, d, last_state) \in -1 .. n - 1
  <2>1. \A k \in 1 .. Len(named) :
          /\ ReadState(named[k], last_state) \in Int
          /\ -1 <= ReadState(named[k], last_state) /\ ReadState(named[k], last_state) < n
    BY <1>2, <1>3, <1>4 DEF n, named
  <2>2. n \in Nat
    BY <1>1 DEF n
  <2>3. \A k \in 1 .. Len(named) : ReadState(named[k], last_state) \in -1 .. n - 1
    BY <2>1, <2>2
  <2> QED
    BY <1>5, <1>6, <2>3
<1> QED
  BY <1>1, <1>7 DEF n

LEMMA WriteMoveKeepsIInv ==
  ASSUME IInv, WriteMove
  PROVE  IInv'
<1>1. CASE Rests
  BY <1>1, RestsKeepsIInv
<1>2. CASE ~ Rests
  <2> DEFINE sent == move.sent
             n == Len(move.before[last_chain + 1].states)
             done == PlacesBefore(sent, move.s, move.d)
             i == Source(sent, move.s, last_state) + 1
             j == Dest(sent, move.d, last_state) + 1
  <2>1. /\ move.pc = "write" /\ ~ LoopOver /\ NextPlace /\ data_copy' = Written
        /\ Source(sent, move.s, last_state) # -1 /\ Dest(sent, move.d, last_state) # -1
        /\ UNCHANGED <<data, connected, lasts>>
    BY <1>2 DEF WriteMove, In, Die, Rests, Row, Column
  <2>2. move # Idle
    BY <2>1 DEF Idle
  <2>3. connected /\ MoveOK(move, data_copy)
    BY <2>2, MovingFacts
  <2>4. /\ move.s \in 1 .. Len(sent.sources) /\ move.d \in 1 .. Len(sent.dests)
        /\ DOMAIN move' = MoveFields /\ move'.pc = move.pc /\ move'.sent = sent
        /\ move'.named = move.named /\ move'.before = move.before
        /\ move'.s \in Nat \ {0} /\ move'.d \in 1 .. Len(sent.dests)
        /\ PlacesBefore(sent, move'.s, move'.d) = done \cup {<<move.s, move.d>>}
    BY <2>1, <2>3, NextPlaceInTable
  <2>5. Len(sent.sources) \in Nat /\ Len(sent.dests) \in Nat
    BY <2>3, SentLists DEF MoveOK
  <2>6. /\ i \in 1 .. n /\ Source(sent, move.s, last_state) = i - 1
        /\ j \in 1 .. n /\ Dest(sent, move.d, last_state) = j - 1
    <3>1. /\ n \in Nat
          /\ Source(sent, move.s, last_state) \in -1 .. n - 1
          /\ Dest(sent, move.d, last_state) \in -1 .. n - 1
      BY <2>1, <2>2, <2>4, NamedByLists
    <3>2. \A m \in Nat : \A k \in -1 .. m - 1 :
            k # -1 => k + 1 \in 1 .. m /\ k = (k + 1) - 1
      OBVIOUS
    <3> HIDE DEF n
    <3> QED
      BY <2>1, <3>1, <3>2
  <2>7. done \in SUBSET (Int \X Int) /\ \A q \in done : Earlier(q, <<move.s, move.d>>)
    BY <2>5 DEF PlacesBefore, Places
  <2>8. DataShape(move.before) /\ last_chain + 1 \in 1 .. Len(move.before)
    BY <2>3, MovingCopyShape DEF MoveOK
  <2>9. data_copy = WithMoves(move.before, sent, done, last_chain, last_state)
    BY <2>1, <2>3 DEF MoveOK
  <2>10. data_copy' = WithEntry(data_copy, last_chain + 1, i, j,
                                ProbAt(sent, move.s, move.d))
    BY <2>1 DEF Written, Row, Column, WithEntry, ProbAt
  <2> HIDE DEF done, i, j
  <2>11. data_copy' = WithMoves(move.before, sent, done \cup {<<move.s, move.d>>},
                                last_chain, last_state)
    <3>1. ComesNext(move.sent, done, move.s, move.d, i, j,
                    move.before[last_chain + 1].states)
      <4>1. move.s \in Int /\ move.d \in Int
        BY <2>4
      <4> HIDE DEF sent
      <4>2. ComesNext(sent, done, move.s, move.d, i, j, move.before[last_chain + 1].states)
        BY <2>6, <2>7, <4>1 DEF ComesNext
      <4> QED
        BY <4>2 DEF sent
    <3>2. WithMoves(move.before, sent, With(done, move.s, move.d), last_chain, last_state)
            = WithEntry(WithMoves(move.before, sent, done, last_chain, last_state),
                        last_chain + 1, i, j, ProbAt(sent, move.s, move.d))
      BY <2>8, <3>1, WithMovesFurther
    <3> QED
      BY <2>9, <2>10, <3>2 DEF With
  <2>12. MoveOK(move', data_copy')
    BY <2>1, <2>3, <2>4, <2>5, <2>11 DEF MoveOK
  <2> QED
    BY <2>1, <2>3, <2>4, <2>12, MovingKeepsIInv DEF lasts
<1> QED
  BY <1>1, <1>2

(* The copy is as it was found before the first place is written, and has  *)
(* all of the places after the last one.                                   *)
LEMMA WrittenAtTheEnd ==
  ASSUME NEW copy, MoveOK(move, copy), move.pc = "write", LoopOver
  PROVE  copy = WithMoves(move.before, move.sent, Places(move.sent), last_chain, last_state)
<1>1. /\ move.sent \in RawTables /\ move.s \in Nat \ {0} /\ move.d \in Nat \ {0}
      /\ copy = WithMoves(move.before, move.sent, PlacesBefore(move.sent, move.s, move.d),
                          last_chain, last_state)
  BY DEF MoveOK
<1>2. move.s > Len(move.sent.sources) \/ Len(move.sent.dests) = 0
  BY <1>1, SentLists DEF LoopOver
<1>3. PlacesBefore(move.sent, move.s, move.d) = Places(move.sent)
  BY <1>1, <1>2, SentLists, PlacesPass
<1> QED
  BY <1>1, <1>3

LEMMA NextLoopKeepsIInv ==
  ASSUME IInv, NextLoop
  PROVE  IInv'
<1>1. CASE Rests
  BY <1>1, RestsKeepsIInv
<1>2. CASE ~ Rests
  <2>1. PICK loop \in {"probs", "write"} :
          /\ Enter(loop) /\ LoopOver /\ move # Idle
          /\ loop = "write" <=> move.pc = "probs"
          /\ loop = "probs" <=> move.pc = "states"
    BY <1>2 DEF NextLoop, Accept, Rests, lasts
  <2>2. connected /\ MoveOK(move, data_copy)
    BY <2>1, MovingFacts
  <2>3. /\ DOMAIN move' = MoveFields /\ move'.pc = loop /\ move'.sent = move.sent
        /\ move'.named = move.named /\ move'.before = move.before
        /\ move'.s = 1 /\ move'.d = 1
        /\ UNCHANGED <<data, data_copy, connected, lasts>>
    BY <2>1, <2>2 DEF Enter, MoveOK, MoveFields
  <2>4. /\ DataShape(move.before) /\ last_chain + 1 \in 1 .. Len(move.before)
        /\ data_copy = move.before
    BY <2>1, <2>2, MovingCopyShape DEF MoveOK
  <2>5. WithMoves(move.before, move.sent, PlacesBefore(move.sent, 1, 1),
                  last_chain, last_state) = move.before
    <3>1. PlacesBefore(move.sent, 1, 1) = {}
      BY <2>2, SentLists, PlacesPass DEF MoveOK
    <3> QED
      BY <2>4, <3>1, WithNoMoves
  <2>6. move.named = Len(Named(move.sent))
    BY <2>1, <2>2 DEF MoveOK, LoopOver
  <2>7. move.sent.dests # <<>> => 1 <= Len(move.sent.dests)
    BY <2>2, SentLists DEF MoveOK
  <2>8. MoveOK(move', data_copy')
    BY <2>2, <2>3, <2>4, <2>5, <2>6, <2>7 DEF MoveOK
  <2> QED
    BY <2>2, <2>3, <2>8, MovingKeepsIInv DEF lasts
<1> QED
  BY <1>1, <1>2

LEMMA MoveNotFullyKeepsIInv ==
  ASSUME IInv, MoveNotFully
  PROVE  IInv'
<1>1. /\ move.pc \in {"states", "probs"}
      /\ move' = [move EXCEPT !.pc = "states", !.named = 0, !.s = 1, !.d = 1]
      /\ UNCHANGED <<data, data_copy, connected, lasts>>
  BY DEF MoveNotFully, Reading, In
<1>2. connected /\ MoveOK(move, data_copy)
  BY <1>1, MovingFacts DEF Idle
<1>3. /\ DOMAIN move' = MoveFields /\ move'.pc = "states" /\ move'.sent = move.sent
      /\ move'.named = 0 /\ move'.before = move.before
      /\ move'.s = 1 /\ move'.d = 1
  BY <1>1, <1>2 DEF MoveOK, MoveFields
<1>4. /\ move.sent.dests # <<>> => 1 <= Len(move.sent.dests)
      /\ Len(Named(move.sent)) \in Nat
  BY <1>2, SentLists DEF MoveOK
<1>5. MoveOK(move', data_copy')
  BY <1>1, <1>2, <1>3, <1>4 DEF MoveOK
<1> QED
  BY <1>1, <1>2, <1>3, <1>5, MovingKeepsIInv DEF lasts

-----------------------------------------------------------------------------
(* A new chain has no states: the index of the last one becomes -1.        *)
LEMMA ChainAllocShape ==
  ASSUME NEW name
  PROVE  ChainShape(chain_alloc(name)) /\ Len(chain_alloc(name).states) = 0
<1> DEFINE new == chain_alloc(name)
<1>1. IsSeq(<<>>) /\ Len(<<>>) = 0
  BY EmptySeq, SeqIsSeq
<1>2. AddressList(<<>>)
  BY <1>1 DEF AddressList
<1>3. FilterShape(NewFilter)
  BY <1>2 DEF FilterShape, FilterFields, NewFilter
<1>4. MeansAsked(NewFilter, NothingAsked)
  <2>1. /\ ListAsSent(<<>>, <<>>)
        /\ MaskFor(0 .. ProtocolBytes * ByteBits - 1, FullMask(ProtocolBytes, TRUE),
                   ProtocolBytes)
        /\ MaskFor(0 .. TosBytes * ByteBits - 1, FullMask(TosBytes, TRUE), TosBytes)
    BY FullMaskForAll, FiltersAssumption DEF ListAsSent
  <2>2. LengthsAsSent(NewFilter, NothingAsked)
    BY FiltersAssumption DEF LengthsAsSent, NewFilter, NothingAsked, ReadWhichLength
  <2>3. DOMAIN NothingAsked = AskedFields
    BY DEF NothingAsked, AskedFields
  <2> QED
    BY <2>1, <2>2, <2>3 DEF MeansAsked, NewFilter, NothingAsked
<1>5. /\ new = [x \in ChainFields |-> new[x]] /\ new.states = <<>>
      /\ new.filter = NewFilter /\ new.asked = NothingAsked
  BY DEF chain_alloc, ChainFields
<1> QED
  BY <1>1, <1>3, <1>4, <1>5 DEF ChainShape

LEMMA NewChainKeepsIInv ==
  ASSUME IInv, NEW name, NewChain(name)
  PROVE  IInv'
<1> DEFINE new == chain_alloc(name)
<1>1. IsSeq(data_copy) /\ Len(data_copy) \in Nat
  BY DEF IInv, DataShape, IsSeq
<1>2. ChainShape(new) /\ Len(new.states) = 0
  BY ChainAllocShape
<1>3. data_copy' = Append(data_copy, new)
      /\ last_chain' = Len(data_copy) /\ last_state' = -1
      /\ data' = data /\ connected' = connected /\ connected /\ move' = Idle
  BY DEF NewChain, Accept, Ready
<1> HIDE DEF new
<1>4. /\ IsSeq(data_copy') /\ Len(data_copy') = Len(data_copy) + 1
      /\ \A i \in 1 .. Len(data_copy) : data_copy'[i] = data_copy[i]
      /\ data_copy'[Len(data_copy) + 1] = new
  BY <1>1, <1>3, AppendIsSeq
<1>5. DataShape(data_copy')
  BY <1>1, <1>2, <1>4 DEF IInv, DataShape
<1>6. LastsWithinData'
  BY <1>1, <1>2, <1>3, <1>4 DEF LastsWithinData, chain
<1>7. MoveInv'
  BY <1>3 DEF MoveInv
<1> QED
  BY <1>1, <1>3, <1>5, <1>6, <1>7 DEF IInv

(* A new state is the last one of its chain, whose tables are widened.     *)
LEMMA NewStateKeepsIInv ==
  ASSUME IInv, NEW name, NewState(name)
  PROVE  IInv'
<1>1. CASE Rests
  BY <1>1, RestsKeepsIInv
<1>2. CASE ~ Rests
  <2> DEFINE d == [chain EXCEPT !.states = WithNewState(chain.states, name)]
             k == last_chain + 1
             e == [data_copy EXCEPT ![k] = d]
  <2>1. /\ ~ ChainMissing /\ last_chain >= 0 /\ connected
        /\ data_copy' = e
        /\ last_state' = Len(chain.states)
        /\ last_chain' = last_chain /\ data' = data /\ connected' = connected
        /\ move' = Idle
    <3>1. [data_copy EXCEPT ![k].states = WithNewState(@, name)] = e
      BY DEF chain
    <3> QED
      BY <1>2, <3>1 DEF NewState, Rests, Refuse, Die, Accept, Ready, lasts
  <2>2. k \in 1 .. Len(data_copy) /\ ChainShape(chain)
    BY <2>1, LastChainShape
  <2>3. ChainShape(d) /\ Len(d.states) = Len(chain.states) + 1
    BY <2>2, WithNewStateShape
  <2>4. IsSeq(data_copy) /\ Len(data_copy) \in Nat /\ Len(chain.states) \in Nat
    BY <2>2 DEF IInv, DataShape, ChainShape, IsSeq
  <2> HIDE DEF d
  <2>5. /\ IsSeq(e) /\ Len(e) = Len(data_copy) /\ e[k] = d
        /\ \A i \in 1 .. Len(data_copy) \ {k} : e[i] = data_copy[i]
    BY <2>2, <2>4, ExceptIsSeq
  <2> HIDE DEF e
  <2>6. DataShape(e)
    <3>1. ASSUME NEW i \in 1 .. Len(data_copy)
          PROVE  ChainShape(e[i])
      BY <2>3, <2>5 DEF IInv, DataShape
    <3> QED
      BY <2>5, <3>1 DEF DataShape
  <2>7. LastsWithinData'
    BY <2>1, <2>3, <2>4, <2>5 DEF LastsWithinData, chain
  <2>8. MoveInv'
    BY <2>1 DEF MoveInv
  <2> QED
    BY <2>1, <2>4, <2>6, <2>7, <2>8 DEF IInv
<1> QED
  BY <1>1, <1>2

(* Without chains nothing is within the data; the indices stay.            *)
LEMMA ClearAllKeepsIInv ==
  ASSUME IInv, ClearAll
  PROVE  IInv'
<1>1. IsSeq(<<>>) /\ Len(<<>>) = 0
  BY EmptySeq, SeqIsSeq
<1>2. /\ data_copy' = <<>> /\ connected /\ UNCHANGED <<data, connected, lasts>>
      /\ move' = Idle
  BY DEF ClearAll, Accept, Ready
<1>3. DataShape(data_copy')
  BY <1>1, <1>2 DEF DataShape
<1>4. LastsWithinData'
  BY <1>1, <1>2 DEF LastsWithinData
<1>5. MoveInv'
  BY <1>2 DEF MoveInv
<1> QED
  BY <1>2, <1>3, <1>4, <1>5 DEF IInv, lasts

(* The duplicate has as many chains and states as the copy that was        *)
(* installed, so the indices left from its connection fit it.              *)
LEMMA OpenKeepsIInv ==
  ASSUME IInv, Open
  PROVE  IInv'
<1> DEFINE e == data_duplicate(data)
<1>1. /\ ~ connected /\ connected' /\ data_copy' = e
      /\ UNCHANGED <<data, lasts, move>>
  BY DEF Open
<1>2. DataShape(data) /\ data_copy = data
  BY <1>1 DEF IInv
<1>3. /\ DataShape(e) /\ Len(e) = Len(data)
      /\ \A k \in 1 .. Len(data) : Len(e[k].states) = Len(data[k].states)
  BY <1>2, DuplicateShape
<1> HIDE DEF e
<1>4. Len(data) \in Nat
  BY <1>2 DEF DataShape, IsSeq
<1>5. LastsWithinData'
  <2> SUFFICES ASSUME last_chain \in 0 .. Len(data) - 1
               PROVE  last_state \in -1 .. Len(e[last_chain + 1].states) - 1
    BY <1>1, <1>3 DEF LastsWithinData, chain, lasts
  <2> QED
    BY <1>2, <1>3, <1>4 DEF IInv, LastsWithinData, chain
<1>6. MoveInv'
  BY <1>1 DEF IInv, MoveInv
<1> QED
  BY <1>1, <1>3, <1>5, <1>6 DEF IInv, lasts

LEMMA CloseKeepsIInv ==
  ASSUME IInv, Close
  PROVE  IInv'
<1>1. MoveInv'
  BY DEF Close, MoveInv
<1> QED
  BY <1>1 DEF IInv, Close, lasts, LastsWithinData, chain

-----------------------------------------------------------------------------
(* The invariant holds for ever.                                           *)
THEOREM HandlersInvariant == Spec => []IInv
<1>1. Init => IInv
  <2>1. IsSeq(<<>>) /\ Len(<<>>) = 0
    BY EmptySeq, SeqIsSeq
  <2>2. DataShape(<<>>)
    BY <2>1 DEF DataShape
  <2> QED
    BY <2>1, <2>2 DEF Init, IInv, LastsWithinData, MoveInv
<1>2. IInv /\ [Next]_vars => IInv'
  <2> SUFFICES ASSUME IInv, [Next]_vars
               PROVE  IInv'
    OBVIOUS
  <2>1. ASSUME NEW name \in Names, NewChain(name) PROVE IInv'
    BY <2>1, NewChainKeepsIInv
  <2>2. ASSUME NEW name \in Names, NewState(name) PROVE IInv'
    BY <2>2, NewStateKeepsIInv
  <2>3. CASE MoveStep
    BY <2>3, SetMoveProbsKeepsIInv, ReadMoveStateKeepsIInv, ReadMoveProbKeepsIInv,
       WriteMoveKeepsIInv, NextLoopKeepsIInv, MoveNotFullyKeepsIInv
    DEF MoveStep, MoveInTable
  <2>4. CASE FilterStep
    <3>1. CASE Rests
      BY <3>1, RestsKeepsIInv
    <3>2. CASE ~ Rests
      <4>1. PICK f, asked : /\ FilterShape(f) /\ MeansAsked(f, asked)
                            /\ EditsLast([chain EXCEPT !.filter = f, !.asked = asked])
        BY <2>4, <3>2, FilterOutcome DEF FilterEdit
      <4> DEFINE d == [chain EXCEPT !.filter = f, !.asked = asked]
      <4>2. EditsLast(d)
        BY <4>1
      <4>3. ChainShape(chain)
        BY <4>2, LastChainShape DEF EditsLast
      <4>4. ChainShape(d) /\ Len(d.states) = Len(chain.states)
        BY <4>1, <4>3, SameStatesKeepShape
      <4> HIDE DEF d
      <4> QED
        BY <4>2, <4>4, EditsLastKeepsIInv
    <3> QED
      BY <3>1, <3>2
  <2>5. CASE StateStep
    <3>1. CASE Rests
      BY <3>1, RestsKeepsIInv
    <3>2. CASE ~ Rests
      <4>1. PICK s \in Int : \E t : EditsState(s, t) /\ KeepsMoves(s, t)
        BY <2>5, <3>2, StateStepOutcome DEF StateEdit
      <4>2. PICK t : EditsState(s, t) /\ KeepsMoves(s, t)
        BY <4>1
      <4> DEFINE d == [chain EXCEPT !.states = [chain.states EXCEPT ![s + 1] = t]]
      <4>3. ChainShape(chain) /\ EditsLast(d)
        BY <4>2, LastChainShape DEF EditsState, EditsLast
      <4>4. s + 1 \in 1 .. Len(chain.states)
        BY <4>2, NamedStateShape
      <4>5. ChainShape(d) /\ Len(d.states) = Len(chain.states)
        BY <4>2, <4>3, <4>4, SameMovesKeepShape DEF KeepsMoves
      <4> HIDE DEF d
      <4> QED
        BY <4>3, <4>5, EditsLastKeepsIInv
    <3> QED
      BY <3>1, <3>2
  <2>6. CASE ClearAll
    BY <2>6, ClearAllKeepsIInv
  <2>7. CASE Open
    BY <2>7, OpenKeepsIInv
  <2>8. CASE EndConnection \/ ClientGone
    BY <2>8, CloseKeepsIInv DEF EndConnection, ClientGone
  <2>9. CASE UnknownWhich
    BY <2>9, RestsKeepsIInv DEF UnknownWhich, Die, Rests
  <2>10. CASE UNCHANGED vars
    BY <2>10, RestsKeepsIInv DEF vars, Rests, lasts
  <2> QED
    BY <2>1, <2>2, <2>3, <2>4, <2>5, <2>6, <2>7, <2>8, <2>9, <2>10 DEF Next
<1> QED
  BY <1>1, <1>2, PTL DEF Spec

LEMMA ConfigurationShape ==
  ASSUME IInv, NEW config \in Configurations, NEW c \in ChainsOf(config),
         NEW i \in 1 .. Len(c.states)
  PROVE  StateShape(c.states[i], Len(c.states))
<1>1. DataShape(config)
  BY DEF IInv, Configurations
<1>2. ChainShape(c)
  BY <1>1 DEF DataShape, ChainsOf
<1> QED
  BY <1>2 DEF ChainShape

(* The move tables stay square, whatever the client edits in whatever      *)
(* order: the switcher never walks off a row (switcher.c:210-222).         *)
THEOREM TablesStaySquare == Spec => []SquareTables
<1>1. IInv => SquareTables
  <2> SUFFICES ASSUME IInv, NEW config \in Configurations, NEW c \in ChainsOf(config),
                      NEW i \in 1 .. Len(c.states)
               PROVE  Len(c.states[i].move_tos) = Len(c.states)
    BY DEF SquareTables
  <2>1. StateShape(c.states[i], Len(c.states))
    BY ConfigurationShape
  <2> QED
    BY <2>1 DEF StateShape
<1> QED
  BY <1>1, HandlersInvariant, PTL

(* last_state never points behind the states of the last chain, although   *)
(* it outlives chains, clear_all and connections (iface.c:497-528).        *)
THEOREM LastsStayWithinData == Spec => []LastsWithinData
<1>1. IInv => LastsWithinData
  BY DEF IInv
<1> QED
  BY <1>1, HandlersInvariant, PTL

(* set_move_probs makes all of its changes or none, however the client's   *)
(* lists end: their errors are found in their middle, before anything is   *)
(* written, and what is written is what the last mention of each place     *)
(* says (iface_handlers.c:269-369).                                        *)
THEOREM MovesAreWholeOrNothing == Spec => WholeOrNothing
<1> DEFINE Ends == move # Idle /\ move' = Idle
           Whole == data_copy' =
                      IF reply' # "OK" THEN move.before
                      ELSE [move.before EXCEPT ![last_chain + 1].states =
                              Moved(@, move.sent, Places(move.sent), last_state)]
<1>1. ASSUME IInv, [Next]_vars, Ends
      PROVE  Whole
  <2>1. connected /\ MoveOK(move, data_copy) /\ DOMAIN move = MoveFields
    BY <1>1, MovingFacts DEF MoveOK
  <2>2. ~ Ready
    BY <1>1 DEF Ready
  <2>3. CASE ReadMoveState
    <3>1. [move EXCEPT !.named = @ + 1] # Idle
      BY <2>1 DEF MoveFields, Idle
    <3>2. move.pc = "states" /\ data_copy' = data_copy /\ reply' # "OK"
      BY <1>1, <2>3, <3>1 DEF ReadMoveState, In, Refuse
    <3> QED
      BY <2>1, <3>2 DEF MoveOK
  <2>4. CASE ReadMoveProb \/ WriteMove
    <3>1. ~ NextPlace
      BY <1>1, <2>1 DEF NextPlace, MoveFields, Idle
    <3> QED
      BY <1>1, <2>4, <3>1 DEF ReadMoveProb, WriteMove, Die
  <2>5. CASE NextLoop
    <3>1. \A loop : ~ Enter(loop)
      BY <1>1, <2>1 DEF Enter, MoveFields, Idle
    <3>2. move.pc = "write" /\ LoopOver /\ reply' = "OK" /\ data_copy' = data_copy
      BY <2>5, <3>1 DEF NextLoop, Accept
    <3>3. data_copy = WithMoves(move.before, move.sent, Places(move.sent), last_chain, last_state)
      BY <2>1, <3>2, WrittenAtTheEnd
    <3> QED
      BY <3>2, <3>3 DEF WithMoves
  <2>6. CASE MoveNotFully
    BY <1>1, <2>1, <2>6 DEF MoveNotFully, MoveFields, Idle
  <2>7. CASE ClientGone
    <3>1. /\ move.pc \in {"states", "probs"} /\ data_copy' = data_copy /\ reply' # "OK"
      BY <2>2, <2>7 DEF ClientGone, Reading, In, Close
    <3> QED
      BY <2>1, <3>1 DEF MoveOK
  <2>8. CASE UnknownWhich \/ UNCHANGED vars
    BY <1>1, <2>8 DEF UnknownWhich, Die, vars
  <2>9. CASE Open
    BY <2>1, <2>9 DEF Open
  <2>10. CASE \E sent \in RawTables : SetMoveProbs(sent)
    BY <2>2, <2>10 DEF SetMoveProbs
  <2>11. CASE FilterStep
    BY <2>2, <2>11 DEF FilterStep, SetSource, SetDest, SetProtocol, SetTos, SetLengthMin,
       SetLengthMax, SetWhichLength, OnChain
  <2>12. CASE StateStep
    BY <2>2, <2>12 DEF StateStep, SetDropDelayProb, SetDelayType, SetSplitLinearPoints,
       SetLambda, SetTimeFactor, SetStableDelayProb, OnState
  <2>13. CASE ClearAll \/ EndConnection \/ \E name \in Names : NewChain(name) \/ NewState(name)
    BY <2>2, <2>13 DEF ClearAll, EndConnection, NewChain, NewState
  <2> QED
    BY <1>1, <2>3, <2>4, <2>5, <2>6, <2>7, <2>8, <2>9, <2>10, <2>11, <2>12, <2>13
    DEF Next, MoveStep, MoveInTable
<1>2. IInv /\ [Next]_vars => [Ends => Whole]_vars
  BY <1>1
<1> QED
  BY <1>2, HandlersInvariant, PTL DEF Spec, WholeOrNothing

(* A state that delays by points has points of its own: none that were     *)
(* freed with an earlier type, and nothing that malloc left there          *)
(* (iface_handlers.c:626-637, iface.c:149-164 and 233-239).                *)
THEOREM PointsAlwaysOwned == Spec => []PointsAreOwned
<1>1. IInv => PointsAreOwned
  <2> SUFFICES ASSUME IInv, NEW config \in Configurations, NEW c \in ChainsOf(config),
                      NEW i \in 1 .. Len(c.states),
                      c.states[i].delay_function.type = "SPLIT_LINEAR"
               PROVE  c.states[i].delay_function.points # Unset
    BY DEF PointsAreOwned
  <2>1. StateShape(c.states[i], Len(c.states))
    BY ConfigurationShape
  <2> QED
    BY <2>1 DEF StateShape, FunctionShape
<1> QED
  BY <1>1, HandlersInvariant, PTL

(* What a member of a list is read as, of what its client sent.            *)
LEMMA SpecAsAsked ==
  ASSUME NEW spec \in SentSpec, spec.net_mask < AddressBits,
         Ended(spec.port_ranges, EndOfRanges),
         NEW read, read.ip = spec.ip, read.net_mask = ReadInt(spec.net_mask),
         read.port_ranges = ReadPortRanges(spec.port_ranges),
         NEW ip \in Addresses, NEW port \in Int, port # NoPort => Ranges(spec) # {}
  PROVE  FitsSpec(read, ip, port) <=>
           /\ \A b \in 0 .. AddressBits - 1 :
                b >= spec.net_mask => BitOf(ip, b) = BitOf(spec.ip, b)
           /\ \/ port = NoPort \/ Ranges(spec) = {}
              \/ \E r \in Ranges(spec) : r.start <= port /\ port <= r.end
<1> DEFINE m == ReadInt(spec.net_mask)
           ranges == ReadPortRanges(spec.port_ranges)
<1>1. /\ AddressBits \in Nat \ {0} /\ spec.ip \in Addresses /\ spec.net_mask \in Int
      /\ spec.port_ranges \in Seq(PortRanges)
  BY FiltersAssumption DEF SentSpec
<1>2. SameNet(read, ip) <=>
        \A b \in 0 .. AddressBits - 1 :
          b >= spec.net_mask => BitOf(ip, b) = BitOf(spec.ip, b)
  <2>1. m \in 0 .. AddressBits - 1
    BY <1>1 DEF ReadInt
  <2>2. m % AddressBits = m
    <3>1. \A a \in Nat : \A n \in Nat : a < n => (a % n) = a
      OBVIOUS
    <3> QED
      BY <1>1, <2>1, <3>1
  <2>3. \A b \in 0 .. AddressBits - 1 : b >= spec.net_mask <=> b \in m .. AddressBits - 1
    BY <1>1 DEF ReadInt
  <2> HIDE DEF m
  <2>4. SameNet(read, ip) <=> spec.ip \div PowerOfTwo[m] = ip \div PowerOfTwo[m]
    <3>1. read.net_mask % AddressBits = m
      BY <2>2 DEF m
    <3> QED
      BY <3>1, Zenon DEF SameNet
  <2>5. SameNet(read, ip) <=>
          \A b \in m .. AddressBits - 1 : BitOf(spec.ip, b) = BitOf(ip, b)
    BY <1>1, <2>1, <2>4, SamePrefixes, Zenon
  <2>6. m .. AddressBits - 1 \subseteq 0 .. AddressBits - 1
    BY <1>1, <2>1
  <2> HIDE DEF SameNet, BitOf
  <2> QED
    BY <2>3, <2>5, <2>6
<1>3. /\ Len(ranges) \in Nat
      /\ Ranges(spec) = {ranges[r] : r \in 1 .. Len(ranges)}
  <2>1. /\ ranges \in Seq(PortRanges)
        /\ Members(spec.port_ranges, EndOfRanges) = 1 .. Len(ranges)
        /\ \A r \in 1 .. Len(ranges) : ranges[r] = spec.port_ranges[r]
    BY <1>1, ReadPortRangesIsList
  <2>2. Ranges(spec) = {spec.port_ranges[r] : r \in Members(spec.port_ranges, EndOfRanges)}
    BY DEF Ranges
  <2> HIDE DEF ranges
  <2> QED
    BY <2>1, <2>2, LenProperties
<1> HIDE DEF ranges
<1>4. (\E r \in 1 .. Len(ranges) : ranges[r].start <= port /\ port <= ranges[r].end)
        <=> \E r \in Ranges(spec) : r.start <= port /\ port <= r.end
  BY <1>3
<1>5. FitsSpec(read, ip, port) <=>
        /\ SameNet(read, ip)
        /\ \/ port = NoPort
           \/ \E r \in 1 .. Len(ranges) : ranges[r].start <= port /\ port <= ranges[r].end
  BY DEF FitsSpec, ranges
<1> QED
  BY <1>2, <1>4, <1>5

(* The addresses that a list lets pass are those that it was sent with.    *)
LEMMA AddressFilterAsAsked ==
  ASSUME NEW specs, NEW sent, ListAsSent(specs, sent),
         NEW ip \in Addresses, NEW port \in Int, AgreedAddress(sent, port)
  PROVE  is_in_ip_filter(specs, ip, port) = {AskedAddress(sent, ip, port)}
<1>1. CASE sent = <<>>
  <2>1. specs = <<>>
    <3>1. ~ Ended(<<>>, EndOfList)
      BY EmptySeq DEF Ended
    <3> QED
      BY <1>1, <3>1, HandlersAssumption DEF ListAsSent
  <2>2. <<>> # <<LeftByMalloc>>
    OBVIOUS
  <2>3. is_in_ip_filter(specs, ip, port) = {TRUE}
    BY <2>1, <2>2 DEF is_in_ip_filter
  <2>4. AskedAddress(sent, ip, port) = TRUE
    BY <1>1 DEF AskedAddress
  <2> QED
    BY <2>3, <2>4
<1>2. CASE sent # <<>>
  <2> DEFINE front == Before(sent, EndOfList)
             Fits(i) == /\ \A b \in 0 .. AddressBits - 1 :
                             b >= sent[i].net_mask => BitOf(ip, b) = BitOf(sent[i].ip, b)
                        /\ \/ port = NoPort \/ Ranges(sent[i]) = {}
                           \/ \E r \in Ranges(sent[i]) : r.start <= port /\ port <= r.end
  <2>1. sent \in RawFilters /\ specs = ReadIPFilter(sent)
    BY <1>2 DEF ListAsSent
  <2>2. sent \in Seq(SentSpec) /\ Ended(sent, EndOfList)
    BY <2>1, HandlersAssumption DEF SentSpec, PortRanges
  <2>3. /\ front \in Seq(SentSpec) /\ Members(sent, EndOfList) = 1 .. Len(front)
        /\ \A i \in 1 .. Len(front) : i \in 1 .. Len(sent) /\ front[i] = sent[i]
    BY <2>2, ReadSpecsIsList
  <2>4. /\ Len(front) \in Nat
        /\ \A i \in 1 .. Len(front) : front[i] \in SentSpec
    BY <2>3, LenProperties, ElementOfSeq
  <2> HIDE DEF front
  <2>5. 1 .. Len(front) # {} /\ front # <<>>
    <3>1. 1 .. Len(front) # {}
      BY <1>2, <2>3 DEF AgreedAddress
    <3> QED
      BY <2>4, <3>1, EmptySeq
  <2>6. specs = [i \in 1 .. Len(front) |->
                   [ip |-> front[i].ip, net_mask |-> ReadInt(front[i].net_mask),
                    port_ranges |-> ReadPortRanges(front[i].port_ranges)]]
    BY <2>1, <2>5 DEF ReadIPFilter, front
  <2>7. Len(specs) = Len(front)
    BY <2>4, <2>6, FunctionIsSeq
  <2>8. specs # <<>> /\ specs # <<LeftByMalloc>>
    <3>1. 1 \in 1 .. Len(front)
      BY <2>4, <2>5
    <3>2. specs[1].ip = front[1].ip /\ front[1].ip \in Addresses
      BY <2>4, <2>6, <3>1 DEF SentSpec
    <3>3. -1 \notin Addresses
      BY DEF Addresses
    <3>4. <<LeftByMalloc>>[1].ip = -1
      BY DEF LeftByMalloc
    <3> QED
      BY <2>7, <3>1, <3>2, <3>3, <3>4, EmptySeq
  <2>9. ASSUME NEW i \in 1 .. Len(front)
        PROVE  FitsSpec(specs[i], ip, port) <=> Fits(i)
    <3>1. sent[i] \in SentSpec /\ front[i] = sent[i] /\ i \in 1 .. Len(sent)
      BY <2>3, <2>4
    <3>2. sent[i].net_mask < AddressBits /\ (port # NoPort => Ranges(sent[i]) # {})
      BY <1>2, <2>3 DEF AgreedAddress
    <3>3. Ended(sent[i].port_ranges, EndOfRanges)
      BY <2>1, <3>1, HandlersAssumption
    <3>4. /\ specs[i].ip = sent[i].ip /\ specs[i].net_mask = ReadInt(sent[i].net_mask)
          /\ specs[i].port_ranges = ReadPortRanges(sent[i].port_ranges)
      BY <2>6, <3>1
    <3> QED
      BY <3>1, <3>2, <3>3, <3>4, SpecAsAsked
  <2>10. AskedAddress(sent, ip, port) = \E i \in 1 .. Len(front) : Fits(i)
    BY <1>2, <2>3 DEF AskedAddress
  <2>11. is_in_ip_filter(specs, ip, port)
           = {\E i \in 1 .. Len(front) : FitsSpec(specs[i], ip, port)}
    BY <2>7, <2>8 DEF is_in_ip_filter
  <2> HIDE DEF Fits
  <2> QED
    BY <2>9, <2>10, <2>11
<1> QED
  BY <1>1, <1>2

(* The lengths that a filter lets pass are those of its kind of limit, but *)
(* perhaps for the limits themselves.                                      *)
LEMMA LengthAsAsked ==
  ASSUME NEW filter, NEW asked, LengthsAsSent(filter, asked), NEW length \in Nat,
         length \notin LimitsInUse(asked)
  PROVE  FitsLength(filter, length) <=> AskedLength(asked, length)
<1> DEFINE which == asked.which_length
<1>1. /\ filter.min_packet_len = asked.length_min /\ asked.length_min \in Nat
      /\ filter.max_packet_len = asked.length_max /\ asked.length_max \in Nat
      /\ filter.which_packet_len = ReadWhichLength(which) /\ which \in 0 .. 4
  BY DEF LengthsAsSent
<1>2. CASE which = 0
  <2>1. filter.which_packet_len = "DONT_CARE"
    BY <1>1, <1>2 DEF ReadWhichLength
  <2> QED
    BY <1>2, <2>1 DEF FitsLength, AskedLength
<1>3. CASE which = 1
  <2>1. filter.which_packet_len = "GT"
    BY <1>1, <1>3 DEF ReadWhichLength
  <2>2. length # asked.length_min
    BY <1>3 DEF LimitsInUse
  <2>3. FitsLength(filter, length) <=> filter.min_packet_len <= length
    BY <2>1 DEF FitsLength
  <2>4. AskedLength(asked, length) <=> length > asked.length_min
    BY <1>3 DEF AskedLength
  <2> QED
    BY <1>1, <2>2, <2>3, <2>4
<1>4. CASE which = 2
  <2>1. filter.which_packet_len = "LT"
    BY <1>1, <1>4 DEF ReadWhichLength
  <2>2. length # asked.length_max
    BY <1>4 DEF LimitsInUse
  <2>3. FitsLength(filter, length) <=> length <= filter.max_packet_len
    BY <2>1 DEF FitsLength
  <2>4. AskedLength(asked, length) <=> length < asked.length_max
    BY <1>4 DEF AskedLength
  <2> QED
    BY <1>1, <2>2, <2>3, <2>4
<1>5. CASE which = 3
  <2>1. filter.which_packet_len = "BETWEEN"
    BY <1>1, <1>5 DEF ReadWhichLength
  <2>2. length # asked.length_min /\ length # asked.length_max
    BY <1>5 DEF LimitsInUse
  <2>3. FitsLength(filter, length)
          <=> (filter.min_packet_len <= length /\ length <= filter.max_packet_len)
    BY <2>1 DEF FitsLength
  <2>4. AskedLength(asked, length)
          <=> (length > asked.length_min /\ length < asked.length_max)
    BY <1>5 DEF AskedLength
  <2> QED
    BY <1>1, <2>2, <2>3, <2>4
<1>6. CASE which = 4
  <2>1. filter.which_packet_len = "NOT_BETWEEN"
    BY <1>1, <1>6 DEF ReadWhichLength
  <2>2. length # asked.length_min /\ length # asked.length_max
    BY <1>6 DEF LimitsInUse
  <2>3. FitsLength(filter, length)
          <=> ~ (filter.min_packet_len <= length /\ length <= filter.max_packet_len)
    BY <2>1 DEF FitsLength
  <2>4. AskedLength(asked, length)
          <=> ~ (length > asked.length_min /\ length < asked.length_max)
    BY <1>6 DEF AskedLength
  <2> QED
    BY <1>1, <2>2, <2>3, <2>4
<1> QED
  BY <1>1, <1>2, <1>3, <1>4, <1>5, <1>6

(* What the filter of a chain answers about a packet.                      *)
LEMMA FilterAsAsked ==
  ASSUME NEW c, ChainShape(c), NEW info, Agreed(c, info),
         info.source_ip \in Addresses, info.dest_ip \in Addresses,
         info.source_port \in Int, info.dest_port \in Int,
         info.protocol \in 0 .. ProtocolBytes * ByteBits - 1,
         info.tos \in Nat, info.length \in Nat
  PROVE  is_in_chain_filter(c.filter, info) = {Asked(c, info)}
<1> DEFINE filter == c.filter
           source == AskedAddress(c.asked.source, info.source_ip, info.source_port)
           dest == AskedAddress(c.asked.dest, info.dest_ip, info.dest_port)
           tos == MaskBit(filter.tos, info.tos)
           protocol == MaskBit(filter.protocols, info.protocol)
           length == FitsLength(filter, info.length)
<1>1. MeansAsked(filter, c.asked)
  BY DEF ChainShape
<1>2. /\ is_in_ip_filter(filter.source, info.source_ip, info.source_port) = {source}
      /\ is_in_ip_filter(filter.dest, info.dest_ip, info.dest_port) = {dest}
  BY <1>1, AddressFilterAsAsked DEF MeansAsked, Agreed
<1>3. info.tos \in 0 .. TosBytes * ByteBits - 1
  BY FiltersAssumption DEF Agreed
<1>4. tos <=> info.tos \in c.asked.tos
  BY <1>1, <1>3 DEF MeansAsked, MaskFor, MaskBit
<1>5. protocol <=> info.protocol \in c.asked.protocols
  BY <1>1 DEF MeansAsked, MaskFor, MaskBit
<1>6. length <=> AskedLength(c.asked, info.length)
  BY <1>1, LengthAsAsked DEF MeansAsked, Agreed
<1>7. TosBit(filter.tos, info.tos) = {tos}
  <2>1. DOMAIN filter.tos = 0 .. TosBytes - 1
    BY <1>1 DEF MeansAsked, MaskFor
  <2>2. info.tos \div ByteBits \in 0 .. TosBytes - 1
    BY <1>3, PlaceOfBit, FiltersAssumption
  <2> QED
    BY <2>1, <2>2 DEF TosBit
<1> DEFINE passes == /\ source /\ dest /\ tos
                     /\ MaskBit(filter.protocols, info.protocol)
                     /\ FitsLength(filter, info.length)
<1>8. is_in_chain_filter(filter, info) = {passes}
  <2> DEFINE Answer(a, b, e) == /\ a /\ b /\ e
                                /\ MaskBit(filter.protocols, info.protocol)
                                /\ FitsLength(filter, info.length)
  <2>1. is_in_chain_filter(filter, info)
          = {Answer(a, b, e) : a \in {source}, b \in {dest}, e \in {tos}}
    <3>1. is_in_chain_filter(filter, info)
            = {Answer(a, b, e) :
                 a \in is_in_ip_filter(filter.source, info.source_ip, info.source_port),
                 b \in is_in_ip_filter(filter.dest, info.dest_ip, info.dest_port),
                 e \in TosBit(filter.tos, info.tos)}
      BY DEF is_in_chain_filter
    <3> HIDE DEF source, dest, tos, Answer
    <3> QED
      BY <1>2, <1>7, <3>1
  <2>2. passes = Answer(source, dest, tos)
    OBVIOUS
  <2> HIDE DEF Answer, passes, source, dest, tos
  <2> QED
    BY <2>1, <2>2
<1>9. Asked(c, info) <=> passes
  BY <1>4, <1>5, <1>6 DEF Asked
<1>10. Asked(c, info) \in BOOLEAN /\ passes \in BOOLEAN
  BY DEF Asked
<1> HIDE DEF passes
<1>11. Asked(c, info) = passes
  BY <1>9, <1>10
<1> QED
  BY <1>8, <1>11

(* Wherever the code agrees with its documents, a chain in force passes    *)
(* exactly the packets that its client asked for, after any requests to    *)
(* its filter, in any connections, and their copies (packet_logic.c:71-301,*)
(* iface_handlers.c:355-477).                                              *)
THEOREM FiltersPassWhatWasAsked == Spec => []PassesWhatWasAsked
<1>1. ASSUME IInv PROVE PassesWhatWasAsked
  <2> SUFFICES ASSUME NEW c \in ChainsOf(data), NEW header \in PacketInfos,
                      Agreed(c, PacketInfo(header))
               PROVE  is_in_chain_filter(c.filter, PacketInfo(header))
                        = {Asked(c, PacketInfo(header))}
    BY DEF PassesWhatWasAsked
  <2> DEFINE info == PacketInfo(header)
  <2>1. ChainShape(c)
    BY <1>1 DEF IInv, DataShape, ChainsOf
  <2>2. header \in [source_ip : Addresses, dest_ip : Addresses,
                    source_port : Nat, dest_port : Nat,
                    protocol : 0 .. ProtocolBytes * ByteBits - 1, tos : Nat, length : Nat]
    BY HandlersAssumption
  <2>3. /\ info.source_ip \in Addresses /\ info.dest_ip \in Addresses
        /\ info.source_port \in Int /\ info.dest_port \in Int
        /\ info.protocol = header.protocol /\ info.tos = header.tos
        /\ info.length = header.length
    BY <2>2 DEF PacketInfo, NoPort
  <2>4. Agreed(c, info)
    OBVIOUS
  <2> HIDE DEF info
  <2>5. is_in_chain_filter(c.filter, info) = {Asked(c, info)}
    BY <2>1, <2>2, <2>3, <2>4, FilterAsAsked
  <2> QED
    BY <2>5 DEF info
<1> QED
  BY <1>1, HandlersInvariant, PTL

(* A connection starts from a copy that means what the installed data      *)
(* mean: the same filters, and states with the same names, probabilities,  *)
(* delays and moves (iface.c:74-176).  A chain's name is not part of what  *)
(* it says, since chain_duplicate forgets it (iface.c:178-205).            *)
THEOREM CopiesMeanTheSame == Spec => CopyKeepsMeaning
<1> DEFINE Opened == ~ connected /\ connected'
           Same == Meaning(data_copy') = Meaning(data)
<1>1. ASSUME IInv, [Next]_vars, Opened
      PROVE  Same
  <2>1. Open
    BY <1>1 DEF Next, vars, NewChain, NewState, MoveStep, MoveInTable, SetMoveProbs,
       ReadMoveState, ReadMoveProb, WriteMove, NextLoop, MoveNotFully, Enter, Reading, In,
       Accept, Refuse, Die, FilterStep, SetSource,
       SetDest, SetProtocol, SetTos, SetLengthMin, SetLengthMax, SetWhichLength, OnChain,
       StateStep, SetDropDelayProb, SetDelayType, SetSplitLinearPoints, SetLambda,
       SetTimeFactor, SetStableDelayProb, OnState, ClearAll, EndConnection, ClientGone, Close,
       UnknownWhich, Ready, Open
  <2>2. data_copy' = data_duplicate(data) /\ DataShape(data)
    BY <1>1, <2>1 DEF Open, IInv
  <2> QED
    BY <2>2, DuplicateMeaning
<1>2. IInv /\ [Next]_vars => [Opened => Same]_vars
  BY <1>1
<1> QED
  BY <1>2, HandlersInvariant, PTL DEF Spec, CopyKeepsMeaning

-----------------------------------------------------------------------------
(* Where transactions end                                                  *)
ScriptOK == script \in [1 .. ScriptLen -> Opcodes]

LEMMA EndOfEach ==
  ASSUME ScriptOK
  PROVE  /\ End \in [0 .. ScriptLen -> Nat]
         /\ End[0] = 0
         /\ \A i \in 1 .. ScriptLen : End[i] = End[i - 1] + Words[script[i]]
<1> DEFINE g == [p \in (1 .. ScriptLen) \X Nat |-> p[2] + Words[script[p[1]]]]
           IsEnd(e) == e = [i \in 0 .. ScriptLen |->
                              IF i = 0 THEN 0 ELSE e[i - 1] + Words[script[i]]]
<1>1. ScriptLen \in Nat /\ \A i \in 1 .. ScriptLen : Words[script[i]] \in Nat
  BY OpcodesAssumption DEF ScriptOK
<1>2. g \in [(1 .. ScriptLen) \X Nat -> Nat]
  BY <1>1
<1>3. PICK f \in [0 .. ScriptLen -> Nat] :
        f[0] = 0 /\ \A i \in 1 .. ScriptLen : f[i] = f[i - 1] + Words[script[i]]
  <2>1. \A i \in 1 .. ScriptLen, n \in Nat : g[<<i, n>>] = n + Words[script[i]]
    OBVIOUS
  <2>0. 0 \in Nat
    OBVIOUS
  <2> HIDE DEF g, IsEnd
  <2>2. PICK f \in [0 .. ScriptLen -> Nat] :
          f[0] = 0 /\ \A i \in 1 .. ScriptLen : f[i] = g[<<i, f[i - 1]>>]
    <3>1. Begun(Nat, 0, g, ScriptLen) # {}
      BY <1>1, <1>2, <2>0, RecursionTo
    <3> QED
      BY <3>1 DEF Begun
  <2>3. \A i \in 1 .. ScriptLen : f[i - 1] \in Nat
    BY <1>1
  <2> QED
    BY <2>1, <2>2, <2>3
<1>4. IsEnd([i \in 0 .. ScriptLen |-> f[i]])
  <2> DEFINE e == [i \in 0 .. ScriptLen |-> f[i]]
  <2>1. ASSUME NEW i \in 0 .. ScriptLen
        PROVE  e[i] = IF i = 0 THEN 0 ELSE e[i - 1] + Words[script[i]]
    BY <1>1, <1>3
  <2> QED
    BY <2>1
<1>5. IsEnd(End)
  <2>1. End = CHOOSE e : IsEnd(e)
    BY DEF End
  <2> QED
    BY <1>4, <2>1
<1>6. /\ End[0] = 0
      /\ \A i \in 1 .. ScriptLen : End[i] = End[i - 1] + Words[script[i]]
  BY <1>1, <1>5
<1>7. End \in [0 .. ScriptLen -> Nat]
  <2> DEFINE T == {i \in 0 .. ScriptLen : End[i] \in Nat}
  <2>1. 0 \in T
    BY <1>1, <1>6
  <2>2. ASSUME NEW i \in 0 .. ScriptLen - 1, i \in T PROVE i + 1 \in T
    <3>1. i + 1 \in 1 .. ScriptLen /\ (i + 1) - 1 = i
      BY <1>1
    <3>2. End[i + 1] = End[i] + Words[script[i + 1]]
      BY <1>6, <3>1
    <3> QED
      BY <1>1, <2>2, <3>1, <3>2
  <2>3. 0 .. ScriptLen \subseteq T
    <3> HIDE DEF T
    <3> QED
      BY <1>1, <2>1, <2>2, InductionTo
  <2> QED
    BY <1>5, <2>3
<1> QED
  BY <1>7, <1>6

LEMMA EndGrows ==
  ASSUME ScriptOK
  PROVE  \A i, j \in 0 .. ScriptLen : i < j => End[i] < End[j]
<1> DEFINE T == {j \in 0 .. ScriptLen : \A i \in 0 .. ScriptLen : i < j => End[i] < End[j]}
<1>1. ScriptLen \in Nat /\ \A i \in 1 .. ScriptLen : Words[script[i]] \in Nat \ {0}
  BY OpcodesAssumption DEF ScriptOK
<1>2. 0 \in T
  BY <1>1
<1>3. ASSUME NEW j \in 0 .. ScriptLen - 1, j \in T PROVE j + 1 \in T
  <2>1. j + 1 \in 1 .. ScriptLen /\ (j + 1) - 1 = j /\ j \in 0 .. ScriptLen
    BY <1>1
  <2>2. End[j + 1] = End[j] + Words[script[j + 1]]
    BY <2>1, EndOfEach
  <2>3. End[j] < End[j + 1]
    BY <1>1, <2>1, <2>2, EndOfEach
  <2>4. ASSUME NEW i \in 0 .. ScriptLen, i < j + 1 PROVE End[i] < End[j + 1]
    <3>1. i = j \/ i < j
      BY <2>4
    <3>2. End[i] \in Nat /\ End[j] \in Nat /\ End[j + 1] \in Nat
      BY <2>1, EndOfEach
    <3> QED
      BY <1>3, <2>3, <3>1, <3>2
  <2> QED
    BY <2>1, <2>4
<1>4. 0 .. ScriptLen \subseteq T
  <2> HIDE DEF T
  <2> QED
    BY <1>1, <1>2, <1>3, InductionTo
<1> QED
  BY <1>4

-----------------------------------------------------------------------------
(* The invariant: the interface thread is at a boundary between            *)
(* transactions, or inside tx; from the last executed transaction up to    *)
(* there it has met unknown opcodes only, which it does not commit; and no *)
(* executed transaction has ended the connection.                          *)
TransactTypeInv ==
  /\ ScriptOK
  /\ arrived \in Nat /\ arrived <= End[ScriptLen]
  /\ consumed \in Nat /\ ptr_offset \in Nat
  /\ executed \in Seq(1 .. ScriptLen)

UnknownFrom(i, j) == \A k \in i + 1 .. j : script[k] \in Unknown

AtBoundary ==
  \E i \in LastExecuted .. ScriptLen : Position = End[i] /\ UnknownFrom(LastExecuted, i)

InsideTx ==
  /\ tx \in LastExecuted + 1 .. ScriptLen /\ UnknownFrom(LastExecuted, tx - 1)
  /\ script[tx] \notin Unknown
  /\ nread \in Nat /\ Position = End[tx - 1] + nread

NoneHasEnded == \A i \in 1 .. LastExecuted : script[i] \notin Ending

TransactIInv ==
  /\ TransactTypeInv /\ ExecutedInOrder /\ CommittedIsExecuted
  /\ iface = "opcode" => AtBoundary
  /\ iface = "params" => InsideTx
  /\ iface # "closed" => NoneHasEnded

LEMMA LastExecutedType ==
  ASSUME TransactTypeInv
  PROVE  /\ LastExecuted \in 0 .. ScriptLen /\ ScriptLen \in Nat
         /\ \A k \in DOMAIN executed : executed[k] \in 1 .. ScriptLen
         /\ DOMAIN executed = 1 .. Len(executed) /\ Len(executed) \in Nat
<1>1. executed \in Seq(1 .. ScriptLen) /\ ScriptLen \in Nat
  BY OpcodesAssumption DEF TransactTypeInv
<1>2. executed # <<>> => Len(executed) \in 1 .. Len(executed)
  BY <1>1
<1> QED
  BY <1>1, <1>2 DEF LastExecuted

LEMMA TransactInitIInv ==
  ASSUME TransactInit
  PROVE  TransactIInv
<1>1. ScriptOK /\ executed = <<>> /\ LastExecuted = 0 /\ iface = "opcode"
  BY DEF TransactInit, ScriptOK, LastExecuted
<1>2. ScriptLen \in Nat /\ End[0] = 0 /\ End[ScriptLen] \in Nat
  BY <1>1, EndOfEach, OpcodesAssumption
<1>3. TransactTypeInv
  BY <1>1, <1>2 DEF TransactInit, TransactTypeInv
<1>4. ExecutedInOrder /\ CommittedIsExecuted
  BY <1>1, <1>2 DEF TransactInit, ExecutedInOrder, CommittedIsExecuted
<1>5. AtBoundary /\ NoneHasEnded
  BY <1>1, <1>2 DEF TransactInit, AtBoundary, NoneHasEnded, UnknownFrom, Position
<1> QED
  BY <1>1, <1>3, <1>4, <1>5 DEF TransactIInv

(* Until a transaction is executed the script and the history stand still. *)
LEMMA SameHistory ==
  ASSUME UNCHANGED <<script, executed>>
  PROVE  /\ End' = End /\ LastExecuted' = LastExecuted /\ ScriptOK' = ScriptOK
         /\ ExecutedInOrder' = ExecutedInOrder /\ NoneHasEnded' = NoneHasEnded
         /\ \A i, j : UnknownFrom(i, j)' = UnknownFrom(i, j)
<1>1. End' = End
  BY DEF End
<1>2. LastExecuted' = LastExecuted
  BY DEF LastExecuted
<1> QED
  BY <1>1, <1>2 DEF ScriptOK, ExecutedInOrder, NoneHasEnded, UnknownFrom, Expected

LEMMA RollsBackToBoundary ==
  ASSUME TransactIInv, UNCHANGED <<script, executed>>, Rollback
  PROVE  AtBoundary'
<1>1. LastExecuted \in 0 .. ScriptLen /\ ScriptLen \in Nat
  BY LastExecutedType DEF TransactIInv
<1>2. consumed = End[LastExecuted] /\ consumed \in Nat
  BY DEF TransactIInv, CommittedIsExecuted, TransactTypeInv
<1>3. Position' = End'[LastExecuted]
  BY <1>2, SameHistory DEF Rollback, Position
<1>4. UnknownFrom(LastExecuted, LastExecuted)'
  BY <1>1, SameHistory DEF UnknownFrom
<1> QED
  BY <1>1, <1>3, <1>4, SameHistory DEF AtBoundary

LEMMA PollConnKeepsIInv ==
  ASSUME TransactIInv, PutBytes \/ SetConnClosed
  PROVE  TransactIInv'
<1>1. UNCHANGED <<script, executed, consumed, ptr_offset, iface, tx, nread>>
  BY DEF PutBytes, SetConnClosed
<1>2. ScriptLen \in Nat /\ End[ScriptLen] \in Nat
  BY EndOfEach, OpcodesAssumption DEF TransactIInv, TransactTypeInv
<1>3. arrived' \in Nat /\ arrived' <= End[ScriptLen]
  BY <1>2 DEF PutBytes, SetConnClosed, TransactIInv, TransactTypeInv
<1>4. TransactTypeInv'
  BY <1>1, <1>3, SameHistory DEF TransactIInv, TransactTypeInv
<1> QED
  BY <1>1, <1>4, SameHistory DEF TransactIInv, CommittedIsExecuted, AtBoundary, InsideTx, Position

LEMMA ReadOpcodeKeepsIInv ==
  ASSUME TransactIInv, ReadOpcode
  PROVE  TransactIInv'
<1>1. PICK i \in LastExecuted .. ScriptLen :
        Position = End[i] /\ UnknownFrom(LastExecuted, i)
  BY DEF ReadOpcode, TransactIInv, AtBoundary
<1>2. LastExecuted \in 0 .. ScriptLen /\ ScriptLen \in Nat /\ ScriptOK
  BY LastExecutedType DEF TransactIInv, TransactTypeInv
<1>3. End \in [0 .. ScriptLen -> Nat]
  BY <1>2, EndOfEach
<1>4. Position < arrived /\ arrived <= End[ScriptLen] /\ arrived \in Nat
  BY DEF ReadOpcode, ReadOk, TransactIInv, TransactTypeInv
<1>5. i \in 0 .. ScriptLen /\ i # ScriptLen
  BY <1>1, <1>2, <1>3, <1>4
<1>6. tx' = i + 1
  <2>1. tx' = CHOOSE k \in 1 .. ScriptLen : End[k - 1] = Position
    BY DEF ReadOpcode
  <2>2. i + 1 \in 1 .. ScriptLen /\ End[(i + 1) - 1] = Position
    BY <1>1, <1>2, <1>5
  <2>3. ASSUME NEW k \in 1 .. ScriptLen, End[k - 1] = Position PROVE k = i + 1
    <3>1. k - 1 \in 0 .. ScriptLen
      BY <1>2
    <3>2. End[k - 1] \in Nat /\ End[i] \in Nat /\ End[k - 1] = End[i]
      BY <1>1, <1>3, <1>5, <2>3, <3>1
    <3>3. ~ (k - 1 < i) /\ ~ (i < k - 1)
      BY <1>2, <1>5, <3>1, <3>2, EndGrows
    <3> QED
      BY <1>5, <3>1, <3>3
  <2> QED
    BY <2>1, <2>2, <2>3
<1>7. /\ UNCHANGED <<script, executed, arrived, consumed>>
      /\ ptr_offset' = ptr_offset + 1 /\ nread' = 1
      /\ iface' = IF script[i + 1] \in Unknown THEN "opcode" ELSE "params"
  BY <1>6 DEF ReadOpcode, Advance
<1>8. Position' = End[i] + 1
  BY <1>1, <1>7 DEF Position, TransactIInv, TransactTypeInv
<1>9. TransactTypeInv' /\ ExecutedInOrder' /\ CommittedIsExecuted' /\ NoneHasEnded'
  BY <1>7, SameHistory DEF TransactIInv, TransactTypeInv, CommittedIsExecuted, ReadOpcode
<1>10. i + 1 \in LastExecuted + 1 .. ScriptLen /\ i + 1 \in 1 .. ScriptLen
  BY <1>1, <1>2, <1>5
<1>11. CASE script[i + 1] \in Unknown
  <2>1. Words[script[i + 1]] = 1
    BY <1>11, OpcodesAssumption
  <2>2. Position' = End[i + 1]
    BY <1>2, <1>8, <1>10, <2>1, EndOfEach
  <2>3. UnknownFrom(LastExecuted, i + 1)
    BY <1>1, <1>2, <1>5, <1>11 DEF UnknownFrom
  <2>4. AtBoundary'
    BY <1>7, <1>10, <1>2, <2>2, <2>3, SameHistory DEF AtBoundary
  <2> QED
    BY <1>7, <1>9, <1>11, <2>4 DEF TransactIInv
<1>12. CASE script[i + 1] \notin Unknown
  <2>1. Position' = End[tx' - 1] + nread'
    BY <1>5, <1>6, <1>7, <1>8
  <2>2. UnknownFrom(LastExecuted, tx' - 1)
    BY <1>1, <1>5, <1>6
  <2>3. InsideTx'
    BY <1>6, <1>7, <1>10, <1>12, <2>1, <2>2, SameHistory DEF InsideTx
  <2> QED
    BY <1>7, <1>9, <1>12, <2>3 DEF TransactIInv
<1> QED
  BY <1>11, <1>12

LEMMA ReadParamKeepsIInv ==
  ASSUME TransactIInv, ReadParam
  PROVE  TransactIInv'
<1>1. /\ UNCHANGED <<script, executed, arrived, consumed, tx, iface>> /\ iface = "params"
      /\ ptr_offset' = ptr_offset + 1 /\ nread' = nread + 1
  BY DEF ReadParam, Advance
<1>2. InsideTx /\ ptr_offset \in Nat /\ consumed \in Nat
  BY <1>1 DEF TransactIInv, TransactTypeInv
<1>3. LastExecuted \in 0 .. ScriptLen /\ ScriptLen \in Nat /\ End \in [0 .. ScriptLen -> Nat]
  BY LastExecutedType, EndOfEach DEF TransactIInv, TransactTypeInv
<1>4. End[tx - 1] \in Nat
  BY <1>2, <1>3 DEF InsideTx
<1>5. Position' = End[tx - 1] + nread' /\ nread' \in Nat
  <2>1. nread \in Nat /\ consumed + ptr_offset = End[tx - 1] + nread
    BY <1>2 DEF InsideTx, Position
  <2>2. Position' = consumed + ptr_offset + 1
    BY <1>1, <1>2 DEF Position
  <2> QED
    BY <1>1, <1>2, <1>4, <2>1, <2>2
<1>6. InsideTx'
  BY <1>1, <1>2, <1>5, SameHistory DEF InsideTx
<1> QED
  BY <1>1, <1>2, <1>6, SameHistory DEF TransactIInv, TransactTypeInv, CommittedIsExecuted

LEMMA RefusalKeepsIInv ==
  ASSUME TransactIInv, NotFully \/ ConnTerm
  PROVE  TransactIInv'
<1>1. UNCHANGED <<script, executed, arrived, consumed>>
  BY DEF NotFully, ConnTerm, Rollback, queueVars
<1>2. iface # "closed"
  BY DEF NotFully, ConnTerm, Wanting
<1>3. CASE NotFully
  <2>1. AtBoundary' /\ ptr_offset' = 0 /\ iface' = "opcode"
    BY <1>1, <1>3, RollsBackToBoundary DEF NotFully, Rollback
  <2> QED
    BY <1>1, <1>2, <2>1, SameHistory DEF TransactIInv, TransactTypeInv, CommittedIsExecuted
<1>4. CASE ConnTerm
  <2>1. ptr_offset' = ptr_offset /\ iface' = "closed"
    BY <1>4 DEF ConnTerm, queueVars
  <2> QED
    BY <1>1, <1>2, <2>1, SameHistory DEF TransactIInv, TransactTypeInv, CommittedIsExecuted
<1> QED
  BY <1>3, <1>4

LEMMA FinishKeepsIInv ==
  ASSUME TransactIInv, Finish
  PROVE  TransactIInv'
<1> DEFINE last == LastExecuted
           n == Len(executed)
<1>1. /\ iface = "params" /\ nread = Words[script[tx]] /\ UNCHANGED <<script, arrived>>
      /\ executed' = Append(executed, tx) /\ consumed' = Position /\ ptr_offset' = 0
      /\ iface' = IF script[tx] \in Ending THEN "closed" ELSE "opcode"
  BY DEF Finish, Commit
<1>2. InsideTx /\ NoneHasEnded /\ ExecutedInOrder /\ TransactTypeInv
  BY <1>1 DEF TransactIInv
<1>3. /\ last \in 0 .. ScriptLen /\ ScriptLen \in Nat /\ n \in Nat
      /\ \A k \in 1 .. n : executed[k] \in 1 .. ScriptLen
      /\ DOMAIN executed = 1 .. n
  BY <1>2, LastExecutedType
<1>4. tx \in last + 1 .. ScriptLen /\ tx \in 1 .. ScriptLen
  BY <1>2, <1>3 DEF InsideTx
<1>5. /\ executed' \in Seq(1 .. ScriptLen) /\ DOMAIN executed' = 1 .. n + 1
      /\ executed'[n + 1] = tx /\ \A k \in 1 .. n : executed'[k] = executed[k]
      /\ Len(executed') = n + 1 /\ executed' # <<>>
  BY <1>1, <1>2, <1>4 DEF TransactTypeInv
<1>6. LastExecuted' = tx /\ End' = End
  BY <1>1, <1>5 DEF LastExecuted, End
<1>7. Position \in Nat /\ Position = End[tx]
  <2>1. End[tx] = End[tx - 1] + Words[script[tx]]
    BY <1>2, <1>4, EndOfEach DEF TransactTypeInv
  <2> QED
    BY <1>1, <1>2, <2>1 DEF InsideTx, TransactTypeInv, Position
<1>8. TransactTypeInv'
  BY <1>1, <1>2, <1>5, <1>6, <1>7 DEF TransactTypeInv, ScriptOK
<1>9. CommittedIsExecuted'
  BY <1>1, <1>6, <1>7 DEF CommittedIsExecuted
<1>10. \A i, j \in 1 .. n : i < j => executed[i] < executed[j]
  BY <1>2, <1>3 DEF ExecutedInOrder
<1>11. \A k \in 1 .. n : executed[k] <= last
  <2>1. ASSUME NEW k \in 1 .. n PROVE executed[k] <= last
    <3>1. last = executed[n] /\ n \in 1 .. n
      BY <1>3, <2>1 DEF LastExecuted
    <3>2. k = n \/ executed[k] < executed[n]
      <4>1. ~ (k < n) => k = n
        <5> HIDE DEF n
        <5> QED
          BY <1>3, <2>1
      <4> QED
        BY <1>10, <2>1, <3>1, <4>1
    <3>3. executed[k] \in Int /\ executed[n] \in Int
      BY <1>3, <3>1
    <3> QED
      BY <3>1, <3>2, <3>3
  <2> QED
    BY <2>1
<1>12. \A i, j \in DOMAIN executed' : i < j => executed'[i] < executed'[j]
  <2>1. ASSUME NEW i \in 1 .. n + 1, NEW j \in 1 .. n + 1, i < j
        PROVE  executed'[i] < executed'[j]
    <3>1. CASE j = n + 1
      <4>1. i \in 1 .. n /\ executed'[i] = executed[i] /\ executed[i] <= last
        BY <1>3, <1>5, <1>11, <2>1, <3>1
      <4> QED
        BY <1>3, <1>4, <1>5, <3>1, <4>1
    <3>2. CASE j \in 1 .. n
      <4>1. i \in 1 .. n
        BY <1>3, <2>1, <3>2
      <4>2. executed[i] < executed[j]
        BY <1>10, <2>1, <3>2, <4>1
      <4> QED
        BY <1>5, <3>2, <4>1, <4>2
    <3> QED
      BY <1>3, <3>1, <3>2
  <2> QED
    BY <1>5, <2>1
<1>13. \A i \in 1 .. ScriptLen : Expected(i)' = Expected(i)
  BY <1>1 DEF Expected
<1>14. \A i \in last + 1 .. tx - 1 : ~ Expected(i)
  BY <1>2 DEF InsideTx, UnknownFrom, Expected
<1>15. Expected(tx)
  <2>1. ASSUME NEW j \in 1 .. tx - 1 PROVE script[j] \notin Ending
    <3>1. j \in 1 .. last \/ j \in last + 1 .. tx - 1
      BY <1>3, <1>4
    <3> QED
      BY <1>2, <3>1, OpcodesAssumption DEF InsideTx, UnknownFrom, NoneHasEnded
  <2> QED
    BY <1>2, <2>1 DEF InsideTx, Expected
<1>16. {executed'[k] : k \in DOMAIN executed'} = {i \in 1 .. tx : Expected(i)}
  <2>1. {executed'[k] : k \in DOMAIN executed'}
          = {executed[k] : k \in DOMAIN executed} \cup {tx}
    BY <1>3, <1>5, SMTT(60)
  <2>2. {executed[k] : k \in DOMAIN executed} = {i \in 1 .. last : Expected(i)}
    BY <1>2 DEF ExecutedInOrder
  <2>3. {i \in 1 .. tx : Expected(i)} = {i \in 1 .. last : Expected(i)} \cup {tx}
    BY <1>3, <1>4, <1>14, <1>15, SMTT(60)
  <2> QED
    BY <2>1, <2>2, <2>3
<1>17. ExecutedInOrder'
  <2>1. {i \in 1 .. tx : Expected(i)'} = {i \in 1 .. tx : Expected(i)}
    BY <1>3, <1>4, <1>13
  <2> QED
    BY <1>6, <1>12, <1>16, <2>1 DEF ExecutedInOrder
<1>18. iface' = "opcode" => AtBoundary'
  <2>1. Position' = End[tx]
    BY <1>1, <1>7 DEF Position
  <2>2. \A k \in tx + 1 .. tx : script'[k] \in Unknown
    BY <1>4
  <2>3. tx \in LastExecuted' .. ScriptLen /\ Position' = End'[tx]
    BY <1>3, <1>4, <1>6, <2>1
  <2> QED
    BY <1>6, <2>2, <2>3 DEF AtBoundary, UnknownFrom
<1>19. iface' # "closed" => NoneHasEnded'
  BY <1>1, <1>6, <1>15, <1>3, <1>4 DEF NoneHasEnded, Expected
<1> QED
  BY <1>1, <1>8, <1>9, <1>17, <1>18, <1>19 DEF TransactIInv

LEMMA TransactNextKeepsIInv ==
  ASSUME TransactIInv, [TransactNext]_transactVars
  PROVE  TransactIInv'
<1>1. CASE UNCHANGED transactVars
  BY <1>1, SameHistory DEF transactVars, queueVars, TransactIInv, TransactTypeInv, CommittedIsExecuted,
     AtBoundary, InsideTx, Position
<1> QED
  BY <1>1, PollConnKeepsIInv, ReadOpcodeKeepsIInv, ReadParamKeepsIInv, RefusalKeepsIInv,
     FinishKeepsIInv DEF TransactNext, IfaceStep

-----------------------------------------------------------------------------
(* iface.c:1319-1463, text_queue_in.c: whatever the client sends, however  *)
(* it trickles in and whenever the connection is closed, the interface     *)
(* thread is at a boundary between transactions or inside one.             *)
THEOREM TransactInvariant == TransactSpec => []TransactIInv
<1>1. TransactInit => TransactIInv
  BY TransactInitIInv
<1>2. TransactIInv /\ [TransactNext]_transactVars => TransactIInv'
  BY TransactNextKeepsIInv
<1> QED
  BY <1>1, <1>2, PTL DEF TransactSpec

(* The known transactions up to the one that ends the connection take      *)
(* effect once each and in order.                                          *)
THEOREM TransactionsTakeEffectOnce ==
  TransactSpec => []ExecutedInOrder
<1>1. TransactIInv => ExecutedInOrder
  BY DEF TransactIInv
<1> QED
  BY <1>1, TransactInvariant, PTL

(* Nothing is removed from the input before it has taken effect, and what  *)
(* has taken effect is not read again.                                     *)
THEOREM CommitsFollowEffects ==
  TransactSpec => []CommittedIsExecuted
<1>1. TransactIInv => CommittedIsExecuted
  BY DEF TransactIInv
<1> QED
  BY <1>1, TransactInvariant, PTL

(* The transaction that a word read as an opcode begins is one of the      *)
(* script's.                                                               *)
LEMMA OpcodeBeginsOne ==
  ASSUME TransactIInv, ReadOpcode
  PROVE  tx' \in 1 .. ScriptLen
<1>1. PICK i \in LastExecuted .. ScriptLen : Position = End[i]
  BY DEF ReadOpcode, TransactIInv, AtBoundary
<1>2. LastExecuted \in 0 .. ScriptLen /\ ScriptLen \in Nat /\ ScriptOK
  BY LastExecutedType DEF TransactIInv, TransactTypeInv
<1>3. End \in [0 .. ScriptLen -> Nat]
  BY <1>2, EndOfEach
<1>4. Position < arrived /\ arrived <= End[ScriptLen] /\ arrived \in Nat
  BY DEF ReadOpcode, ReadOk, TransactIInv, TransactTypeInv
<1>5. i + 1 \in 1 .. ScriptLen
  BY <1>1, <1>2, <1>3, <1>4
<1>6. End[(i + 1) - 1] = Position
  BY <1>1, <1>2
<1>7. \E k \in 1 .. ScriptLen : End[k - 1] = Position
  BY <1>5, <1>6
<1> QED
  BY <1>7 DEF ReadOpcode

LEMMA TransactNextKeepsTypes ==
  ASSUME TransactIInv, TransactTypeOK, [TransactNext]_transactVars
  PROVE  TransactTypeOK'
<1>1. TransactTypeInv'
  BY TransactNextKeepsIInv DEF TransactIInv
<1>2. ScriptLen \in Nat /\ End[ScriptLen] \in Nat
  BY EndOfEach, OpcodesAssumption DEF TransactIInv, TransactTypeInv
<1>3. /\ arrived \in Nat /\ consumed \in Nat /\ ptr_offset \in Nat
      /\ arrived <= End[ScriptLen] /\ Position <= arrived
      /\ Position = consumed + ptr_offset
  BY <1>2 DEF TransactTypeOK, TransactIInv, TransactTypeInv, Position
<1>4. UNCHANGED script
  BY DEF TransactNext, PutBytes, SetConnClosed, IfaceStep, ReadOpcode, ReadParam, NotFully,
         ConnTerm, Finish, transactVars
<1>5. script' \in [1 .. ScriptLen -> Opcodes] /\ End' = End
  BY <1>4 DEF TransactTypeOK, End
<1>6. SUFFICES /\ Position' <= arrived'
               /\ iface' \in {"opcode", "params", "closed"} /\ tx' \in 0 .. ScriptLen
  <2>1. /\ arrived' \in Nat /\ consumed' \in Nat /\ ptr_offset' \in Nat
        /\ arrived' <= End'[ScriptLen] /\ executed' \in Seq(1 .. ScriptLen)
    BY <1>1 DEF TransactTypeInv
  <2>2. Position' = consumed' + ptr_offset'
    BY DEF Position
  <2>3. ASSUME NEW x \in Nat, NEW y \in Nat, x <= y PROVE x \in 0 .. y
    BY <2>3
  <2>4. arrived' \in 0 .. End'[ScriptLen]
    <3>1. End'[ScriptLen] = End[ScriptLen]
      BY <1>5
    <3> QED
      BY <1>2, <2>1, <2>3, <3>1
  <2>5. Position' \in Nat /\ consumed' <= Position'
    <3>1. consumed' \in Nat /\ ptr_offset' \in Nat
      BY <2>1
    <3>2. ASSUME NEW x \in Nat, NEW y \in Nat PROVE x + y \in Nat /\ x <= x + y
      OBVIOUS
    <3> QED
      BY <2>2, <3>1, <3>2
  <2>6. Position' <= arrived'
    BY <1>6
  <2>7. consumed' <= arrived'
    BY <2>1, <2>5, <2>6
  <2> QED
    BY <1>5, <1>6, <2>1, <2>3, <2>4, <2>5, <2>6, <2>7 DEF TransactTypeOK
<1>7. tx \in 0 .. ScriptLen /\ iface \in {"opcode", "params", "closed"}
  BY DEF TransactTypeOK
<1>8. CASE PutBytes \/ SetConnClosed \/ UNCHANGED transactVars
  <2>1. UNCHANGED <<consumed, ptr_offset, iface, tx>> /\ arrived' \in {arrived, arrived + 1}
    BY <1>8 DEF PutBytes, SetConnClosed, transactVars, queueVars
  <2>2. Position' = Position
    BY <2>1 DEF Position
  <2> QED
    BY <1>3, <1>7, <2>1, <2>2
<1>9. CASE ReadOpcode
  <2>1. /\ Position < arrived /\ UNCHANGED <<arrived, consumed>>
        /\ ptr_offset' = ptr_offset + 1 /\ iface' \in {"opcode", "params"}
    BY <1>9 DEF ReadOpcode, ReadOk, Advance
  <2>2. Position' = Position + 1
    BY <1>3, <2>1 DEF Position
  <2>3. tx' \in 1 .. ScriptLen
    BY <1>9, OpcodeBeginsOne
  <2> QED
    BY <1>2, <1>3, <2>1, <2>2, <2>3
<1>10. CASE ReadParam
  <2>1. /\ Position < arrived /\ UNCHANGED <<arrived, consumed, iface, tx>>
        /\ ptr_offset' = ptr_offset + 1
    BY <1>10 DEF ReadParam, ReadOk, Advance
  <2>2. Position' = Position + 1
    BY <1>3, <2>1 DEF Position
  <2> QED
    BY <1>3, <1>7, <2>1, <2>2
<1>11. CASE NotFully
  <2>1. /\ UNCHANGED <<arrived, consumed, tx>> /\ ptr_offset' = 0 /\ iface' = "opcode"
    BY <1>11 DEF NotFully, Rollback
  <2>2. Position' = consumed
    BY <1>3, <2>1 DEF Position
  <2> QED
    BY <1>3, <1>7, <2>1, <2>2
<1>12. CASE ConnTerm
  <2>1. UNCHANGED <<arrived, consumed, ptr_offset, tx>> /\ iface' = "closed"
    BY <1>12 DEF ConnTerm, queueVars
  <2>2. Position' = Position
    BY <2>1 DEF Position
  <2> QED
    BY <1>3, <1>7, <2>1, <2>2
<1>13. CASE Finish
  <2>1. /\ consumed' = Position /\ ptr_offset' = 0 /\ UNCHANGED <<arrived, tx>>
        /\ iface' \in {"closed", "opcode"}
    BY <1>13 DEF Finish, Commit
  <2>2. Position' = Position
    BY <1>3, <2>1 DEF Position
  <2> QED
    BY <1>3, <1>7, <2>1, <2>2
<1> QED
  BY <1>8, <1>9, <1>10, <1>11, <1>12, <1>13 DEF TransactNext, IfaceStep

(* The reading never goes beyond what the client has sent, and it is       *)
(* always a transaction of the script that is being read.                  *)
THEOREM TransactTypeCorrect == TransactSpec => []TransactTypeOK
<1>1. TransactInit => TransactIInv /\ TransactTypeOK
  <2> SUFFICES ASSUME TransactInit PROVE TransactIInv /\ TransactTypeOK
    OBVIOUS
  <2>1. TransactIInv
    BY TransactInitIInv
  <2>2. ScriptLen \in Nat /\ End[ScriptLen] \in Nat
    BY <2>1, EndOfEach, OpcodesAssumption DEF TransactIInv, TransactTypeInv
  <2> QED
    BY <2>1, <2>2 DEF TransactInit, TransactTypeOK, Position
<1>2. TransactIInv /\ TransactTypeOK /\ [TransactNext]_transactVars
      => TransactIInv' /\ TransactTypeOK'
  BY TransactNextKeepsIInv, TransactNextKeepsTypes
<1> QED
  BY <1>1, <1>2, PTL DEF TransactSpec
=============================================================================
