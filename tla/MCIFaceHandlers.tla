-------------------------- MODULE MCIFaceHandlers --------------------------
(* Addresses of three bits, two protocols with ports, packets at every     *)
(* limit and on each side of it; lists with their terminators: one with    *)
(* port ranges for all of its members, one with none, one of nothing.      *)
EXTENDS IFaceHandlers

LastRange == [start |-> 2, end |-> 1]
LastSpec == [ip |-> 7, net_mask |-> 0, port_ranges |-> <<LastRange>>]

MCFilters ==
  {<<[ip |-> 2, net_mask |-> 1,
      port_ranges |-> <<[start |-> 1, end |-> 2], LastRange>>],
     [ip |-> 5, net_mask |-> 0,
      port_ranges |-> <<[start |-> 0, end |-> 0], [start |-> 2, end |-> 3], LastRange>>],
     LastSpec>>,
   <<[ip |-> 4, net_mask |-> 2, port_ranges |-> <<LastRange>>], LastSpec>>,
   <<LastSpec>>}

MCPoints ==
  {<<[prob |-> 3, delay |-> 4], [prob |-> 2, delay |-> -1], [prob |-> 2, delay |-> 7]>>}

Index(i) == [which |-> 0, index |-> i]
LastOne == [which |-> 2, index |-> 0]

(* The last state alone; a table that names places twice; a destination    *)
(* that is out of range.                                                   *)
MCTables ==
  {[sources |-> <<LastOne>>, dests |-> <<LastOne>>, probs |-> <<<<1>>>>],
   [sources |-> <<Index(0), LastOne>>, dests |-> <<Index(0), LastOne>>,
    probs |-> <<<<1, 2>>, <<1, 0>>>>],
   [sources |-> <<Index(0)>>, dests |-> <<Index(0), Index(2)>>,
    probs |-> <<<<1, 1>>>>]}

Header(ip, port, protocol, tos, length) ==
  [source_ip |-> ip, dest_ip |-> 2, source_port |-> port, dest_port |-> 1,
   protocol |-> protocol, tos |-> tos, length |-> length]

MCPackets ==
  {Header(ip, port, 6, 6, 1) : ip \in 0 .. 7, port \in {0, 2}}
    \cup {Header(3, 2, protocol, 6, length) : protocol \in {5, 17}, length \in 0 .. 3}
    \cup {Header(ip, 2, 5, tos, 1) : ip \in {3, 6}, tos \in {0, 9}}
=============================================================================
