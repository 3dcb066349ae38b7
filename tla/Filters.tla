------------------------------ MODULE Filters ------------------------------
(***************************************************************************)
(* The filter of a chain: which packets it lets pass, packet_logic.c:71-96 *)
(* and 121-301, and the filter of a new chain, iface.c:456-465.            *)
(*                                                                         *)
(* An address is a number of AddressBits bits.  A list of address          *)
(* specifications is a sequence; the null pointer, which lets everything   *)
(* pass, is <<>>, and a list that is there has at least one member.  A     *)
(* mask of bits is a function from its bytes to sets of bits.              *)
(***************************************************************************)
EXTENDS Integers, Sequences

CONSTANTS AddressBits,    \* 32
          ByteBits,       \* 8
          ProtocolBytes,  \* sizeof(ip_noise_protocols_bitmask), 32
          TosBytes,       \* sizeof(ip_noise_tos_bit_mask), 8
          MaxLength       \* 65535

ASSUME FiltersAssumption ==
  /\ {AddressBits, ByteBits, ProtocolBytes, TosBytes} \subseteq Nat \ {0}
  /\ MaxLength \in Nat

WhichPacketLen == {"DONT_CARE", "GT", "LT", "BETWEEN", "NOT_BETWEEN"}

(* get_packet_info: TCP and UDP only have ports. *)
NoPort == -1

PacketInfo(header) ==
  IF header.protocol \in {6, 17} THEN header
  ELSE [header EXCEPT !.source_port = NoPort, !.dest_port = NoPort]

PowerOfTwo[n \in Nat] == IF n = 0 THEN 1 ELSE 2 * PowerOfTwo[n - 1]

Addresses == 0 .. PowerOfTwo[AddressBits] - 1

(* spec_ip >> net_mask == ip >> net_mask.  A shift by the whole width is   *)
(* undefined in C; an x86 takes its count modulo the width, so such a mask *)
(* compares all of the bits instead of none.                               *)
SameNet(spec, ip) ==
  LET block == PowerOfTwo[spec.net_mask % AddressBits]
  IN  spec.ip \div block = ip \div block

(* The one member of a list that was sent with its terminator only: it is  *)
(* allocated, and nothing is written to it but its null pointers           *)
(* (iface.c:716-720 and 798-799).                                          *)
LeftByMalloc == [ip |-> -1, net_mask |-> 0, port_ranges |-> <<>>]

FitsSpec(spec, ip, port) ==
  /\ SameNet(spec, ip)
  /\ \/ port = NoPort
     \/ \E r \in 1 .. Len(spec.port_ranges) :
          /\ spec.port_ranges[r].start <= port
          /\ port <= spec.port_ranges[r].end

(* The answers that the test of an address may give: a member that malloc  *)
(* left fits or not, as it happens.  That it may also have port ranges, at *)
(* a null pointer, is left out.                                            *)
is_in_ip_filter(filter, ip, port) ==
  IF filter = <<LeftByMalloc>> THEN BOOLEAN
  ELSE {filter = <<>> \/ \E i \in 1 .. Len(filter) : FitsSpec(filter[i], ip, port)}

(* mask[n >> 3] & (1 << (n & 7)) *)
MaskBit(mask, n) == n % ByteBits \in mask[n \div ByteBits]

(* The answers the test of the TOS mask may give: its table ends long      *)
(* before the last value of the field, and the bits behind are anything.   *)
TosBit(mask, tos) ==
  IF tos \div ByteBits \in DOMAIN mask THEN {MaskBit(mask, tos)} ELSE BOOLEAN

FitsLength(filter, length) ==
  LET above == filter.min_packet_len <= length
      below == length <= filter.max_packet_len
  IN  CASE filter.which_packet_len = "DONT_CARE"   -> TRUE
        [] filter.which_packet_len = "GT"          -> above
        [] filter.which_packet_len = "LT"          -> below
        [] filter.which_packet_len = "BETWEEN"     -> above /\ below
        [] filter.which_packet_len = "NOT_BETWEEN" -> ~ (above /\ below)

(* The answers that the test of a packet may give. *)
is_in_chain_filter(filter, info) ==
  {/\ source /\ dest /\ tos
   /\ MaskBit(filter.protocols, info.protocol)
   /\ FitsLength(filter, info.length) :
     source \in is_in_ip_filter(filter.source, info.source_ip, info.source_port),
     dest \in is_in_ip_filter(filter.dest, info.dest_ip, info.dest_port),
     tos \in TosBit(filter.tos, info.tos)}

(* A mask with all of its bits set, or with none; chain_alloc's filter.    *)
Bits == 0 .. ByteBits - 1
FullMask(bytes, on) == [b \in 0 .. bytes - 1 |-> IF on THEN Bits ELSE {}]

NewFilter ==
  [source |-> <<>>, dest |-> <<>>,
   protocols |-> FullMask(ProtocolBytes, TRUE), tos |-> FullMask(TosBytes, TRUE),
   min_packet_len |-> 0, max_packet_len |-> MaxLength,
   which_packet_len |-> "DONT_CARE"]

(* Mutant: a number above the mask sets its last byte only. *)
SetMaskBitClamped(mask, n, on) ==
  LET last == CHOOSE b \in DOMAIN mask : b + 1 \notin DOMAIN mask
      byte == IF n \div ByteBits \in DOMAIN mask THEN n \div ByteBits ELSE last
  IN  [mask EXCEPT ![byte] = IF on THEN @ \cup {n % ByteBits}
                                   ELSE @ \ {n % ByteBits}]

(* set_protocol and set_tos: one bit, or all of them for a number that is  *)
(* beyond the mask.                                                        *)
SetMaskBit(mask, n, on) ==
  LET byte == n \div ByteBits
      bit == n % ByteBits
  IN  IF byte \in DOMAIN mask
        THEN [mask EXCEPT ![byte] = IF on THEN @ \cup {bit} ELSE @ \ {bit}]
        ELSE [b \in DOMAIN mask |-> IF on THEN Bits ELSE {}]
=============================================================================
