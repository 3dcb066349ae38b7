----------------------------- MODULE SplitLinear -----------------------------
(***************************************************************************)
(* The generic (split-linear) delay function: packet_logic.c:376-434 with  *)
(* the binary search of fcs_dm.c.  A table gives the delay at some         *)
(* probabilities; a draw between two of them is interpolated.              *)
(*                                                                         *)
(* Probabilities are multiples of 1/One.  A draw is less than 1            *)
(* (rand_in_0_1).  The compiler sends tables that start at 0, end at 1 and *)
(* ascend (Parser.pm:376-413); equal neighbours are allowed.               *)
(***************************************************************************)
EXTENDS Integers, Sequences

CONSTANTS One,         \* stands for the probability 1
          MaxPoints,   \* bound on the length of a table
          PointDelays \* the delays that appear in tables

ASSUME SplitLinearAssumption ==
  One \in Nat \ {0} /\ MaxPoints \in Nat /\ PointDelays \subseteq Nat

VARIABLES points,        \* the table of the current state
          sampled,       \* the last random draw
          sampled_delay  \* the delay computed from it, {} when it is undefined

tableVars == <<points, sampled, sampled_delay>>

Point == [prob : 0 .. One, delay : PointDelays]

Tables == {t \in UNION {[1 .. n -> Point] : n \in 2 .. MaxPoints} :
             /\ t[1].prob = 0 /\ t[Len(t)].prob = One
             /\ \A i \in 1 .. Len(t) - 1 : t[i].prob <= t[i + 1].prob}

(* The first and the last place, from 0, of what is left to search.        *)
Ranges(t) == (0 .. Len(t)) \X (-1 .. Len(t) - 1)

(* Mutant: a range of one element is not looked at. *)
SFO_bsearch_short(key, t) ==
  LET search[range \in Ranges(t)] ==
        LET low == range[1]
            high == range[2]
            mid == (low + high) \div 2
        IN  IF low >= high THEN [found |-> FALSE, place |-> high + 1]
            ELSE IF key < t[mid + 1].prob THEN search[<<low, mid - 1>>]
            ELSE IF key > t[mid + 1].prob THEN search[<<mid + 1, high>>]
            ELSE [found |-> TRUE, place |-> mid]
  IN  search[<<0, Len(t) - 1>>]

(***************************************************************************)
(* SFO_bsearch: the 0-based index of an element with the key, or of the    *)
(* place where the key would be inserted.                                  *)
(***************************************************************************)
SFO_bsearch(key, t) ==
  LET search[range \in Ranges(t)] ==
        LET low == range[1]
            high == range[2]
            mid == (low + high) \div 2
        IN  IF low > high THEN [found |-> FALSE, place |-> high + 1]
            ELSE IF key < t[mid + 1].prob THEN search[<<low, mid - 1>>]
            ELSE IF key > t[mid + 1].prob THEN search[<<mid + 1, high>>]
            ELSE [found |-> TRUE, place |-> mid]
  IN  search[<<0, Len(t) - 1>>]

(* searched--, whether or not the search was precise. *)
Searched(key, t) == SFO_bsearch(key, t).place - 1

(* The indices of the table, 0-based like the code's. *)
Indices(t) == 0 .. Len(t) - 1
At(t, i) == t[i + 1]

(* Mutant: a weight is counted from 0. *)
InterpolateFromZero(key, x1, y1, x2, y2) ==
  (key * y1 + (x2 - key) * y2) \div (x2 - x1)

(* packet_logic.c:418-431: between two points, with the code's weights.    *)
Interpolate(key, x1, y1, x2, y2) ==
  IF x2 = x1 THEN (y1 + y2) \div 2
             ELSE ((key - x1) * y1 + (x2 - key) * y2) \div (x2 - x1)

(* The delay, as a set: {} for a read outside the table.                   *)
SplitLinearDelay(key, t) ==
  LET i == Searched(key, t)
  IN  IF SFO_bsearch(key, t).found
        THEN {At(t, j).delay : j \in {i} \cap Indices(t)}
        ELSE IF {i, i + 1} \subseteq Indices(t)
          THEN {Interpolate(key, At(t, i).prob,     At(t, i).delay,
                                 At(t, i + 1).prob, At(t, i + 1).delay)}
          ELSE {}

-----------------------------------------------------------------------------
TableInit == points \in Tables /\ sampled = 0 /\ sampled_delay = {}

Sample ==
  \E key \in 0 .. One - 1 :
    /\ sampled' = key
    /\ sampled_delay' = SplitLinearDelay(key, points)
    /\ UNCHANGED points

TableSpec == TableInit /\ [][Sample]_tableVars

-----------------------------------------------------------------------------
TableTypeOK ==
  points \in Seq(Point) /\ sampled \in 0 .. One - 1 /\ sampled_delay \subseteq Nat

(* The binary search against its specification (fcs_dm.c:8-20): it finds a *)
(* key that is there, and otherwise says where it belongs.                 *)
BsearchCorrect ==
  LET r == SFO_bsearch(sampled, points)
  IN  IF \E p \in Indices(points) : At(points, p).prob = sampled
        THEN r.found /\ r.place \in Indices(points)
                     /\ At(points, r.place).prob = sampled
        ELSE ~ r.found /\ \A p \in Indices(points) :
                            (At(points, p).prob < sampled) <=> (p < r.place)

(* A draw other than 0 never makes the code read outside the table, and    *)
(* between two points the delay is never outside the two delays given.  (A *)
(* draw of exactly 0 finds the first point, and searched-- leaves the      *)
(* table: packet_logic.c:404-408.)                                         *)
StaysBetween ==
  [][sampled' # 0 =>
       /\ sampled_delay' # {}
       /\ \A d \in sampled_delay' :
            \A p \in 1 .. Len(points) - 1 :
              points[p].prob < sampled' /\ sampled' < points[p + 1].prob =>
                \/ points[p].delay <= d /\ d <= points[p + 1].delay
                \/ points[p + 1].delay <= d /\ d <= points[p].delay]_tableVars

(* Docs/Users_Guide/main.html:382-384: "For each such point, one specifies *)
(* the delay at that point. Between two adjacent points, one interpolates  *)
(* their end-values linearly."  The weights of the two ends: at x1 the     *)
(* delay is y1, at x2 it is y2.                                            *)
InterpolatesLinearly ==
  \A p \in 1 .. Len(points) - 1 :
    points[p].prob < sampled /\ sampled < points[p + 1].prob =>
      \A d \in sampled_delay :
        LET x1 == points[p].prob      y1 == points[p].delay
            x2 == points[p + 1].prob  y2 == points[p + 1].delay
        IN  d = ((x2 - sampled) * y1 + (sampled - x1) * y2) \div (x2 - x1)
=============================================================================
