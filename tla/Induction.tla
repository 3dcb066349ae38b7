----------------------------- MODULE Induction -----------------------------
(***************************************************************************)
(* Induction over natural numbers and over finite sets, and the existence  *)
(* of functions defined by recursion, stated with sets and functions in    *)
(* the place of predicates and operators.  All rests on one fact of the    *)
(* library: to be a strict subset is well-founded on finite sets.          *)
(***************************************************************************)
EXTENDS Integers, FiniteSets, FiniteSetTheorems, WellFoundedInduction, TLAPS

(* A set of finite sets has a least member, one that includes no other.    *)
LEMMA LeastSet ==
  ASSUME NEW S, NEW T, T # {}, \A A \in T : A \subseteq S /\ IsFiniteSet(A)
  PROVE  \E A \in T : \A B \in T : B \subseteq A => B = A
<1> DEFINE R == StrictSubsetOrdering(S)
<1>1. IsWellFoundedOn(R, FiniteSubsetsOf(S)) /\ T \subseteq FiniteSubsetsOf(S)
  BY FS_StrictSubsetOrderingWellFounded DEF FiniteSubsetsOf
<1>2. \E A \in T : \A B \in T : ~ (<<B, A>> \in R)
  <2> HIDE DEF R
  <2> QED
    BY <1>1, WFMin
<1> QED
  BY <1>2 DEF StrictSubsetOrdering

(* A set of natural numbers has a least one.                               *)
LEMMA LeastNatural ==
  ASSUME NEW S \in SUBSET Nat, S # {}
  PROVE  \E n \in S : \A m \in S : n <= m
<1> DEFINE T == {0 .. n : n \in S}
<1>1. ASSUME NEW A \in T PROVE A \subseteq Nat /\ IsFiniteSet(A)
  <2>1. PICK n \in Nat : A = 0 .. n
    OBVIOUS
  <2>2. IsFiniteSet(0 .. n)
    BY FS_Interval
  <2> QED
    BY <2>1, <2>2
<1>2. \E A \in T : \A B \in T : B \subseteq A => B = A
  <2>1. T # {}
    OBVIOUS
  <2>2. \A A \in T : A \subseteq Nat /\ IsFiniteSet(A)
    BY <1>1
  <2> HIDE DEF T
  <2> QED
    BY <2>1, <2>2, LeastSet
<1>3. PICK n \in S : \A B \in T : B \subseteq 0 .. n => B = 0 .. n
  BY <1>2
<1>4. ASSUME NEW m \in S, m < n PROVE FALSE
  <2>1. 0 .. m \subseteq 0 .. n /\ n \in 0 .. n /\ n \notin 0 .. m
    BY <1>4
  <2>2. 0 .. m \in T
    OBVIOUS
  <2> QED
    BY <2>1, <2>2, <1>3, Zenon
<1> QED
  BY <1>4

(* Induction: a set with 0 and with the successors of its members has all. *)
LEMMA NaturalInduction ==
  ASSUME NEW S, 0 \in S, \A n \in Nat : n \in S => n + 1 \in S
  PROVE  Nat \subseteq S
<1> SUFFICES ASSUME Nat \ S # {} PROVE FALSE
  OBVIOUS
<1>1. PICK n \in Nat \ S : \A m \in Nat \ S : n <= m
  BY LeastNatural
<1> QED
  BY <1>1

(* Induction up to a bound.                                                *)
LEMMA InductionTo ==
  ASSUME NEW k \in Nat, NEW S, 0 \in S, \A n \in 0 .. k - 1 : n \in S => n + 1 \in S
  PROVE  0 .. k \subseteq S
<1> DEFINE T == {n \in Nat : n <= k => n \in S}
<1>1. 0 \in T /\ \A n \in Nat : n \in T => n + 1 \in T
  OBVIOUS
<1>2. Nat \subseteq T
  <2> HIDE DEF T
  <2> QED
    BY <1>1, NaturalInduction
<1> QED
  BY <1>2

-----------------------------------------------------------------------------
(* The functions on 0 .. n that begin with c and go on by the step g.      *)
Begun(S, c, g, n) ==
  {h \in [0 .. n -> S] : h[0] = c /\ \A i \in 1 .. n : h[i] = g[<<i, h[i - 1]>>]}

LEMMA BegunExists ==
  ASSUME NEW S, NEW c \in S, NEW g \in [Nat \X S -> S]
  PROVE  \A n \in Nat : Begun(S, c, g, n) # {}
<1> DEFINE T == {n \in Nat : Begun(S, c, g, n) # {}}
<1>1. 0 \in T
  <2>1. [i \in 0 .. 0 |-> c] \in Begun(S, c, g, 0)
    BY DEF Begun
  <2> QED
    BY <2>1
<1>2. ASSUME NEW n \in Nat, n \in T PROVE n + 1 \in T
  <2>1. PICK h \in [0 .. n -> S] : h[0] = c /\ \A i \in 1 .. n : h[i] = g[<<i, h[i - 1]>>]
    BY <1>2 DEF Begun
  <2> DEFINE k == [i \in 0 .. n + 1 |-> IF i = n + 1 THEN g[<<n + 1, h[n]>>] ELSE h[i]]
  <2>2. g[<<n + 1, h[n]>>] \in S
    BY <2>1
  <2>3. k \in [0 .. n + 1 -> S] /\ k[0] = c
    BY <2>1, <2>2
  <2>4. ASSUME NEW i \in 1 .. n + 1 PROVE k[i] = g[<<i, k[i - 1]>>]
    <3>1. i - 1 \in 0 .. n /\ k[i - 1] = h[i - 1]
      OBVIOUS
    <3>2. CASE i = n + 1
      <4>1. k[i] = g[<<n + 1, h[n]>>] /\ i - 1 = n
        BY <3>2
      <4> QED
        BY <3>1, <3>2, <4>1
    <3>3. CASE i \in 1 .. n
      BY <3>1, <3>3, <2>1
    <3> QED
      BY <3>2, <3>3
  <2>5. k \in Begun(S, c, g, n + 1)
    <3> HIDE DEF k
    <3> QED
      BY <2>3, <2>4 DEF Begun
  <2> QED
    BY <2>5
<1>3. Nat \subseteq T
  <2> HIDE DEF T
  <2> QED
    BY <1>1, <1>2, NaturalInduction
<1> QED
  BY <1>3

(* As far as a bound, first value and step define a function.              *)
LEMMA RecursionTo ==
  ASSUME NEW k \in Nat, NEW S, NEW c \in S, NEW g \in [(1 .. k) \X S -> S]
  PROVE  Begun(S, c, g, k) # {}
<1> DEFINE e == [p \in Nat \X S |-> IF p[1] \in 1 .. k THEN g[p] ELSE c]
<1>1. ASSUME NEW p \in Nat \X S PROVE e[p] \in S
  <2>1. CASE p[1] \in 1 .. k
    <3>1. p \in (1 .. k) \X S
      BY <2>1
    <3> QED
      BY <2>1, <3>1
  <2> QED
    BY <2>1
<1>2. e \in [Nat \X S -> S]
  BY <1>1
<1>3. \A i \in 1 .. k, x \in S : e[<<i, x>>] = g[<<i, x>>]
  OBVIOUS
<1> HIDE DEF e
<1>4. PICK f \in Begun(S, c, e, k) : TRUE
  <2>1. Begun(S, c, e, k) # {}
    BY <1>2, BegunExists
  <2> QED
    BY <2>1
<1>5. \A i \in 1 .. k : f[i - 1] \in S
  BY <1>4 DEF Begun
<1>6. f \in Begun(S, c, g, k)
  BY <1>3, <1>4, <1>5 DEF Begun
<1> QED
  BY <1>6

LEMMA BegunAgree ==
  ASSUME NEW S, NEW c \in S, NEW g \in [Nat \X S -> S],
         NEW m \in Nat, NEW n \in Nat, m <= n,
         NEW h \in Begun(S, c, g, m), NEW k \in Begun(S, c, g, n)
  PROVE  \A i \in 0 .. m : h[i] = k[i]
<1> DEFINE T == {i \in 0 .. m : h[i] = k[i]}
<1>1. /\ h[0] = c /\ \A i \in 1 .. m : h[i] = g[<<i, h[i - 1]>>]
      /\ k[0] = c /\ \A i \in 1 .. n : k[i] = g[<<i, k[i - 1]>>]
  BY DEF Begun
<1>2. 0 \in T
  BY <1>1
<1>3. ASSUME NEW i \in 0 .. m - 1, i \in T PROVE i + 1 \in T
  <2>1. i + 1 \in 1 .. m /\ i + 1 \in 1 .. n /\ (i + 1) - 1 = i /\ h[i] = k[i]
    BY <1>3
  <2>2. h[i + 1] = g[<<i + 1, h[i]>>] /\ k[i + 1] = g[<<i + 1, k[i]>>]
    BY <1>1, <2>1
  <2> QED
    BY <2>1, <2>2
<1>4. 0 .. m \subseteq T
  <2> HIDE DEF T
  <2> QED
    BY <1>2, <1>3, InductionTo
<1> QED
  BY <1>4

(* A function on the natural numbers may be defined by its first value and *)
(* a step.                                                                 *)
GoesOn(f, c, g) == f[0] = c /\ \A n \in Nat \ {0} : f[n] = g[<<n, f[n - 1]>>]

LEMMA RecursiveFunction ==
  ASSUME NEW S, NEW c \in S, NEW g \in [Nat \X S -> S]
  PROVE  \E f \in [Nat -> S] : GoesOn(f, c, g)
<1> DEFINE hh(n) == CHOOSE h \in Begun(S, c, g, n) : TRUE
           f == [n \in Nat |-> hh(n)[n]]
<1>1. \A n \in Nat : hh(n) \in Begun(S, c, g, n)
  BY BegunExists
<1>2. \A n \in Nat : f[n] = hh(n)[n]
  OBVIOUS
<1> HIDE DEF hh
<1>3. f \in [Nat -> S]
  BY <1>1 DEF Begun
<1>4. f[0] = c
  BY <1>1, <1>2 DEF Begun
<1>5. ASSUME NEW n \in Nat \ {0} PROVE f[n] = g[<<n, f[n - 1]>>]
  <2>1. hh(n)[n] = g[<<n, hh(n)[n - 1]>>]
    BY <1>1 DEF Begun
  <2>2. n - 1 \in Nat /\ n - 1 <= n /\ n - 1 \in 0 .. n - 1
    OBVIOUS
  <2>3. hh(n - 1)[n - 1] = hh(n)[n - 1]
    <3>1. hh(n - 1) \in Begun(S, c, g, n - 1) /\ hh(n) \in Begun(S, c, g, n)
      BY <1>1, <2>2
    <3>2. \A i \in 0 .. n - 1 : hh(n - 1)[i] = hh(n)[i]
      BY <2>2, <3>1, BegunAgree
    <3> QED
      BY <2>2, <3>2
  <2> QED
    BY <1>2, <2>1, <2>2, <2>3
<1> HIDE DEF f
<1> QED
  BY <1>3, <1>4, <1>5 DEF GoesOn
-----------------------------------------------------------------------------
(* Recursion and induction along a descent: p[x] is the place after x, m   *)
(* falls on the way, and B are the places where it ends.                   *)
Descends(D, B, p, m) ==
  /\ p \in [D -> D] /\ m \in [D -> Nat]
  /\ \A x \in D \ B : m[p[x]] < m[x]

LEMMA DescentInduction ==
  ASSUME NEW D, NEW B, NEW p, NEW m, Descends(D, B, p, m),
         NEW T, \A x \in D : x \in B \/ p[x] \in T => x \in T
  PROVE  D \subseteq T
<1> DEFINE left == {m[x] : x \in D \ T}
<1> SUFFICES ASSUME D \ T # {} PROVE FALSE
  OBVIOUS
<1>1. left \in SUBSET Nat /\ left # {}
  BY DEF Descends
<1>2. PICK n \in left : \A k \in left : n <= k
  <2> HIDE DEF left
  <2> QED
    BY <1>1, LeastNatural
<1>3. PICK x \in D \ T : m[x] = n
  BY <1>2
<1>4. p[x] \in D \ T /\ m[p[x]] < m[x]
  BY <1>3 DEF Descends
<1>5. m[p[x]] \in left /\ m[p[x]] \in Nat /\ m[x] \in Nat
  BY <1>3, <1>4 DEF Descends
<1> QED
  BY <1>2, <1>3, <1>4, <1>5

(* The function with the values c where the descent ends, and elsewhere    *)
(* what g makes of its value at the next place.                            *)
Unfolds(f, D, B, c, g, p) ==
  \A x \in D : f[x] = IF x \in B THEN c[x] ELSE g[<<x, f[p[x]]>>]

LEMMA DescentFunction ==
  ASSUME NEW D, NEW B, NEW p, NEW m, Descends(D, B, p, m),
         NEW S, NEW c \in [D -> S], NEW g \in [D \X S -> S]
  PROVE  \E f \in [D -> S] : Unfolds(f, D, B, c, g, p)
<1> DEFINE H == [D -> S]
           step == [q \in Nat \X H |->
                      [x \in D |-> IF x \in B THEN c[x] ELSE g[<<x, q[2][p[x]]>>]]]
<1>1. step \in [Nat \X H -> H]
  BY DEF Descends
<1>2. PICK F \in [Nat -> H] : GoesOn(F, c, step)
  <2>1. c \in H
    OBVIOUS
  <2> HIDE DEF step, H
  <2> QED
    BY <1>1, <2>1, RecursiveFunction
<1>3. \A n \in Nat, x \in D :
        F[n + 1][x] = IF x \in B THEN c[x] ELSE g[<<x, F[n][p[x]]>>]
  <2> SUFFICES ASSUME NEW n \in Nat, NEW x \in D
               PROVE  F[n + 1][x] = IF x \in B THEN c[x] ELSE g[<<x, F[n][p[x]]>>]
    OBVIOUS
  <2>1. n + 1 \in Nat \ {0} /\ (n + 1) - 1 = n /\ F[n] \in H
    BY <1>2
  <2>2. F[n + 1] = step[<<n + 1, F[n]>>] /\ <<n + 1, F[n]>> \in Nat \X H
    BY <1>2, <2>1 DEF GoesOn
  <2> HIDE DEF H
  <2> QED
    BY <2>2
<1> DEFINE T == {x \in D : \A n \in Nat : n >= m[x] => F[n + 1][x] = F[m[x] + 1][x]}
<1>4. ASSUME NEW x \in D, x \in B \/ p[x] \in T
      PROVE  x \in T
  <2>1. m[x] \in Nat
    BY DEF Descends
  <2>2. CASE x \in B
    BY <1>3, <2>1, <2>2
  <2>3. CASE x \notin B
    <3>1. p[x] \in D /\ m[p[x]] \in Nat /\ m[p[x]] < m[x]
      BY <2>3 DEF Descends
    <3>2. \A n \in Nat : n >= m[p[x]] => F[n + 1][p[x]] = F[m[p[x]] + 1][p[x]]
      BY <1>4, <2>3
    <3>3. ASSUME NEW n \in Nat, n >= m[x]
          PROVE  F[n][p[x]] = F[m[p[x]] + 1][p[x]]
      <4>1. n - 1 \in Nat /\ n - 1 >= m[p[x]] /\ (n - 1) + 1 = n
        BY <2>1, <3>1, <3>3
      <4> QED
        BY <3>2, <4>1
    <3>4. ASSUME NEW n \in Nat, n >= m[x]
          PROVE  F[n + 1][x] = F[m[x] + 1][x]
      <4>1. F[n][p[x]] = F[m[x]][p[x]]
        BY <2>1, <3>3, <3>4
      <4>2. F[n + 1][x] = g[<<x, F[n][p[x]]>>]
        BY <1>3, <2>3
      <4>3. F[m[x] + 1][x] = g[<<x, F[m[x]][p[x]]>>]
        BY <1>3, <2>1, <2>3
      <4> QED
        BY <4>1, <4>2, <4>3
    <3> QED
      BY <3>4
  <2> QED
    BY <2>2, <2>3
<1>5. D \subseteq T
  <2>1. \A x \in D : x \in B \/ p[x] \in T => x \in T
    BY <1>4
  <2> HIDE DEF T
  <2> QED
    BY <2>1, DescentInduction
<1> DEFINE f == [x \in D |-> F[m[x] + 1][x]]
<1>6. f \in [D -> S]
  BY <1>2 DEF Descends
<1>7. ASSUME NEW x \in D
      PROVE  f[x] = IF x \in B THEN c[x] ELSE g[<<x, f[p[x]]>>]
  <2>1. m[x] \in Nat /\ p[x] \in D
    BY DEF Descends
  <2>2. F[m[x] + 1][x] = IF x \in B THEN c[x] ELSE g[<<x, F[m[x]][p[x]]>>]
    BY <1>3, <2>1
  <2>3. CASE x \in B
    BY <2>2, <2>3
  <2>4. CASE x \notin B
    <3>1. m[p[x]] \in Nat /\ m[p[x]] < m[x]
      BY <2>1, <2>4 DEF Descends
    <3>2. m[x] - 1 \in Nat /\ m[x] - 1 >= m[p[x]] /\ (m[x] - 1) + 1 = m[x]
      BY <2>1, <3>1
    <3>3. \A n \in Nat : n >= m[p[x]] => F[n + 1][p[x]] = F[m[p[x]] + 1][p[x]]
      BY <1>5, <2>1
    <3>4. F[m[x]][p[x]] = f[p[x]]
      BY <2>1, <3>2, <3>3
    <3> QED
      BY <2>2, <2>4, <3>4
  <2> QED
    BY <2>3, <2>4
<1> HIDE DEF f
<1> QED
  BY <1>6, <1>7 DEF Unfolds
=============================================================================
