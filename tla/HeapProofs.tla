----------------------------- MODULE HeapProofs -----------------------------
(***************************************************************************)
(* Proofs about PQueue, for any elements: the array stays a heap, without  *)
(* duplicates, and implements AbstractPQueue.                              *)
(***************************************************************************)
EXTENDS PQueue, Induction, SequenceTheorems

(* The keys ascend from parent to child.                                   *)
Ordered(h) == \A i \in 2 .. Len(h) : h[Parent(i)].key <= h[i].key

Distinct(h) == \A i, j \in 1 .. Len(h) : h[i] = h[j] => i = j

Values(h) == {h[i] : i \in 1 .. Len(h)}

(* Of parents and children *)
LEMMA Parents ==
  /\ \A i \in Nat \ {0, 1} : Parent(i) \in 1 .. i - 1 /\ Parent(i) \in Nat
  /\ \A i, j \in Nat : i <= j => Parent(i) <= Parent(j)
  /\ \A i \in Nat : Parent(2 * i) = i /\ Parent(2 * i + 1) = i
  /\ \A i, j \in Nat : Parent(j) = i => j = 2 * i \/ j = 2 * i + 1
<1>1. \A i \in Nat : Parent(i) \in Nat /\ i \in {2 * Parent(i), 2 * Parent(i) + 1}
  BY DEF Parent
<1>2. \A i \in Nat \ {0, 1} : Parent(i) \in 1 .. i - 1 /\ Parent(i) \in Nat
  BY DEF Parent
<1>3. \A i, j \in Nat : i <= j => Parent(i) <= Parent(j)
  BY DEF Parent
<1>4. \A i \in Nat : Parent(2 * i) = i /\ Parent(2 * i + 1) = i
  BY DEF Parent
<1> QED
  BY <1>1, <1>2, <1>3, <1>4

(* The callback compares the keys, whatever else the elements hold.        *)
LEMMA Keys ==
  /\ \A e \in Elements : e.key \in Int
  /\ \A e, f \in Elements : /\ cmp(e, f) > 0 <=> f.key < e.key
                            /\ cmp(e, f) < 0 <=> e.key < f.key
<1>1. \A e \in Elements : e.key \in Int
  BY ElementsAssumption
<1> QED
  BY <1>1 DEF cmp

-----------------------------------------------------------------------------
(* PQueuePush                                                              *)

(* The places from which the hole climbs on.                               *)
Climbs(h, item) == {i \in 2 .. Len(h) + 1 : cmp(h[Parent(i)], item) > 0}

Up(h, item) ==
  [i \in 1 .. Len(h) + 1 |-> IF i \in Climbs(h, item) THEN Parent(i) ELSE i]

IsClimb(f, h, item) ==
  f = [i \in 1 .. Len(h) + 1 |->
         IF i = 1 \/ ~ (cmp(h[Parent(i)], item) > 0)
           THEN [Append(h, item) EXCEPT ![i] = item]
           ELSE [f[Parent(i)] EXCEPT ![i] = h[Parent(i)]]]

(* The array when the hole rests at i, and when it has moved on from i.    *)
Rested(h, item, i) == [Append(h, item) EXCEPT ![i] = item]
Lowered(h, i, a) == [a EXCEPT ![i] = h[Parent(i)]]

(* The climb goes from a place to one before it.                           *)
LEMMA UpDescends ==
  ASSUME NEW h \in Seq(Elements), NEW item
  PROVE  LET D == 1 .. Len(h) + 1
         IN  Descends(D, D \ Climbs(h, item), Up(h, item), [i \in D |-> i])
<1> DEFINE D == 1 .. Len(h) + 1
<1>1. Len(h) \in Nat
  OBVIOUS
<1>2. ASSUME NEW i \in D
      PROVE  /\ Up(h, item)[i] \in D
             /\ i \in Climbs(h, item) => Up(h, item)[i] < i
  <2>1. CASE i \in Climbs(h, item)
    <3>1. i \in Nat \ {0, 1}
      BY <2>1 DEF Climbs
    <3>2. Parent(i) \in 1 .. i - 1 /\ Up(h, item)[i] = Parent(i)
      BY <2>1, <3>1, Parents DEF Up
    <3> QED
      BY <1>1, <3>1, <3>2
  <2>2. CASE i \notin Climbs(h, item)
    BY <2>2 DEF Up
  <2> QED
    BY <2>1, <2>2
<1>3. Up(h, item) \in [D -> D]
  BY <1>2 DEF Up
<1>4. [i \in D |-> i] \in [D -> Nat]
  BY <1>1
<1> QED
  BY <1>2, <1>3, <1>4 DEF Descends

(* The array with the item behind its end, place by place.                 *)
LEMMA AppendIs ==
  ASSUME NEW h \in Seq(Elements), NEW item \in Elements
  PROVE  /\ Append(h, item) \in [1 .. Len(h) + 1 -> Elements] /\ Len(h) \in Nat
         /\ Append(h, item)[Len(h) + 1] = item
         /\ \A i \in 1 .. Len(h) : Append(h, item)[i] = h[i] /\ h[i] \in Elements
<1>1. Append(h, item) \in Seq(Elements) /\ Len(Append(h, item)) = Len(h) + 1 /\ Len(h) \in Nat
  OBVIOUS
<1>2. Append(h, item) \in [1 .. Len(h) + 1 -> Elements]
  BY <1>1, ElementOfSeq, LenProperties
<1>3. \A i \in 1 .. Len(h) : Append(h, item)[i] = h[i] /\ h[i] \in Elements
  OBVIOUS
<1>4. Append(h, item)[Len(h) + 1] = item
  OBVIOUS
<1> QED
  BY <1>1, <1>2, <1>3, <1>4

(* What the loop makes of the array from each place of the hole.           *)
LEMMA PushSteps ==
  ASSUME NEW h \in Seq(Elements), NEW item \in Elements
  PROVE  LET D == 1 .. Len(h) + 1
         IN  \E f \in [D -> [D -> Elements]] :
               /\ Push(h, item) = f[Len(h) + 1]
               /\ \A i \in D : f[i] = IF i \in Climbs(h, item) THEN Lowered(h, i, f[Parent(i)])
                                                              ELSE Rested(h, item, i)
<1> DEFINE D == 1 .. Len(h) + 1
           S == [D -> Elements]
           C == Climbs(h, item)
           B == D \ C
           p == Up(h, item)
           m == [i \in D |-> i]
           c == [i \in D |-> Rested(h, item, i)]
           g == [q \in D \X S |-> IF q[1] \in C THEN Lowered(h, q[1], q[2]) ELSE q[2]]
           F == CHOOSE f : IsClimb(f, h, item)
<1>1. c \in [D -> S]
  BY AppendIs DEF Rested
<1>2. \A i \in C : Parent(i) \in D /\ h[Parent(i)] \in Elements /\ i \in D
  <2>1. ASSUME NEW i \in C PROVE Parent(i) \in 1 .. Len(h) /\ i \in D
    <3>1. i \in 2 .. Len(h) + 1 /\ Len(h) \in Nat
      BY DEF Climbs
    <3>2. Parent(i) \in 1 .. i - 1 /\ Parent(i) \in Nat
      BY <3>1, Parents
    <3> QED
      BY <3>1, <3>2
  <2> QED
    BY <2>1, AppendIs
<1>3. \A i \in C : \A a \in S : Lowered(h, i, a) \in S
  BY <1>2 DEF Lowered
<1>4. g \in [D \X S -> S]
  <2> HIDE DEF C, S
  <2> QED
    BY <1>3
<1>5. Descends(D, B, p, m)
  BY UpDescends
<1>6. PICK k \in [D -> S] : Unfolds(k, D, B, c, g, p)
  <2> HIDE DEF D, S, B, c, g, p, m
  <2> QED
    BY <1>1, <1>4, <1>5, DescentFunction
<1>7. \A i \in D : i \in C <=> ~ (i = 1 \/ ~ (cmp(h[Parent(i)], item) > 0))
  BY AppendIs DEF Climbs
<1>8. ASSUME NEW f
      PROVE  IsClimb(f, h, item) <=>
               f = [i \in D |-> IF i \in C THEN Lowered(h, i, f[Parent(i)])
                                           ELSE Rested(h, item, i)]
  <2>1. IsClimb(f, h, item) <=>
          f = [i \in D |-> IF i = 1 \/ ~ (cmp(h[Parent(i)], item) > 0)
                             THEN Rested(h, item, i)
                             ELSE Lowered(h, i, f[Parent(i)])]
    BY Zenon DEF IsClimb, Rested, Lowered
  <2> HIDE DEF C, D
  <2> QED
    BY <1>7, <2>1
<1>9. ASSUME NEW i \in D
      PROVE  k[i] = IF i \in C THEN Lowered(h, i, k[Parent(i)]) ELSE Rested(h, item, i)
  <2>1. k[i] = IF i \in B THEN c[i] ELSE g[<<i, k[p[i]]>>]
    BY <1>6 DEF Unfolds
  <2>2. CASE i \in C
    <3>1. p[i] = Parent(i) /\ Parent(i) \in D /\ k[Parent(i)] \in S
      BY <1>2, <1>6, <2>2 DEF Up
    <3>2. g[<<i, k[Parent(i)]>>] = Lowered(h, i, k[Parent(i)])
      BY <2>2, <3>1
    <3> QED
      BY <2>1, <2>2, <3>1, <3>2
  <2>3. CASE i \notin C
    BY <2>1, <2>3
  <2> QED
    BY <2>2, <2>3
<1>10. IsClimb(k, h, item)
  <2>1. k = [i \in D |-> k[i]]
    BY <1>6
  <2>2. k = [i \in D |-> IF i \in C THEN Lowered(h, i, k[Parent(i)])
                                    ELSE Rested(h, item, i)]
    <3> HIDE DEF D, C
    <3> QED
      BY <1>9, <2>1
  <2> QED
    BY <1>8, <2>2
<1>11. IsClimb(F, h, item)
  BY <1>10
<1> HIDE DEF F
<1>12. /\ F = [i \in D |-> F[i]]
       /\ \A i \in D : F[i] = IF i \in C THEN Lowered(h, i, F[Parent(i)])
                                       ELSE Rested(h, item, i)
  <2> HIDE DEF D, C
  <2>1. F = [i \in D |-> IF i \in C THEN Lowered(h, i, F[Parent(i)])
                                    ELSE Rested(h, item, i)]
    BY <1>8, <1>11
  <2>2. \A i \in D : F[i] = IF i \in C THEN Lowered(h, i, F[Parent(i)])
                                       ELSE Rested(h, item, i)
    BY <2>1
  <2> QED
    BY <2>1, <2>2
<1>13. F \in [D -> S]
  <2> DEFINE T == {i \in D : F[i] \in S}
  <2>1. ASSUME NEW i \in D, i \in B \/ p[i] \in T
        PROVE  i \in T
    <3>1. CASE i \in C
      <4>1. p[i] = Parent(i)
        BY <3>1 DEF Up
      <4>2. F[Parent(i)] \in S
        BY <2>1, <3>1, <4>1
      <4> HIDE DEF C, S
      <4> QED
        BY <1>3, <1>12, <3>1, <4>2
    <3>2. CASE i \notin C
      <4>1. c[i] = Rested(h, item, i) /\ c[i] \in S
        BY <1>1
      <4> HIDE DEF c, S, C
      <4> QED
        BY <1>12, <3>2, <4>1
    <3> QED
      BY <3>1, <3>2
  <2>2. D \subseteq T
    <3>1. \A i \in D : i \in B \/ p[i] \in T => i \in T
      BY <2>1
    <3> HIDE DEF D, B, p, m, T
    <3> QED
      BY <1>5, <3>1, DescentInduction
  <2> HIDE DEF S, D
  <2> QED
    BY <1>12, <2>2
<1>14. Push(h, item) = F[Len(h) + 1]
  BY DEF Push, IsClimb, F
<1> HIDE DEF D, C, S
<1> QED
  BY <1>12, <1>13, <1>14 DEF D, C, S

(* A hole that climbs on goes to a place before it.                        *)
LEMMA ClimbsToParent ==
  ASSUME NEW h \in Seq(Elements), NEW item, NEW i \in Climbs(h, item)
  PROVE  /\ i \in 2 .. Len(h) + 1 /\ i \in Nat /\ Len(h) \in Nat
         /\ Parent(i) \in 1 .. i - 1 /\ Parent(i) \in 1 .. Len(h) + 1 /\ Parent(i) \in Nat
<1>1. i \in 2 .. Len(h) + 1 /\ Len(h) \in Nat
  BY DEF Climbs
<1>2. Parent(i) \in 1 .. i - 1 /\ Parent(i) \in Nat
  BY <1>1, Parents
<1> QED
  BY <1>1, <1>2

(* The values up to a place.                                               *)
ValuesTo(a, i) == {a[j] : j \in 1 .. i}

(* Before the hole at i the item has joined, behind it nothing changed,    *)
(* and nothing is there twice.                                             *)
HasJoined(a, i, h, item) ==
  /\ \A j \in i + 1 .. Len(h) + 1 : a[j] = Append(h, item)[j]
  /\ ValuesTo(a, i) = {item} \cup ValuesTo(h, i - 1)
  /\ \A j, k \in 1 .. i : a[j] = a[k] => j = k

(* At every place of the hole, by induction along the climb.               *)
LEMMA PushJoins ==
  ASSUME NEW h \in Seq(Elements), NEW item \in Elements, Distinct(h), item \notin Values(h),
         NEW f \in [1 .. Len(h) + 1 -> [1 .. Len(h) + 1 -> Elements]],
         \A i \in 1 .. Len(h) + 1 :
            f[i] = IF i \in Climbs(h, item) THEN Lowered(h, i, f[Parent(i)])
                                            ELSE Rested(h, item, i)
  PROVE  \A i \in 1 .. Len(h) + 1 : HasJoined(f[i], i, h, item)
<1> DEFINE D == 1 .. Len(h) + 1
           p == Up(h, item)
           H == Append(h, item)
           T == {i \in D : HasJoined(f[i], i, h, item)}
<1>1. /\ H \in [D -> Elements] /\ Len(h) \in Nat /\ H[Len(h) + 1] = item
      /\ \A i \in 1 .. Len(h) : H[i] = h[i]
  BY AppendIs
<1>2. \A j, k \in 1 .. Len(h) : h[j] = h[k] => j = k
  BY DEF Distinct
<1>3. \A j \in 1 .. Len(h) : h[j] # item
  BY DEF Values
<1>4. ASSUME NEW i \in D, i \notin Climbs(h, item)
      PROVE  HasJoined(f[i], i, h, item)
  <2> DEFINE a == f[i]
  <2>1. a = [H EXCEPT ![i] = item]
    BY <1>4 DEF Rested
  <2>2. \A j \in D : a[j] = IF j = i THEN item ELSE H[j]
    BY <1>1, <2>1
  <2> HIDE DEF a
  <2>3. \A j \in i + 1 .. Len(h) + 1 : a[j] = H[j]
    <3>1. \A j \in i + 1 .. Len(h) + 1 : j \in D /\ j # i
      BY <1>1
    <3> HIDE DEF D, H
    <3> QED
      BY <2>2, <3>1
  <2>4. \A j \in 1 .. i - 1 : a[j] = h[j]
    BY <1>1, <2>2
  <2>5. a[i] = item
    BY <2>2
  <2>6. ValuesTo(a, i) = {item} \cup ValuesTo(h, i - 1)
    <3>1. i \in Nat /\ \A j \in 1 .. i : j = i \/ j \in 1 .. i - 1
      BY <1>1
    <3>2. i \in 1 .. i /\ \A j \in 1 .. i - 1 : j \in 1 .. i
      BY <3>1
    <3>3. ASSUME NEW j \in 1 .. i PROVE a[j] = item \/ \E k \in 1 .. i - 1 : a[j] = h[k]
      BY <2>4, <2>5, <3>1
    <3>4. ASSUME NEW k \in 1 .. i - 1 PROVE \E j \in 1 .. i : a[j] = h[k]
      BY <2>4, <3>2
    <3>5. \E j \in 1 .. i : a[j] = item
      BY <2>5, <3>2
    <3> HIDE DEF D, H
    <3> QED
      BY <3>3, <3>4, <3>5 DEF ValuesTo
  <2>7. \A j, k \in 1 .. i : a[j] = a[k] => j = k
    BY <1>1, <1>2, <1>3, <2>4, <2>5
  <2> QED
    BY <2>3, <2>6, <2>7 DEF HasJoined, a
<1>5. ASSUME NEW i \in D, i \in Climbs(h, item), HasJoined(f[Parent(i)], Parent(i), h, item)
      PROVE  HasJoined(f[i], i, h, item)
  <2> DEFINE a == f[i]
             q == Parent(i)
             b == f[q]
  <2>1. i \in 2 .. Len(h) + 1 /\ q \in 1 .. i - 1 /\ q \in D /\ i \in Nat
    BY <1>5, ClimbsToParent
  <2>2. b \in [D -> Elements] /\ a = [b EXCEPT ![i] = h[q]]
    BY <1>5, <2>1 DEF Lowered
  <2>3. \A j \in D : a[j] = IF j = i THEN h[q] ELSE b[j]
    BY <2>2
  <2>4. /\ \A j \in q + 1 .. Len(h) + 1 : b[j] = H[j]
        /\ ValuesTo(b, q) = {item} \cup ValuesTo(h, q - 1)
        /\ \A j, k \in 1 .. q : b[j] = b[k] => j = k
    BY <1>5 DEF HasJoined
  <2> HIDE DEF a, b, q
  <2>5. \A j \in i + 1 .. Len(h) + 1 : a[j] = H[j]
    BY <1>1, <2>1, <2>3, <2>4
  <2>6. \A j \in q + 1 .. i - 1 : a[j] = h[j]
    BY <1>1, <2>1, <2>3, <2>4
  <2>7. a[i] = h[q] /\ \A j \in 1 .. q : a[j] = b[j]
    <3>1. \A j \in 1 .. q : j \in D /\ j # i
      BY <1>1, <2>1
    <3> HIDE DEF D
    <3> QED
      BY <2>3, <3>1
  <2>8. \A j \in 1 .. q : b[j] = item \/ \E k \in 1 .. q - 1 : b[j] = h[k]
    <3>1. \A j \in 1 .. q : b[j] \in ValuesTo(b, q)
      BY DEF ValuesTo
    <3>2. \A j \in 1 .. q : b[j] = item \/ b[j] \in ValuesTo(h, q - 1)
      BY <2>4, <3>1
    <3> QED
      BY <3>2 DEF ValuesTo
  <2>9. /\ \E j \in 1 .. q : b[j] = item
        /\ \A k \in 1 .. q - 1 : \E j \in 1 .. q : b[j] = h[k]
    <3>1. \A k \in 1 .. q - 1 : h[k] \in ValuesTo(h, q - 1)
      BY DEF ValuesTo
    <3>2. item \in ValuesTo(b, q) /\ \A k \in 1 .. q - 1 : h[k] \in ValuesTo(b, q)
      BY <2>4, <3>1
    <3> QED
      BY <3>2 DEF ValuesTo
  <2>10. ValuesTo(a, i) \subseteq {item} \cup ValuesTo(h, i - 1)
    <3> SUFFICES ASSUME NEW j \in 1 .. i
                 PROVE  a[j] = item \/ \E k \in 1 .. i - 1 : a[j] = h[k]
      BY DEF ValuesTo
    <3>1. CASE j \in 1 .. q
      <4>1. a[j] = item \/ \E k \in 1 .. q - 1 : a[j] = h[k]
        BY <2>7, <2>8, <3>1
      <4>2. \A k \in 1 .. q - 1 : k \in 1 .. i - 1
        BY <2>1
      <4> QED
        BY <4>1, <4>2
    <3>2. CASE j \in q + 1 .. i - 1
      <4>1. j \in 1 .. i - 1
        BY <2>1, <3>2
      <4> QED
        BY <2>6, <3>2, <4>1
    <3>3. CASE j = i
      BY <2>1, <2>7, <3>3
    <3> QED
      BY <2>1, <3>1, <3>2, <3>3
  <2>11. {item} \cup ValuesTo(h, i - 1) \subseteq ValuesTo(a, i)
    <3> SUFFICES /\ \E j \in 1 .. i : a[j] = item
                 /\ \A k \in 1 .. i - 1 : \E j \in 1 .. i : a[j] = h[k]
      BY DEF ValuesTo
    <3>1. \A j \in 1 .. q : j \in 1 .. i
      BY <2>1
    <3>2. \E j \in 1 .. i : a[j] = item
      BY <2>7, <2>9, <3>1
    <3>3. ASSUME NEW k \in 1 .. i - 1 PROVE \E j \in 1 .. i : a[j] = h[k]
      <4>1. CASE k \in 1 .. q - 1
        BY <2>7, <2>9, <3>1, <4>1
      <4>2. CASE k = q
        <5>1. i \in 1 .. i
          BY <2>1
        <5> QED
          BY <2>7, <4>2, <5>1
      <4>3. CASE k \in q + 1 .. i - 1
        <5>1. k \in 1 .. i
          BY <2>1
        <5> QED
          BY <2>6, <4>3, <5>1
      <4> QED
        BY <2>1, <4>1, <4>2, <4>3
    <3> QED
      BY <3>2, <3>3
  <2>12. \A j, k \in 1 .. i : a[j] = a[k] => j = k
    <3>1. \A j, k \in 1 .. i : j < k => a[j] # a[k]
      <4> SUFFICES ASSUME NEW j \in 1 .. i, NEW k \in 1 .. i, j < k PROVE a[j] # a[k]
        OBVIOUS
      <4>1. CASE k \in 1 .. q
        <5>1. j \in 1 .. q
          BY <2>1, <4>1
        <5> QED
          BY <2>4, <2>7, <4>1, <5>1
      <4>2. CASE k \in q + 1 .. i - 1
        <5>1. k \in 1 .. Len(h) /\ a[k] = h[k]
          BY <1>1, <2>1, <2>6, <4>2
        <5>2. CASE j \in 1 .. q
          <6>1. a[j] = item \/ \E l \in 1 .. q - 1 : a[j] = h[l]
            BY <2>7, <2>8, <5>2
          <6>2. \A l \in 1 .. q - 1 : l \in 1 .. Len(h) /\ l # k
            BY <1>1, <2>1, <4>2
          <6> QED
            BY <1>2, <1>3, <5>1, <6>1, <6>2
        <5>3. CASE j \in q + 1 .. i - 1
          <6>1. j \in 1 .. Len(h) /\ a[j] = h[j] /\ j # k
            BY <1>1, <2>1, <2>6, <4>2, <5>3
          <6> QED
            BY <1>2, <5>1, <6>1
        <5> QED
          BY <2>1, <4>2, <5>2, <5>3
      <4>3. CASE k = i
        <5>1. q \in 1 .. Len(h) /\ a[k] = h[q]
          BY <1>1, <2>1, <2>7, <4>3
        <5>2. CASE j \in 1 .. q
          <6>1. a[j] = item \/ \E l \in 1 .. q - 1 : a[j] = h[l]
            BY <2>7, <2>8, <5>2
          <6>2. \A l \in 1 .. q - 1 : l \in 1 .. Len(h) /\ l # q
            BY <1>1, <2>1
          <6> QED
            BY <1>2, <1>3, <5>1, <6>1, <6>2
        <5>3. CASE j \in q + 1 .. i - 1
          <6>1. j \in 1 .. Len(h) /\ a[j] = h[j] /\ j # q
            BY <1>1, <2>1, <2>6, <5>3
          <6> QED
            BY <1>2, <5>1, <6>1
        <5> QED
          BY <2>1, <4>3, <5>2, <5>3
      <4> QED
        BY <2>1, <4>1, <4>2, <4>3
    <3>2. \A j, k \in 1 .. i : j = k \/ j < k \/ k < j
      BY <2>1
    <3> QED
      BY <3>1, <3>2
  <2> QED
    BY <2>5, <2>10, <2>11, <2>12 DEF HasJoined, a
<1>6. D \subseteq T
  <2>1. Descends(D, D \ Climbs(h, item), p, [i \in D |-> i])
    BY UpDescends
  <2>2. ASSUME NEW i \in D, i \in D \ Climbs(h, item) \/ p[i] \in T
        PROVE  i \in T
    <3>1. CASE i \in Climbs(h, item)
      <4>1. p[i] = Parent(i)
        BY <3>1 DEF Up
      <4>2. HasJoined(f[Parent(i)], Parent(i), h, item)
        BY <2>2, <3>1, <4>1
      <4> QED
        BY <1>5, <3>1, <4>2
    <3> QED
      BY <1>4, <3>1
  <2>3. \A i \in D : i \in D \ Climbs(h, item) \/ p[i] \in T => i \in T
    BY <2>2
  <2> HIDE DEF D, p, T
  <2> QED
    BY <2>1, <2>3, DescentInduction
<1> QED
  BY <1>6

(* Up to the hole's last place the keys ascend, and an item that is less   *)
(* than the element it takes the place of makes no key greater.            *)
HasAscended(a, i, h, item) ==
  /\ \A j \in 2 .. i : a[Parent(j)].key <= a[j].key
  /\ i <= Len(h) /\ item.key < h[i].key => \A j \in 1 .. i : a[j].key <= h[j].key

(* At every place of the hole, by induction along the climb.               *)
LEMMA PushAscends ==
  ASSUME NEW h \in Seq(Elements), NEW item \in Elements, Ordered(h),
         NEW f \in [1 .. Len(h) + 1 -> [1 .. Len(h) + 1 -> Elements]],
         \A i \in 1 .. Len(h) + 1 :
            f[i] = IF i \in Climbs(h, item) THEN Lowered(h, i, f[Parent(i)])
                                            ELSE Rested(h, item, i),
         \A i \in 1 .. Len(h) + 1 : \A j \in i + 1 .. Len(h) + 1 : f[i][j] = Append(h, item)[j]
  PROVE  \A i \in 1 .. Len(h) + 1 : HasAscended(f[i], i, h, item)
<1> DEFINE D == 1 .. Len(h) + 1
           p == Up(h, item)
           H == Append(h, item)
           T == {i \in D : HasAscended(f[i], i, h, item)}
<1>1. /\ H \in [D -> Elements] /\ Len(h) \in Nat /\ H[Len(h) + 1] = item
      /\ \A i \in 1 .. Len(h) : H[i] = h[i] /\ h[i].key \in Int
  BY AppendIs, Keys
<1>2. \A i \in 2 .. Len(h) : Parent(i) \in 1 .. i - 1 /\ h[Parent(i)].key <= h[i].key
  BY Parents DEF Ordered
<1>3. \A i \in D : \A j \in D : f[i][j] \in Elements /\ f[i][j].key \in Int
  BY Keys
<1>4. ASSUME NEW i \in D, i \notin Climbs(h, item)
      PROVE  HasAscended(f[i], i, h, item)
  <2> DEFINE a == f[i]
  <2>1. a = [H EXCEPT ![i] = item]
    BY <1>4 DEF Rested
  <2>2. \A j \in D : a[j] = IF j = i THEN item ELSE H[j]
    BY <1>1, <2>1
  <2> HIDE DEF a
  <2>3. a[i] = item /\ \A j \in 1 .. i - 1 : a[j] = h[j]
    <3>1. \A j \in 1 .. i - 1 : j \in D /\ j # i /\ j \in 1 .. Len(h)
      BY <1>1
    <3> HIDE DEF D
    <3> QED
      BY <1>1, <2>2, <3>1
  <2>4. ASSUME NEW j \in 2 .. i PROVE a[Parent(j)].key <= a[j].key
    <3>1. Parent(j) \in 1 .. j - 1 /\ Parent(j) \in 1 .. i - 1
      <4>1. j \in Nat \ {0, 1} /\ j <= i /\ i \in Nat
        BY <1>1
      <4>2. Parent(j) \in 1 .. j - 1
        BY <4>1, Parents
      <4> QED
        BY <4>1, <4>2
    <3>2. CASE j < i
      <4>1. j \in 2 .. Len(h) /\ j \in 1 .. i - 1
        BY <1>1, <3>2
      <4> QED
        BY <1>2, <2>3, <3>1, <4>1
    <3>3. CASE j = i
      <4>1. j \in 2 .. Len(h) + 1
        BY <1>1
      <4>2. ~ (cmp(h[Parent(j)], item) > 0)
        BY <1>4, <3>3, <4>1 DEF Climbs
      <4>3. h[Parent(j)] \in Elements
        BY <1>1, <3>1, <4>1
      <4>4. h[Parent(j)].key <= item.key
        BY <4>2, <4>3, Keys
      <4> QED
        BY <2>3, <3>1, <3>3, <4>4
    <3> QED
      BY <1>1, <3>2, <3>3
  <2>5. i <= Len(h) /\ item.key < h[i].key => \A j \in 1 .. i : a[j].key <= h[j].key
    <3> SUFFICES ASSUME i <= Len(h), item.key < h[i].key, NEW j \in 1 .. i
                 PROVE  a[j].key <= h[j].key
      OBVIOUS
    <3>1. item.key \in Int /\ h[j].key \in Int
      BY <1>1, Keys
    <3>2. CASE j = i
      BY <2>3, <3>1, <3>2
    <3>3. CASE j # i
      <4>1. j \in 1 .. i - 1
        BY <1>1, <3>3
      <4> QED
        BY <2>3, <3>1, <4>1
    <3> QED
      BY <3>2, <3>3
  <2> QED
    BY <2>4, <2>5 DEF HasAscended, a
<1>5. ASSUME NEW i \in D, i \in Climbs(h, item), HasAscended(f[Parent(i)], Parent(i), h, item)
      PROVE  HasAscended(f[i], i, h, item)
  <2> DEFINE a == f[i]
             q == Parent(i)
             b == f[q]
  <2>1. i \in 2 .. Len(h) + 1 /\ q \in 1 .. i - 1 /\ q \in D /\ i \in Nat /\ q \in 1 .. Len(h)
    BY <1>1, <1>5, ClimbsToParent
  <2>2. b \in [D -> Elements] /\ a = [b EXCEPT ![i] = h[q]]
    BY <1>5, <2>1 DEF Lowered
  <2>3. \A j \in D : a[j] = IF j = i THEN h[q] ELSE b[j]
    BY <2>2
  <2>4. item.key < h[q].key
    <3>1. h[q] \in Elements /\ cmp(h[q], item) > 0
      BY <1>5, <2>1, AppendIs DEF Climbs
    <3> QED
      BY <3>1, Keys
  <2>5. /\ \A j \in 2 .. q : b[Parent(j)].key <= b[j].key
        /\ \A j \in 1 .. q : b[j].key <= h[j].key
    BY <1>5, <2>1, <2>4 DEF HasAscended
  <2>6. \A j \in D : b[j].key \in Int
    BY <1>3, <2>1
  <2>7. \A j \in q + 1 .. Len(h) : b[j] = h[j]
    <3>1. \A j \in q + 1 .. Len(h) : j \in q + 1 .. Len(h) + 1 /\ j \in 1 .. Len(h)
      BY <1>1, <2>1
    <3> HIDE DEF q
    <3> QED
      BY <1>1, <2>1, <3>1
  <2>8. \A j \in 1 .. Len(h) : b[j].key <= h[j].key
    <3>1. \A j \in 1 .. Len(h) : j \in 1 .. q \/ j \in q + 1 .. Len(h)
      BY <1>1, <2>1
    <3> HIDE DEF b, q
    <3> QED
      BY <1>1, <2>5, <2>7, <3>1
  <2> HIDE DEF a, b
  <2>9. ASSUME NEW j \in 2 .. i PROVE a[Parent(j)].key <= a[j].key
    <3>1. j \in D /\ Parent(j) \in 1 .. j - 1 /\ Parent(j) \in D /\ Parent(j) # i /\ Parent(j) <= q
      <4>1. j \in Nat \ {0, 1} /\ j <= i /\ i \in Nat /\ j \in D
        BY <1>1, <2>1
      <4>2. Parent(j) \in 1 .. j - 1 /\ Parent(j) <= q
        BY <4>1, Parents
      <4> QED
        BY <1>1, <4>1, <4>2
    <3>2. a[Parent(j)] = b[Parent(j)]
      BY <2>3, <3>1
    <3>3. Parent(j) \in 1 .. q
      BY <3>1
    <3>4. CASE j = i
      <4>1. b[q].key <= h[q].key
        BY <2>1, <2>8
      <4> QED
        BY <2>3, <3>1, <3>2, <3>4, <4>1
    <3>5. CASE j \in 2 .. q
      <4>1. a[j] = b[j]
        BY <2>1, <2>3, <3>1, <3>5
      <4> QED
        BY <2>5, <3>2, <3>5, <4>1
    <3>6. CASE j \in q + 1 .. i - 1
      <4>1. j \in q + 1 .. Len(h) /\ j \in 2 .. Len(h) /\ j # i
        BY <1>1, <2>1, <3>6
      <4>2. a[j] = h[j]
        BY <2>3, <2>7, <3>1, <4>1
      <4>3. Parent(j) \in 1 .. Len(h)
        BY <2>1, <3>3
      <4>4. b[Parent(j)].key <= h[Parent(j)].key /\ h[Parent(j)].key <= h[j].key
        BY <1>2, <2>8, <4>1, <4>3
      <4>5. b[Parent(j)].key \in Int /\ h[Parent(j)].key \in Int /\ h[j].key \in Int
        BY <1>1, <2>6, <3>1, <4>1, <4>3
      <4> QED
        BY <3>2, <4>2, <4>4, <4>5
    <3> QED
      BY <2>1, <3>4, <3>5, <3>6
  <2>10. i <= Len(h) /\ item.key < h[i].key => \A j \in 1 .. i : a[j].key <= h[j].key
    <3> SUFFICES ASSUME i <= Len(h), NEW j \in 1 .. i
                 PROVE  a[j].key <= h[j].key
      OBVIOUS
    <3>1. j \in D /\ j \in 1 .. Len(h)
      BY <1>1, <2>1
    <3>2. CASE j = i
      <4>1. i \in 2 .. Len(h) /\ i \in D
        BY <2>1
      <4> QED
        BY <1>2, <2>3, <3>2, <4>1
    <3>3. CASE j # i
      BY <2>3, <2>8, <3>1, <3>3
    <3> QED
      BY <3>2, <3>3
  <2> QED
    BY <2>9, <2>10 DEF HasAscended, a
<1>6. D \subseteq T
  <2>1. Descends(D, D \ Climbs(h, item), p, [i \in D |-> i])
    BY UpDescends
  <2>2. ASSUME NEW i \in D, i \in D \ Climbs(h, item) \/ p[i] \in T
        PROVE  i \in T
    <3>1. CASE i \in Climbs(h, item)
      <4>1. p[i] = Parent(i)
        BY <3>1 DEF Up
      <4>2. HasAscended(f[Parent(i)], Parent(i), h, item)
        BY <2>2, <3>1, <4>1
      <4> QED
        BY <1>5, <3>1, <4>2
    <3> QED
      BY <1>4, <3>1
  <2>3. \A i \in D : i \in D \ Climbs(h, item) \/ p[i] \in T => i \in T
    BY <2>2
  <2> HIDE DEF D, p, T
  <2> QED
    BY <2>1, <2>3, DescentInduction
<1> QED
  BY <1>6

(* A push adds the item to a heap without duplicates, and it stays one.    *)
LEMMA PushKeepsHeap ==
  ASSUME NEW h \in Seq(Elements), NEW item \in Elements,
         Ordered(h), Distinct(h), item \notin Values(h)
  PROVE  /\ Push(h, item) \in Seq(Elements) /\ Len(Push(h, item)) = Len(h) + 1
         /\ Ordered(Push(h, item)) /\ Distinct(Push(h, item))
         /\ Values(Push(h, item)) = Values(h) \cup {item}
<1> DEFINE n == Len(h) + 1
           D == 1 .. n
           a == Push(h, item)
<1>1. PICK f \in [D -> [D -> Elements]] :
         /\ a = f[n]
         /\ \A i \in D : f[i] = IF i \in Climbs(h, item) THEN Lowered(h, i, f[Parent(i)])
                                                        ELSE Rested(h, item, i)
  BY PushSteps
<1>2. n \in D /\ Len(h) \in Nat /\ n \in Nat
  OBVIOUS
<1>3. \A i \in D : HasJoined(f[i], i, h, item)
  <2> HIDE DEF a
  <2> QED
    BY <1>1, PushJoins
<1>4. \A i \in D : HasAscended(f[i], i, h, item)
  <2>1. \A i \in D : \A j \in i + 1 .. n : f[i][j] = Append(h, item)[j]
    BY <1>3 DEF HasJoined
  <2> HIDE DEF a
  <2> QED
    BY <1>1, <2>1, PushAscends
<1> HIDE DEF a, D
<1>5. a \in [1 .. n -> Elements]
  BY <1>1, <1>2 DEF D
<1>6. a \in Seq(Elements) /\ Len(a) = n
  BY <1>2, <1>5
<1>7. Ordered(a)
  BY <1>1, <1>2, <1>4, <1>6 DEF HasAscended, Ordered
<1>8. Distinct(a)
  BY <1>1, <1>2, <1>3, <1>6 DEF HasJoined, Distinct
<1>9. Values(a) = Values(h) \cup {item}
  <2>1. ValuesTo(a, n) = {item} \cup ValuesTo(h, n - 1) /\ n - 1 = Len(h)
    <3>1. HasJoined(a, n, h, item)
      BY <1>1, <1>2, <1>3
    <3>2. n - 1 = Len(h)
      BY <1>2
    <3> HIDE DEF n
    <3> QED
      BY <3>1, <3>2 DEF HasJoined
  <2>2. ValuesTo(a, n) = Values(a) /\ ValuesTo(h, n - 1) = Values(h)
    BY <1>6, <2>1 DEF ValuesTo, Values
  <2> QED
    BY <2>1, <2>2
<1> QED
  BY <1>6, <1>7, <1>8, <1>9 DEF a

-----------------------------------------------------------------------------
(* PQueuePop                                                               *)

(* The smaller child of a place is behind it, and no child is less.        *)
LEMMA Children ==
  ASSUME NEW h \in Seq(Elements), NEW size \in Nat, size <= Len(h),
         NEW i \in 1 .. size, LeftChild(i) <= size
  PROVE  /\ SmallerChild(h, size, i) \in i + 1 .. size
         /\ SmallerChild(h, size, i) \in Nat \ {0, 1}
         /\ Parent(SmallerChild(h, size, i)) = i
         /\ \A j \in 2 .. size : Parent(j) = i => h[SmallerChild(h, size, i)].key <= h[j].key
<1> DEFINE l == LeftChild(i)
           c == SmallerChild(h, size, i)
<1>1. l = 2 * i /\ l \in i + 1 .. size /\ l \in 1 .. Len(h) /\ i \in Nat
  BY DEF LeftChild
<1>2. l # size => l + 1 \in i + 1 .. size /\ l + 1 \in 1 .. Len(h)
  BY <1>1
<1>3. h[l] \in Elements /\ h[l].key \in Int
  BY <1>1, Keys
<1>4. l # size => h[l + 1] \in Elements /\ h[l + 1].key \in Int
  BY <1>2, Keys
<1>5. c = IF l # size /\ cmp(h[l + 1], h[l]) < 0 THEN l + 1 ELSE l
  BY DEF SmallerChild
<1>6. l # size => (cmp(h[l + 1], h[l]) < 0 <=> h[l + 1].key < h[l].key)
  BY <1>3, <1>4, Keys
<1> HIDE DEF c
<1>7. c \in i + 1 .. size /\ c \in Nat \ {0, 1} /\ (c = 2 * i \/ c = 2 * i + 1)
  <2> HIDE DEF l
  <2> QED
    BY <1>1, <1>2, <1>5
<1>8. Parent(c) = i
  BY <1>1, <1>7, Parents
<1>9. ASSUME NEW j \in 2 .. size, Parent(j) = i
      PROVE  h[c].key <= h[j].key
  <2>1. j = l \/ j = l + 1
    BY <1>1, <1>9, Parents
  <2>2. j = l + 1 => l # size
    BY <1>1
  <2> HIDE DEF l
  <2>3. CASE l = size
    BY <1>3, <1>5, <2>1, <2>2, <2>3
  <2>4. CASE l # size
    BY <1>3, <1>4, <1>5, <1>6, <2>1, <2>4
  <2> QED
    BY <2>3, <2>4
<1> QED
  BY <1>7, <1>8, <1>9 DEF c

(* The places from which the hole sinks on.                                *)
Sinks(h, size, last) ==
  {i \in 1 .. size : LeftChild(i) <= size /\ cmp(last, h[SmallerChild(h, size, i)]) > 0}

Down(h, size, last) ==
  [i \in 1 .. size |-> IF i \in Sinks(h, size, last) THEN SmallerChild(h, size, i) ELSE i]

IsSink(f, h, size, last) ==
  f = [i \in 1 .. size |->
         LET child == SmallerChild(h, size, i)
         IN  IF LeftChild(i) > size \/ ~ (cmp(last, h[child]) > 0)
               THEN [SubSeq(h, 1, size) EXCEPT ![i] = last]
               ELSE [f[child] EXCEPT ![i] = h[child]]]

(* The array when the hole settles at i, and when it has moved on from i.  *)
Settled(h, size, last, i) == [SubSeq(h, 1, size) EXCEPT ![i] = last]
Raised(h, size, i, a) == [a EXCEPT ![i] = h[SmallerChild(h, size, i)]]

(* A hole that sinks on goes to the lesser child.                          *)
LEMMA SinksToChild ==
  ASSUME NEW h \in Seq(Elements), NEW size \in Nat, size <= Len(h),
         NEW last, NEW i \in Sinks(h, size, last)
  PROVE  LET c == SmallerChild(h, size, i)
         IN  /\ i \in 1 .. size /\ i \in Nat
             /\ c \in i + 1 .. size /\ c \in 1 .. size /\ c \in Nat \ {0, 1} /\ Parent(c) = i
             /\ \A j \in 2 .. size : Parent(j) = i => h[c].key <= h[j].key
<1>1. i \in 1 .. size /\ LeftChild(i) <= size
  BY DEF Sinks
<1> DEFINE c == SmallerChild(h, size, i)
<1>2. /\ c \in i + 1 .. size /\ c \in Nat \ {0, 1} /\ Parent(c) = i
      /\ \A j \in 2 .. size : Parent(j) = i => h[c].key <= h[j].key
  BY <1>1, Children
<1>3. i \in Nat /\ c \in 1 .. size
  BY <1>1, <1>2
<1> QED
  BY <1>1, <1>2, <1>3

(* The hole that sinks comes nearer to the end of the array.               *)
LEMMA DownDescends ==
  ASSUME NEW h \in Seq(Elements), NEW size \in Nat, size <= Len(h), NEW last
  PROVE  Descends(1 .. size, (1 .. size) \ Sinks(h, size, last), Down(h, size, last),
                  [i \in 1 .. size |-> size - i])
<1> DEFINE D == 1 .. size
           m == [i \in D |-> size - i]
<1>1. ASSUME NEW i \in D
      PROVE  /\ Down(h, size, last)[i] \in D
             /\ i \in Sinks(h, size, last) => m[Down(h, size, last)[i]] < m[i]
  <2>1. CASE i \in Sinks(h, size, last)
    <3> DEFINE c == SmallerChild(h, size, i)
    <3>1. c \in i + 1 .. size /\ c \in D /\ i \in Nat
      BY <2>1, SinksToChild
    <3>2. Down(h, size, last)[i] = c
      BY <2>1 DEF Down
    <3> HIDE DEF c
    <3>3. m[c] < m[i]
      BY <3>1
    <3> QED
      BY <3>1, <3>2, <3>3
  <2>2. CASE i \notin Sinks(h, size, last)
    BY <2>2 DEF Down
  <2> QED
    BY <2>1, <2>2
<1>2. Down(h, size, last) \in [D -> D]
  BY <1>1 DEF Down
<1>3. m \in [D -> Nat]
  OBVIOUS
<1> QED
  BY <1>1, <1>2, <1>3 DEF Descends

(* The array without its end, place by place.                              *)
LEMMA FrontIs ==
  ASSUME NEW h \in Seq(Elements), NEW size \in Nat, size <= Len(h)
  PROVE  /\ SubSeq(h, 1, size) \in [1 .. size -> Elements]
         /\ \A i \in 1 .. size : SubSeq(h, 1, size)[i] = h[i] /\ h[i] \in Elements
<1>1. Len(h) \in Nat /\ \A i \in 1 .. Len(h) : h[i] \in Elements
  OBVIOUS
<1>2. \A i \in 1 .. size : i \in 1 .. Len(h)
  BY <1>1
<1>3. SubSeq(h, 1, size) = [i \in 1 .. size |-> h[i]]
  <2>1. SubSeq(h, 1, size) = [i \in 1 .. (1 + size) - 1 |-> h[(i + 1) - 1]]
    OBVIOUS
  <2>2. (1 + size) - 1 = size /\ \A i \in 1 .. size : (i + 1) - 1 = i
    OBVIOUS
  <2> QED
    BY <2>1, <2>2
<1> QED
  BY <1>1, <1>2, <1>3

(* What the loop makes of the array from each place of the hole.           *)
LEMMA SinkSteps ==
  ASSUME NEW h \in Seq(Elements), NEW size \in Nat \ {0}, size <= Len(h), NEW last \in Elements
  PROVE  LET D == 1 .. size
         IN  \E f \in [D -> [D -> Elements]] :
               /\ Sunk(h, size, last) = f[1]
               /\ \A i \in D :
                    f[i] = IF i \in Sinks(h, size, last)
                             THEN Raised(h, size, i, f[SmallerChild(h, size, i)])
                             ELSE Settled(h, size, last, i)
<1> DEFINE D == 1 .. size
           S == [D -> Elements]
           C == Sinks(h, size, last)
           B == D \ C
           p == Down(h, size, last)
           m == [i \in D |-> size - i]
           ch(i) == SmallerChild(h, size, i)
           c == [i \in D |-> Settled(h, size, last, i)]
           g == [q \in D \X S |-> IF q[1] \in C THEN Raised(h, size, q[1], q[2]) ELSE q[2]]
           F == CHOOSE f : IsSink(f, h, size, last)
<1>1. c \in [D -> S]
  BY FrontIs DEF Settled
<1>2. \A i \in C : ch(i) \in D /\ h[ch(i)] \in Elements /\ i \in D
  <2>1. \A i \in C : ch(i) \in D /\ i \in D
    BY SinksToChild
  <2> QED
    BY <2>1, FrontIs
<1>3. \A i \in C : \A a \in S : Raised(h, size, i, a) \in S
  BY <1>2 DEF Raised
<1>4. g \in [D \X S -> S]
  <2> HIDE DEF C, S
  <2> QED
    BY <1>3
<1>5. Descends(D, B, p, m)
  BY DownDescends
<1>6. PICK k \in [D -> S] : Unfolds(k, D, B, c, g, p)
  <2> HIDE DEF D, S, B, c, g, p, m
  <2> QED
    BY <1>1, <1>4, <1>5, DescentFunction
<1>7. \A i \in D : i \in C <=> ~ (LeftChild(i) > size \/ ~ (cmp(last, h[ch(i)]) > 0))
  BY DEF Sinks, LeftChild
<1>8. ASSUME NEW f
      PROVE  IsSink(f, h, size, last) <=>
               f = [i \in D |-> IF i \in C THEN Raised(h, size, i, f[ch(i)])
                                           ELSE Settled(h, size, last, i)]
  <2>1. IsSink(f, h, size, last) <=>
          f = [i \in D |-> IF LeftChild(i) > size \/ ~ (cmp(last, h[ch(i)]) > 0)
                             THEN Settled(h, size, last, i)
                             ELSE Raised(h, size, i, f[ch(i)])]
    BY Zenon DEF IsSink, Settled, Raised
  <2> HIDE DEF C, D, ch
  <2> QED
    BY <1>7, <2>1
<1>9. ASSUME NEW i \in D
      PROVE  k[i] = IF i \in C THEN Raised(h, size, i, k[ch(i)]) ELSE Settled(h, size, last, i)
  <2>1. k[i] = IF i \in B THEN c[i] ELSE g[<<i, k[p[i]]>>]
    BY <1>6 DEF Unfolds
  <2>2. CASE i \in C
    <3>1. p[i] = ch(i) /\ ch(i) \in D /\ k[ch(i)] \in S
      BY <1>2, <1>6, <2>2 DEF Down
    <3>2. g[<<i, k[ch(i)]>>] = Raised(h, size, i, k[ch(i)])
      BY <2>2, <3>1
    <3> QED
      BY <2>1, <2>2, <3>1, <3>2
  <2>3. CASE i \notin C
    BY <2>1, <2>3
  <2> QED
    BY <2>2, <2>3
<1>10. IsSink(k, h, size, last)
  <2>1. k = [i \in D |-> k[i]]
    BY <1>6
  <2>2. k = [i \in D |-> IF i \in C THEN Raised(h, size, i, k[ch(i)])
                                    ELSE Settled(h, size, last, i)]
    <3> HIDE DEF D, C, ch
    <3> QED
      BY <1>9, <2>1
  <2> QED
    BY <1>8, <2>2
<1>11. IsSink(F, h, size, last)
  BY <1>10
<1> HIDE DEF F
<1>12. /\ F = [i \in D |-> F[i]]
       /\ \A i \in D : F[i] = IF i \in C THEN Raised(h, size, i, F[ch(i)])
                                       ELSE Settled(h, size, last, i)
  <2> HIDE DEF D, C, ch
  <2>1. F = [i \in D |-> IF i \in C THEN Raised(h, size, i, F[ch(i)])
                                    ELSE Settled(h, size, last, i)]
    BY <1>8, <1>11
  <2>2. \A i \in D : F[i] = IF i \in C THEN Raised(h, size, i, F[ch(i)])
                                       ELSE Settled(h, size, last, i)
    BY <2>1
  <2> QED
    BY <2>1, <2>2
<1>13. F \in [D -> S]
  <2> DEFINE T == {i \in D : F[i] \in S}
  <2>1. ASSUME NEW i \in D, i \in B \/ p[i] \in T
        PROVE  i \in T
    <3>1. CASE i \in C
      <4>1. p[i] = ch(i)
        BY <3>1 DEF Down
      <4>2. F[ch(i)] \in S
        BY <2>1, <3>1, <4>1
      <4> HIDE DEF C, S
      <4> QED
        BY <1>3, <1>12, <3>1, <4>2
    <3>2. CASE i \notin C
      <4>1. c[i] = Settled(h, size, last, i) /\ c[i] \in S
        BY <1>1
      <4> HIDE DEF c, S, C
      <4> QED
        BY <1>12, <3>2, <4>1
    <3> QED
      BY <3>1, <3>2
  <2>2. D \subseteq T
    <3>1. \A i \in D : i \in B \/ p[i] \in T => i \in T
      BY <2>1
    <3> HIDE DEF D, B, p, m, T
    <3> QED
      BY <1>5, <3>1, DescentInduction
  <2> HIDE DEF S, D
  <2> QED
    BY <1>12, <2>2
<1>14. Sunk(h, size, last) = F[1]
  BY DEF Sunk, IsSink, F
<1> HIDE DEF D, C, S
<1> QED
  BY <1>12, <1>13, <1>14 DEF D, C, S

(* The values from a place on.                                             *)
ValuesFrom(a, i, size) == {a[j] : j \in i .. size}

(* From the hole at i on the last element has joined, before it nothing    *)
(* changed, and nothing is there twice.                                    *)
HasSettled(a, i, h, size, last) ==
  /\ \A j \in 1 .. i - 1 : a[j] = h[j]
  /\ ValuesFrom(a, i, size) = {last} \cup ValuesFrom(h, i + 1, size)
  /\ \A j, k \in i .. size : a[j] = a[k] => j = k

(* At every place of the hole, by induction along the descent.             *)
LEMMA SunkSettles ==
  ASSUME NEW h \in Seq(Elements), NEW size \in Nat \ {0}, size <= Len(h), NEW last \in Elements,
         Distinct(h), \A j \in 1 .. size : h[j] # last,
         NEW f \in [1 .. size -> [1 .. size -> Elements]],
         \A i \in 1 .. size : f[i] = IF i \in Sinks(h, size, last)
                                     THEN Raised(h, size, i, f[SmallerChild(h, size, i)])
                                     ELSE Settled(h, size, last, i)
  PROVE  \A i \in 1 .. size : HasSettled(f[i], i, h, size, last)
<1> DEFINE D == 1 .. size
           p == Down(h, size, last)
           F == SubSeq(h, 1, size)
           T == {i \in D : HasSettled(f[i], i, h, size, last)}
<1>1. F \in [D -> Elements] /\ \A i \in D : F[i] = h[i]
  BY FrontIs
<1>2. \A j, k \in D : h[j] = h[k] => j = k
  <2>1. \A j \in D : j \in 1 .. Len(h)
    OBVIOUS
  <2> QED
    BY <2>1 DEF Distinct
<1>3. ASSUME NEW i \in D, i \notin Sinks(h, size, last)
      PROVE  HasSettled(f[i], i, h, size, last)
  <2> DEFINE a == f[i]
  <2>1. a = [F EXCEPT ![i] = last]
    BY <1>3 DEF Settled
  <2>2. \A j \in D : a[j] = IF j = i THEN last ELSE h[j]
    BY <1>1, <2>1
  <2> HIDE DEF a
  <2>3. \A j \in 1 .. i - 1 : a[j] = h[j]
    <3>1. \A j \in 1 .. i - 1 : j \in D /\ j # i
      OBVIOUS
    <3> HIDE DEF D
    <3> QED
      BY <2>2, <3>1
  <2>4. \A j \in i + 1 .. size : a[j] = h[j]
    BY <2>2
  <2>5. a[i] = last
    BY <2>2
  <2>6. ValuesFrom(a, i, size) = {last} \cup ValuesFrom(h, i + 1, size)
    <3>1. \A j \in i .. size : j = i \/ j \in i + 1 .. size
      OBVIOUS
    <3>2. i \in i .. size /\ \A j \in i + 1 .. size : j \in i .. size
      OBVIOUS
    <3>3. \A v : v \in ValuesFrom(a, i, size) <=> v = last \/ \E j \in i + 1 .. size : v = a[j]
      BY <2>5, <3>1, <3>2, Zenon DEF ValuesFrom
    <3>4. \A v : v \in ValuesFrom(h, i + 1, size) <=> \E j \in i + 1 .. size : v = a[j]
      BY <2>4, Zenon DEF ValuesFrom
    <3> QED
      BY <3>3, <3>4
  <2>7. \A j, k \in i .. size : a[j] = a[k] => j = k
    <3>1. \A j \in i .. size : j \in D
      OBVIOUS
    <3>2. \A j \in D : h[j] # last
      OBVIOUS
    <3>3. ASSUME NEW j \in i .. size, NEW k \in i .. size, a[j] = a[k]
          PROVE  j = k
      <4>1. j \in D /\ k \in D
        BY <3>1
      <4> HIDE DEF D
      <4> QED
        BY <1>2, <2>2, <3>2, <3>3, <4>1
    <3> QED
      BY <3>3
  <2> QED
    BY <2>3, <2>6, <2>7 DEF HasSettled, a
<1>4. ASSUME NEW i \in D, i \in Sinks(h, size, last),
             HasSettled(f[SmallerChild(h, size, i)], SmallerChild(h, size, i), h, size, last)
      PROVE  HasSettled(f[i], i, h, size, last)
  <2> DEFINE a == f[i]
             q == SmallerChild(h, size, i)
             b == f[q]
  <2>1. i \in Nat /\ q \in i + 1 .. size /\ q \in D
    BY <1>4, SinksToChild
  <2>2. b \in [D -> Elements] /\ a = [b EXCEPT ![i] = h[q]]
    BY <1>4, <2>1 DEF Raised
  <2>3. \A j \in D : a[j] = IF j = i THEN h[q] ELSE b[j]
    BY <2>2
  <2>4. /\ \A j \in 1 .. q - 1 : b[j] = h[j]
        /\ ValuesFrom(b, q, size) = {last} \cup ValuesFrom(h, q + 1, size)
        /\ \A j, k \in q .. size : b[j] = b[k] => j = k
    BY <1>4 DEF HasSettled
  <2> HIDE DEF a, b, q
  <2>5. \A j \in 1 .. i - 1 : a[j] = h[j]
    BY <2>1, <2>3, <2>4
  <2>6. \A j \in i + 1 .. q - 1 : a[j] = h[j]
    BY <2>1, <2>3, <2>4
  <2>7. a[i] = h[q] /\ \A j \in q .. size : a[j] = b[j]
    <3>1. \A j \in q .. size : j \in D /\ j # i
      BY <2>1
    <3> HIDE DEF D
    <3> QED
      BY <2>3, <3>1
  <2>8. \A j \in q .. size : b[j] = last \/ \E k \in q + 1 .. size : b[j] = h[k]
    <3>1. \A j \in q .. size : b[j] \in ValuesFrom(b, q, size)
      BY DEF ValuesFrom
    <3>2. \A j \in q .. size : b[j] = last \/ b[j] \in ValuesFrom(h, q + 1, size)
      BY <2>4, <3>1
    <3> QED
      BY <3>2 DEF ValuesFrom
  <2>9. /\ \E j \in q .. size : b[j] = last
        /\ \A k \in q + 1 .. size : \E j \in q .. size : b[j] = h[k]
    <3>1. \A k \in q + 1 .. size : h[k] \in ValuesFrom(h, q + 1, size)
      BY DEF ValuesFrom
    <3>2. last \in ValuesFrom(b, q, size) /\ \A k \in q + 1 .. size : h[k] \in ValuesFrom(b, q, size)
      BY <2>4, <3>1
    <3> QED
      BY <3>2 DEF ValuesFrom
  <2>10. \A j \in i .. size : j = i \/ j \in i + 1 .. q - 1 \/ j \in q .. size
    BY <2>1
  <2>11. ValuesFrom(a, i, size) \subseteq {last} \cup ValuesFrom(h, i + 1, size)
    <3> SUFFICES ASSUME NEW j \in i .. size
                 PROVE  a[j] = last \/ \E k \in i + 1 .. size : a[j] = h[k]
      BY DEF ValuesFrom
    <3>1. CASE j \in q .. size
      <4>1. a[j] = last \/ \E k \in q + 1 .. size : a[j] = h[k]
        BY <2>7, <2>8, <3>1
      <4>2. \A k \in q + 1 .. size : k \in i + 1 .. size
        BY <2>1
      <4> QED
        BY <4>1, <4>2
    <3>2. CASE j \in i + 1 .. q - 1
      <4>1. j \in i + 1 .. size
        BY <2>1, <3>2
      <4> QED
        BY <2>6, <3>2, <4>1
    <3>3. CASE j = i
      BY <2>1, <2>7, <3>3
    <3> QED
      BY <2>10, <3>1, <3>2, <3>3
  <2>12. {last} \cup ValuesFrom(h, i + 1, size) \subseteq ValuesFrom(a, i, size)
    <3> SUFFICES /\ \E j \in i .. size : a[j] = last
                 /\ \A k \in i + 1 .. size : \E j \in i .. size : a[j] = h[k]
      BY DEF ValuesFrom
    <3>1. \A j \in q .. size : j \in i .. size
      BY <2>1
    <3>2. \E j \in i .. size : a[j] = last
      BY <2>7, <2>9, <3>1
    <3>3. ASSUME NEW k \in i + 1 .. size PROVE \E j \in i .. size : a[j] = h[k]
      <4>1. CASE k \in q + 1 .. size
        BY <2>7, <2>9, <3>1, <4>1
      <4>2. CASE k = q
        <5>1. i \in i .. size
          BY <2>1
        <5> QED
          BY <2>7, <4>2, <5>1
      <4>3. CASE k \in i + 1 .. q - 1
        <5>1. k \in i .. size
          BY <2>1
        <5> QED
          BY <2>6, <4>3, <5>1
      <4> QED
        BY <2>1, <4>1, <4>2, <4>3
    <3> QED
      BY <3>2, <3>3
  <2>13. \A j, k \in i .. size : a[j] = a[k] => j = k
    <3>1. \A j, k \in i .. size : j < k => a[j] # a[k]
      <4> SUFFICES ASSUME NEW j \in i .. size, NEW k \in i .. size, j < k PROVE a[j] # a[k]
        OBVIOUS
      <4>1. CASE j \in q .. size
        <5>1. k \in q .. size
          BY <2>1, <4>1
        <5> QED
          BY <2>4, <2>7, <4>1, <5>1
      <4>2. CASE j \in i + 1 .. q - 1
        <5>1. j \in D /\ a[j] = h[j]
          BY <2>1, <2>6, <4>2
        <5>2. CASE k \in q .. size
          <6>1. a[k] = last \/ \E l \in q + 1 .. size : a[k] = h[l]
            BY <2>7, <2>8, <5>2
          <6>2. \A l \in q + 1 .. size : l \in D /\ l # j
            BY <2>1, <4>2
          <6> QED
            BY <1>2, <5>1, <6>1, <6>2
        <5>3. CASE k \in i + 1 .. q - 1
          <6>1. k \in D /\ a[k] = h[k] /\ j # k
            BY <2>1, <2>6, <5>3
          <6> QED
            BY <1>2, <5>1, <6>1
        <5>4. k # i
          BY <2>1, <4>2
        <5> QED
          BY <2>10, <5>2, <5>3, <5>4
      <4>3. CASE j = i
        <5>1. q \in D /\ a[j] = h[q]
          BY <2>1, <2>7, <4>3
        <5>2. CASE k \in q .. size
          <6>1. a[k] = last \/ \E l \in q + 1 .. size : a[k] = h[l]
            BY <2>7, <2>8, <5>2
          <6>2. \A l \in q + 1 .. size : l \in D /\ l # q
            BY <2>1
          <6> QED
            BY <1>2, <5>1, <6>1, <6>2
        <5>3. CASE k \in i + 1 .. q - 1
          <6>1. k \in D /\ a[k] = h[k] /\ k # q
            BY <2>1, <2>6, <5>3
          <6> QED
            BY <1>2, <5>1, <6>1
        <5>4. k # i
          BY <4>3, <2>1
        <5> QED
          BY <2>10, <5>2, <5>3, <5>4
      <4> QED
        BY <2>10, <4>1, <4>2, <4>3
    <3>2. \A j, k \in i .. size : j = k \/ j < k \/ k < j
      BY <2>1
    <3> QED
      BY <3>1, <3>2
  <2> QED
    BY <2>5, <2>11, <2>12, <2>13 DEF HasSettled, a
<1>5. D \subseteq T
  <2>1. Descends(D, D \ Sinks(h, size, last), p, [i \in D |-> size - i])
    BY DownDescends
  <2>2. ASSUME NEW i \in D, i \in D \ Sinks(h, size, last) \/ p[i] \in T
        PROVE  i \in T
    <3>1. CASE i \in Sinks(h, size, last)
      <4>1. p[i] = SmallerChild(h, size, i)
        BY <3>1 DEF Down
      <4>2. HasSettled(f[SmallerChild(h, size, i)], SmallerChild(h, size, i), h, size, last)
        BY <2>2, <3>1, <4>1
      <4> QED
        BY <1>4, <3>1, <4>2
    <3> QED
      BY <1>3, <3>1
  <2>3. \A i \in D : i \in D \ Sinks(h, size, last) \/ p[i] \in T => i \in T
    BY <2>2
  <2> HIDE DEF D, p, T
  <2> QED
    BY <2>1, <2>3, DescentInduction
<1> QED
  BY <1>5

(* From the hole's last place on the keys ascend, and a last element that  *)
(* is greater than the one it takes the place of makes no key less.        *)
HasDescended(a, i, h, size, last) ==
  /\ \A j \in 2 .. size : Parent(j) >= i => a[Parent(j)].key <= a[j].key
  /\ h[i].key < last.key => \A j \in i .. size : h[j].key <= a[j].key

(* At every place of the hole, by induction along the descent.             *)
LEMMA SunkAscends ==
  ASSUME NEW h \in Seq(Elements), NEW size \in Nat \ {0}, size <= Len(h), NEW last \in Elements,
         Ordered(h),
         NEW f \in [1 .. size -> [1 .. size -> Elements]],
         \A i \in 1 .. size : f[i] = IF i \in Sinks(h, size, last)
                                     THEN Raised(h, size, i, f[SmallerChild(h, size, i)])
                                     ELSE Settled(h, size, last, i),
         \A i \in 1 .. size : \A j \in 1 .. i - 1 : f[i][j] = h[j]
  PROVE  \A i \in 1 .. size : HasDescended(f[i], i, h, size, last)
<1> DEFINE D == 1 .. size
           p == Down(h, size, last)
           F == SubSeq(h, 1, size)
           T == {i \in D : HasDescended(f[i], i, h, size, last)}
<1>1. F \in [D -> Elements] /\ \A i \in D : F[i] = h[i] /\ h[i] \in Elements /\ h[i].key \in Int
  BY FrontIs, Keys
<1>2. \A i \in 2 .. size : /\ Parent(i) \in 1 .. i - 1 /\ Parent(i) \in D /\ Parent(i) \in Nat /\ i \in D
                           /\ h[Parent(i)].key <= h[i].key
  <2> SUFFICES ASSUME NEW i \in 2 .. size
               PROVE  /\ Parent(i) \in 1 .. i - 1 /\ Parent(i) \in D /\ Parent(i) \in Nat /\ i \in D
                      /\ h[Parent(i)].key <= h[i].key
    OBVIOUS
  <2>1. i \in 2 .. Len(h) /\ i \in Nat \ {0, 1}
    OBVIOUS
  <2>2. Parent(i) \in 1 .. i - 1 /\ Parent(i) \in Nat
    BY <2>1, Parents
  <2>3. h[Parent(i)].key <= h[i].key
    BY <2>1 DEF Ordered
  <2> QED
    BY <2>1, <2>2, <2>3
<1>3. \A i \in D : \A j \in D : f[i][j] \in Elements /\ f[i][j].key \in Int
  BY Keys
<1>4. last.key \in Int
  BY Keys
<1>5. ASSUME NEW i \in D, i \notin Sinks(h, size, last)
      PROVE  HasDescended(f[i], i, h, size, last)
  <2> DEFINE a == f[i]
  <2>1. a = [F EXCEPT ![i] = last]
    BY <1>5 DEF Settled
  <2>2. \A j \in D : a[j] = IF j = i THEN last ELSE h[j]
    BY <1>1, <2>1
  <2> HIDE DEF a
  <2>3. ASSUME NEW j \in 2 .. size, Parent(j) >= i
        PROVE  a[Parent(j)].key <= a[j].key
    <3>1. j # i /\ j \in D /\ Parent(j) \in D
      BY <1>2, <2>3
    <3>2. a[j] = h[j]
      BY <2>2, <3>1
    <3>3. CASE Parent(j) = i
      <4>1. a[Parent(j)] = last
        BY <2>2, <3>1, <3>3
      <4>2. LeftChild(i) <= size
        <5>1. j = 2 * i \/ j = 2 * i + 1
          BY <3>3, Parents
        <5> QED
          BY <5>1 DEF LeftChild
      <4> DEFINE c == SmallerChild(h, size, i)
      <4>3. c \in D /\ h[c].key <= h[j].key
        <5>1. c \in i + 1 .. size /\ h[c].key <= h[j].key
          BY <3>3, <4>2, Children
        <5> QED
          BY <5>1
      <4>4. ~ (cmp(last, h[c]) > 0)
        BY <1>5, <4>2 DEF Sinks
      <4>5. last.key <= h[c].key
        BY <1>1, <1>4, <4>3, <4>4, Keys
      <4> HIDE DEF c
      <4> QED
        BY <1>1, <1>4, <3>1, <3>2, <4>1, <4>3, <4>5
    <3>4. CASE Parent(j) # i
      <4>1. a[Parent(j)] = h[Parent(j)]
        BY <2>2, <3>1, <3>4
      <4> QED
        BY <1>2, <3>2, <4>1
    <3> QED
      BY <3>3, <3>4
  <2>4. h[i].key < last.key => \A j \in i .. size : h[j].key <= a[j].key
    <3> SUFFICES ASSUME h[i].key < last.key, NEW j \in i .. size PROVE h[j].key <= a[j].key
      OBVIOUS
    <3>1. j \in D
      OBVIOUS
    <3>2. h[j].key \in Int
      BY <1>1, <1>4, <3>1
    <3>3. a[j] = IF j = i THEN last ELSE h[j]
      BY <2>2, <3>1
    <3>4. last.key \in Int
      BY Keys
    <3> HIDE DEF D, F
    <3>5. CASE j = i
      BY <3>2, <3>3, <3>4, <3>5
    <3>6. CASE j # i
      BY <3>2, <3>3, <3>6
    <3> QED
      BY <3>5, <3>6
  <2> QED
    BY <2>3, <2>4 DEF HasDescended, a
<1>6. ASSUME NEW i \in D, i \in Sinks(h, size, last),
             HasDescended(f[SmallerChild(h, size, i)], SmallerChild(h, size, i), h, size, last)
      PROVE  HasDescended(f[i], i, h, size, last)
  <2> DEFINE a == f[i]
             q == SmallerChild(h, size, i)
             b == f[q]
  <2>1. /\ i \in Nat /\ q \in i + 1 .. size /\ q \in D /\ q \in 2 .. size /\ Parent(q) = i
        /\ \A j \in 2 .. size : Parent(j) = i => h[q].key <= h[j].key
    BY <1>6, SinksToChild
  <2>2. b \in [D -> Elements] /\ a = [b EXCEPT ![i] = h[q]]
    BY <1>6, <2>1 DEF Raised
  <2>3. \A j \in D : a[j] = IF j = i THEN h[q] ELSE b[j]
    BY <2>2
  <2>4. h[q].key < last.key
    <3>1. h[q] \in Elements /\ cmp(last, h[q]) > 0
      BY <1>1, <1>6, <2>1 DEF Sinks
    <3> QED
      BY <3>1, Keys
  <2>5. /\ \A j \in 2 .. size : Parent(j) >= q => b[Parent(j)].key <= b[j].key
        /\ \A j \in q .. size : h[j].key <= b[j].key
    BY <1>6, <2>4 DEF HasDescended
  <2>6. \A j \in D : b[j].key \in Int
    BY <1>3, <2>1
  <2>7. \A j \in 1 .. q - 1 : b[j] = h[j]
    BY <2>1
  <2>8. \A j \in D : h[j].key <= b[j].key
    <3>1. \A j \in D : j \in 1 .. q - 1 \/ j \in q .. size
      BY <2>1
    <3> HIDE DEF b, q
    <3> QED
      BY <1>1, <2>5, <2>7, <3>1
  <2> HIDE DEF a, b, q
  <2>9. ASSUME NEW j \in 2 .. size, Parent(j) >= i
        PROVE  a[Parent(j)].key <= a[j].key
    <3>1. j # i /\ j \in D /\ Parent(j) \in D
      BY <1>2, <2>9
    <3>2. a[j] = b[j] /\ h[j].key <= b[j].key /\ b[j].key \in Int /\ h[j].key \in Int
      BY <1>1, <2>3, <2>6, <2>8, <3>1
    <3>3. CASE Parent(j) = i
      <4>1. a[Parent(j)] = h[q] /\ h[q].key <= h[j].key /\ h[q].key \in Int
        BY <1>1, <2>1, <2>3, <3>1, <3>3
      <4> QED
        BY <3>2, <4>1
    <3>4. CASE Parent(j) # i
      <4>1. a[Parent(j)] = b[Parent(j)]
        BY <2>3, <3>1, <3>4
      <4>2. CASE Parent(j) >= q
        BY <2>5, <3>2, <4>1, <4>2
      <4>3. CASE Parent(j) < q
        <5>1. Parent(j) \in 1 .. q - 1
          BY <2>1, <3>1, <4>3
        <5>2. a[Parent(j)] = h[Parent(j)] /\ h[Parent(j)].key \in Int
          BY <1>1, <2>7, <3>1, <4>1, <5>1
        <5>3. h[Parent(j)].key <= h[j].key
          BY <1>2
        <5> QED
          BY <3>2, <5>2, <5>3
      <4> QED
        BY <2>1, <3>1, <4>2, <4>3
    <3> QED
      BY <3>3, <3>4
  <2>10. h[i].key < last.key => \A j \in i .. size : h[j].key <= a[j].key
    <3> SUFFICES ASSUME NEW j \in i .. size PROVE h[j].key <= a[j].key
      OBVIOUS
    <3>1. j \in D
      OBVIOUS
    <3>2. h[i].key <= h[q].key
      BY <1>2, <2>1
    <3> QED
      BY <2>3, <2>8, <3>1, <3>2
  <2> QED
    BY <2>9, <2>10 DEF HasDescended, a
<1>7. D \subseteq T
  <2>1. Descends(D, D \ Sinks(h, size, last), p, [i \in D |-> size - i])
    BY DownDescends
  <2>2. ASSUME NEW i \in D, i \in D \ Sinks(h, size, last) \/ p[i] \in T
        PROVE  i \in T
    <3>1. CASE i \in Sinks(h, size, last)
      <4>1. p[i] = SmallerChild(h, size, i)
        BY <3>1 DEF Down
      <4>2. HasDescended(f[SmallerChild(h, size, i)], SmallerChild(h, size, i), h, size, last)
        BY <2>2, <3>1, <4>1
      <4> QED
        BY <1>6, <3>1, <4>2
    <3> QED
      BY <1>5, <3>1
  <2>3. \A i \in D : i \in D \ Sinks(h, size, last) \/ p[i] \in T => i \in T
    BY <2>2
  <2> HIDE DEF D, p, T
  <2> QED
    BY <2>1, <2>3, DescentInduction
<1> QED
  BY <1>7

(* The first element of a heap is a least one.                             *)
LEMMA RootIsLeast ==
  ASSUME NEW h \in Seq(Elements), Ordered(h)
  PROVE  \A i \in 1 .. Len(h) : h[1].key <= h[i].key
<1> DEFINE D == 1 .. Len(h)
           p == [i \in D |-> IF i = 1 THEN 1 ELSE Parent(i)]
           m == [i \in D |-> i]
           T == {i \in D : h[1].key <= h[i].key}
<1>1. Len(h) \in Nat /\ \A i \in D : h[i].key \in Int
  BY Keys
<1>2. ASSUME NEW i \in D, i # 1
      PROVE  Parent(i) \in 1 .. i - 1 /\ Parent(i) \in D /\ Parent(i) \in Nat
  <2>1. i \in Nat \ {0, 1}
    BY <1>2
  <2>2. Parent(i) \in 1 .. i - 1 /\ Parent(i) \in Nat
    BY <2>1, Parents
  <2> QED
    BY <1>1, <2>1, <2>2
<1>3. Descends(D, {1}, p, m)
  <2>1. p \in [D -> D]
    BY <1>2
  <2>2. m \in [D -> Nat]
    OBVIOUS
  <2>3. ASSUME NEW i \in D \ {1} PROVE m[p[i]] < m[i]
    <3>1. p[i] = Parent(i) /\ Parent(i) \in D /\ Parent(i) \in 1 .. i - 1
      BY <1>2
    <3> HIDE DEF p
    <3> QED
      BY <1>1, <3>1
  <2> QED
    BY <2>1, <2>2, <2>3 DEF Descends
<1>4. ASSUME NEW i \in D, i \in {1} \/ p[i] \in T
      PROVE  i \in T
  <2>1. CASE i = 1
    BY <1>1, <2>1
  <2>2. CASE i # 1
    <3>1. Parent(i) \in D /\ h[1].key <= h[Parent(i)].key
      BY <1>2, <1>4, <2>2
    <3>2. h[Parent(i)].key <= h[i].key
      <4>1. i \in 2 .. Len(h)
        BY <1>1, <2>2
      <4> QED
        BY <4>1 DEF Ordered
    <3>3. h[1].key \in Int /\ h[i].key \in Int /\ h[Parent(i)].key \in Int
      <4>1. 1 \in D
        BY <1>1
      <4> QED
        BY <1>1, <3>1, <4>1
    <3> QED
      BY <3>1, <3>2, <3>3
  <2> QED
    BY <2>1, <2>2
<1>5. D \subseteq T
  <2>1. \A i \in D : i \in {1} \/ p[i] \in T => i \in T
    BY <1>4
  <2> HIDE DEF D, p, m, T
  <2> QED
    BY <1>3, <2>1, DescentInduction
<1> QED
  BY <1>5

(* A pop takes the first element out of a heap, and it stays one.          *)
LEMMA PopKeepsHeap ==
  ASSUME NEW h \in Seq(Elements), h # <<>>, Ordered(h), Distinct(h)
  PROVE  /\ Pop(h) \in Seq(Elements) /\ Len(Pop(h)) = Len(h) - 1
         /\ Ordered(Pop(h)) /\ Distinct(Pop(h))
         /\ Values(Pop(h)) = Values(h) \ {h[1]}
<1> DEFINE size == Len(h) - 1
           last == h[Len(h)]
           a == Pop(h)
<1>1. size \in Nat /\ Len(h) = size + 1 /\ size <= Len(h) /\ last \in Elements
  OBVIOUS
<1>2. a = Sunk(h, size, last)
  BY DEF Pop
<1>3. Values(h) \ {h[1]} = {h[j] : j \in 2 .. size + 1}
  <2>1. \A j \in 2 .. size + 1 : j \in 1 .. Len(h) /\ j # 1
    BY <1>1
  <2>2. \A j \in 1 .. Len(h) : j = 1 \/ j \in 2 .. size + 1
    BY <1>1
  <2>3. 1 \in 1 .. Len(h)
    BY <1>1
  <2> HIDE DEF size
  <2> QED
    BY <2>1, <2>2, <2>3 DEF Values, Distinct
<1>4. CASE size = 0
  <2>1. a = <<>>
    BY <1>2, <1>4 DEF Sunk
  <2>2. Values(h) \ {h[1]} = {}
    BY <1>3, <1>4
  <2>3. Len(a) = 0 /\ a \in Seq(Elements)
    BY <2>1
  <2> HIDE DEF a
  <2> QED
    BY <1>1, <1>4, <2>1, <2>2, <2>3 DEF Values, Ordered, Distinct, a
<1>5. CASE size # 0
  <2> DEFINE D == 1 .. size
  <2>1. size \in Nat \ {0}
    BY <1>1, <1>5
  <2> HIDE DEF a, last, size
  <2>2. PICK f \in [D -> [D -> Elements]] :
          /\ Sunk(h, size, last) = f[1]
          /\ \A i \in D : f[i] = IF i \in Sinks(h, size, last)
                                  THEN Raised(h, size, i, f[SmallerChild(h, size, i)])
                                  ELSE Settled(h, size, last, i)
    BY <1>1, <2>1, SinkSteps
  <2>3. \A j \in 1 .. size : h[j] # last
    <3>1. \A j \in 1 .. size : j \in 1 .. Len(h) /\ j # Len(h) /\ Len(h) \in 1 .. Len(h)
      BY <1>1
    <3> QED
      BY <3>1 DEF Distinct, last
  <2>4. \A i \in D : HasSettled(f[i], i, h, size, last)
    BY <1>1, <2>1, <2>2, <2>3, SunkSettles
  <2>5. \A i \in D : HasDescended(f[i], i, h, size, last)
    <3>1. \A i \in D : \A j \in 1 .. i - 1 : f[i][j] = h[j]
      BY <2>4 DEF HasSettled
    <3> QED
      BY <1>1, <2>1, <2>2, <3>1, SunkAscends
  <2>6. 1 \in D /\ a = f[1]
    BY <1>2, <2>1, <2>2
  <2>7. a \in [1 .. size -> Elements]
    BY <2>2, <2>6
  <2>8. a \in Seq(Elements) /\ Len(a) = size
    BY <1>1, <2>7
  <2>9. HasSettled(a, 1, h, size, last) /\ HasDescended(a, 1, h, size, last)
    BY <2>4, <2>5, <2>6
  <2>10. Ordered(a)
    <3>1. \A j \in 2 .. size : Parent(j) >= 1
      BY Parents
    <3> QED
      BY <2>8, <2>9, <3>1 DEF HasDescended, Ordered
  <2>11. Distinct(a)
    BY <2>8, <2>9 DEF HasSettled, Distinct
  <2>12. Values(a) = {last} \cup {h[j] : j \in 2 .. size}
    <3>1. Values(a) = ValuesFrom(a, 1, size)
      BY <2>8 DEF Values, ValuesFrom
    <3>2. ValuesFrom(h, 1 + 1, size) = {h[j] : j \in 2 .. size}
      BY DEF ValuesFrom
    <3> QED
      BY <2>9, <3>1, <3>2 DEF HasSettled
  <2>13. {h[j] : j \in 2 .. size + 1} = {last} \cup {h[j] : j \in 2 .. size}
    <3>1. \A j \in 2 .. size + 1 : j \in 2 .. size \/ j = size + 1
      BY <2>1
    <3>2. size + 1 \in 2 .. size + 1 /\ \A j \in 2 .. size : j \in 2 .. size + 1
      BY <2>1
    <3>3. last = h[size + 1]
      BY <1>1 DEF last
    <3> QED
      BY <3>1, <3>2, <3>3
  <2> QED
    BY <1>1, <1>3, <2>8, <2>10, <2>11, <2>12, <2>13 DEF a, size
<1> QED
  BY <1>4, <1>5

-----------------------------------------------------------------------------
(* The theorems                                                            *)

(* The inductive invariant: what push and pop ask of the array, and what   *)
(* they leave.                                                             *)
HeapInv ==
  /\ heap \in Seq(Elements) /\ popped \subseteq Elements
  /\ Ordered(heap) /\ Distinct(heap)

(* Every step keeps the invariant and is one of the abstract queue.        *)
LEMMA HeapSteps ==
  ASSUME HeapInv, HeapNext
  PROVE  /\ HeapInv'
         /\ Abstract!Next
<1>1. Content = Values(heap) /\ Content' = Values(heap')
  BY DEF Content, Values
<1>2. CASE PQueuePopEmpty
  <2>1. Content = {}
    BY <1>2 DEF PQueuePopEmpty, Content
  <2>2. HeapInv' /\ Content' = Content
    BY <1>2 DEF PQueuePopEmpty, HeapInv, Ordered, Distinct, Content
  <2>3. popped' = {}
    BY <1>2 DEF PQueuePopEmpty
  <2> QED
    BY <2>1, <2>2, <2>3 DEF Abstract!Next, Abstract!Pop
<1>3. CASE PQueuePop
  <2>1. heap # <<>> /\ popped' = {heap[1]} /\ heap' = Pop(heap)
    BY <1>3 DEF PQueuePop, Peek
  <2>2. 1 \in 1 .. Len(heap) /\ heap[1] \in Elements
    BY <2>1 DEF HeapInv
  <2>3. /\ heap' \in Seq(Elements) /\ Ordered(heap') /\ Distinct(heap')
        /\ Values(heap') = Values(heap) \ {heap[1]}
    BY <2>1, PopKeepsHeap DEF HeapInv
  <2>4. HeapInv'
    BY <2>1, <2>2, <2>3 DEF HeapInv, Ordered, Distinct
  <2>5. heap[1] \in Abstract!Least(Content)
    <3>1. \A i \in 1 .. Len(heap) : heap[1].key <= heap[i].key
      BY RootIsLeast DEF HeapInv
    <3>2. heap[1] \in Content
      BY <2>2 DEF Content
    <3> QED
      BY <3>1, <3>2 DEF Abstract!Least, Content
  <2> QED
    BY <1>1, <2>1, <2>3, <2>4, <2>5 DEF Abstract!Next, Abstract!Pop
<1>4. ASSUME NEW e \in Elements, PQueuePush(e)
      PROVE  HeapInv' /\ Abstract!Next
  <2>1. e \notin Content /\ heap' = Push(heap, e) /\ popped' = {}
    BY <1>4 DEF PQueuePush
  <2>2. /\ heap' \in Seq(Elements) /\ Ordered(heap') /\ Distinct(heap')
        /\ Values(heap') = Values(heap) \cup {e}
    BY <1>1, <2>1, PushKeepsHeap DEF HeapInv
  <2>3. HeapInv'
    BY <2>1, <2>2 DEF HeapInv, Ordered, Distinct
  <2> QED
    BY <1>1, <2>1, <2>2, <2>3 DEF Abstract!Next, Abstract!Push
<1> QED
  BY <1>2, <1>3, <1>4 DEF HeapNext

(* After any pushes and pops the array is a heap without duplicates        *)
(* (pqueue.c:67-143, 185-276).                                             *)
THEOREM HeapInvariant == HeapSpec => []HeapInv
<1>1. HeapInit => HeapInv
  BY DEF HeapInit, HeapInv, Ordered, Distinct
<1>2. HeapInv /\ [HeapNext]_heapVars => HeapInv'
  <2> SUFFICES ASSUME HeapInv, [HeapNext]_heapVars PROVE HeapInv'
    OBVIOUS
  <2>1. CASE HeapNext
    BY <2>1, HeapSteps
  <2>2. CASE UNCHANGED heapVars
    BY <2>2 DEF heapVars, HeapInv, Ordered, Distinct
  <2> QED
    BY <2>1, <2>2
<1> QED
  BY <1>1, <1>2, PTL DEF HeapSpec

(* The array holds elements that were pushed, and as many different ones   *)
(* as it is long: no shift doubles one (HeapTypeOK).                       *)
THEOREM HeapTypeCorrect == HeapSpec => []HeapTypeOK
<1>1. HeapInv => HeapTypeOK
  <2> SUFFICES ASSUME HeapInv PROVE HeapTypeOK
    OBVIOUS
  <2>1. heap \in Seq(Elements) /\ Len(heap) \in Nat /\ Distinct(heap)
    BY DEF HeapInv
  <2> DEFINE f == [i \in 1 .. Len(heap) |-> heap[i]]
  <2>2. f \in Bijection(1 .. Len(heap), Content)
    BY <2>1 DEF Bijection, Injection, Surjection, IsInjective, Distinct, Content
  <2>3. IsFiniteSet(1 .. Len(heap)) /\ Cardinality(1 .. Len(heap)) = Len(heap)
    BY <2>1, FS_Interval
  <2>4. Cardinality(Content) = Cardinality(1 .. Len(heap))
    BY <2>2, <2>3, FS_Bijection DEF ExistsBijection
  <2> QED
    BY <2>3, <2>4 DEF HeapInv, HeapTypeOK
<1> QED
  BY <1>1, HeapInvariant, PTL

(* No element is less than its parent, whatever was pushed and popped      *)
(* (pqueue.c:67-143, 185-276; HeapOrder).                                  *)
THEOREM HeapStaysOrdered == HeapSpec => []HeapOrder
<1>1. HeapInv => HeapOrder
  <2> SUFFICES ASSUME HeapInv, NEW i \in 2 .. Len(heap)
               PROVE  ~ (cmp(heap[Parent(i)], heap[i]) > 0)
    BY DEF HeapOrder
  <2>1. heap \in Seq(Elements) /\ heap[Parent(i)].key <= heap[i].key
    BY DEF HeapInv, Ordered
  <2>2. i \in 1 .. Len(heap) /\ Parent(i) \in 1 .. Len(heap)
    <3>1. i \in Nat \ {0, 1} /\ Len(heap) \in Nat
      BY <2>1
    <3>2. Parent(i) \in 1 .. i - 1
      BY <3>1, Parents
    <3> QED
      BY <3>1, <3>2
  <2>3. heap[i] \in Elements /\ heap[Parent(i)] \in Elements
    BY <2>1, <2>2
  <2> QED
    BY <2>1, <2>3, Keys
<1> QED
  BY <1>1, HeapInvariant, PTL

(* The heap implements AbstractPQueue: a push adds its item and nothing    *)
(* else, and a pop takes out a least element and nothing else (pqueue.c).  *)
THEOREM HeapImplementsPQueue == HeapSpec => ImplementsPQueue
<1>1. HeapInit => Abstract!Init
  BY DEF HeapInit, Abstract!Init, Content
<1>2. HeapInv /\ [HeapNext]_heapVars => [Abstract!Next]_(Abstract!vars)
  <2> SUFFICES ASSUME HeapInv, [HeapNext]_heapVars PROVE [Abstract!Next]_(Abstract!vars)
    OBVIOUS
  <2>1. CASE HeapNext
    BY <2>1, HeapSteps
  <2>2. CASE UNCHANGED heapVars
    BY <2>2 DEF heapVars, Abstract!vars, Content
  <2> QED
    BY <2>1, <2>2
<1> QED
  BY <1>1, <1>2, HeapInvariant, PTL DEF HeapSpec, ImplementsPQueue, Abstract!Spec
=============================================================================
