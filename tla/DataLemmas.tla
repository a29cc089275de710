---------------------------- MODULE DataLemmas -----------------------------
(***************************************************************************)
(* Facts about data that the proofs of several modules rest on: induction  *)
(* over the natural numbers, sequences as queues, sets in ascending order. *)
(***************************************************************************)
EXTENDS Integers, Sequences, FiniteSets, SequenceTheorems, FiniteSetTheorems,
        WellFoundedInduction, TLAPS

-----------------------------------------------------------------------------
(* Induction *)

\* The induction theorems of the library take an operator, which the provers do
\* not find by themselves.  A set they do find: the set of the numbers for which
\* the claim holds.  That the order of the naturals is well founded gives this.
LEMMA InductionSet ==
  ASSUME NEW T, 0 \in T, \A n \in Nat : n \in T => n + 1 \in T
  PROVE  Nat \subseteq T
<1> SUFFICES ASSUME Nat \ T # {} PROVE FALSE
  OBVIOUS
<1> DEFINE less    == OpToRel(<, Nat)
           missing == Nat \ T
<1>1. IsWellFoundedOn(less, Nat)
  BY NatLessThanWellFounded
<1>2. \A x \in Nat : \A y \in Nat : y < x => <<y, x>> \in less
  BY DEF OpToRel
<1> HIDE DEF less
<1>3. PICK x \in missing : \A y \in missing : <<y, x>> \notin less
  <2>1. missing \subseteq Nat /\ missing # {}
    OBVIOUS
  <2> HIDE DEF missing
  <2> QED BY <1>1, <2>1, WFMin
<1>4. x # 0 /\ x - 1 \in Nat /\ x - 1 < x
  OBVIOUS
<1>5. x - 1 \notin missing
  BY <1>2, <1>3, <1>4
<1>6. (x - 1) + 1 \in T
  BY <1>4, <1>5
<1> QED BY <1>4, <1>6

\* The same for the numbers up to a bound.
LEMMA InductionUpTo ==
  ASSUME NEW n \in Nat, NEW T, 0 \in T, \A i \in 1 .. n : i - 1 \in T => i \in T
  PROVE  0 .. n \subseteq T
<1> DEFINE U == {i \in Nat : i <= n => i \in T}
<1>1. 0 \in U
  OBVIOUS
<1>2. ASSUME NEW i \in Nat, i \in U PROVE i + 1 \in U
  <2> SUFFICES ASSUME i + 1 <= n PROVE i + 1 \in T
    OBVIOUS
  <2>1. i + 1 \in 1 .. n /\ (i + 1) - 1 = i /\ i <= n
    OBVIOUS
  <2> QED BY <1>2, <2>1
<1> HIDE DEF U
<1>3. Nat \subseteq U
  BY <1>1, <1>2, InductionSet
<1> QED BY <1>3 DEF U

\* The values of a recursive definition over 0 .. n.
Follows(g, n, S, first, step) ==
  /\ g \in [0 .. n -> S]
  /\ g[0] = first
  /\ \A i \in 1 .. n : g[i] = step[i][g[i - 1]]

\* There are such values.
LEMMA RecursionDefines ==
  ASSUME NEW n \in Nat, NEW S, NEW first \in S, NEW step \in [1 .. n -> [S -> S]]
  PROVE  \E g : Follows(g, n, S, first, step)
<1> DEFINE Fits(g, m) == /\ g \in [0 .. m -> S]
                         /\ g[0] = first
                         /\ \A i \in 1 .. m : g[i] = step[i][g[i - 1]]
           T == {m \in Nat : \E g : Fits(g, m)}
<1>1. 0 \in T
  <2>1. Fits([i \in 0 .. 0 |-> first], 0)
    OBVIOUS
  <2> QED BY <2>1
<1>2. ASSUME NEW m \in 1 .. n, m - 1 \in T PROVE m \in T
  <2> HIDE DEF Fits
  <2>1. PICK g : Fits(g, m - 1)
    BY <1>2
  <2> USE DEF Fits
  <2>2. m \in Nat /\ m - 1 \in 0 .. (m - 1) /\ g[m - 1] \in S
    BY <2>1
  <2>3. step[m][g[m - 1]] \in S
    BY <2>2
  <2> DEFINE h == [i \in 0 .. m |-> IF i = m THEN step[m][g[m - 1]] ELSE g[i]]
  <2>4. h \in [0 .. m -> S]
    <3>1. \A i \in 0 .. m : i # m => i \in 0 .. (m - 1)
      OBVIOUS
    <3> QED BY <2>1, <2>3, <3>1
  <2>5. h[0] = first
    BY <2>1, <2>2
  <2>6. ASSUME NEW i \in 1 .. m PROVE h[i] = step[i][h[i - 1]]
    <3>1. i - 1 \in 0 .. m /\ i - 1 # m
      OBVIOUS
    <3>2. h[i - 1] = g[i - 1]
      BY <3>1
    <3>3. CASE i = m
      <4>1. h[m] = step[m][g[m - 1]]
        BY <2>2
      <4>2. h[m - 1] = g[m - 1]
        BY <3>2, <3>3
      <4> HIDE DEF h
      <4> QED BY <3>3, <4>1, <4>2
    <3>4. CASE i # m
      <4>1. i \in 1 .. (m - 1)
        BY <3>4
      <4> QED BY <2>1, <3>2, <3>4, <4>1
    <3> QED BY <3>3, <3>4
  <2>7. Fits(h, m)
    BY <2>4, <2>5, <2>6
  <2> HIDE DEF Fits
  <2> QED BY <2>2, <2>7
<1>3. n \in T
  <2> HIDE DEF T
  <2>1. 0 .. n \subseteq T
    BY <1>1, <1>2, InductionUpTo
  <2> QED BY <2>1
<1>4. PICK g : Fits(g, n)
  <2> HIDE DEF Fits
  <2> QED BY <1>3
<1>5. Follows(g, n, S, first, step)
  BY <1>4 DEF Follows
<1> QED BY <1>5

-----------------------------------------------------------------------------
(* Sequences *)

LEMMA Associative ==
  \A s, t, u \in Seq(Nat) : (s \o t) \o u = s \o (t \o u)
BY ConcatAssociative, SMT

\* Moving an element from the head of one queue to the end of the one before.
LEMMA MoveHead ==
  ASSUME NEW s \in Seq(Nat), NEW t \in Seq(Nat), t # <<>>
  PROVE  /\ Append(s, Head(t)) \in Seq(Nat) /\ Tail(t) \in Seq(Nat)
         /\ Append(s, Head(t)) \o Tail(t) = s \o t
<1>1. Head(t) \in Nat /\ Tail(t) \in Seq(Nat) /\ <<Head(t)>> \in Seq(Nat)
  BY HeadTailProperties
<1>2. Append(s, Head(t)) = s \o <<Head(t)>>
  BY <1>1, AppendIsConcat
<1>3. <<Head(t)>> \o Tail(t) = t
  <2>1. Len(t) \in Nat \ {0} /\ t[1] = Head(t) /\ 1 \in 1 .. Len(t) /\ Len(t) \in 1 .. Len(t)
    BY EmptySeq
  <2>2. SubSeq(t, 1, Len(t)) = <<t[1]>> \o SubSeq(t, 1 + 1, Len(t))
    BY <2>1, SubSeqRecursiveFirst
  <2> QED BY <2>1, <2>2, SubSeqFull, TailIsSubSeq
<1>4. (s \o <<Head(t)>>) \o Tail(t) = s \o (<<Head(t)>> \o Tail(t))
  BY <1>1, ConcatAssociative
<1> QED BY <1>1, <1>2, <1>3, <1>4, AppendProperties

\* How the four places a byte can be in may be grouped.
LEMMA Regroup ==
  ASSUME NEW a \in Seq(Nat), NEW b \in Seq(Nat), NEW c \in Seq(Nat), NEW d \in Seq(Nat)
  PROVE  /\ a \o b \in Seq(Nat) /\ b \o c \in Seq(Nat) /\ c \o d \in Seq(Nat)
         /\ (a \o b) \o c \in Seq(Nat) /\ (b \o c) \o d \in Seq(Nat)
         /\ (a \o b) \o c = a \o (b \o c)
         /\ (b \o c) \o d = b \o (c \o d)
         /\ ((a \o b) \o c) \o d = (a \o b) \o (c \o d)
         /\ ((a \o b) \o c) \o d = a \o ((b \o c) \o d)
<1>1. a \o b \in Seq(Nat) /\ b \o c \in Seq(Nat) /\ c \o d \in Seq(Nat)
  BY ConcatProperties
<1>2. (a \o b) \o c \in Seq(Nat) /\ (b \o c) \o d \in Seq(Nat)
  BY <1>1, ConcatProperties
<1>3. (a \o b) \o c = a \o (b \o c) /\ (b \o c) \o d = b \o (c \o d)
  BY Associative
<1> DEFINE ab == a \o b
           cd == c \o d
<1>4. (ab \o c) \o d = ab \o (c \o d)
  <2>1. ab \in Seq(Nat)
    BY <1>1
  <2> HIDE DEF ab
  <2> QED BY <2>1, Associative
<1>5. (a \o b) \o cd = a \o (b \o cd)
  <2>1. cd \in Seq(Nat)
    BY <1>1
  <2> HIDE DEF cd
  <2> QED BY <2>1, Associative
<1> QED BY <1>1, <1>2, <1>3, <1>4, <1>5

LEMMA HeadOfConcat ==
  ASSUME NEW s \in Seq(Nat), NEW t \in Seq(Nat), s # <<>>
  PROVE  /\ s \o t # <<>>
         /\ Head(s \o t) = Head(s) /\ Tail(s \o t) = Tail(s) \o t
<1> DEFINE st == s \o t
<1>1. /\ Len(s) \in Nat \ {0} /\ Len(t) \in Nat
      /\ Tail(s) \in Seq(Nat) /\ Len(Tail(s)) = Len(s) - 1
      /\ \A i \in 1 .. Len(Tail(s)) : Tail(s)[i] = s[i + 1]
      /\ Head(s) = s[1]
  BY EmptySeq, HeadTailProperties, LenProperties
<1>2. /\ st \in Seq(Nat) /\ Len(st) = Len(s) + Len(t)
      /\ \A i \in 1 .. Len(s) + Len(t) :
           st[i] = IF i <= Len(s) THEN s[i] ELSE t[i - Len(s)]
  BY ConcatProperties
<1> HIDE DEF st
<1>3. st # <<>>
  BY <1>1, <1>2, EmptySeq
<1>4. Head(st) = st[1] /\ Head(st) = Head(s)
  BY <1>1, <1>2, <1>3
<1>5. /\ Tail(st) \in Seq(Nat) /\ Len(Tail(st)) = Len(st) - 1
      /\ \A i \in 1 .. Len(Tail(st)) : Tail(st)[i] = st[i + 1]
  BY <1>2, <1>3, HeadTailProperties
<1> DEFINE u == Tail(s) \o t
<1>6. /\ u \in Seq(Nat) /\ Len(u) = Len(Tail(s)) + Len(t)
      /\ \A i \in 1 .. Len(Tail(s)) + Len(t) :
           u[i] = IF i <= Len(Tail(s)) THEN Tail(s)[i] ELSE t[i - Len(Tail(s))]
  BY <1>1, ConcatProperties
<1> HIDE DEF u
<1>7. Len(Tail(st)) = Len(u)
  BY <1>1, <1>2, <1>5, <1>6
<1>8. ASSUME NEW i \in 1 .. Len(u) PROVE Tail(st)[i] = u[i]
  <2>1. Tail(st)[i] = st[i + 1] /\ i + 1 \in 1 .. Len(s) + Len(t)
    BY <1>1, <1>2, <1>5, <1>6, <1>7
  <2>2. CASE i <= Len(s) - 1
    BY <1>1, <1>2, <1>6, <2>1, <2>2
  <2>3. CASE ~(i <= Len(s) - 1)
    <3>1. u[i] = t[i - (Len(s) - 1)]
      BY <1>1, <1>6, <2>3
    <3>2. st[i + 1] = t[(i + 1) - Len(s)]
      BY <1>1, <1>2, <2>1, <2>3
    <3>3. (i + 1) - Len(s) = i - (Len(s) - 1)
      BY <1>1
    <3> QED BY <2>1, <3>1, <3>2, <3>3
  <2> QED BY <2>2, <2>3
<1>9. Tail(st) = u
  BY <1>5, <1>6, <1>7, <1>8, SeqEqual
<1> QED BY <1>3, <1>4, <1>9 DEF st, u

LEMMA FirstOfConcat ==
  ASSUME NEW s \in Seq(Nat), NEW t \in Seq(Nat)
  PROVE  /\ Len(s) <= Len(s \o t)
         /\ s = SubSeq(s \o t, 1, Len(s))
<1> DEFINE st == s \o t
<1>1. /\ Len(s) \in Nat /\ Len(t) \in Nat /\ \A i \in 1 .. Len(s) : s[i] \in Nat
      /\ st \in Seq(Nat) /\ Len(st) = Len(s) + Len(t)
      /\ \A i \in 1 .. Len(s) + Len(t) :
           st[i] = IF i <= Len(s) THEN s[i] ELSE t[i - Len(s)]
  BY LenProperties, ConcatProperties
<1> HIDE DEF st
<1>2. /\ SubSeq(st, 1, Len(s)) \in Seq(Nat) /\ Len(SubSeq(st, 1, Len(s))) = Len(s)
      /\ \A i \in 1 .. Len(s) : SubSeq(st, 1, Len(s))[i] = st[i]
  <2>1. \A i \in 1 .. Len(s) : st[i] \in Nat
    BY <1>1
  <2> QED BY <1>1, <2>1, SubSeqProperties
<1>3. s = SubSeq(st, 1, Len(s))
  <2>1. \A i \in 1 .. Len(s) : s[i] = SubSeq(st, 1, Len(s))[i]
    BY <1>1, <1>2
  <2> QED BY <1>2, <2>1, SeqEqual
<1> QED BY <1>1, <1>3 DEF st

-----------------------------------------------------------------------------
(* Sets in ascending order *)

\* The number of elements up to k tells the elements apart.
LEMMA RankRises ==
  ASSUME NEW S, S \subseteq Nat, IsFiniteSet(S), NEW j \in S, NEW k \in S, j < k
  PROVE  Cardinality({i \in S : i <= j}) < Cardinality({i \in S : i <= k})
<1> DEFINE A == {i \in S : i <= j}
           B == {i \in S : i <= k}
<1>1. IsFiniteSet(B)
  BY FS_Subset
<1>2. A \in SUBSET B /\ A # B
  <2>1. A \subseteq B
    <3>1. j \in Nat /\ k \in Nat
      OBVIOUS
    <3>2. ASSUME NEW i \in S, i <= j PROVE i <= k
      <4>1. i \in Nat
        OBVIOUS
      <4> QED BY <3>1, <3>2, <4>1
    <3> QED BY <3>2
  <2>2. k \in B /\ k \notin A
    OBVIOUS
  <2> QED BY <2>1, <2>2
<1> HIDE DEF A, B
<1>3. /\ IsFiniteSet(A) /\ Cardinality(A) <= Cardinality(B)
      /\ Cardinality(B) = Cardinality(A) => B = A
  BY <1>1, <1>2, FS_Subset
<1>4. Cardinality(A) \in Nat /\ Cardinality(B) \in Nat
  BY <1>1, <1>3, FS_CardinalityType
<1>5. Cardinality(A) < Cardinality(B)
  BY <1>2, <1>3, <1>4
<1> QED BY <1>5 DEF A, B

\* A finite set of numbers, listed by how many elements are up to each.
LEMMA AscendingIs ==
  ASSUME NEW S, S \subseteq Nat, IsFiniteSet(S)
  PROVE  LET list == [i \in 1 .. Cardinality(S) |->
                        CHOOSE k \in S : Cardinality({j \in S : j <= k}) = i]
         IN /\ list \in Seq(S) /\ Len(list) = Cardinality(S)
            /\ \A i, j \in 1 .. Cardinality(S) : i < j => list[i] < list[j]
            /\ \A k \in S : \E i \in 1 .. Cardinality(S) : list[i] = k
<1> DEFINE n == Cardinality(S)
           upto(k) == {j \in S : j <= k}
           rank == [k \in S |-> Cardinality(upto(k))]
           list == [i \in 1 .. n |-> CHOOSE k \in S : Cardinality(upto(k)) = i]
<1>1. n \in Nat
  BY FS_CardinalityType
<1>2. ASSUME NEW k \in S PROVE Cardinality(upto(k)) \in 1 .. n
  <2>1. upto(k) \in SUBSET S /\ k \in upto(k)
    OBVIOUS
  <2> HIDE DEF upto
  <2>2. IsFiniteSet(upto(k)) /\ Cardinality(upto(k)) <= n
    BY <2>1, FS_Subset
  <2>3. Cardinality(upto(k)) \in Nat /\ Cardinality(upto(k)) # 0
    BY <2>1, <2>2, FS_CardinalityType, FS_EmptySet
  <2> QED BY <1>1, <2>2, <2>3
<1>3. \A j, k \in S : j < k => Cardinality(upto(j)) < Cardinality(upto(k))
  BY RankRises
<1> HIDE DEF upto
<1>4. rank \in [S -> 1 .. n] /\ \A k \in S : rank[k] = Cardinality(upto(k))
  BY <1>2
<1>5. \A j, k \in S : rank[j] = rank[k] => j = k
  BY <1>2, <1>3, <1>4
<1> HIDE DEF rank, n
<1>6. rank \in Surjection(S, 1 .. n)
  <2>1. rank \in Injection(S, 1 .. n)
    BY <1>4, <1>5 DEF Injection, IsInjective
  <2>2. IsFiniteSet(1 .. n) /\ Cardinality(1 .. n) = n
    BY <1>1, FS_Interval
  <2>3. Cardinality(S) = n
    BY DEF n
  <2> QED BY <2>1, <2>2, <2>3, FS_Injection
<1>7. \A i \in 1 .. n : \E k \in S : Cardinality(upto(k)) = i
  BY <1>4, <1>6 DEF Surjection
<1>8. \A i \in 1 .. n : list[i] \in S /\ Cardinality(upto(list[i])) = i
  BY <1>7
<1>9. list \in [1 .. n -> S]
  BY <1>8
<1> HIDE DEF list
<1>10. list \in Seq(S) /\ Len(list) = n
  <2>1. list \in Seq(S)
    BY <1>1, <1>9, SeqDef
  <2> QED BY <1>1, <1>9, <2>1, LenProperties
<1>11. ASSUME NEW i \in 1 .. n, NEW j \in 1 .. n, i < j PROVE list[i] < list[j]
  <2>1. list[i] \in S /\ list[j] \in S /\ list[i] \in Nat /\ list[j] \in Nat
    BY <1>8
  <2>2. Cardinality(upto(list[i])) = i /\ Cardinality(upto(list[j])) = j
    BY <1>8
  <2>3. ~(list[j] < list[i]) /\ list[i] # list[j]
    BY <1>1, <1>3, <1>11, <2>1, <2>2
  <2> QED BY <2>1, <2>3
<1>12. ASSUME NEW k \in S PROVE \E i \in 1 .. n : list[i] = k
  <2>1. rank[k] \in 1 .. n /\ Cardinality(upto(list[rank[k]])) = rank[k]
    BY <1>4, <1>8
  <2>2. list[rank[k]] \in S /\ rank[list[rank[k]]] = rank[k]
    BY <1>4, <1>8, <2>1
  <2> QED BY <1>5, <2>1, <2>2
<1>13. /\ list \in Seq(S) /\ Len(list) = n
       /\ \A i, j \in 1 .. n : i < j => list[i] < list[j]
       /\ \A k \in S : \E i \in 1 .. n : list[i] = k
  BY <1>10, <1>11, <1>12
<1> QED BY <1>13 DEF list, n, upto

=============================================================================
