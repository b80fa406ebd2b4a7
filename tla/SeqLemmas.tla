----------------------------- MODULE SeqLemmas -----------------------------
(* Facts about the sequences that model the program's stacks: what a push, a *)
(* cut and an update leave in place; and induction, stated of sets of        *)
(* numbers instead of predicates, for loops and recursive functions.         *)
EXTENDS Integers, Sequences, WellFoundedInduction, TLAPS

\* A push adds its element on top and changes nothing below.
LEMMA AppendFacts ==
  ASSUME NEW S, NEW s \in Seq(S), NEW e \in S
  PROVE  /\ Append(s, e) \in Seq(S)
         /\ Len(Append(s, e)) = Len(s) + 1
         /\ Append(s, e)[Len(s) + 1] = e
         /\ \A i \in 1..Len(s) : Append(s, e)[i] = s[i]
  OBVIOUS

\* A cut keeps the elements below it.
LEMMA PrefixFacts ==
  ASSUME NEW S, NEW s \in Seq(S), NEW n \in 0..Len(s)
  PROVE  /\ SubSeq(s, 1, n) \in Seq(S)
         /\ Len(SubSeq(s, 1, n)) = n
         /\ \A i \in 1..n : SubSeq(s, 1, n)[i] = s[i]
  OBVIOUS

\* Sequences with the same elements are the same.
LEMMA SameSeq ==
  ASSUME NEW S, NEW s \in Seq(S), NEW t \in Seq(S),
         Len(s) = Len(t), \A i \in 1..Len(s) : s[i] = t[i]
  PROVE  s = t
  OBVIOUS

\* Sequences that agree up to n have the same cut at n.
LEMMA SamePrefix ==
  ASSUME NEW S, NEW s \in Seq(S), NEW t \in Seq(S), NEW n \in Nat,
         n <= Len(s), n <= Len(t), \A i \in 1..n : s[i] = t[i]
  PROVE  SubSeq(s, 1, n) = SubSeq(t, 1, n)
  BY PrefixFacts, SameSeq

\* An update changes one element.
LEMMA UpdateFacts ==
  ASSUME NEW S, NEW s \in Seq(S), NEW n \in 1..Len(s), NEW e \in S
  PROVE  /\ [s EXCEPT ![n] = e] \in Seq(S)
         /\ Len([s EXCEPT ![n] = e]) = Len(s)
         /\ [s EXCEPT ![n] = e][n] = e
         /\ \A i \in 1..Len(s) : i # n => [s EXCEPT ![n] = e][i] = s[i]
  OBVIOUS

-----------------------------------------------------------------------------
\* A set of natural numbers that is not empty has a least element.
LEMMA LeastNumber ==
  ASSUME NEW T, T \subseteq Nat, T # {}
  PROVE  \E x \in T : \A y \in T : x <= y
<1>1. PICK x \in T : \A y \in T : ~(<<y, x>> \in OpToRel(<, Nat))
  BY NatLessThanWellFounded, WFMin, Zenon
<1>2. \A y \in T : ~(y < x)
  BY <1>1 DEF OpToRel
<1> QED
  BY <1>2

\* Induction: a set of numbers that has 0 and the successors of its numbers has all.
LEMMA InductionOnSets ==
  ASSUME NEW P, 0 \in P, \A n \in Nat : n \in P => n + 1 \in P
  PROVE  Nat \subseteq P
<1> DEFINE T == Nat \ P
<1>1. ASSUME T # {} PROVE FALSE
  <2>1. PICK x \in T : \A y \in T : x <= y
    BY <1>1, LeastNumber
  <2>2. x \in Nat /\ x # 0
    BY <2>1
  <2>3. x - 1 \in Nat /\ ~(x <= x - 1)
    BY <2>2
  <2>4. x - 1 \in P
    BY <2>1, <2>3
  <2>5. x - 1 + 1 = x
    BY <2>2
  <2> QED
    BY <2>1, <2>3, <2>4, <2>5
<1> QED
  BY <1>1

\* A recursion over 0..n has a solution: what starts with a and goes on with F.
Recurs(g, a, F, n) == g[0] = a /\ \A k \in 1..n : g[k] = F[k][g[k - 1]]

LEMMA BoundedRecursion ==
  ASSUME NEW S, NEW a \in S, NEW F \in [Nat -> [S -> S]], NEW n \in Nat
  PROVE  \E g \in [0..n -> S] : Recurs(g, a, F, n)
<1> DEFINE P == {m \in Nat : \E g \in [0..m -> S] : Recurs(g, a, F, m)}
<1>1. 0 \in P
  <2>1. [k \in 0..0 |-> a] \in [0..0 -> S] /\ Recurs([k \in 0..0 |-> a], a, F, 0)
    BY DEF Recurs
  <2> QED
    BY <2>1
<1>2. ASSUME NEW m \in Nat, m \in P PROVE m + 1 \in P
  <2>1. PICK g \in [0..m -> S] : Recurs(g, a, F, m)
    BY <1>2
  <2> DEFINE h == [k \in 0..(m + 1) |-> IF k = m + 1 THEN F[m + 1][g[m]] ELSE g[k]]
  <2>2. F[m + 1][g[m]] \in S
    BY <2>1
  <2>3. h \in [0..(m + 1) -> S]
    BY <2>1, <2>2
  <2>4. \A k \in 0..m : h[k] = g[k]
    OBVIOUS
  <2>5. h[m + 1] = F[m + 1][g[m]] /\ h[0] = g[0]
    OBVIOUS
  <2> HIDE DEF h
  <2>6. ASSUME NEW k \in 1..(m + 1) PROVE h[k] = F[k][h[k - 1]]
    <3>1. CASE k = m + 1
      BY <3>1, <2>4, <2>5
    <3>2. CASE k # m + 1
      <4>1. k \in 1..m /\ k \in 0..m /\ k - 1 \in 0..m
        BY <3>2
      <4> QED
        BY <4>1, <2>1, <2>4 DEF Recurs
    <3> QED
      BY <3>1, <3>2
  <2>7. Recurs(h, a, F, m + 1)
    BY <2>1, <2>5, <2>6 DEF Recurs
  <2> QED
    BY <2>3, <2>7
<1> HIDE DEF P
<1>3. n \in P
  BY <1>1, <1>2, InductionOnSets
<1> QED
  BY <1>3 DEF P

\* A function on 0..n that never falls from one number to the next never falls.
LEMMA Monotone ==
  ASSUME NEW n \in Nat, NEW g \in [0..n -> Nat], \A k \in 1..n : g[k - 1] <= g[k]
  PROVE  \A j, k \in 0..n : j <= k => g[j] <= g[k]
<1> DEFINE P == {m \in Nat : m <= n => \A j \in 0..m : g[j] <= g[m]}
<1>1. 0 \in P
  OBVIOUS
<1>2. ASSUME NEW m \in Nat, m \in P PROVE m + 1 \in P
  <2> SUFFICES ASSUME m + 1 <= n, NEW j \in 0..(m + 1) PROVE g[j] <= g[m + 1]
    OBVIOUS
  <2>1. m + 1 \in 1..n /\ m + 1 - 1 = m /\ m \in 0..n /\ m + 1 \in 0..n /\ j \in 0..n
    OBVIOUS
  <2>2. g[m] <= g[m + 1]
    BY <2>1
  <2>3. j # m + 1 => g[j] <= g[m]
    BY <1>2, <2>1
  <2>4. g[j] \in Nat /\ g[m] \in Nat /\ g[m + 1] \in Nat
    BY <2>1
  <2> QED
    BY <2>2, <2>3, <2>4
<1> HIDE DEF P
<1>3. Nat \subseteq P
  BY <1>1, <1>2, InductionOnSets
<1> QED
  BY <1>3 DEF P
=============================================================================
