------------------------- MODULE SwitchLoweringProofs -------------------------
(***************************************************************************)
(* For every switch body and every width of I64: the blocks made by        *)
(* genSwitch, genCaseLabel, genSubStart and genSubEnd all end in a jump,   *)
(* and they run the statements that the switch means (SwitchLowering).     *)
(*                                                                         *)
(* The second is a simulation: every block has a place in the body, and    *)
(* what is run from a block on is what is run from its place on.           *)
(***************************************************************************)
EXTENDS SwitchLowering, SeqLemmas, FiniteSetTheorems, TLAPS

-----------------------------------------------------------------------------
(* The body: what its items mean *)

\* The first value of the case at p, and what the diagnostics of the items want.
LoOf(p) == IF items[p].lo = Null THEN HiOf[p] ELSE items[p].lo
OkItem(p) ==
  /\ items[p].k # "badcase"
  /\ items[p].k = "case" => LoOf(p) <= HiOf[p]
  /\ items[p].k \in {"start", "default"} => Group(p) = {}
  /\ items[p].k = "end" => Group(p) # {}
Sound == (\A p \in 1..Len(items) : OkItem(p)) /\ Group(Len(items) + 1) = {}

\* The body is one of those the constants allow (BodiesAssumption).
Body == items \in Seq(Item) /\ \A i \in DOMAIN items : items[i].hi = Null => items[i].lo = Null

\* What an item can be.
LEMMA ItemFacts ==
  ASSUME Body
  PROVE  /\ Len(items) \in Nat /\ DOMAIN items = 1..Len(items) /\ MinI \in Int /\ MaxI \in Nat
         /\ \A p \in 1..Len(items) :
              /\ items[p].k \in {"case", "badcase", "default", "start", "end", "break", "stmt"}
              /\ items[p].lo # Null => items[p].lo \in MinI..MaxI /\ items[p].hi \in MinI..MaxI
<1>1. Len(items) \in Nat /\ DOMAIN items = 1..Len(items) /\ MinI \in Int /\ MaxI \in Nat
  BY IntAssumption DEF Body, MinI
<1>2. \A p \in 1..Len(items) : items[p] \in Item
  BY DEF Body
<1> QED BY <1>1, <1>2 DEF Body, Item

\* Which items are of a kind.
LEMMA AtFacts ==
  ASSUME Body, NEW k
  PROVE  /\ At(k) \subseteq 1..Len(items) /\ At(k) \subseteq Nat
         /\ \A p \in 1..Len(items) : p \in At(k) <=> items[p].k = k
  BY ItemFacts DEF At

\* The group an item stands in, item by item.
LEMMA GroupFirst ==
  ASSUME Body PROVE Group(1) = {}
  BY AtFacts DEF Group

\* The group an item stands in, from the one of the item before: a start: opens it and an
\* end: closes it.
LEMMA GroupNext ==
  ASSUME Body, NEW p \in 1..Len(items)
  PROVE  /\ items[p].k = "start" => Group(p + 1) = Group(p) \cup {p}
         /\ items[p].k = "end" => Group(p + 1) = {}
         /\ items[p].k \notin {"start", "end"} => Group(p + 1) = Group(p)
<1>1. p \in Nat /\ At("start") \subseteq Nat /\ At("end") \subseteq Nat
      /\ (p \in At("start") <=> items[p].k = "start") /\ (p \in At("end") <=> items[p].k = "end")
  BY AtFacts, ItemFacts
<1>2. \A s \in Nat : s < p + 1 <=> s < p \/ s = p
  BY <1>1
<1>3. CASE items[p].k = "start"
  BY <1>1, <1>2, <1>3 DEF Group
<1>4. CASE items[p].k = "end"
  BY <1>1, <1>2, <1>4 DEF Group
<1>5. CASE items[p].k \notin {"start", "end"}
  BY <1>1, <1>2, <1>5 DEF Group
<1> QED BY <1>3, <1>4, <1>5

\* An item stands in one group at most.
LEMMA GroupOfOne ==
  ASSUME Body, NEW n \in 0..Len(items), \A q \in 1..n : OkItem(q), NEW p \in 1..(n + 1), NEW s \in Group(p)
  PROVE  /\ Group(p) = {s} /\ s \in 1..Len(items) /\ s < p /\ items[s].k = "start" /\ s \in At("start")
         /\ \A e \in At("end") : e > s => e >= p
<1>1. \A t \in Group(p) : t \in At("start") /\ t < p /\ \A e \in At("end") : ~(t < e /\ e < p)
  BY DEF Group
<1>2. p \in Nat /\ n \in Nat /\ At("start") \subseteq 1..Len(items) /\ At("end") \subseteq Nat /\ Len(items) \in Nat
  BY AtFacts, ItemFacts
<1>3. ASSUME NEW t \in Group(p), NEW u \in Group(p), t < u PROVE FALSE
  <2>1. t \in Group(u)
    BY <1>1, <1>2, <1>3 DEF Group
  <2>2. u \in 1..n /\ items[u].k = "start"
    BY <1>1, <1>2, AtFacts
  <2> QED BY <2>1, <2>2 DEF OkItem
<1>4. \A t \in Group(p) : t = s
  <2>1. SUFFICES ASSUME NEW t \in Group(p), t # s PROVE FALSE
    OBVIOUS
  <2>2. t < s \/ s < t
    BY <1>1, <1>2, <2>1
  <2> QED BY <1>3, <2>2
<1> QED BY <1>1, <1>2, <1>4, AtFacts

\* In a sound body the group of an item ends at or after it.
LEMMA EndFacts ==
  ASSUME Body, Sound, NEW p \in 1..Len(items), NEW s \in Group(p)
  PROVE  /\ EndOf(s) \in p..Len(items) /\ EndOf(s) > s /\ items[EndOf(s)].k = "end"
         /\ (EndOf(s) = p <=> items[p].k = "end")
<1>1. Len(items) \in Nat /\ \A q \in 1..Len(items) : OkItem(q)
  BY ItemFacts DEF Sound
<1>2. /\ Group(p) = {s} /\ s \in 1..Len(items) /\ s < p /\ s \in At("start")
      /\ \A e \in At("end") : e > s => e >= p
  BY <1>1, GroupOfOne
<1> DEFINE T == {e \in At("end") : e > s}
<1>3. T # {}
  <2>1. s \notin Group(Len(items) + 1)
    BY DEF Sound
  <2> QED BY <1>1, <1>2, <2>1 DEF Group
<1>4. T \subseteq Nat
  BY AtFacts
<1> HIDE DEF T
<1>5. PICK x \in T : \A y \in T : x <= y
  BY <1>3, <1>4, LeastNumber
<1> USE DEF T
<1>6. EndOf(s) \in At("end") /\ EndOf(s) > s /\ \A f \in At("end") : f > s => EndOf(s) <= f
  BY <1>5 DEF EndOf
<1>7. EndOf(s) \in 1..Len(items) /\ items[EndOf(s)].k = "end" /\ EndOf(s) >= p
  BY <1>2, <1>6, AtFacts
<1>8. items[p].k = "end" => EndOf(s) <= p
  BY <1>2, <1>6, AtFacts
<1> QED BY <1>2, <1>6, <1>7, <1>8

\* What From says of the item p, with f for the rest.
Says(f, p) ==
  IF p > Len(items) THEN <<>>
  ELSE CASE items[p].k = "stmt" -> <<p>> \o f[p + 1]
         [] items[p].k = "break" ->
              IF Group(p) = {} THEN <<>> ELSE f[EndOf(CHOOSE s \in Group(p) : TRUE) + 1]
         [] OTHER -> f[p + 1]

\* It looks at later items only.
LEMMA SaysLater ==
  ASSUME Body, Sound, NEW p \in 1..(Len(items) + 1),
         NEW f, NEW g \in [1..(Len(items) + 1) -> Seq(Nat)],
         \A q \in (p + 1)..(Len(items) + 1) : f[q] = g[q]
  PROVE  Says(f, p) = Says(g, p) /\ Says(g, p) \in Seq(Nat)
<1>1. CASE p > Len(items)
  BY <1>1 DEF Says
<1>2. CASE ~(p > Len(items))
  <2>1. p \in 1..Len(items) /\ p + 1 \in (p + 1)..(Len(items) + 1) /\ p + 1 \in 1..(Len(items) + 1) /\ p \in Nat
    BY <1>2, ItemFacts
  <2>2. f[p + 1] = g[p + 1] /\ g[p + 1] \in Seq(Nat) /\ <<p>> \in Seq(Nat)
    <3>1. <<p>> \in Seq(Nat)
      BY <2>1
    <3>2. f[p + 1] = g[p + 1] /\ g[p + 1] \in Seq(Nat)
      BY <2>1
    <3> QED BY <3>1, <3>2
  <2>3. CASE items[p].k = "stmt"
    <3>1. <<p>> \o g[p + 1] \in Seq(Nat)
      BY <2>2
    <3>2. Says(f, p) = <<p>> \o f[p + 1] /\ Says(g, p) = <<p>> \o g[p + 1]
      BY <1>2, <2>3 DEF Says
    <3> QED BY <2>2, <3>1, <3>2
  <2>4. CASE items[p].k = "break" /\ Group(p) = {}
    BY <1>2, <2>4 DEF Says
  <2>5. CASE items[p].k = "break" /\ Group(p) # {}
    <3> DEFINE s == CHOOSE s \in Group(p) : TRUE
    <3>1. s \in Group(p)
      BY <2>5
    <3> HIDE DEF s
    <3>2. EndOf(s) \in p..Len(items) /\ EndOf(s) # p
      BY <2>1, <2>5, <3>1, EndFacts
    <3>3. EndOf(s) + 1 \in (p + 1)..(Len(items) + 1) /\ EndOf(s) + 1 \in 1..(Len(items) + 1)
      BY <2>1, <3>2, ItemFacts
    <3>4. Says(f, p) = f[EndOf(s) + 1] /\ Says(g, p) = g[EndOf(s) + 1]
      BY <1>2, <2>5 DEF Says, s
    <3> QED BY <3>3, <3>4
  <2>6. CASE items[p].k \notin {"stmt", "break"}
    BY <1>2, <2>2, <2>6 DEF Says
  <2> QED BY <2>3, <2>4, <2>5, <2>6
<1> QED BY <1>1, <1>2

\* The recursion of From has its solution, for every body: what is run from an item on is what
\* the item says of the items behind it.
LEMMA FromFacts ==
  ASSUME Body, Sound
  PROVE  /\ From \in [1..(Len(items) + 1) -> Seq(Nat)]
         /\ \A p \in 1..(Len(items) + 1) : From[p] = Says(From, p)
<1> DEFINE n == Len(items)
           T == 1..(n + 1)
           P == {m \in Nat : m <= n + 1 => \E f \in [T -> Seq(Nat)] : \A p \in (n + 2 - m)..(n + 1) : f[p] = Says(f, p)}
<1>1. n \in Nat
  BY ItemFacts
<1>2. 0 \in P
  <2>1. [p \in T |-> <<>>] \in [T -> Seq(Nat)] /\ (n + 2 - 0)..(n + 1) = {}
    BY <1>1
  <2> QED BY <2>1
<1>3. ASSUME NEW m \in Nat, m \in P PROVE m + 1 \in P
  <2> SUFFICES ASSUME m + 1 <= n + 1
               PROVE  \E f \in [T -> Seq(Nat)] : \A p \in (n + 2 - (m + 1))..(n + 1) : f[p] = Says(f, p)
    OBVIOUS
  <2>1. PICK f \in [T -> Seq(Nat)] : \A p \in (n + 2 - m)..(n + 1) : f[p] = Says(f, p)
    BY <1>1, <1>3
  <2> DEFINE q == n + 1 - m
             g == [f EXCEPT ![q] = Says(f, q)]
  <2>2. q \in T /\ q \in 1..(n + 1) /\ q \in Nat /\ n + 2 - (m + 1) = q /\ n + 2 - m = q + 1
    BY <1>1
  <2>3. Says(f, q) \in Seq(Nat)
    BY <2>1, <2>2, SaysLater
  <2> HIDE DEF q
  <2>4. g \in [T -> Seq(Nat)] /\ g[q] = Says(f, q) /\ \A p \in T : p # q => g[p] = f[p]
    BY <2>1, <2>2, <2>3
  <2> HIDE DEF g
  <2>5. ASSUME NEW p \in q..(n + 1) PROVE g[p] = Says(g, p)
    <3>1. p \in T /\ \A r \in (p + 1)..(n + 1) : r \in T /\ r # q
      BY <1>1, <2>2
    <3>2. Says(f, p) = Says(g, p)
      BY <2>1, <2>4, <3>1, SaysLater
    <3>3. CASE p = q
      BY <2>4, <3>2, <3>3
    <3>4. CASE p # q
      <4>1. p \in (q + 1)..(n + 1)
        BY <1>1, <2>2, <3>4
      <4> QED BY <2>1, <2>2, <2>4, <3>1, <3>2, <3>4, <4>1
    <3> QED BY <3>3, <3>4
  <2> QED BY <2>2, <2>4, <2>5
<1> HIDE DEF P
<1>4. n + 1 \in P
  BY <1>1, <1>2, <1>3, InductionOnSets
<1>5. PICK f \in [T -> Seq(Nat)] : \A p \in T : f[p] = Says(f, p)
  <2>1. \A p \in T : p \in (n + 2 - (n + 1))..(n + 1)
    BY <1>1
  <2> QED BY <1>1, <1>4, <2>1 DEF P
<1>6. f = [p \in T |-> Says(f, p)]
  BY <1>5
<1>7. From = CHOOSE g : g = [p \in T |-> Says(g, p)]
  BY DEF From, Says
<1>8. From = [p \in T |-> Says(From, p)]
  BY <1>6, <1>7
<1> HIDE DEF n, T
<1>9. \A p \in T : From[p] = Says(From, p)
  BY <1>8
<1> DEFINE R == {m \in Nat : m <= n + 1 => \A p \in (n + 2 - m)..(n + 1) : From[p] \in Seq(Nat)}
<1>10. 0 \in R
  BY <1>1
<1>11. ASSUME NEW m \in Nat, m \in R PROVE m + 1 \in R
  <2> SUFFICES ASSUME m + 1 <= n + 1, NEW p \in (n + 2 - (m + 1))..(n + 1) PROVE From[p] \in Seq(Nat)
    OBVIOUS
  <2> DEFINE g == [q \in T |-> IF q \in (n + 2 - m)..(n + 1) THEN From[q] ELSE <<>>]
  <2>4. \A q \in (n + 2 - m)..(n + 1) : From[q] \in Seq(Nat)
    BY <1>1, <1>11
  <2>5. <<>> \in Seq(Nat)
    OBVIOUS
  <2>1. g \in [T -> Seq(Nat)]
    BY <2>4, <2>5
  <2>2. p \in T /\ \A q \in (p + 1)..(n + 1) : q \in T /\ q \in (n + 2 - m)..(n + 1)
    BY <1>1 DEF T
  <2>3. \A q \in (p + 1)..(n + 1) : From[q] = g[q]
    BY <2>2
  <2> HIDE DEF g
  <2>6. Says(From, p) = Says(g, p) /\ Says(g, p) \in Seq(Nat)
    BY <2>1, <2>2, <2>3, SaysLater DEF n, T
  <2> QED BY <1>9, <2>2, <2>6
<1> HIDE DEF R
<1>12. n + 1 \in R
  BY <1>1, <1>10, <1>11, InductionOnSets
<1>13. \A p \in T : From[p] \in Seq(Nat)
  <2>1. \A p \in T : p \in (n + 2 - (n + 1))..(n + 1)
    BY <1>1 DEF T
  <2> QED BY <1>1, <1>12, <2>1 DEF R
<1> QED BY <1>8, <1>9, <1>13 DEF n, T

\* The wrap-around of I64: it stays in range, and leaves alone what is in range.
LEMMA WrapFacts ==
  ASSUME NEW n \in Int PROVE Wrap(n) \in MinI..MaxI
<1>1. MaxI \in Nat /\ MinI = -MaxI - 1
  BY IntAssumption DEF MinI
<1>2. (n - MinI) % (MaxI - MinI + 1) \in 0..(MaxI - MinI)
  <2> DEFINE a == n - MinI
             m == MaxI - MinI + 1
  <2>1. a \in Int /\ m \in Nat /\ m > 0 /\ m - 1 = MaxI - MinI
    BY <1>1
  <2> HIDE DEF a, m
  <2>2. a % m \in 0..(m - 1)
    BY <2>1
  <2> QED BY <2>1, <2>2 DEF a, m
<1> QED BY <1>1, <1>2 DEF Wrap

\* The recursion of HiOf has its solution: the greatest value of a case follows from the case
\* before it.
LEMMA HiFacts ==
  ASSUME Body
  PROVE  /\ HiOf[0] = -1
         /\ \A i \in 0..Len(items) : HiOf[i] \in Int
         /\ \A i \in 1..Len(items) :
              HiOf[i] = IF items[i].k # "case" THEN HiOf[i - 1]
                        ELSE IF items[i].lo = Null THEN Wrap(HiOf[i - 1] + 1) ELSE items[i].hi
<1> DEFINE n == Len(items)
           To(i, x) == IF items[i].k # "case" THEN x
                       ELSE IF items[i].lo = Null THEN Wrap(x + 1) ELSE items[i].hi
           G(g) == [i \in 0..n |-> IF i = 0 THEN -1 ELSE To(i, g[i - 1])]
           F == [i \in Nat |-> [x \in Int |-> IF i \in 1..n THEN To(i, x) ELSE 0]]
           a == -1
<1>1. n \in Nat /\ \A k \in 1..n : k \in Nat /\ k - 1 \in 0..n
  BY ItemFacts
<1>2. ASSUME NEW i \in 1..n, NEW x \in Int PROVE To(i, x) \in Int
  <2>1. CASE items[i].k # "case"
    BY <2>1
  <2>2. CASE items[i].k = "case" /\ items[i].lo = Null
    <3>1. Wrap(x + 1) \in MinI..MaxI
      BY WrapFacts
    <3> QED BY <2>2, <3>1
  <2>3. CASE items[i].k = "case" /\ items[i].lo # Null
    <3>1. items[i].hi \in MinI..MaxI
      BY <2>3, ItemFacts
    <3> QED BY <2>3, <3>1
  <2> QED BY <2>1, <2>2, <2>3
<1>3. HiOf = CHOOSE g : g = G(g)
  BY DEF HiOf
<1> HIDE DEF To
<1>4. F \in [Nat -> [Int -> Int]]
  BY <1>2
<1>5. ASSUME NEW k \in 1..n, NEW x \in Int PROVE F[k][x] = To(k, x)
  BY <1>1
<1>14. a \in Int
  OBVIOUS
<1> HIDE DEF n, F, G, a
<1>6. PICK g \in [0..n -> Int] : Recurs(g, a, F, n)
  BY <1>1, <1>4, <1>14, BoundedRecursion
<1>7. g = [i \in 0..n |-> IF i = 0 THEN -1 ELSE To(i, g[i - 1])]
  <2>1. \A k \in 1..n : g[k] = To(k, g[k - 1])
    BY <1>1, <1>5, <1>6 DEF Recurs
  <2> QED BY <1>1, <1>6, <2>1 DEF Recurs, a
<1>8. HiOf = G(HiOf)
  BY <1>3, <1>7 DEF G
<1>9. HiOf[0] = -1 /\ \A i \in 1..n : HiOf[i] = To(i, HiOf[i - 1])
  BY <1>1, <1>8 DEF G
<1> DEFINE P == {m \in Nat : m <= n => HiOf[m] \in Int}
<1>10. 0 \in P
  BY <1>9
<1>11. ASSUME NEW m \in Nat, m \in P PROVE m + 1 \in P
  <2> SUFFICES ASSUME m + 1 <= n PROVE HiOf[m + 1] \in Int
    OBVIOUS
  <2>1. m + 1 \in 1..n /\ m + 1 - 1 = m /\ HiOf[m] \in Int
    BY <1>1, <1>11
  <2>2. HiOf[m + 1] = To(m + 1, HiOf[m])
    BY <1>9, <2>1
  <2>3. PICK x \in Int : x = HiOf[m]
    BY <2>1
  <2> QED BY <1>2, <2>1, <2>2, <2>3
<1> HIDE DEF P
<1>12. Nat \subseteq P
  BY <1>10, <1>11, InductionOnSets
<1>13. \A i \in 0..n : HiOf[i] \in Int
  BY <1>1, <1>12 DEF P
<1> QED BY <1>9, <1>13 DEF n, To

\* The statements of some items, and of one more.
StmtsSolved(f, s, n) ==
  f = [p \in s..n |-> IF p = s THEN <<>> ELSE IF items[p].k = "stmt" THEN Append(f[p - 1], p) ELSE f[p - 1]]

\* The recursion of StmtsIn has a solution over any items.
LEMMA StmtsHaveSolution ==
  ASSUME NEW s \in Nat, NEW n \in Nat, s <= n
  PROVE  \E f \in [s..n -> Seq(Nat)] : StmtsSolved(f, s, n)
<1> DEFINE P == {m \in Nat : \E f \in [s..(s + m) -> Seq(Nat)] : StmtsSolved(f, s, s + m)}
<1>1. 0 \in P
  <2>1. [p \in s..(s + 0) |-> <<>>] \in [s..(s + 0) -> Seq(Nat)]
    OBVIOUS
  <2>2. StmtsSolved([p \in s..(s + 0) |-> <<>>], s, s + 0)
    BY DEF StmtsSolved
  <2> QED BY <2>1, <2>2
<1>2. ASSUME NEW m \in Nat, m \in P PROVE m + 1 \in P
  <2>1. PICK f \in [s..(s + m) -> Seq(Nat)] : StmtsSolved(f, s, s + m)
    BY <1>2
  <2> DEFINE q == s + m + 1
             y == IF items[q].k = "stmt" THEN Append(f[q - 1], q) ELSE f[q - 1]
             g == [p \in s..q |-> IF p = q THEN y ELSE f[p]]
  <2>2. q \in Nat /\ q - 1 \in s..(s + m) /\ q = s + (m + 1) /\ q # s
    OBVIOUS
  <2>3. f[q - 1] \in Seq(Nat)
    BY <2>1, <2>2
  <2>4. y \in Seq(Nat)
    <3>1. Append(f[q - 1], q) \in Seq(Nat)
      BY <2>2, <2>3, AppendFacts
    <3> QED BY <2>3, <3>1
  <2>5. \A p \in s..q : p = q \/ (p \in s..(s + m) /\ p # q)
    BY <2>2
  <2> HIDE DEF q
  <2>6. \A p \in s..(s + m) : f[p] = IF p = s THEN <<>> ELSE IF items[p].k = "stmt" THEN Append(f[p - 1], p) ELSE f[p - 1]
    BY <2>1 DEF StmtsSolved
  <2>7. g \in [s..q -> Seq(Nat)]
    BY <2>1, <2>4, <2>5
  <2>8. ASSUME NEW p \in s..q
        PROVE  g[p] = IF p = s THEN <<>> ELSE IF items[p].k = "stmt" THEN Append(g[p - 1], p) ELSE g[p - 1]
    <3>1. CASE p = q
      BY <2>2, <3>1, <2>5
    <3>2. CASE p # q
      <4>1. p \in s..(s + m)
        BY <2>5, <3>2
      <4>2. p = s \/ (p - 1 \in s..q /\ p - 1 # q)
        BY <2>2, <4>1
      <4> QED BY <2>6, <3>2, <4>1, <4>2
    <3> QED BY <3>1, <3>2
  <2>9. g = [p \in s..q |-> g[p]]
    OBVIOUS
  <2> HIDE DEF g
  <2>10. StmtsSolved(g, s, q)
    BY <2>8, <2>9 DEF StmtsSolved
  <2> QED BY <2>2, <2>7, <2>10
<1> HIDE DEF P
<1>3. n - s \in P
  BY <1>1, <1>2, InductionOnSets
<1>4. s + (n - s) = n
  OBVIOUS
<1> QED BY <1>3, <1>4 DEF P

\* Solutions agree on the items they share, so StmtsIn does not depend on where it is asked for.
LEMMA StmtsAgree ==
  ASSUME NEW s \in Nat, NEW n \in Nat, NEW m \in Nat, s <= n, n <= m, NEW f, NEW g,
         StmtsSolved(f, s, n), StmtsSolved(g, s, m)
  PROVE  \A p \in s..n : f[p] = g[p]
<1> DEFINE P == {i \in Nat : s + i <= n => f[s + i] = g[s + i]}
<1>1. /\ \A p \in s..n : f[p] = IF p = s THEN <<>> ELSE IF items[p].k = "stmt" THEN Append(f[p - 1], p) ELSE f[p - 1]
      /\ \A p \in s..m : g[p] = IF p = s THEN <<>> ELSE IF items[p].k = "stmt" THEN Append(g[p - 1], p) ELSE g[p - 1]
  BY DEF StmtsSolved
<1>2. 0 \in P
  BY <1>1
<1>3. ASSUME NEW i \in Nat, i \in P PROVE i + 1 \in P
  <2> SUFFICES ASSUME s + (i + 1) <= n PROVE f[s + (i + 1)] = g[s + (i + 1)]
    OBVIOUS
  <2>1. s + (i + 1) \in s..n /\ s + (i + 1) \in s..m /\ s + (i + 1) # s /\ s + (i + 1) - 1 = s + i
    OBVIOUS
  <2>2. f[s + i] = g[s + i]
    BY <1>3
  <2> QED BY <1>1, <2>1, <2>2
<1> HIDE DEF P
<1>4. Nat \subseteq P
  BY <1>2, <1>3, InductionOnSets
<1>5. ASSUME NEW p \in s..n PROVE f[p] = g[p]
  <2>1. p - s \in Nat /\ s + (p - s) = p /\ p <= n
    OBVIOUS
  <2> QED BY <1>4, <2>1 DEF P
<1> QED BY <1>5

\* StmtsIn, one item at a time.
LEMMA StmtsFacts ==
  ASSUME NEW s \in Nat, NEW n \in Nat, s <= n
  PROVE  /\ StmtsIn(s, n) \in Seq(Nat)
         /\ StmtsIn(s, s) = <<>>
         /\ StmtsIn(s, n + 1) = IF items[n + 1].k = "stmt" THEN Append(StmtsIn(s, n), n + 1) ELSE StmtsIn(s, n)
<1>1. ASSUME NEW m \in Nat, s <= m
      PROVE  \E f : StmtsSolved(f, s, m) /\ StmtsIn(s, m) = f[m] /\ f[m] \in Seq(Nat)
  <2>1. PICK f \in [s..m -> Seq(Nat)] : StmtsSolved(f, s, m)
    BY <1>1, StmtsHaveSolution
  <2>2. PICK g : g = CHOOSE h : StmtsSolved(h, s, m)
    OBVIOUS
  <2>3. StmtsSolved(g, s, m)
    BY <2>1, <2>2
  <2>4. \A p \in s..m : f[p] = g[p]
    BY <1>1, <2>1, <2>3, StmtsAgree
  <2>5. StmtsIn(s, m) = g[m]
    BY <2>2 DEF StmtsIn, StmtsSolved
  <2>6. m \in s..m
    BY <1>1
  <2>7. f[m] \in Seq(Nat) /\ f[m] = g[m]
    BY <2>1, <2>4, <2>6
  <2> QED BY <2>1, <2>5, <2>7
<1>2. PICK f : StmtsSolved(f, s, n) /\ StmtsIn(s, n) = f[n] /\ f[n] \in Seq(Nat)
  BY <1>1, Zenon
<1>3. PICK g : StmtsSolved(g, s, n + 1) /\ StmtsIn(s, n + 1) = g[n + 1]
  <2>1. n + 1 \in Nat /\ s <= n + 1
    OBVIOUS
  <2> QED BY <1>1, <2>1, Zenon
<1>4. PICK h : StmtsSolved(h, s, s) /\ StmtsIn(s, s) = h[s]
  <2>1. s <= s
    OBVIOUS
  <2> QED BY <1>1, <2>1, Zenon
<1>5. f[n] = g[n]
  <2>1. n + 1 \in Nat /\ n <= n + 1 /\ n \in s..n
    OBVIOUS
  <2>3. StmtsSolved(f, s, n) /\ StmtsSolved(g, s, n + 1)
    BY <1>2, <1>3
  <2> DEFINE m == n + 1
  <2>4. m \in Nat /\ n <= m /\ StmtsSolved(g, s, m)
    BY <2>1, <2>3
  <2> HIDE DEF m
  <2>2. \A p \in s..n : f[p] = g[p]
    BY <2>3, <2>4, StmtsAgree
  <2> QED BY <2>1, <2>2
<1>6. g[n + 1] = IF items[n + 1].k = "stmt" THEN Append(g[n + 1 - 1], n + 1) ELSE g[n + 1 - 1]
  <2>1. n + 1 \in s..(n + 1) /\ n + 1 # s
    OBVIOUS
  <2>2. g = [p \in s..(n + 1) |-> IF p = s THEN <<>> ELSE IF items[p].k = "stmt" THEN Append(g[p - 1], p) ELSE g[p - 1]]
    BY <1>3 DEF StmtsSolved
  <2>3. \A p \in s..(n + 1) : g[p] = IF p = s THEN <<>> ELSE IF items[p].k = "stmt" THEN Append(g[p - 1], p) ELSE g[p - 1]
    BY <2>2
  <2> QED BY <2>1, <2>3
<1>7. h[s] = <<>>
  BY <1>4 DEF StmtsSolved
<1> QED BY <1>2, <1>3, <1>4, <1>5, <1>6, <1>7

\* The run of the blocks, step by step.
LEMMA ExecFacts ==
  ASSUME NEW v, Len(bbs) \in Nat
  PROVE  \E R : /\ Exec(v) = R[Len(bbs) + 2].out
                /\ R[0] = [b |-> Lookup(swc.cases, v, swc.dflt), sel |-> NoSel, out |-> <<>>]
                /\ \A k \in 1..(Len(bbs) + 2) :
                     R[k] = IF R[k - 1].b = ExitBB THEN R[k - 1] ELSE RunBlock(R[k - 1])
<1> DEFINE n == Len(bbs) + 2
           a == [b |-> Lookup(swc.cases, v, swc.dflt), sel |-> NoSel, out |-> <<>>]
           To(r) == IF r.b = ExitBB THEN r ELSE RunBlock(r)
           G(g, m) == [k \in 0..m |-> IF k = 0 THEN a ELSE To(g[k - 1])]
<1>1. PICK R : R = CHOOSE g : g = G(g, n)
  OBVIOUS
<1>2. Exec(v) = R[n].out
  BY <1>1 DEF Exec
<1> HIDE DEF a, To
<1> DEFINE P == {m \in Nat : \E g : g = G(g, m)}
<1>3. 0 \in P
  <2> DEFINE g == [k \in 0..0 |-> a]
  <2>1. g = G(g, 0)
    OBVIOUS
  <2> QED BY <2>1
<1>4. ASSUME NEW m \in Nat, m \in P PROVE m + 1 \in P
  <2>1. PICK f : f = G(f, m)
    BY <1>4
  <2> DEFINE g == [k \in 0..(m + 1) |-> IF k = m + 1 THEN To(f[m]) ELSE f[k]]
  <2>2. \A k \in 0..m : f[k] = IF k = 0 THEN a ELSE To(f[k - 1])
    BY <2>1
  <2>3. ASSUME NEW k \in 0..(m + 1) PROVE g[k] = IF k = 0 THEN a ELSE To(g[k - 1])
    <3>1. CASE k = m + 1
      <4>1. k - 1 = m /\ m \in 0..(m + 1) /\ m # m + 1 /\ k # 0
        BY <3>1
      <4> QED BY <3>1, <4>1
    <3>2. CASE k # m + 1
      <4>1. k \in 0..m /\ (k = 0 \/ (k - 1 \in 0..(m + 1) /\ k - 1 # m + 1))
        BY <3>2
      <4> QED BY <2>2, <3>2, <4>1
    <3> QED BY <3>1, <3>2
  <2>4. g = [k \in 0..(m + 1) |-> g[k]]
    OBVIOUS
  <2> HIDE DEF g
  <2>5. g = G(g, m + 1)
    BY <2>3, <2>4
  <2> QED BY <2>5
<1> HIDE DEF P
<1>5. PICK g : g = G(g, n)
  <2>1. n \in P
    BY <1>3, <1>4, InductionOnSets
  <2> QED BY <2>1 DEF P
<1>6. R = G(R, n)
  BY <1>1, <1>5
<1>7. R[0] = a /\ \A k \in 1..n : R[k] = To(R[k - 1])
  <2>1. \A k \in 0..n : R[k] = IF k = 0 THEN a ELSE To(R[k - 1])
    BY <1>6
  <2>2. n \in Nat
    OBVIOUS
  <2> HIDE DEF n
  <2>3. 0 \in 0..n /\ \A k \in 1..n : k \in 0..n /\ k # 0
    BY <2>2
  <2> QED BY ONLY <2>1, <2>3
<1> QED BY <1>2, <1>7 DEF a, To

-----------------------------------------------------------------------------
(* The blocks, one step at a time *)

\* The types of the basic blocks and of the SwitchCtx of genSwitch.
SwTerm == [k : {"sw"}, cases : Seq(Nat \X Nat), dflt : Nat]
BrTerm == [k : {"br"}, to : Nat]
Term   == {None, [k |-> "switch"]} \cup BrTerm \cup SwTerm
Block  == [code : Seq(Nat), sel : Int, term : Term]
SwitchCtx ==
  [cases : Seq(Int \X Nat), dflt : Nat, inGroup : BOOLEAN, groupStartBB : Nat, groupEndBB : Nat,
   groupSw : Nat, nextGroupId : Nat, nextCaseVal : Int]

Typed ==
  /\ Body /\ pos \in 1..(Len(items) + 1)
  /\ bbs \in Seq(Block) /\ Len(bbs) >= 3 /\ cur \in DOMAIN bbs
  /\ swc \in SwitchCtx /\ hadError_ \in BOOLEAN /\ phase \in {"gen", "done", "endless"}

\* While the body is read the insert point is open, the end of an open group waits, and the
\* dispatch of a group is a switch.
Ctl ==
  phase # "done" =>
    /\ cur > 2 /\ bbs[cur].term = None
    /\ swc.inGroup =>
         /\ swc.groupEndBB \in DOMAIN bbs /\ swc.groupEndBB > 2 /\ swc.groupEndBB # cur
         /\ bbs[swc.groupEndBB] = EmptyBlock
         /\ swc.groupSw # NoBlock => swc.groupSw \in DOMAIN bbs /\ bbs[swc.groupSw].term \in SwTerm

\* No other block is open.
Closed ==
  /\ bbs[1].term = [k |-> "switch"] /\ bbs[2] = EmptyBlock
  /\ \A b \in DOMAIN bbs :
       b # 2 /\ ~(phase # "done" /\ b = cur) /\ ~(swc.inGroup /\ b = swc.groupEndBB) => bbs[b].term # None
  /\ phase = "done" /\ ~hadError_ => ~swc.inGroup

\* The inductive invariant of BlocksTerminated.
IInv == Typed /\ Ctl /\ Closed

\* The ends a block can have, and that they are different.
LEMMA TermFacts ==
  /\ None \in Term /\ [k |-> "switch"] \in Term /\ EmptyBlock \in Block
  /\ \A to \in Nat : Goto(to) \in Term /\ Goto(to).k = "br" /\ Goto(to).to = to /\ Goto(to) # None
  /\ \A id \in Int, to \in Nat : /\ Stub(id, to) \in Block /\ Stub(id, to).code = <<>>
                                 /\ Stub(id, to).sel = id /\ Stub(id, to).term = Goto(to)
  /\ \A t \in SwTerm : t.k = "sw" /\ t # None /\ t \in Term /\ t.cases \in Seq(Nat \X Nat) /\ t.dflt \in Nat
  /\ EmptyBlock.code = <<>> /\ EmptyBlock.sel = NoSel /\ EmptyBlock.term = None /\ NoSel = -1
  /\ None.k = "none"
<1>1. None \in Term /\ [k |-> "switch"] \in Term
  BY DEF Term
<1>2. <<>> \in Seq(Nat) /\ NoSel \in Int
  BY DEF NoSel
<1>3. EmptyBlock \in Block
  BY <1>1, <1>2 DEF EmptyBlock, Block
<1>4. \A to \in Nat : Goto(to) \in Term /\ Goto(to).k = "br" /\ Goto(to).to = to /\ Goto(to) # None
  BY DEF Goto, Term, BrTerm, None
<1>5. ASSUME NEW id \in Int, NEW to \in Nat
      PROVE  /\ Stub(id, to) \in Block /\ Stub(id, to).code = <<>>
             /\ Stub(id, to).sel = id /\ Stub(id, to).term = Goto(to)
  <2>1. Goto(to) \in Term
    BY <1>4
  <2>2. Stub(id, to) = [code |-> <<>>, sel |-> id, term |-> Goto(to)]
    BY DEF Stub, EmptyBlock
  <2> QED BY <1>2, <2>1, <2>2 DEF Block
<1>6. \A t \in SwTerm : t.k = "sw" /\ t # None /\ t \in Term /\ t.cases \in Seq(Nat \X Nat) /\ t.dflt \in Nat
  BY DEF SwTerm, Term, None
<1> QED BY <1>1, <1>3, <1>4, <1>5, <1>6 DEF EmptyBlock, NoSel, None

\* The parts of a block.
LEMMA BlockFacts ==
  ASSUME NEW r \in Block
  PROVE  r.code \in Seq(Nat) /\ r.sel \in Int /\ r.term \in Term
  BY DEF Block

\* A block of the sequence is given a new end, and perhaps remembers a case.
LEMMA EndBlock ==
  ASSUME NEW bs \in Seq(Block), NEW i \in DOMAIN bs, NEW t \in Term, NEW new,
         new = [bs EXCEPT ![i].term = t]
  PROVE  /\ new \in Seq(Block) /\ Len(new) = Len(bs) /\ DOMAIN new = DOMAIN bs
         /\ new[i].code = bs[i].code /\ new[i].sel = bs[i].sel /\ new[i].term = t
         /\ \A b \in DOMAIN bs : b # i => new[b] = bs[b]
<1> DEFINE r == [bs[i] EXCEPT !.term = t]
<1>1. bs[i] \in Block /\ i \in 1..Len(bs) /\ DOMAIN bs = 1..Len(bs) /\ Len(bs) \in Nat
  OBVIOUS
<1>2. r \in Block /\ r.code = bs[i].code /\ r.sel = bs[i].sel /\ r.term = t
  BY <1>1 DEF Block
<1>3. new = [bs EXCEPT ![i] = r]
  OBVIOUS
<1> HIDE DEF r
<1>4. new \in Seq(Block) /\ Len(new) = Len(bs) /\ new[i] = r /\ \A b \in 1..Len(bs) : b # i => new[b] = bs[b]
  BY <1>1, <1>2, <1>3, UpdateFacts
<1> QED BY <1>1, <1>2, <1>4

\* Br on a block without an end gives it the branch and leaves the others alone.
LEMMA BrOpen ==
  ASSUME NEW bs \in Seq(Block), NEW i \in DOMAIN bs, bs[i].term = None, NEW to \in Nat
  PROVE  /\ Br(bs, i, to) \in Seq(Block) /\ Len(Br(bs, i, to)) = Len(bs) /\ DOMAIN Br(bs, i, to) = DOMAIN bs
         /\ Br(bs, i, to)[i].code = bs[i].code /\ Br(bs, i, to)[i].sel = bs[i].sel
         /\ Br(bs, i, to)[i].term = Goto(to)
         /\ \A b \in DOMAIN bs : b # i => Br(bs, i, to)[b] = bs[b]
<1>1. Goto(to) \in Term
  BY TermFacts
<1>2. Br(bs, i, to) = [bs EXCEPT ![i].term = Goto(to)]
  BY DEF Br
<1> QED BY <1>1, <1>2, EndBlock

\* A sequence with two more elements.
LEMMA AppendTwo ==
  ASSUME NEW S, NEW s \in Seq(S), NEW x \in S, NEW y \in S
  PROVE  /\ s \o <<x, y>> \in Seq(S) /\ Len(s \o <<x, y>>) = Len(s) + 2
         /\ DOMAIN (s \o <<x, y>>) = 1..(Len(s) + 2)
         /\ (s \o <<x, y>>)[Len(s) + 1] = x /\ (s \o <<x, y>>)[Len(s) + 2] = y
         /\ \A i \in 1..Len(s) : (s \o <<x, y>>)[i] = s[i]
  OBVIOUS

\* What a step does to the blocks: k more of them, a new end of the block i, all but those of X
\* kept; and the entries of the values of a case.
Grown(k) ==
  /\ Len(bbs) \in Nat /\ DOMAIN bbs = 1..Len(bbs)
  /\ bbs' \in Seq(Block) /\ Len(bbs') = Len(bbs) + k /\ DOMAIN bbs' = 1..(Len(bbs) + k)
Ends(i, sl, t) == bbs'[i].code = bbs[i].code /\ bbs'[i].sel = sl /\ bbs'[i].term = t
Keeps(X) == \A b \in DOMAIN bbs : b \notin X => bbs'[b] = bbs[b]
Entries(lo, hi, to) == [v \in 1..(hi - lo + 1) |-> <<lo + v - 1, to>>]

\* The elements of two sequences joined.
LEMMA JoinFacts ==
  ASSUME NEW S, NEW s \in Seq(S), NEW t \in Seq(S)
  PROVE  /\ s \o t \in Seq(S) /\ Len(s \o t) = Len(s) + Len(t) /\ Len(s) \in Nat /\ Len(t) \in Nat
         /\ \A i \in 1..Len(s) : (s \o t)[i] = s[i]
         /\ \A i \in (Len(s) + 1)..(Len(s) + Len(t)) : (s \o t)[i] = t[i - Len(s)]
  OBVIOUS

\* The insert point is given a branch, and a block is added.
LEMMA EndedAndAdded ==
  ASSUME Typed, Ctl, phase = "gen", NEW to \in Nat, bbs' = Append(Br(bbs, cur, to), EmptyBlock)
  PROVE  /\ Grown(1) /\ Keeps({cur}) /\ bbs'[Len(bbs) + 1] = EmptyBlock
         /\ Ends(cur, bbs[cur].sel, Goto(to))
<1>1. bbs \in Seq(Block) /\ Len(bbs) \in Nat /\ DOMAIN bbs = 1..Len(bbs) /\ cur \in DOMAIN bbs /\ bbs[cur].term = None
  BY DEF Typed, Ctl
<1>2. PICK m : m = Br(bbs, cur, to)
  OBVIOUS
<1>3. /\ m \in Seq(Block) /\ Len(m) = Len(bbs) /\ m[cur].code = bbs[cur].code /\ m[cur].sel = bbs[cur].sel
      /\ m[cur].term = Goto(to) /\ \A b \in DOMAIN bbs : b # cur => m[b] = bbs[b]
  BY <1>1, <1>2, BrOpen
<1>4. EmptyBlock \in Block
  BY TermFacts
<1>5. bbs' = Append(m, EmptyBlock)
  BY <1>2
<1>6. /\ bbs' \in Seq(Block) /\ Len(bbs') = Len(bbs) + 1 /\ bbs'[Len(bbs) + 1] = EmptyBlock
      /\ \A b \in 1..Len(bbs) : bbs'[b] = m[b]
  <2>1. m \in Seq(Block)
    BY <1>3
  <2>2. /\ Append(m, EmptyBlock) \in Seq(Block) /\ Len(Append(m, EmptyBlock)) = Len(m) + 1
        /\ Append(m, EmptyBlock)[Len(m) + 1] = EmptyBlock
        /\ \A i \in 1..Len(m) : Append(m, EmptyBlock)[i] = m[i]
    BY <1>4, <2>1, AppendFacts
  <2> QED BY <1>3, <1>5, <2>2
<1>7. DOMAIN bbs' = 1..(Len(bbs) + 1)
  BY <1>1, <1>6
<1> QED BY <1>1, <1>3, <1>6, <1>7 DEF Grown, Keeps, Ends

\* A block is added after the insert point, which leads there.
LEMMA Labelled ==
  ASSUME Typed, Ctl, phase = "gen", bbs' = Append(Br(bbs, cur, Len(bbs) + 1), EmptyBlock)
  PROVE  /\ Grown(1) /\ Keeps({cur}) /\ bbs'[Len(bbs) + 1] = EmptyBlock
         /\ Ends(cur, bbs[cur].sel, Goto(Len(bbs) + 1))
<1>1. Len(bbs) + 1 \in Nat
  BY DEF Typed
<1> QED BY <1>1, EndedAndAdded

\* genCaseLabel outside a group.
LEMMA PlainStep ==
  ASSUME Typed, Ctl, phase = "gen", NEW lo \in Int, NEW hi \in Int, lo <= hi, NEW next \in Int,
         PlainCase(lo, hi, next)
  PROVE  /\ Grown(1) /\ Keeps({cur}) /\ bbs'[Len(bbs) + 1] = EmptyBlock /\ cur' = Len(bbs) + 1
         /\ Ends(cur, bbs[cur].sel, Goto(Len(bbs) + 1))
         /\ swc' = [swc EXCEPT !.cases = @ \o Entries(lo, hi, Len(bbs) + 1), !.nextCaseVal = next]
  BY Labelled DEF PlainCase, Entries

\* The default label.
LEMMA DefaultStep ==
  ASSUME Typed, Ctl, phase = "gen", NEW it, DefaultLabel(it)
  PROVE  /\ Grown(1) /\ Keeps({cur}) /\ bbs'[Len(bbs) + 1] = EmptyBlock /\ cur' = Len(bbs) + 1
         /\ Ends(cur, bbs[cur].sel, Goto(Len(bbs) + 1))
         /\ hadError_' = (hadError_ \/ swc.inGroup) /\ phase' = phase
         /\ swc' = IF swc.inGroup THEN swc ELSE [swc EXCEPT !.dflt = Len(bbs) + 1]
  BY Labelled DEF DefaultLabel

\* The first case of a group and a later one.
GroupSwc(lo, hi, next, sw) ==
  [swc EXCEPT !.cases = @ \o Entries(lo, hi, Len(bbs) + 2), !.groupSw = sw,
              !.nextGroupId = @ + 1, !.nextCaseVal = next]

\* The first case of a group: the porch ends in the dispatch on groupSel.
LEMMA FirstStep ==
  ASSUME Typed, Ctl, phase = "gen", swc.inGroup, swc.groupSw = NoBlock, NEW lo, NEW hi, NEW next,
         GroupCase(lo, hi, next)
  PROVE  /\ Grown(2) /\ Keeps({cur}) /\ bbs'[Len(bbs) + 1] = EmptyBlock /\ cur' = Len(bbs) + 1
         /\ bbs'[Len(bbs) + 2] = Stub(swc.nextGroupId, swc.groupStartBB)
         /\ bbs'[cur].code = bbs[cur].code /\ bbs'[cur].sel = bbs[cur].sel
         /\ bbs'[cur].term \in SwTerm
         /\ bbs'[cur].term.cases = <<<<swc.nextGroupId, Len(bbs) + 1>>>>
         /\ bbs'[cur].term.dflt = Len(bbs) + 1
         /\ swc' = GroupSwc(lo, hi, next, cur)
<1>1. /\ bbs \in Seq(Block) /\ Len(bbs) \in Nat /\ DOMAIN bbs = 1..Len(bbs) /\ cur \in DOMAIN bbs
      /\ bbs[cur].term = None /\ swc.nextGroupId \in Nat /\ swc.groupStartBB \in Nat /\ cur # NoBlock
  BY DEF Typed, Ctl, SwitchCtx, NoBlock
<1> DEFINE n == Len(bbs)
           id == swc.nextGroupId
           t == [k |-> "sw", cases |-> <<>>, dflt |-> n + 1]
           u == [k |-> "sw", cases |-> <<<<id, n + 1>>>>, dflt |-> n + 1]
           st == Stub(id, swc.groupStartBB)
           m1 == [bbs EXCEPT ![cur].term = t]
           m2 == m1 \o <<EmptyBlock, st>>
<1>2. t \in Term /\ u \in Term /\ t \in SwTerm /\ u \in SwTerm /\ st \in Block /\ EmptyBlock \in Block
  <2>1. t \in SwTerm
    BY <1>1 DEF SwTerm
  <2>2. u \in SwTerm
    <3>1. <<id, n + 1>> \in Nat \X Nat
      BY <1>1
    <3> QED BY <1>1, <3>1 DEF SwTerm
  <2> QED BY <1>1, <2>1, <2>2, TermFacts
<1>3. bbs' = [m2 EXCEPT ![cur].term.cases = Append(@, <<id, n + 1>>)]
  BY <1>1 DEF GroupCase
<1>4. cur' = n + 1 /\ swc' = GroupSwc(lo, hi, next, cur)
  BY <1>1 DEF GroupCase, GroupSwc, Entries
<1> HIDE DEF t, u, st
<1>11. m1 = [bbs EXCEPT ![cur].term = t]
  OBVIOUS
<1> HIDE DEF m1
<1>5. /\ m1 \in Seq(Block) /\ Len(m1) = n /\ m1[cur].code = bbs[cur].code /\ m1[cur].sel = bbs[cur].sel
      /\ m1[cur].term = t /\ \A b \in DOMAIN bbs : b # cur => m1[b] = bbs[b]
  <2>1. bbs \in Seq(Block) /\ cur \in DOMAIN bbs /\ t \in Term
    BY <1>1, <1>2
  <2>2. /\ m1 \in Seq(Block) /\ Len(m1) = Len(bbs) /\ m1[cur].code = bbs[cur].code /\ m1[cur].sel = bbs[cur].sel
        /\ m1[cur].term = t /\ \A b \in DOMAIN bbs : b # cur => m1[b] = bbs[b]
    BY <1>11, <2>1, EndBlock, SMT
  <2> QED BY <2>2
<1>6. /\ m2 \in Seq(Block) /\ Len(m2) = n + 2 /\ DOMAIN m2 = 1..(n + 2)
      /\ m2[n + 1] = EmptyBlock /\ m2[n + 2] = st /\ \A i \in 1..n : m2[i] = m1[i]
  BY <1>2, <1>5, AppendTwo
<1> HIDE DEF m2
<1>7. m2[cur].term = t /\ cur \in DOMAIN m2
  BY <1>1, <1>5, <1>6
<1>8. bbs' = [m2 EXCEPT ![cur].term = u]
  <2>1. [t EXCEPT !.cases = Append(@, <<id, n + 1>>)] = u
    <3>1. Append(<<>>, <<id, n + 1>>) = <<<<id, n + 1>>>>
      OBVIOUS
    <3> QED BY <3>1 DEF t, u
  <2>2. bbs' = [m2 EXCEPT ![cur].term = [m2[cur].term EXCEPT !.cases = Append(@, <<id, n + 1>>)]]
    BY <1>3
  <2> QED BY <1>7, <2>1, <2>2
<1> HIDE DEF n
<1>9. /\ bbs' \in Seq(Block) /\ Len(bbs') = Len(m2) /\ DOMAIN bbs' = DOMAIN m2
      /\ bbs'[cur].code = m2[cur].code /\ bbs'[cur].sel = m2[cur].sel /\ bbs'[cur].term = u
      /\ \A b \in DOMAIN m2 : b # cur => bbs'[b] = m2[b]
  <2>1. m2 \in Seq(Block) /\ u \in Term
    BY <1>2, <1>6
  <2>2. cur \in DOMAIN m2
    BY <1>7
  <2> QED BY <1>8, <2>1, <2>2, EndBlock, SMT
<1>10. u.cases = <<<<id, n + 1>>>> /\ u.dflt = n + 1
  BY DEF u
<1>12. n + 1 # cur /\ n + 2 # cur /\ cur \in 1..n /\ n \in Nat /\ n + 1 \in 1..(n + 2) /\ n + 2 \in 1..(n + 2)
  BY <1>1 DEF n
<1>13. /\ bbs'[cur].code = bbs[cur].code /\ bbs'[cur].sel = bbs[cur].sel
       /\ bbs'[n + 1] = EmptyBlock /\ bbs'[n + 2] = st
  BY <1>5, <1>6, <1>9, <1>12
<1>14. Grown(2) /\ Keeps({cur})
  BY <1>1, <1>5, <1>6, <1>9, <1>12 DEF Grown, Keeps, n
<1> QED BY <1>2, <1>4, <1>9, <1>10, <1>13, <1>14 DEF n, st

\* A later case of a group: one more case of the dispatch, which is fallen into.
LEMMA LaterStep ==
  ASSUME Typed, Ctl, phase = "gen", swc.inGroup, swc.groupSw # NoBlock, NEW lo, NEW hi, NEW next,
         GroupCase(lo, hi, next)
  PROVE  /\ Grown(2) /\ Keeps({cur, swc.groupSw}) /\ bbs'[Len(bbs) + 1] = EmptyBlock /\ cur' = Len(bbs) + 1
         /\ bbs'[Len(bbs) + 2] = Stub(swc.nextGroupId, swc.groupStartBB)
         /\ Ends(cur, bbs[cur].sel, Goto(Len(bbs) + 1)) /\ swc.groupSw # cur
         /\ bbs'[swc.groupSw].code = bbs[swc.groupSw].code /\ bbs'[swc.groupSw].sel = bbs[swc.groupSw].sel
         /\ bbs'[swc.groupSw].term \in SwTerm
         /\ bbs'[swc.groupSw].term.dflt = bbs[swc.groupSw].term.dflt
         /\ bbs'[swc.groupSw].term.cases = Append(bbs[swc.groupSw].term.cases, <<swc.nextGroupId, Len(bbs) + 1>>)
         /\ swc' = GroupSwc(lo, hi, next, swc.groupSw)
<1>1. /\ bbs \in Seq(Block) /\ Len(bbs) \in Nat /\ DOMAIN bbs = 1..Len(bbs) /\ cur \in DOMAIN bbs
      /\ bbs[cur].term = None /\ swc.nextGroupId \in Nat /\ swc.groupStartBB \in Nat
      /\ swc.groupSw \in DOMAIN bbs /\ bbs[swc.groupSw].term \in SwTerm
  BY DEF Typed, Ctl, SwitchCtx
<1> DEFINE n == Len(bbs)
           id == swc.nextGroupId
           g == swc.groupSw
           t == bbs[g].term
           u == [t EXCEPT !.cases = Append(@, <<id, n + 1>>)]
           st == Stub(id, swc.groupStartBB)
           m1 == Br(bbs, cur, n + 1)
           m2 == m1 \o <<EmptyBlock, st>>
<1>11. g # cur
  BY <1>1, TermFacts
<1>2. /\ t \in SwTerm /\ u \in Term /\ u \in SwTerm /\ st \in Block /\ EmptyBlock \in Block
      /\ u.cases = Append(t.cases, <<id, n + 1>>) /\ u.dflt = t.dflt
  <2>1. t \in SwTerm /\ t.cases \in Seq(Nat \X Nat)
    BY <1>1, TermFacts
  <2>2. u \in SwTerm /\ u.cases = Append(t.cases, <<id, n + 1>>) /\ u.dflt = t.dflt
    <3>1. <<id, n + 1>> \in Nat \X Nat
      BY <1>1
    <3>2. Append(t.cases, <<id, n + 1>>) \in Seq(Nat \X Nat)
      BY <2>1, <3>1, AppendFacts
    <3> HIDE DEF t
    <3> QED BY <2>1, <3>2 DEF SwTerm
  <2>3. \A x \in SwTerm : x \in Term
    BY TermFacts
  <2>4. st \in Block /\ EmptyBlock \in Block
    BY <1>1, TermFacts
  <2> HIDE DEF t, u, st
  <2> QED BY <2>1, <2>2, <2>3, <2>4
<1>3. bbs' = [m2 EXCEPT ![g].term.cases = Append(@, <<id, n + 1>>)]
  BY <1>1 DEF GroupCase
<1>4. cur' = n + 1 /\ swc' = GroupSwc(lo, hi, next, g)
  BY <1>1 DEF GroupCase, GroupSwc, Entries
<1>5. /\ m1 \in Seq(Block) /\ Len(m1) = n /\ m1[cur].code = bbs[cur].code /\ m1[cur].sel = bbs[cur].sel
      /\ m1[cur].term = Goto(n + 1) /\ \A b \in DOMAIN bbs : b # cur => m1[b] = bbs[b]
  <2>1. n + 1 \in Nat
    BY <1>1
  <2> HIDE DEF n
  <2> QED BY <1>1, <2>1, BrOpen DEF n
<1> HIDE DEF st, m1, g
<1>6. /\ m2 \in Seq(Block) /\ Len(m2) = n + 2 /\ DOMAIN m2 = 1..(n + 2)
      /\ m2[n + 1] = EmptyBlock /\ m2[n + 2] = st /\ \A i \in 1..n : m2[i] = m1[i]
  BY <1>2, <1>5, AppendTwo
<1> HIDE DEF m2
<1>7. m2[g] = bbs[g] /\ g \in DOMAIN m2 /\ g \in DOMAIN bbs
  <2>1. g \in DOMAIN bbs /\ g \in 1..n /\ g \in 1..(n + 2)
    BY <1>1 DEF g
  <2> QED BY <1>5, <1>6, <1>11, <2>1
<1>8. bbs' = [m2 EXCEPT ![g].term = u]
  <2>2. bbs' = [m2 EXCEPT ![g].term = [m2[g].term EXCEPT !.cases = Append(@, <<id, n + 1>>)]]
    BY <1>3
  <2> QED BY <1>7, <2>2
<1> HIDE DEF n, u, t
<1>9. /\ bbs' \in Seq(Block) /\ Len(bbs') = Len(m2) /\ DOMAIN bbs' = DOMAIN m2
      /\ bbs'[g].code = m2[g].code /\ bbs'[g].sel = m2[g].sel /\ bbs'[g].term = u
      /\ \A b \in DOMAIN m2 : b # g => bbs'[b] = m2[b]
  <2>1. m2 \in Seq(Block) /\ u \in Term
    BY <1>2, <1>6
  <2>2. g \in DOMAIN m2
    BY <1>7
  <2> QED BY <1>8, <2>1, <2>2, EndBlock, SMT
<1>10. /\ Grown(2) /\ Keeps({cur, g}) /\ bbs'[n + 1] = EmptyBlock /\ bbs'[n + 2] = st
       /\ Ends(cur, bbs[cur].sel, Goto(n + 1)) /\ bbs'[g].code = bbs[g].code /\ bbs'[g].sel = bbs[g].sel
  <2>1. n + 1 # g /\ n + 2 # g /\ n \in Nat /\ n + 1 \in DOMAIN m2 /\ n + 2 \in DOMAIN m2
    BY <1>1, <1>6, <1>7 DEF n
  <2>2. cur \in DOMAIN m2 /\ m2[cur] = m1[cur]
    BY <1>1, <1>6 DEF n
  <2>3. Grown(2)
    BY <1>1, <1>6, <1>9 DEF Grown, n
  <2>4. Keeps({cur, g})
    BY <1>1, <1>5, <1>6, <1>9 DEF Keeps, n
  <2>5. Ends(cur, bbs[cur].sel, Goto(n + 1))
    BY <1>5, <1>9, <1>11, <2>2 DEF Ends
  <2> QED BY <1>6, <1>7, <1>9, <2>1, <2>3, <2>4, <2>5
<1> QED BY <1>2, <1>4, <1>9, <1>10, <1>11 DEF g, n, st, t

\* genSubStart: groupSel is 0 on the way in from above.
LEMMA StartStep ==
  ASSUME Typed, Ctl, phase = "gen", NEW it, genSubStart(it), ~swc.inGroup
  PROVE  /\ Grown(2) /\ Keeps({cur}) /\ bbs'[Len(bbs) + 1] = EmptyBlock /\ bbs'[Len(bbs) + 2] = EmptyBlock
         /\ cur' = Len(bbs) + 1 /\ Ends(cur, 0, Goto(Len(bbs) + 1))
         /\ swc' = [swc EXCEPT !.inGroup = TRUE, !.groupStartBB = Len(bbs) + 1, !.groupEndBB = Len(bbs) + 2,
                               !.groupSw = NoBlock, !.nextGroupId = 0]
         /\ hadError_' = hadError_ /\ phase' = phase
<1>1. bbs \in Seq(Block) /\ Len(bbs) \in Nat /\ DOMAIN bbs = 1..Len(bbs) /\ cur \in DOMAIN bbs /\ bbs[cur].term = None
  BY DEF Typed, Ctl
<1> DEFINE n == Len(bbs)
           m1 == Remember(bbs, cur, 0)
           m2 == Br(m1, cur, n + 1)
<1>2. bbs' = m2 \o <<EmptyBlock, EmptyBlock>>
  BY DEF genSubStart
<1>3. /\ cur' = n + 1 /\ hadError_' = hadError_ /\ phase' = phase
      /\ swc' = [swc EXCEPT !.inGroup = TRUE, !.groupStartBB = n + 1, !.groupEndBB = n + 2,
                            !.groupSw = NoBlock, !.nextGroupId = 0]
  BY DEF genSubStart
<1>4. /\ m1 \in Seq(Block) /\ Len(m1) = n /\ DOMAIN m1 = DOMAIN bbs
      /\ m1[cur].code = bbs[cur].code /\ m1[cur].sel = 0 /\ m1[cur].term = None
      /\ \A b \in DOMAIN bbs : b # cur => m1[b] = bbs[b]
  <2> DEFINE r == [bbs[cur] EXCEPT !.sel = 0]
  <2>1. bbs[cur] \in Block
    BY <1>1
  <2>2. r \in Block /\ r.code = bbs[cur].code /\ r.sel = 0 /\ r.term = None
    <3>1. PICK x \in Block : x = bbs[cur]
      BY <2>1
    <3>2. [x EXCEPT !.sel = 0] \in Block /\ [x EXCEPT !.sel = 0].code = x.code
          /\ [x EXCEPT !.sel = 0].sel = 0 /\ [x EXCEPT !.sel = 0].term = x.term
      BY DEF Block
    <3> QED BY <1>1, <3>1, <3>2
  <2>3. m1 = [bbs EXCEPT ![cur] = r]
    BY DEF Remember
  <2> HIDE DEF r, m1
  <2>4. m1 \in Seq(Block) /\ Len(m1) = n /\ m1[cur] = r /\ \A b \in 1..n : b # cur => m1[b] = bbs[b]
    BY <1>1, <2>2, <2>3, UpdateFacts
  <2> QED BY <1>1, <2>2, <2>4
<1> HIDE DEF m1
<1>5. /\ m2 \in Seq(Block) /\ Len(m2) = n /\ m2[cur].code = bbs[cur].code /\ m2[cur].sel = 0
      /\ m2[cur].term = Goto(n + 1) /\ \A b \in DOMAIN bbs : b # cur => m2[b] = bbs[b]
  <2>1. n + 1 \in Nat /\ cur \in DOMAIN m1
    BY <1>1, <1>4
  <2> HIDE DEF n
  <2> QED BY <1>4, <2>1, BrOpen
<1> HIDE DEF m2
<1>6. EmptyBlock \in Block
  BY TermFacts
<1>7. /\ bbs' \in Seq(Block) /\ Len(bbs') = n + 2 /\ DOMAIN bbs' = 1..(n + 2)
      /\ bbs'[n + 1] = EmptyBlock /\ bbs'[n + 2] = EmptyBlock /\ \A i \in 1..n : bbs'[i] = m2[i]
  <2>1. m2 \in Seq(Block) /\ Len(m2) = n /\ n \in Nat
    BY <1>1, <1>5
  <2> HIDE DEF n
  <2>2. PICK e \in Block : e = EmptyBlock
    BY <1>6
  <2>3. bbs' = m2 \o <<e, e>>
    BY <1>2, <2>2
  <2>5. m2 \in Seq(Block) /\ bbs' = m2 \o <<e, e>>
    BY <2>1, <2>3
  <2> HIDE <1>1, <1>2, <1>3, <1>4, <1>5
  <2>4. /\ bbs' \in Seq(Block) /\ Len(bbs') = n + 2 /\ DOMAIN bbs' = 1..(n + 2)
        /\ bbs'[n + 1] = e /\ bbs'[n + 2] = e /\ \A i \in 1..n : bbs'[i] = m2[i]
    <3>1. \A x, y \in Block : /\ m2 \o <<x, y>> \in Seq(Block) /\ Len(m2 \o <<x, y>>) = Len(m2) + 2
                    /\ DOMAIN (m2 \o <<x, y>>) = 1..(Len(m2) + 2)
         /\ (m2 \o <<x, y>>)[Len(m2) + 1] = x /\ (m2 \o <<x, y>>)[Len(m2) + 2] = y
         /\ \A i \in 1..Len(m2) : (m2 \o <<x, y>>)[i] = m2[i]
      BY <2>5, AppendTwo
    <3> QED BY <2>1, <2>3, <3>1
  <2> QED BY <2>2, <2>4
<1>8. Grown(2) /\ Keeps({cur}) /\ Ends(cur, 0, Goto(n + 1))
  BY <1>1, <1>5, <1>7 DEF Grown, Keeps, Ends
<1> QED BY <1>3, <1>7, <1>8

\* genSubEnd: the last case of the group leads to the end porch.
LEMMA EndStep ==
  ASSUME Typed, Ctl, phase = "gen", NEW it, genSubEnd(it), swc.inGroup
  PROVE  /\ Grown(0) /\ Keeps({cur}) /\ cur' = swc.groupEndBB
         /\ Ends(cur, bbs[cur].sel, Goto(swc.groupEndBB)) /\ bbs'[cur'] = EmptyBlock
         /\ swc' = [swc EXCEPT !.inGroup = FALSE] /\ hadError_' = hadError_ /\ phase' = phase
<1>1. /\ bbs \in Seq(Block) /\ Len(bbs) \in Nat /\ DOMAIN bbs = 1..Len(bbs) /\ cur \in DOMAIN bbs
      /\ bbs[cur].term = None /\ swc.groupEndBB \in Nat /\ swc.groupEndBB # cur
      /\ swc.groupEndBB \in DOMAIN bbs /\ bbs[swc.groupEndBB] = EmptyBlock
  BY DEF Typed, Ctl
<1>2. /\ bbs' = Br(bbs, cur, swc.groupEndBB) /\ cur' = swc.groupEndBB
      /\ swc' = [swc EXCEPT !.inGroup = FALSE] /\ hadError_' = hadError_ /\ phase' = phase
  BY DEF genSubEnd, LeaveGroup
<1>3. /\ bbs' \in Seq(Block) /\ Len(bbs') = Len(bbs) /\ DOMAIN bbs' = DOMAIN bbs
      /\ bbs'[cur].code = bbs[cur].code /\ bbs'[cur].sel = bbs[cur].sel
      /\ bbs'[cur].term = Goto(swc.groupEndBB)
      /\ \A b \in DOMAIN bbs : b # cur => bbs'[b] = bbs[b]
  BY <1>1, <1>2, BrOpen
<1> QED BY <1>1, <1>2, <1>3 DEF Grown, Keeps, Ends

\* A break, out of the switch or to the end porch of its group.
LEMMA BreakStep ==
  ASSUME Typed, Ctl, phase = "gen", NEW it, Break(it)
  PROVE  /\ Grown(1) /\ Keeps({cur}) /\ bbs'[Len(bbs) + 1] = EmptyBlock /\ cur' = Len(bbs) + 1
         /\ Ends(cur, bbs[cur].sel, Goto(IF swc.inGroup THEN swc.groupEndBB ELSE ExitBB))
         /\ swc' = swc /\ hadError_' = hadError_ /\ phase' = phase
<1> DEFINE to == IF swc.inGroup THEN swc.groupEndBB ELSE ExitBB
<1>1. to \in Nat
  BY DEF Typed, SwitchCtx, ExitBB
<1>2. to \in Nat /\ bbs[cur].term = None
  BY <1>1 DEF Ctl
<1>3. /\ bbs' = Append(Br(bbs, cur, to), EmptyBlock) /\ cur' = Len(bbs) + 1
      /\ swc' = swc /\ hadError_' = hadError_ /\ phase' = phase
  BY <1>2 DEF Break, Br
<1> HIDE DEF to
<1>4. /\ Grown(1) /\ Keeps({cur}) /\ bbs'[Len(bbs) + 1] = EmptyBlock /\ Ends(cur, bbs[cur].sel, Goto(to))
  BY <1>2, <1>3, EndedAndAdded
<1> QED BY <1>3, <1>4 DEF to

\* A statement that does not jump.
LEMMA StmtStep ==
  ASSUME Typed, Ctl, phase = "gen", NEW it, Statement(it)
  PROVE  /\ Grown(0) /\ Keeps({cur}) /\ cur' = cur
         /\ bbs'[cur].code = Append(bbs[cur].code, pos) /\ bbs'[cur].sel = bbs[cur].sel /\ bbs'[cur].term = None
         /\ swc' = swc /\ hadError_' = hadError_ /\ phase' = phase
<1>1. /\ bbs \in Seq(Block) /\ Len(bbs) \in Nat /\ DOMAIN bbs = 1..Len(bbs) /\ cur \in DOMAIN bbs
      /\ bbs[cur].term = None /\ pos \in Nat
  BY ItemFacts DEF Typed, Ctl
<1> DEFINE r == [bbs[cur] EXCEPT !.code = Append(@, pos)]
<1>2. /\ bbs' = [bbs EXCEPT ![cur] = r] /\ cur' = cur
      /\ swc' = swc /\ hadError_' = hadError_ /\ phase' = phase
  BY DEF Statement, Emit
<1>3. bbs[cur] \in Block
  BY <1>1
<1>4. r \in Block /\ r.code = Append(bbs[cur].code, pos) /\ r.sel = bbs[cur].sel /\ r.term = None
  <2>1. Append(bbs[cur].code, pos) \in Seq(Nat)
    BY <1>1, <1>3, AppendFacts DEF Block
  <2> QED BY <1>1, <1>3, <2>1 DEF Block
<1> HIDE DEF r
<1>5. bbs' \in Seq(Block) /\ Len(bbs') = Len(bbs) /\ bbs'[cur] = r /\ \A b \in 1..Len(bbs) : b # cur => bbs'[b] = bbs[b]
  BY <1>1, <1>2, <1>4, UpdateFacts
<1> QED BY <1>1, <1>2, <1>4, <1>5 DEF Grown, Keeps

\* The values of a case label.
LEMMA CaseStep ==
  ASSUME Typed, Ctl, phase = "gen", pos <= Len(items), genCaseLabel(items[pos])
  PROVE  \E lo, hi, next \in Int :
           /\ lo <= hi /\ items[pos].k \in {"case", "badcase"} /\ phase' \in {"gen", "endless"}
           /\ IF swc.inGroup THEN GroupCase(lo, hi, next) ELSE PlainCase(lo, hi, next)
           /\ hadError_' \in BOOLEAN /\ (hadError_ => hadError_')
           /\ lo = IF items[pos].lo = Null THEN swc.nextCaseVal ELSE items[pos].lo
           /\ ~hadError_' => /\ items[pos].k = "case"
                             /\ hi = IF items[pos].lo = Null THEN lo ELSE items[pos].hi
                             /\ next = Wrap(hi + 1)
<1> DEFINE it == items[pos]
           lo == IF it.lo = Null THEN swc.nextCaseVal ELSE it.lo
           hi == IF it.lo = Null THEN lo ELSE it.hi
           bad == TooLarge(lo, hi)
           top == IF bad THEN lo ELSE hi
<1>1. swc.nextCaseVal \in Int /\ hadError_ \in BOOLEAN /\ MinI \in Int /\ MaxI \in Nat
      /\ (it.lo # Null => it.lo \in MinI..MaxI /\ it.hi \in MinI..MaxI)
  <2>1. pos \in 1..Len(items) /\ Body
    BY DEF Typed, Body
  <2> QED BY <2>1, ItemFacts DEF Typed, SwitchCtx
<1>2. lo \in Int /\ hi \in Int
  BY <1>1
<1>3. /\ it.k \in {"case", "badcase"}
      /\ hadError_' = (hadError_ \/ bad \/ it.k = "badcase")
      /\ IF swc.inGroup THEN GroupCase(lo, top, NextCase(hi)) ELSE PlainCase(lo, top, NextCase(hi))
      /\ phase' \in {"gen", "endless"}
  BY DEF genCaseLabel
<1> HIDE DEF it, lo, hi, bad
<1>4. top \in Int /\ lo <= top /\ (~bad => top = hi)
  BY <1>2 DEF bad, TooLarge
<1>5. NextCase(hi) \in Int /\ NextCase(hi) = Wrap(hi + 1)
  <2>1. Wrap(hi + 1) \in MinI..MaxI
    BY <1>2, WrapFacts
  <2> QED BY <1>1, <2>1 DEF NextCase
<1> HIDE DEF top
<1>6. hadError_' \in BOOLEAN /\ (hadError_ => hadError_') /\ (~hadError_' => ~bad /\ it.k # "badcase")
  BY <1>1, <1>3 DEF bad, TooLarge
<1>7. /\ lo = IF items[pos].lo = Null THEN swc.nextCaseVal ELSE items[pos].lo
      /\ hi = IF items[pos].lo = Null THEN lo ELSE items[pos].hi
  BY DEF lo, hi, it
<1>8. items[pos].k \in {"case", "badcase"} /\ (it.k # "badcase" => items[pos].k = "case")
  BY <1>3 DEF it
<1>9. ~hadError_' => /\ items[pos].k = "case"
                     /\ top = IF items[pos].lo = Null THEN lo ELSE items[pos].hi
                     /\ NextCase(hi) = Wrap(top + 1)
  BY <1>4, <1>5, <1>6, <1>7, <1>8
<1>10. PICK next : next = NextCase(hi)
  OBVIOUS
<1> QED BY <1>2, <1>3, <1>4, <1>5, <1>6, <1>7, <1>8, <1>9, <1>10

\* genSwitch starts with the dispatch, the exit and a dead block.
LEMMA InitIInv ==
  ASSUME Init PROVE IInv
<1>1. Body
  BY BodiesAssumption DEF Init, Body
<1>2. EmptyBlock \in Block /\ EmptyBlock.term = None /\ None # [k |-> "switch"]
  BY TermFacts DEF None
<1> DEFINE x == [EmptyBlock EXCEPT !.term = [k |-> "switch"]]
<1>3. x \in Block /\ x.term = [k |-> "switch"]
  <2>1. [k |-> "switch"] \in Term
    BY TermFacts
  <2> QED BY <1>2, <2>1 DEF Block, EmptyBlock
<1>4. bbs = <<x, EmptyBlock, EmptyBlock>> /\ cur = 3 /\ pos = 1 /\ phase = "gen" /\ hadError_ = FALSE
  BY DEF Init
<1> HIDE DEF x
<1>5. bbs \in Seq(Block) /\ Len(bbs) = 3 /\ bbs[1] = x /\ bbs[2] = EmptyBlock /\ bbs[3] = EmptyBlock /\ DOMAIN bbs = 1..3
  BY <1>2, <1>3, <1>4
<1>6. swc \in SwitchCtx /\ swc.inGroup = FALSE
  BY DEF Init, SwitchCtx, ExitBB, NoBlock
<1>7. pos \in 1..(Len(items) + 1)
  BY <1>1, <1>4, ItemFacts
<1>8. Typed
  <2>1. bbs \in Seq(Block) /\ Len(bbs) >= 3 /\ cur \in DOMAIN bbs
    BY <1>4, <1>5
  <2>2. hadError_ \in BOOLEAN /\ phase \in {"gen", "done", "endless"}
    BY <1>4
  <2> QED BY <1>1, <1>6, <1>7, <2>1, <2>2 DEF Typed
<1>9. Ctl
  BY <1>2, <1>4, <1>5, <1>6 DEF Ctl
<1>10. Closed
  BY <1>2, <1>3, <1>4, <1>5, <1>6 DEF Closed
<1> QED BY <1>8, <1>9, <1>10 DEF IInv

\* What an item leaves alone, and what it has to restore.
LEMMA Restored ==
  ASSUME IInv, phase = "gen", NEW k \in Nat, Grown(k), items' = items, pos' \in 1..(Len(items) + 1),
         swc' \in SwitchCtx, hadError_' \in BOOLEAN, phase' \in {"gen", "endless"},
         cur' \in DOMAIN bbs', cur' > 2, bbs'[cur'].term = None,
         bbs'[1] = bbs[1], bbs'[2] = bbs[2],
         swc'.inGroup =>
           /\ swc'.groupEndBB \in DOMAIN bbs' /\ swc'.groupEndBB > 2 /\ swc'.groupEndBB # cur'
           /\ bbs'[swc'.groupEndBB] = EmptyBlock
           /\ swc'.groupSw # NoBlock => swc'.groupSw \in DOMAIN bbs' /\ bbs'[swc'.groupSw].term \in SwTerm,
         \A b \in DOMAIN bbs' : b # 2 /\ b # cur' /\ ~(swc'.inGroup /\ b = swc'.groupEndBB) => bbs'[b].term # None
  PROVE  IInv'
<1>1. Typed'
  BY DEF IInv, Typed, Body, Grown
<1>2. Ctl'
  BY DEF Ctl
<1>3. Closed'
  BY DEF IInv, Closed
<1> QED BY <1>1, <1>2, <1>3 DEF IInv

\* The invariant while the body is read, in the form the steps use.
LEMMA IInvFacts ==
  ASSUME IInv, phase = "gen"
  PROVE  /\ Typed /\ Ctl /\ Body /\ bbs \in Seq(Block) /\ Len(bbs) \in Nat /\ Len(bbs) >= 3 /\ DOMAIN bbs = 1..Len(bbs)
         /\ cur \in 1..Len(bbs) /\ cur > 2 /\ bbs[cur].term = None /\ swc \in SwitchCtx /\ hadError_ \in BOOLEAN
         /\ swc.inGroup \in BOOLEAN
         /\ swc.inGroup =>
              /\ swc.groupEndBB \in DOMAIN bbs /\ swc.groupEndBB > 2 /\ swc.groupEndBB # cur
              /\ bbs[swc.groupEndBB] = EmptyBlock
              /\ swc.groupSw # NoBlock =>
                   /\ swc.groupSw \in DOMAIN bbs /\ bbs[swc.groupSw].term \in SwTerm
                   /\ swc.groupSw # cur /\ swc.groupSw # swc.groupEndBB /\ swc.groupSw > 2
         /\ \A b \in DOMAIN bbs : b # 2 /\ b # cur /\ ~(swc.inGroup /\ b = swc.groupEndBB) => bbs[b].term # None
         /\ EmptyBlock.term = None
<1>1. Typed /\ Ctl /\ Closed
  BY DEF IInv
<1>2. /\ Body /\ bbs \in Seq(Block) /\ Len(bbs) \in Nat /\ Len(bbs) >= 3 /\ DOMAIN bbs = 1..Len(bbs)
      /\ cur \in 1..Len(bbs) /\ swc \in SwitchCtx /\ hadError_ \in BOOLEAN /\ swc.inGroup \in BOOLEAN
      /\ swc.groupSw \in Nat
  BY <1>1 DEF Typed, SwitchCtx
<1>3. /\ cur > 2 /\ bbs[cur].term = None
      /\ swc.inGroup =>
              /\ swc.groupEndBB \in DOMAIN bbs /\ swc.groupEndBB > 2 /\ swc.groupEndBB # cur
              /\ bbs[swc.groupEndBB] = EmptyBlock
              /\ swc.groupSw # NoBlock => swc.groupSw \in DOMAIN bbs /\ bbs[swc.groupSw].term \in SwTerm
  BY <1>1 DEF Ctl
<1>4. /\ EmptyBlock.term = None /\ bbs[1].term = [k |-> "switch"] /\ bbs[2] = EmptyBlock
      /\ \A t \in SwTerm : t.k = "sw" /\ t # None
  BY <1>1, TermFacts DEF Closed
<1>5. \A b \in DOMAIN bbs : bbs[b].term \in SwTerm => b # 1 /\ b # 2 /\ b # cur
  BY <1>3, <1>4
<1>6. swc.inGroup /\ swc.groupSw # NoBlock =>
        swc.groupSw # cur /\ swc.groupSw # swc.groupEndBB /\ swc.groupSw > 2
  <2> SUFFICES ASSUME swc.inGroup, swc.groupSw # NoBlock
               PROVE  swc.groupSw # cur /\ swc.groupSw # swc.groupEndBB /\ swc.groupSw > 2
    OBVIOUS
  <2>1. swc.groupSw # 1 /\ swc.groupSw # 2 /\ swc.groupSw # cur /\ swc.groupSw # 0
    BY <1>3, <1>5 DEF NoBlock
  <2>2. swc.groupSw # swc.groupEndBB
    BY <1>3, <1>4
  <2> QED BY <1>2, <2>1, <2>2
<1>7. \A b \in DOMAIN bbs : b # 2 /\ b # cur /\ ~(swc.inGroup /\ b = swc.groupEndBB) => bbs[b].term # None
  BY <1>1 DEF Closed
<1> QED BY <1>1, <1>2, <1>3, <1>4, <1>6, <1>7

\* A block is added after an ended one: a case, a default, a break.
LEMMA AddedKeeps ==
  ASSUME IInv, phase = "gen", Grown(1), Keeps({cur}), bbs'[Len(bbs) + 1] = EmptyBlock, cur' = Len(bbs) + 1,
         NEW sl, NEW to \in Nat, Ends(cur, sl, Goto(to)), items' = items, pos' \in 1..(Len(items) + 1),
         swc' \in SwitchCtx, hadError_' \in BOOLEAN, phase' \in {"gen", "endless"},
         swc'.inGroup = swc.inGroup, swc'.groupEndBB = swc.groupEndBB, swc'.groupSw = swc.groupSw
  PROVE  IInv'
<1> DEFINE n == Len(bbs)
<1>1. DOMAIN bbs' = 1..(n + 1) /\ n \in Nat /\ n >= 3 /\ DOMAIN bbs = 1..n
  BY IInvFacts DEF Grown
<1>2. bbs'[cur].term # None
  BY TermFacts DEF Ends
<1>3. \A b \in 1..n : b # cur => bbs'[b] = bbs[b]
  BY <1>1 DEF Keeps
<1>4. \A b \in 1..(n + 1) : b \in 1..n \/ b = n + 1
  BY <1>1
<1>5. cur' \in DOMAIN bbs' /\ cur' > 2 /\ bbs'[cur'].term = None
  BY <1>1, IInvFacts
<1>6. bbs'[1] = bbs[1] /\ bbs'[2] = bbs[2]
  BY <1>1, <1>3, IInvFacts
<1>7. swc'.inGroup =>
           /\ swc'.groupEndBB \in DOMAIN bbs' /\ swc'.groupEndBB > 2 /\ swc'.groupEndBB # cur'
           /\ bbs'[swc'.groupEndBB] = EmptyBlock
           /\ swc'.groupSw # NoBlock => swc'.groupSw \in DOMAIN bbs' /\ bbs'[swc'.groupSw].term \in SwTerm
  BY <1>1, <1>3, IInvFacts
<1>8. \A b \in DOMAIN bbs' : b # 2 /\ b # cur' /\ ~(swc'.inGroup /\ b = swc'.groupEndBB) => bbs'[b].term # None
  BY <1>1, <1>2, <1>3, <1>4, IInvFacts
<1>9. 1 \in Nat
  OBVIOUS
<1> HIDE DEF n
<1> QED BY <1>5, <1>6, <1>7, <1>8, <1>9, Restored

\* The whole step of an item.
LEMMA ItemStep ==
  ASSUME IInv, genItem
  PROVE  IInv'
<1>1. /\ phase = "gen" /\ pos <= Len(items) /\ items' = items /\ pos' = pos + 1
      /\ \/ genCaseLabel(items[pos]) \/ DefaultLabel(items[pos]) \/ genSubStart(items[pos])
         \/ genSubEnd(items[pos]) \/ Break(items[pos]) \/ Statement(items[pos])
  BY DEF genItem
<1> DEFINE it == items[pos]
           n == Len(bbs)
<1>2. pos' \in 1..(Len(items) + 1)
  BY <1>1, IInvFacts, ItemFacts DEF Typed
<1>3. Typed /\ Ctl /\ n \in Nat /\ n >= 3 /\ cur \in 1..n /\ cur > 2 /\ DOMAIN bbs = 1..n /\ hadError_ \in BOOLEAN
  BY <1>1, IInvFacts
<1>4. swc \in SwitchCtx
  BY <1>1, IInvFacts
<1>5. CASE genCaseLabel(it)
  <2>1. PICK lo \in Int, hi \in Int, next \in Int :
           /\ lo <= hi /\ phase' \in {"gen", "endless"}
           /\ IF swc.inGroup THEN GroupCase(lo, hi, next) ELSE PlainCase(lo, hi, next)
           /\ hadError_' \in BOOLEAN
    BY <1>1, <1>3, <1>5, CaseStep
  <2>2. /\ Entries(lo, hi, n + 1) \in Seq(Int \X Nat) /\ Entries(lo, hi, n + 2) \in Seq(Int \X Nat)
        /\ swc.cases \o Entries(lo, hi, n + 1) \in Seq(Int \X Nat)
        /\ swc.cases \o Entries(lo, hi, n + 2) \in Seq(Int \X Nat)
    <3>1. hi - lo + 1 \in Nat
      BY <2>1
    <3>2. \A v \in 1..(hi - lo + 1) : <<lo + v - 1, n + 1>> \in Int \X Nat /\ <<lo + v - 1, n + 2>> \in Int \X Nat
      BY <1>3
    <3>3. Entries(lo, hi, n + 1) \in Seq(Int \X Nat) /\ Entries(lo, hi, n + 2) \in Seq(Int \X Nat)
      BY <3>1, <3>2 DEF Entries
    <3>4. swc.cases \in Seq(Int \X Nat)
      BY <1>4 DEF SwitchCtx
    <3> QED BY <3>3, <3>4, JoinFacts
  <2>3. CASE ~swc.inGroup
    <3>1. PlainCase(lo, hi, next)
      BY <2>1, <2>3
    <3>2. /\ Grown(1) /\ Keeps({cur}) /\ bbs'[n + 1] = EmptyBlock /\ cur' = n + 1
          /\ Ends(cur, bbs[cur].sel, Goto(n + 1))
          /\ swc' = [swc EXCEPT !.cases = @ \o Entries(lo, hi, n + 1), !.nextCaseVal = next]
      BY <1>1, <1>3, <2>1, <3>1, PlainStep
    <3>3. /\ swc' \in SwitchCtx /\ swc'.inGroup = swc.inGroup /\ swc'.groupEndBB = swc.groupEndBB
          /\ swc'.groupSw = swc.groupSw
      BY <1>4, <2>1, <2>2, <3>2 DEF SwitchCtx
    <3>4. n + 1 \in Nat
      BY <1>3
    <3> QED BY <1>1, <1>2, <2>1, <3>2, <3>3, <3>4, AddedKeeps
  <2>4. CASE swc.inGroup
    <3>1. GroupCase(lo, hi, next)
      BY <2>1, <2>4
    <3> DEFINE sw == IF swc.groupSw = NoBlock THEN cur ELSE swc.groupSw
    <3>2. /\ Grown(2) /\ Keeps({cur, sw}) /\ bbs'[n + 1] = EmptyBlock /\ cur' = n + 1
          /\ bbs'[n + 2] = Stub(swc.nextGroupId, swc.groupStartBB) /\ bbs'[sw].term \in SwTerm
          /\ bbs'[cur].term # None /\ swc' = GroupSwc(lo, hi, next, sw)
      <4>1. CASE swc.groupSw = NoBlock
        <5>1. sw = cur
          BY <4>1
        <5>2. /\ Grown(2) /\ Keeps({cur}) /\ bbs'[n + 1] = EmptyBlock /\ cur' = n + 1
              /\ bbs'[n + 2] = Stub(swc.nextGroupId, swc.groupStartBB) /\ bbs'[cur].term \in SwTerm
              /\ swc' = GroupSwc(lo, hi, next, cur)
          BY <1>1, <1>3, <2>4, <3>1, <4>1, FirstStep
        <5>3. Keeps({cur, sw}) /\ bbs'[cur].term # None
          BY <5>1, <5>2, TermFacts DEF Keeps
        <5> QED BY <5>1, <5>2, <5>3
      <4>2. CASE swc.groupSw # NoBlock
        <5>1. sw = swc.groupSw
          BY <4>2
        <5>2. /\ Grown(2) /\ Keeps({cur, swc.groupSw}) /\ bbs'[n + 1] = EmptyBlock /\ cur' = n + 1
              /\ bbs'[n + 2] = Stub(swc.nextGroupId, swc.groupStartBB) /\ bbs'[swc.groupSw].term \in SwTerm
              /\ bbs'[cur].term = Goto(n + 1) /\ swc' = GroupSwc(lo, hi, next, swc.groupSw)
          BY <1>1, <1>3, <2>4, <3>1, <4>2, LaterStep DEF Ends
        <5>3. bbs'[cur].term # None
          <6>1. n + 1 \in Nat
            BY <1>3
          <6> QED BY <5>2, <6>1, TermFacts
        <5> QED BY <5>1, <5>2, <5>3
      <4> QED BY <4>1, <4>2
    <3>3. /\ sw \in 1..n /\ sw > 2 /\ sw # swc.groupEndBB /\ swc.nextGroupId \in Nat /\ swc.groupStartBB \in Nat
      BY <1>1, <1>4, <2>4, IInvFacts DEF SwitchCtx
    <3>4. /\ swc' \in SwitchCtx /\ swc'.inGroup = swc.inGroup /\ swc'.groupEndBB = swc.groupEndBB
          /\ swc'.groupSw = sw
      <4>1. swc' = [swc EXCEPT !.cases = swc.cases \o Entries(lo, hi, n + 2), !.groupSw = sw,
                               !.nextGroupId = swc.nextGroupId + 1, !.nextCaseVal = next]
        BY <3>2 DEF GroupSwc
      <4>2. sw \in Nat /\ swc.nextGroupId + 1 \in Nat /\ next \in Int
        BY <2>1, <3>3
      <4> HIDE DEF sw, n
      <4>3. PICK cs \in Seq(Int \X Nat) : cs = swc.cases \o Entries(lo, hi, n + 2)
        BY <2>2
      <4>4. swc' = [swc EXCEPT !.cases = cs, !.groupSw = sw,
                               !.nextGroupId = swc.nextGroupId + 1, !.nextCaseVal = next]
        BY <4>1, <4>3
      <4> QED BY <1>4, <4>2, <4>4 DEF SwitchCtx
    <3> HIDE DEF sw
    <3>5. bbs'[n + 2].term # None /\ bbs'[sw].term # None /\ EmptyBlock.term = None
      BY <3>2, <3>3, TermFacts
    <3>6. DOMAIN bbs' = 1..(n + 2) /\ \A b \in 1..n : b # cur /\ b # sw => bbs'[b] = bbs[b]
      BY <1>3, <3>2 DEF Grown, Keeps
    <3>7. \A b \in 1..(n + 2) : b \in 1..n \/ b = n + 1 \/ b = n + 2
      BY <1>3
    <3>8. cur' \in DOMAIN bbs' /\ cur' > 2 /\ bbs'[cur'].term = None
      BY <1>3, <3>2, <3>5, <3>6
    <3>9. bbs'[1] = bbs[1] /\ bbs'[2] = bbs[2]
      BY <1>3, <3>3, <3>6
    <3>10. /\ swc'.groupEndBB \in DOMAIN bbs' /\ swc'.groupEndBB > 2 /\ swc'.groupEndBB # cur'
           /\ bbs'[swc'.groupEndBB] = EmptyBlock
           /\ swc'.groupSw \in DOMAIN bbs' /\ bbs'[swc'.groupSw].term \in SwTerm
      <4>1. swc.groupEndBB \in 1..n /\ swc.groupEndBB > 2 /\ swc.groupEndBB # cur /\ bbs[swc.groupEndBB] = EmptyBlock
        BY <1>1, <1>3, <2>4, IInvFacts
      <4>2. swc.groupEndBB # n + 1 /\ swc.groupEndBB \in 1..(n + 2) /\ sw \in 1..(n + 2)
        BY <1>3, <3>3, <4>1
      <4> QED BY <3>2, <3>3, <3>4, <3>6, <4>1, <4>2
    <3>11. \A b \in DOMAIN bbs' : b # 2 /\ b # cur' /\ ~(swc'.inGroup /\ b = swc'.groupEndBB) => bbs'[b].term # None
      <4>1. \A b \in DOMAIN bbs : b # 2 /\ b # cur /\ ~(swc.inGroup /\ b = swc.groupEndBB) => bbs[b].term # None
        BY <1>1, IInvFacts
      <4> QED BY <1>3, <3>2, <3>4, <3>5, <3>6, <3>7, <4>1
    <3>12. 2 \in Nat
      OBVIOUS
    <3> HIDE DEF n
    <3> QED BY <1>1, <1>2, <2>1, <3>2, <3>4, <3>8, <3>9, <3>10, <3>11, <3>12, Restored
  <2> QED BY <2>3, <2>4
<1>6. CASE DefaultLabel(it)
  <2>1. /\ Grown(1) /\ Keeps({cur}) /\ bbs'[n + 1] = EmptyBlock /\ cur' = n + 1
        /\ Ends(cur, bbs[cur].sel, Goto(n + 1))
        /\ hadError_' = (hadError_ \/ swc.inGroup) /\ phase' = phase
        /\ swc' = IF swc.inGroup THEN swc ELSE [swc EXCEPT !.dflt = n + 1]
    BY <1>1, <1>3, <1>6, DefaultStep
  <2>2. n + 1 \in Nat /\ hadError_' \in BOOLEAN /\ phase' \in {"gen", "endless"}
    BY <1>1, <1>3, <2>1
  <2>3. /\ swc' \in SwitchCtx /\ swc'.inGroup = swc.inGroup /\ swc'.groupEndBB = swc.groupEndBB
        /\ swc'.groupSw = swc.groupSw
    BY <1>4, <2>1, <2>2 DEF SwitchCtx
  <2> QED BY <1>1, <1>2, <2>1, <2>2, <2>3, AddedKeeps
<1>7. CASE genSubStart(it)
  <2>1. CASE swc.inGroup
    <3>1. hadError_' = TRUE /\ bbs' = bbs /\ cur' = cur /\ swc' = swc /\ phase' = phase
      BY <1>7, <2>1 DEF genSubStart
    <3> QED BY <1>1, <1>2, <3>1 DEF IInv, Typed, Ctl, Closed, Body
  <2>2. CASE ~swc.inGroup
    <3>1. /\ Grown(2) /\ Keeps({cur}) /\ bbs'[n + 1] = EmptyBlock /\ bbs'[n + 2] = EmptyBlock
          /\ cur' = n + 1 /\ Ends(cur, 0, Goto(n + 1))
          /\ swc' = [swc EXCEPT !.inGroup = TRUE, !.groupStartBB = n + 1, !.groupEndBB = n + 2,
                                !.groupSw = NoBlock, !.nextGroupId = 0]
          /\ hadError_' = hadError_ /\ phase' = phase
      BY <1>1, <1>3, <1>7, <2>2, StartStep
    <3>2. swc' \in SwitchCtx /\ swc'.inGroup = TRUE /\ swc'.groupEndBB = n + 2 /\ swc'.groupSw = NoBlock
      <4>1. n + 1 \in Nat /\ n + 2 \in Nat
        BY <1>3
      <4> HIDE DEF n
      <4>2. PICK a \in Nat, b \in Nat : a = n + 1 /\ b = n + 2
        BY <4>1
      <4>3. swc' = [swc EXCEPT !.inGroup = TRUE, !.groupStartBB = a, !.groupEndBB = b,
                                !.groupSw = NoBlock, !.nextGroupId = 0]
        BY <3>1, <4>2
      <4>4. swc' \in SwitchCtx /\ swc'.inGroup = TRUE /\ swc'.groupEndBB = b /\ swc'.groupSw = NoBlock
        BY <1>4, <4>3 DEF SwitchCtx, NoBlock
      <4> QED BY <4>2, <4>4
    <3>3. bbs'[cur].term # None /\ EmptyBlock.term = None
      BY <1>3, <3>1, TermFacts DEF Ends
    <3>4. DOMAIN bbs' = 1..(n + 2) /\ \A b \in 1..n : b # cur => bbs'[b] = bbs[b]
      BY <1>3, <3>1 DEF Grown, Keeps
    <3>5. \A b \in 1..(n + 2) : b \in 1..n \/ b = n + 1 \/ b = n + 2
      BY <1>3
    <3>6. cur' \in DOMAIN bbs' /\ cur' > 2 /\ bbs'[cur'].term = None /\ bbs'[1] = bbs[1] /\ bbs'[2] = bbs[2]
      BY <1>3, <3>1, <3>3, <3>4
    <3>7. /\ swc'.groupEndBB \in DOMAIN bbs' /\ swc'.groupEndBB > 2 /\ swc'.groupEndBB # cur'
          /\ bbs'[swc'.groupEndBB] = EmptyBlock
      BY <1>3, <3>1, <3>2, <3>4
    <3>8. \A b \in DOMAIN bbs' : b # 2 /\ b # cur' /\ ~(swc'.inGroup /\ b = swc'.groupEndBB) => bbs'[b].term # None
      <4>1. \A b \in DOMAIN bbs : b # 2 /\ b # cur /\ ~(swc.inGroup /\ b = swc.groupEndBB) => bbs[b].term # None
        BY <1>1, IInvFacts
      <4> QED BY <1>3, <2>2, <3>1, <3>2, <3>3, <3>4, <3>5, <4>1
    <3>9. 2 \in Nat /\ hadError_' \in BOOLEAN /\ phase' \in {"gen", "endless"}
      BY <1>1, <1>3, <3>1
    <3> HIDE DEF n
    <3> QED BY <1>1, <1>2, <3>1, <3>2, <3>6, <3>7, <3>8, <3>9, Restored
  <2> QED BY <2>1, <2>2
<1>8. CASE genSubEnd(it)
  <2>1. CASE ~swc.inGroup
    <3>1. hadError_' = TRUE /\ bbs' = bbs /\ cur' = cur /\ swc' = swc /\ phase' = phase
      BY <1>8, <2>1 DEF genSubEnd
    <3> QED BY <1>1, <1>2, <3>1 DEF IInv, Typed, Ctl, Closed, Body
  <2>2. CASE swc.inGroup
    <3>1. /\ Grown(0) /\ Keeps({cur}) /\ cur' = swc.groupEndBB
          /\ Ends(cur, bbs[cur].sel, Goto(swc.groupEndBB)) /\ bbs'[cur'] = EmptyBlock
          /\ swc' = [swc EXCEPT !.inGroup = FALSE] /\ hadError_' = hadError_ /\ phase' = phase
      BY <1>1, <1>3, <1>8, <2>2, EndStep
    <3>2. swc' \in SwitchCtx /\ swc'.inGroup = FALSE /\ swc.groupEndBB \in Nat
      BY <1>4, <3>1 DEF SwitchCtx
    <3>3. bbs'[cur].term # None /\ EmptyBlock.term = None
      BY <3>1, <3>2, TermFacts DEF Ends
    <3>4. DOMAIN bbs' = 1..n /\ \A b \in 1..n : b # cur => bbs'[b] = bbs[b]
      BY <1>3, <3>1 DEF Grown, Keeps
    <3>5. cur' \in DOMAIN bbs' /\ cur' > 2 /\ bbs'[cur'].term = None /\ bbs'[1] = bbs[1] /\ bbs'[2] = bbs[2]
      BY <1>1, <1>3, <2>2, <3>1, <3>3, <3>4, IInvFacts
    <3>6. \A b \in DOMAIN bbs' : b # 2 /\ b # cur' /\ ~(swc'.inGroup /\ b = swc'.groupEndBB) => bbs'[b].term # None
      <4>1. \A b \in DOMAIN bbs : b # 2 /\ b # cur /\ ~(swc.inGroup /\ b = swc.groupEndBB) => bbs[b].term # None
        BY <1>1, IInvFacts
      <4> QED BY <1>3, <3>1, <3>3, <3>4, <4>1
    <3>7. 0 \in Nat /\ hadError_' \in BOOLEAN /\ phase' \in {"gen", "endless"}
      BY <1>1, <1>3, <3>1
    <3> QED BY <1>1, <1>2, <3>1, <3>2, <3>5, <3>6, <3>7, Restored
  <2> QED BY <2>1, <2>2
<1>9. CASE Break(it)
  <2> DEFINE to == IF swc.inGroup THEN swc.groupEndBB ELSE ExitBB
  <2>1. /\ Grown(1) /\ Keeps({cur}) /\ bbs'[n + 1] = EmptyBlock /\ cur' = n + 1
        /\ Ends(cur, bbs[cur].sel, Goto(to))
        /\ swc' = swc /\ hadError_' = hadError_ /\ phase' = phase
    BY <1>1, <1>3, <1>9, BreakStep
  <2>2. to \in Nat /\ swc' \in SwitchCtx /\ hadError_' \in BOOLEAN /\ phase' \in {"gen", "endless"}
    BY <1>1, <1>3, <1>4, <2>1 DEF SwitchCtx, ExitBB
  <2> HIDE DEF to
  <2> QED BY <1>1, <1>2, <2>1, <2>2, AddedKeeps
<1>10. CASE Statement(it)
  <2>1. /\ Grown(0) /\ Keeps({cur}) /\ cur' = cur /\ bbs'[cur].term = None
        /\ swc' = swc /\ hadError_' = hadError_ /\ phase' = phase
    BY <1>1, <1>3, <1>10, StmtStep
  <2>2. DOMAIN bbs' = 1..n /\ \A b \in 1..n : b # cur => bbs'[b] = bbs[b]
    BY <1>3, <2>1 DEF Grown, Keeps
  <2>3. cur' \in DOMAIN bbs' /\ cur' > 2 /\ bbs'[cur'].term = None /\ bbs'[1] = bbs[1] /\ bbs'[2] = bbs[2]
    BY <1>3, <2>1, <2>2
  <2>4. swc'.inGroup =>
           /\ swc'.groupEndBB \in DOMAIN bbs' /\ swc'.groupEndBB > 2 /\ swc'.groupEndBB # cur'
           /\ bbs'[swc'.groupEndBB] = EmptyBlock
           /\ swc'.groupSw # NoBlock => swc'.groupSw \in DOMAIN bbs' /\ bbs'[swc'.groupSw].term \in SwTerm
    BY <1>1, <1>3, <2>1, <2>2, IInvFacts
  <2>5. \A b \in DOMAIN bbs' : b # 2 /\ b # cur' /\ ~(swc'.inGroup /\ b = swc'.groupEndBB) => bbs'[b].term # None
    <3>1. \A b \in DOMAIN bbs : b # 2 /\ b # cur /\ ~(swc.inGroup /\ b = swc.groupEndBB) => bbs[b].term # None
      BY <1>1, IInvFacts
    <3> QED BY <1>3, <2>1, <2>2, <3>1
  <2>6. 0 \in Nat /\ hadError_' \in BOOLEAN /\ phase' \in {"gen", "endless"} /\ swc' \in SwitchCtx
    BY <1>1, <1>3, <1>4, <2>1
  <2> QED BY <1>1, <1>2, <2>1, <2>3, <2>4, <2>5, <2>6, Restored
<1> QED BY <1>1, <1>5, <1>6, <1>7, <1>8, <1>9, <1>10

\* genSwitch after the last item.
LEMMA FinishStep ==
  ASSUME IInv, Finish
  PROVE  IInv'
<1>1. /\ phase = "gen" /\ hadError_' = (hadError_ \/ swc.inGroup) /\ bbs' = Br(bbs, cur, 2)
      /\ cur' = 2 /\ phase' = "done" /\ items' = items /\ pos' = pos /\ swc' = swc
  BY DEF Finish, ExitBB
<1>2. /\ Typed /\ bbs \in Seq(Block) /\ Len(bbs) \in Nat /\ Len(bbs) >= 3 /\ DOMAIN bbs = 1..Len(bbs)
      /\ cur \in 1..Len(bbs) /\ cur > 2 /\ bbs[cur].term = None /\ hadError_ \in BOOLEAN /\ swc.inGroup \in BOOLEAN
  BY <1>1, IInvFacts
<1>3. /\ bbs' \in Seq(Block) /\ Len(bbs') = Len(bbs) /\ DOMAIN bbs' = DOMAIN bbs
      /\ bbs'[cur].term = Goto(2) /\ \A b \in DOMAIN bbs : b # cur => bbs'[b] = bbs[b]
  BY <1>1, <1>2, BrOpen
<1>4. Typed'
  BY <1>1, <1>2, <1>3 DEF Typed, Body
<1>5. Ctl'
  BY <1>1 DEF Ctl
<1>6. Closed'
  <2>1. bbs'[cur].term # None
    BY <1>3, TermFacts
  <2>2. bbs'[1] = bbs[1] /\ bbs'[2] = bbs[2]
    BY <1>2, <1>3
  <2>3. phase' = "done" /\ ~hadError_' => ~swc'.inGroup
    BY <1>1, <1>2
  <2>4. \A b \in DOMAIN bbs : b # 2 /\ b # cur /\ ~(swc.inGroup /\ b = swc.groupEndBB) => bbs[b].term # None
    BY <1>1, IInvFacts
  <2>5. bbs[1].term = [k |-> "switch"] /\ bbs[2] = EmptyBlock
    BY DEF IInv, Closed
  <2> QED BY <1>1, <1>3, <2>1, <2>2, <2>3, <2>4, <2>5 DEF Closed
<1> QED BY <1>4, <1>5, <1>6 DEF IInv

\* Every step keeps the invariant.
LEMMA IInvStep ==
  ASSUME IInv, [Next]_vars
  PROVE  IInv'
<1>1. CASE UNCHANGED vars
  BY <1>1 DEF vars, IInv, Typed, Ctl, Closed, Body
<1>2. CASE genItem
  BY <1>2, ItemStep
<1>3. CASE Finish
  BY <1>3, FinishStep
<1> QED BY <1>1, <1>2, <1>3 DEF Next

\* verifyModule finds no block of an accepted switch without a terminator but the one that
\* follows it, for every body: genSwitch, genCaseLabel, genSubStart and genSubEnd end all the
\* blocks they make, the dead ones and those of empty groups too.
THEOREM EveryBlockEnds == Spec => []BlocksTerminated
<1>1. Init => IInv
  BY InitIInv
<1>2. IInv /\ [Next]_vars => IInv'
  BY IInvStep
<1>3. IInv => BlocksTerminated
  BY DEF IInv, Typed, Closed, BlocksTerminated, Accepted, ExitBB
<1> QED BY <1>1, <1>2, <1>3, PTL DEF Spec

-----------------------------------------------------------------------------
(* What the diagnostics tell *)

\* What the diagnostics have told so far: with none given, the items read are sound.
ToldOf(p, grouped, next) ==
  /\ \A q \in 1..(p - 1) : OkItem(q)
  /\ grouped <=> Group(p) # {}
  /\ next = Wrap(HiOf[p - 1] + 1)
Told ==
  /\ ~hadError_ /\ phase # "done" => ToldOf(pos, swc.inGroup, swc.nextCaseVal)
  /\ ~hadError_ /\ phase = "done" => pos = Len(items) + 1 /\ Sound

\* The meaning of the body does not change as it is read.
LEMMA ToldFixed ==
  ASSUME items' = items, NEW CONSTANT p, NEW CONSTANT g, NEW CONSTANT n
  PROVE  ToldOf(p, g, n)' <=> ToldOf(p, g, n)
BY DEF ToldOf, OkItem, LoOf, HiOf, Group, At, Wrap, MinI

\* Whether the body is sound does not change as it is read.
LEMMA SoundFixed ==
  ASSUME items' = items
  PROVE  Sound' <=> Sound
BY DEF Sound, OkItem, LoOf, HiOf, Group, At, Wrap, MinI

\* Nothing was read and nothing was said.
LEMMA InitTold ==
  ASSUME Init PROVE Told
<1>1. Body
  BY InitIInv DEF IInv, Typed
<1>2. Group(1) = {} /\ HiOf[0] = -1
  BY <1>1, GroupFirst, HiFacts
<1>3. pos = 1 /\ phase = "gen" /\ swc.inGroup = FALSE /\ swc.nextCaseVal = 0
  BY DEF Init
<1>4. Wrap(0) = 0
  <2>1. MaxI \in Nat /\ MinI = -MaxI - 1
    BY IntAssumption DEF MinI
  <2> DEFINE a == MaxI + 1
  <2>2. a \in Nat /\ 0 - MinI = a /\ MaxI - MinI + 1 = 2 * a /\ a > 0
    BY <2>1
  <2>3. a % (2 * a) = a
    <3>1. a = (2 * a) * 0 + a /\ a < 2 * a /\ 0 <= a
      BY <2>2
    <3> HIDE DEF a
    <3>2. PICK m \in Nat : m = 2 * a
      BY <2>2
    <3>3. a % m = a
      BY <2>2, <3>1, <3>2
    <3> QED BY <3>2, <3>3
  <2> QED BY <2>1, <2>2, <2>3 DEF Wrap
<1>5. \A q \in 1..(1 - 1) : OkItem(q)
  OBVIOUS
<1>6. ToldOf(1, swc.inGroup, swc.nextCaseVal)
  BY <1>2, <1>3, <1>4, <1>5 DEF ToldOf
<1> QED BY <1>3, <1>6 DEF Told

\* The next item, told of when it gives no error.
LEMMA ToldNext ==
  ASSUME Body, NEW p \in 1..Len(items), NEW grouped, NEW next, ToldOf(p, grouped, next), OkItem(p),
         NEW grouped2, NEW next2,
         CASE items[p].k = "start" -> grouped2 [] items[p].k = "end" -> ~grouped2 [] OTHER -> grouped2 <=> grouped,
         IF items[p].k = "case" THEN next2 = Wrap(HiOf[p] + 1) ELSE next2 = next
  PROVE  ToldOf(p + 1, grouped2, next2)
<1>1. \A q \in 1..(p + 1 - 1) : OkItem(q)
  <2>1. p \in Nat /\ \A q \in 1..(p + 1 - 1) : q \in 1..(p - 1) \/ q = p
    OBVIOUS
  <2> QED BY <2>1 DEF ToldOf
<1>2. grouped2 <=> Group(p + 1) # {}
  BY GroupNext DEF ToldOf
<1>3. next2 = Wrap(HiOf[p + 1 - 1] + 1)
  <2>1. p + 1 - 1 = p /\ (items[p].k # "case" => HiOf[p] = HiOf[p - 1])
    BY HiFacts, ItemFacts
  <2> QED BY <2>1 DEF ToldOf
<1> QED BY <1>1, <1>2, <1>3 DEF ToldOf

\* An item that is given no diagnostic is sound, and the SwitchCtx follows the text.
LEMMA ToldItem ==
  ASSUME IInv, Told, genItem, ~hadError_'
  PROVE  /\ ~hadError_ /\ OkItem(pos) /\ pos \in 1..Len(items) /\ phase = "gen" /\ phase' \in {"gen", "endless"}
         /\ ToldOf(pos, swc.inGroup, swc.nextCaseVal)
         /\ ToldOf(pos + 1, swc'.inGroup, swc'.nextCaseVal)
<1> DEFINE p == pos
<1>1. /\ phase = "gen" /\ pos <= Len(items) /\ items' = items /\ pos' = pos + 1
      /\ \/ genCaseLabel(items[pos]) \/ DefaultLabel(items[pos]) \/ genSubStart(items[pos])
         \/ genSubEnd(items[pos]) \/ Break(items[pos]) \/ Statement(items[pos])
  BY DEF genItem
<1>2. Typed /\ Ctl /\ Body /\ p \in 1..Len(items) /\ swc \in SwitchCtx
  BY <1>1, IInvFacts, ItemFacts DEF Typed
<1>3. ASSUME ~hadError_ PROVE ToldOf(p, swc.inGroup, swc.nextCaseVal)
  BY <1>1, <1>3 DEF Told
<1>4. \A q \in 1..Len(items) : HiOf[q] = IF items[q].k # "case" THEN HiOf[q - 1]
                        ELSE IF items[q].lo = Null THEN Wrap(HiOf[q - 1] + 1) ELSE items[q].hi
  BY <1>2, HiFacts
<1> HIDE DEF p
<1>5. CASE genCaseLabel(items[p])
  <2>1. PICK lo \in Int, hi \in Int, next \in Int :
           /\ lo <= hi /\ phase' \in {"gen", "endless"}
           /\ IF swc.inGroup THEN GroupCase(lo, hi, next) ELSE PlainCase(lo, hi, next)
           /\ ~hadError_
           /\ lo = IF items[p].lo = Null THEN swc.nextCaseVal ELSE items[p].lo
           /\ items[p].k = "case" /\ hi = IF items[p].lo = Null THEN lo ELSE items[p].hi
           /\ next = Wrap(hi + 1)
    BY <1>1, <1>2, <1>5, CaseStep DEF p
  <2>2. swc'.inGroup = swc.inGroup /\ swc'.nextCaseVal = next
    <3>1. CASE swc.inGroup
      BY <1>2, <2>1, <3>1 DEF GroupCase, SwitchCtx
    <3>2. CASE ~swc.inGroup
      BY <1>2, <2>1, <3>2 DEF PlainCase, SwitchCtx
    <3> QED BY <3>1, <3>2
  <2>3. ToldOf(p, swc.inGroup, swc.nextCaseVal)
    BY <1>3, <2>1
  <2>4. hi = HiOf[p] /\ lo = LoOf(p)
    BY <1>2, <1>4, <2>1, <2>3 DEF ToldOf, LoOf
  <2>5. OkItem(p)
    BY <2>1, <2>4 DEF OkItem
  <2>6. ToldOf(p + 1, swc'.inGroup, swc'.nextCaseVal)
    BY <1>2, <2>1, <2>2, <2>3, <2>4, <2>5, ToldNext
  <2> QED BY <1>1, <1>2, <2>1, <2>3, <2>5, <2>6 DEF p
<1>6. CASE DefaultLabel(items[p])
  <2>1. items[p].k = "default" /\ ~hadError_ /\ ~swc.inGroup /\ swc' = [swc EXCEPT !.dflt = Len(bbs) + 1] /\ phase' = phase
    BY <1>6 DEF DefaultLabel
  <2>2. swc'.inGroup = swc.inGroup /\ swc'.nextCaseVal = swc.nextCaseVal
    BY <1>2, <2>1 DEF SwitchCtx
  <2>3. ToldOf(p, swc.inGroup, swc.nextCaseVal)
    BY <1>3, <2>1
  <2>5. OkItem(p)
    BY <2>1, <2>3 DEF OkItem, ToldOf
  <2>6. ToldOf(p + 1, swc'.inGroup, swc'.nextCaseVal)
    BY <1>2, <2>1, <2>2, <2>3, <2>5, ToldNext
  <2> QED BY <1>1, <1>2, <2>1, <2>3, <2>5, <2>6 DEF p
<1>7. CASE genSubStart(items[p])
  <2>1. /\ items[p].k = "start" /\ ~hadError_ /\ ~swc.inGroup /\ phase' = phase
        /\ swc' = [swc EXCEPT !.inGroup = TRUE, !.groupStartBB = Len(bbs) + 1, !.groupEndBB = Len(bbs) + 2,
                                 !.groupSw = NoBlock, !.nextGroupId = 0]
    BY <1>7 DEF genSubStart
  <2>2. swc'.inGroup /\ swc'.nextCaseVal = swc.nextCaseVal
    BY <1>2, <2>1 DEF SwitchCtx
  <2>3. ToldOf(p, swc.inGroup, swc.nextCaseVal)
    BY <1>3, <2>1
  <2>5. OkItem(p)
    BY <2>1, <2>3 DEF OkItem, ToldOf
  <2>6. ToldOf(p + 1, swc'.inGroup, swc'.nextCaseVal)
    BY <1>2, <2>1, <2>2, <2>3, <2>5, ToldNext
  <2> QED BY <1>1, <1>2, <2>1, <2>3, <2>5, <2>6 DEF p
<1>8. CASE genSubEnd(items[p])
  <2>1. /\ items[p].k = "end" /\ ~hadError_ /\ swc.inGroup /\ phase' = phase
        /\ swc' = [swc EXCEPT !.inGroup = FALSE]
    BY <1>8 DEF genSubEnd
  <2>2. ~swc'.inGroup /\ swc'.nextCaseVal = swc.nextCaseVal
    BY <1>2, <2>1 DEF SwitchCtx
  <2>3. ToldOf(p, swc.inGroup, swc.nextCaseVal)
    BY <1>3, <2>1
  <2>5. OkItem(p)
    BY <2>1, <2>3 DEF OkItem, ToldOf
  <2>6. ToldOf(p + 1, swc'.inGroup, swc'.nextCaseVal)
    BY <1>2, <2>1, <2>2, <2>3, <2>5, ToldNext
  <2> QED BY <1>1, <1>2, <2>1, <2>3, <2>5, <2>6 DEF p
<1>9. CASE Break(items[p]) \/ Statement(items[p])
  <2>1. items[p].k \in {"break", "stmt"} /\ ~hadError_ /\ swc' = swc /\ phase' = phase
    BY <1>9 DEF Break, Statement
  <2>3. ToldOf(p, swc.inGroup, swc.nextCaseVal)
    BY <1>3, <2>1
  <2>5. OkItem(p)
    BY <2>1 DEF OkItem
  <2>6. ToldOf(p + 1, swc'.inGroup, swc'.nextCaseVal)
    BY <1>2, <2>1, <2>3, <2>5, ToldNext
  <2> QED BY <1>1, <1>2, <2>1, <2>3, <2>5, <2>6 DEF p
<1> QED BY <1>1, <1>5, <1>6, <1>7, <1>8, <1>9 DEF p

\* A group that is open at the end is a diagnostic.
LEMMA ToldFinish ==
  ASSUME IInv, Told, Finish, ~hadError_'
  PROVE  ~hadError_ /\ phase = "gen" /\ pos = Len(items) + 1 /\ Sound /\ ~swc.inGroup
<1>1. /\ phase = "gen" /\ pos > Len(items) /\ hadError_' = (hadError_ \/ swc.inGroup)
  BY DEF Finish
<1>2. pos = Len(items) + 1 /\ Len(items) \in Nat
  BY <1>1, ItemFacts DEF IInv, Typed
<1>3. ~hadError_ /\ ~swc.inGroup
  BY <1>1
<1>4. ToldOf(pos, swc.inGroup, swc.nextCaseVal)
  BY <1>1, <1>3 DEF Told
<1>5. \A q \in 1..Len(items) : OkItem(q)
  <2>1. pos - 1 = Len(items)
    BY <1>2
  <2> QED BY <1>4, <2>1 DEF ToldOf
<1>6. Group(Len(items) + 1) = {}
  BY <1>2, <1>3, <1>4 DEF ToldOf
<1> QED BY <1>1, <1>2, <1>3, <1>5, <1>6 DEF Sound

\* Every step keeps the diagnostics in step with the text.
LEMMA ToldStep ==
  ASSUME IInv, Told, [Next]_vars
  PROVE  Told'
<1>1. CASE genItem
  <2>1. items' = items /\ pos' = pos + 1
    BY <1>1 DEF genItem
  <2>2. SUFFICES ASSUME ~hadError_' PROVE phase' # "done" /\ ToldOf(pos, swc.inGroup, swc.nextCaseVal)'
    BY DEF Told
  <2>3. phase' # "done" /\ ToldOf(pos + 1, swc'.inGroup, swc'.nextCaseVal)
    BY <1>1, <2>2, ToldItem
  <2>4. PICK p, g, n : p = pos + 1 /\ g = swc'.inGroup /\ n = swc'.nextCaseVal
    OBVIOUS
  <2>5. ToldOf(p, g, n)'
    BY <2>1, <2>3, <2>4, ToldFixed
  <2> QED BY <2>1, <2>3, <2>4, <2>5
<1>2. CASE Finish
  <2>1. items' = items /\ pos' = pos /\ phase' = "done"
    BY <1>2 DEF Finish
  <2>2. SUFFICES ASSUME ~hadError_' PROVE pos' = Len(items') + 1 /\ Sound'
    BY <2>1 DEF Told
  <2> QED BY <1>2, <2>1, <2>2, ToldFinish, SoundFixed
<1>3. CASE UNCHANGED vars
  <2>1. /\ items' = items /\ pos' = pos /\ phase' = phase /\ swc' = swc /\ hadError_' = hadError_
    BY <1>3 DEF vars
  <2>2. PICK p, g, n : p = pos /\ g = swc.inGroup /\ n = swc.nextCaseVal
    OBVIOUS
  <2>3. ToldOf(p, g, n)' <=> ToldOf(p, g, n)
    BY <2>1, ToldFixed
  <2>4. ToldOf(pos, swc.inGroup, swc.nextCaseVal)' <=> ToldOf(pos, swc.inGroup, swc.nextCaseVal)
    BY <2>1, <2>2, <2>3
  <2>5. Sound' <=> Sound
    BY <2>1, SoundFixed
  <2> QED BY <2>1, <2>4, <2>5 DEF Told
<1> QED BY <1>1, <1>2, <1>3 DEF Next

-----------------------------------------------------------------------------
(* The blocks and the body *)

\* Where the blocks stand in the body: at[b] is the first item of the block b, and 0 for a
\* block that no item starts.
\* A branch from above leads to a block that a label, a start: or an end: starts.
Lands(at, b) == at[b] > 1 /\ items[at[b] - 1].k \in {"case", "default", "start", "end"}

\* How a block ends that runs the items from at[b] on: it leaves the switch, goes on to a
\* later block, or dispatches on groupSel, which is 0 when it is entered from above.
Leaves(bs, at, b) == bs[b].term = Goto(ExitBB) /\ From[at[b]] = bs[b].code
Passes(bs, at, b, c) ==
  /\ bs[b].term = Goto(c) /\ at[c] > at[b] /\ Lands(at, c)
  /\ items[at[c] - 1].k = "start" => bs[b].sel = 0
  /\ From[at[b]] = bs[b].code \o From[at[c]]
Chooses(bs, at, b) ==
  /\ bs[b].term \in SwTerm /\ bs[b].sel = NoSel
  /\ at[b] > 1 /\ items[at[b] - 1].k \in {"start", "break"}
  /\ Len(bs[b].term.cases) > 0 /\ \A k \in 1..Len(bs[b].term.cases) : bs[b].term.cases[k][1] = k - 1
  /\ bs[b].term.cases[1][2] = bs[b].term.dflt
  /\ bs[b].term.dflt \in DOMAIN bs /\ at[bs[b].term.dflt] > at[b]
  /\ items[at[bs[b].term.dflt] - 1].k = "case"
  /\ From[at[b]] = bs[b].code \o From[at[bs[b].term.dflt]]

\* A block of the items from at[b] on ends in one of the three ways.
Ended(bs, at, b) == Leaves(bs, at, b) \/ (\E c \in DOMAIN bs : Passes(bs, at, b, c)) \/ Chooses(bs, at, b)

\* Where the blocks stand, with nothing at the exit and at the dispatch; all are ended but X.
Placed(bs, at) == at \in [DOMAIN bs -> 0..(Len(items) + 1)] /\ at[ExitBB] = 0 /\ at[1] = 0
Settled(bs, at, X) == \A b \in DOMAIN bs : at[b] > 0 /\ b \notin X => Ended(bs, at, b)

\* The porch of the group that starts at s, up to its first break or else to the item m.
Firsts(s, f) == f > s /\ items[f].k = "case" /\ \A q \in (s + 1)..(f - 1) : items[q].k # "case"
NoBreak(s, m) == \A q \in (s + 1)..(m - 1) : items[q].k # "break"
Through(bs, b, s, m) == NoBreak(s, m) /\ bs[b].code = StmtsIn(s, m - 1)
Jumped(bs, b, s, m, e) ==
  \E j \in (s + 1)..(m - 1) :
    items[j].k = "break" /\ NoBreak(s, j) /\ bs[b].code = StmtsIn(s, j) /\ bs[b].term = Goto(e)

\* The stub b leads through the porch to the case at i.
Picks(bs, at, b, q, i) ==
  /\ bs[q].term \in SwTerm /\ bs[b].sel + 1 \in DOMAIN bs[q].term.cases
  /\ bs[q].term.cases[bs[b].sel + 1][2] \in DOMAIN bs
  /\ at[bs[q].term.cases[bs[b].sel + 1][2]] = i + 1
Leads(bs, at, b, i, s, q, f) ==
  /\ bs[b].code = <<>> /\ bs[b].sel \in Nat /\ bs[b].term = Goto(q)
  /\ at[q] = s + 1 /\ bs[q].sel = NoSel /\ f \in (s + 1)..i /\ Firsts(s, f)
  /\ \/ Through(bs, q, s, f) /\ Picks(bs, at, b, q, i)
     \/ \E e \in DOMAIN bs : Jumped(bs, q, s, f, e) /\ at[e] = EndOf(s) + 1

\* The block b is where a value of the case at i leads: behind the label, or to its stub.
Serves(bs, at, b, i) ==
  /\ b \in DOMAIN bs
  /\ Group(i) = {} => at[b] = i + 1
  /\ Group(i) # {} => /\ at[b] = 0 /\ b # ExitBB
                      /\ \E s \in Group(i), q \in DOMAIN bs, f \in Nat : Leads(bs, at, b, i, s, q, f)

\* The number of blocks that stand behind b in the text, and the run of the blocks in Exec.
Rank(at, b) == Cardinality({c \in DOMAIN bbs : at[c] > at[b]})
Run(R) ==
  \A k \in 1..(Len(bbs) + 2) : R[k] = IF R[k - 1].b = ExitBB THEN R[k - 1] ELSE RunBlock(R[k - 1])

\* Concatenation is associative.
LEMMA ConcatAssoc ==
  ASSUME NEW s \in Seq(Nat), NEW t \in Seq(Nat), NEW u \in Seq(Nat)
  PROVE  (s \o t) \o u = s \o (t \o u)
<1>1. s \o t \in Seq(Nat) /\ t \o u \in Seq(Nat) /\ Len(s \o t) = Len(s) + Len(t) /\ Len(t \o u) = Len(t) + Len(u)
  OBVIOUS
<1>2. (s \o t) \o u \in Seq(Nat) /\ s \o (t \o u) \in Seq(Nat)
  BY <1>1
<1>3. Len((s \o t) \o u) = Len(s) + Len(t) + Len(u) /\ Len(s \o (t \o u)) = Len(s) + Len(t) + Len(u)
  BY <1>1
<1>4. \A i \in 1..(Len(s) + Len(t) + Len(u)) : ((s \o t) \o u)[i] = (s \o (t \o u))[i]
  BY <1>1
<1> QED BY <1>2, <1>3, <1>4, SameSeq

\* A block that stands further behind has a smaller rank.
LEMMA RankFacts ==
  ASSUME bbs \in Seq(Block), NEW at, Placed(bbs, at), NEW b \in DOMAIN bbs
  PROVE  /\ Rank(at, b) \in Nat /\ Rank(at, b) < Len(bbs)
         /\ \A c \in DOMAIN bbs : at[c] > at[b] => Rank(at, c) < Rank(at, b)
<1> DEFINE S(c) == {d \in DOMAIN bbs : at[d] > at[c]}
           D == DOMAIN bbs
<1>1. D = 1..Len(bbs) /\ Len(bbs) \in Nat /\ \A c \in D : at[c] \in Nat
  BY ItemFacts DEF Placed
<1>7. b \in D
  OBVIOUS
<1>2. IsFiniteSet(D) /\ Cardinality(D) = Len(bbs)
  <2>1. PICK n \in Nat : n = Len(bbs)
    BY <1>1
  <2>2. 1 \in Int /\ n \in Int /\ D = 1..n
    BY <1>1, <2>1
  <2> HIDE DEF D
  <2>3. IsFiniteSet(1..n) /\ Cardinality(1..n) = IF 1 > n THEN 0 ELSE n - 1 + 1
    BY <2>2, FS_Interval
  <2> QED BY <2>1, <2>2, <2>3
<1>3. \A c \in D : IsFiniteSet(S(c)) /\ Cardinality(S(c)) \in Nat
  <2> SUFFICES ASSUME NEW c \in D PROVE IsFiniteSet(S(c)) /\ Cardinality(S(c)) \in Nat
    OBVIOUS
  <2>1. S(c) \subseteq D
    OBVIOUS
  <2> HIDE DEF S, D
  <2>2. IsFiniteSet(S(c))
    BY <1>2, <2>1, FS_Subset
  <2> QED BY <2>2, FS_CardinalityType
<1>4. Cardinality(S(b)) < Cardinality(D)
  <2>1. S(b) \subseteq D /\ S(b) # D
    BY <1>1
  <2> HIDE DEF S, D
  <2>2. Cardinality(S(b)) \in Nat /\ Cardinality(D) \in Nat
    BY <1>1, <1>2, <1>3, <1>7
  <2>3. Cardinality(S(b)) <= Cardinality(D) /\ Cardinality(D) # Cardinality(S(b))
    BY <1>2, <2>1, FS_Subset
  <2> QED BY <2>2, <2>3
<1>5. ASSUME NEW c \in D, at[c] > at[b] PROVE Cardinality(S(c)) < Cardinality(S(b))
  <2>1. S(c) \subseteq S(b) /\ c \in S(b) /\ c \notin S(c)
    BY <1>1, <1>5
  <2>2. S(c) # S(b) /\ IsFiniteSet(S(b))
    BY <1>3, <2>1
  <2> HIDE DEF S, D
  <2>3. Cardinality(S(c)) \in Nat /\ Cardinality(S(b)) \in Nat
    BY <1>3, <1>7
  <2>4. Cardinality(S(c)) <= Cardinality(S(b)) /\ Cardinality(S(b)) # Cardinality(S(c))
    BY <2>1, <2>2, FS_Subset
  <2> QED BY <2>3, <2>4
<1>6. \A c \in D : Rank(at, c) = Cardinality(S(c))
  BY DEF Rank
<1> HIDE DEF S, D
<1> QED BY <1>2, <1>3, <1>4, <1>5, <1>6, <1>7 DEF D

\* A run that is out stays out.
LEMMA OutStays ==
  ASSUME NEW R, Run(R), Len(bbs) \in Nat, NEW k \in 0..(Len(bbs) + 2), R[k].b = ExitBB
  PROVE  R[Len(bbs) + 2] = R[k]
<1> DEFINE K == Len(bbs) + 2
           P == {m \in Nat : k + m <= K => R[k + m] = R[k]}
<1>1. 0 \in P
  OBVIOUS
<1>2. ASSUME NEW m \in Nat, m \in P PROVE m + 1 \in P
  <2> SUFFICES ASSUME k + (m + 1) <= K PROVE R[k + (m + 1)] = R[k]
    OBVIOUS
  <2>1. k + (m + 1) \in 1..K /\ k + (m + 1) - 1 = k + m
    OBVIOUS
  <2>2. R[k + m] = R[k]
    BY <1>2
  <2> QED BY <2>1, <2>2 DEF Run
<1> HIDE DEF P
<1>3. K - k \in P
  BY <1>1, <1>2, InductionOnSets
<1>4. k + (K - k) = K
  OBVIOUS
<1> QED BY <1>3, <1>4 DEF P

\* One turn of Exec.
LEMMA RunOne ==
  ASSUME NEW R, Run(R), Len(bbs) \in Nat, NEW k \in 0..(Len(bbs) + 1), R[k].b # ExitBB
  PROVE  /\ R[k + 1].out = R[k].out \o bbs[R[k].b].code
         /\ R[k + 1].sel = IF bbs[R[k].b].sel = NoSel THEN R[k].sel ELSE bbs[R[k].b].sel
         /\ \A c : bbs[R[k].b].term = Goto(c) => R[k + 1].b = c
         /\ bbs[R[k].b].term \in SwTerm =>
              R[k + 1].b = Lookup(bbs[R[k].b].term.cases, R[k + 1].sel, bbs[R[k].b].term.dflt)
<1>1. k + 1 \in 1..(Len(bbs) + 2) /\ k + 1 - 1 = k
  OBVIOUS
<1>2. R[k + 1] = RunBlock(R[k])
  BY <1>1 DEF Run
<1>3. (\A t \in SwTerm : t.k = "sw") /\ (\A c : Goto(c).k = "br" /\ Goto(c).to = c)
  BY TermFacts DEF Goto
<1> DEFINE x == bbs[R[k].b]
           sl == IF x.sel = NoSel THEN R[k].sel ELSE x.sel
           to == IF x.term.k = "br" THEN x.term.to ELSE Lookup(x.term.cases, sl, x.term.dflt)
<1>4. R[k + 1] = [b |-> to, sel |-> sl, out |-> R[k].out \o x.code]
  BY <1>2 DEF RunBlock
<1> DEFINE w == R[k].out \o x.code
<1> HIDE DEF to, sl, w
<1>5. R[k + 1].b = to /\ R[k + 1].sel = sl /\ R[k + 1].out = w
  <2>1. R[k + 1] = [b |-> to, sel |-> sl, out |-> w]
    BY <1>4 DEF w
  <2> QED BY <2>1
<1>6. ASSUME NEW c, x.term = Goto(c) PROVE to = c
  BY <1>3, <1>6 DEF to
<1>7. x.term \in SwTerm => to = Lookup(x.term.cases, sl, x.term.dflt)
  BY <1>3 DEF to
<1> QED BY <1>5, <1>6, <1>7 DEF sl, w

\* The dispatch on a case of the group.
LEMMA LookupFacts ==
  ASSUME NEW cs \in Seq(Nat \X Nat), \A k \in 1..Len(cs) : cs[k][1] = k - 1,
         NEW id \in Nat, id + 1 \in 1..Len(cs), NEW d
  PROVE  Lookup(cs, id, d) = cs[id + 1][2]
<1>1. cs[id + 1][1] = id /\ \A c \in 1..Len(cs) : cs[c][1] = id => c = id + 1
  OBVIOUS
<1>2. (CHOOSE c \in 1..Len(cs) : cs[c][1] = id) = id + 1
  BY <1>1
<1> QED BY <1>1, <1>2 DEF Lookup

\* A dispatch is no branch.
LEMMA NotGoto ==
  \A t \in SwTerm : \A c : t # Goto(c)
BY TermFacts DEF Goto

\* The run from a block entered from above comes to the exit within as many blocks as there
\* are behind it, and has then run what From says.
LEMMA RunFromAbove ==
  ASSUME bbs \in Seq(Block), Body, Sound, NEW at, Placed(bbs, at), Settled(bbs, at, {}), NEW R, Run(R)
  PROVE  \A m \in Nat : \A k \in 0..(Len(bbs) + 2), b \in DOMAIN bbs :
           /\ at[b] > 0 /\ R[k].b = b /\ R[k].out \in Seq(Nat)
           /\ bbs[b].term \in SwTerm => R[k].sel = 0
           /\ Rank(at, b) < m /\ k + m <= Len(bbs) + 2
           => R[Len(bbs) + 2].b = ExitBB /\ R[Len(bbs) + 2].out = R[k].out \o From[at[b]]
<1> DEFINE K == Len(bbs) + 2
           Good(k, b, m) == /\ at[b] > 0 /\ R[k].b = b /\ R[k].out \in Seq(Nat)
                            /\ bbs[b].term \in SwTerm => R[k].sel = 0
                            /\ Rank(at, b) < m /\ k + m <= K
           Then(k, b) == R[K].b = ExitBB /\ R[K].out = R[k].out \o From[at[b]]
           P == {m \in Nat : \A k \in 0..K, b \in DOMAIN bbs : Good(k, b, m) => Then(k, b)}
<1> HIDE DEF Good, Then, P
<1>1. Len(bbs) \in Nat /\ DOMAIN bbs = 1..Len(bbs) /\ at[ExitBB] = 0
      /\ \A b \in DOMAIN bbs : /\ at[b] \in Nat /\ at[b] <= Len(items) + 1 /\ Rank(at, b) \in Nat
                               /\ bbs[b].code \in Seq(Nat)
                               /\ at[b] > 0 => From[at[b]] \in Seq(Nat)
  <2>1. Len(bbs) \in Nat /\ DOMAIN bbs = 1..Len(bbs) /\ at[ExitBB] = 0
    BY DEF Placed
  <2> SUFFICES ASSUME NEW b \in DOMAIN bbs
               PROVE  /\ at[b] \in Nat /\ at[b] <= Len(items) + 1 /\ Rank(at, b) \in Nat
                      /\ bbs[b].code \in Seq(Nat) /\ (at[b] > 0 => From[at[b]] \in Seq(Nat))
    BY <2>1
  <2>2. at[b] \in Nat /\ at[b] <= Len(items) + 1 /\ Len(items) \in Nat
    BY ItemFacts DEF Placed
  <2>3. at[b] > 0 => From[at[b]] \in Seq(Nat)
    BY <2>2, FromFacts
  <2> QED BY <2>2, <2>3, RankFacts, BlockFacts
<1>2. 0 \in P
  BY <1>1 DEF P, Good
<1>3. ASSUME NEW m \in Nat, m \in P PROVE m + 1 \in P
  <2>0. SUFFICES ASSUME NEW k \in 0..K, NEW b \in DOMAIN bbs, Good(k, b, m + 1)
               PROVE  Then(k, b)
    BY <1>1 DEF P
  <2> DEFINE n == Len(bbs)
  <2>1. /\ at[b] > 0 /\ R[k].b = b /\ b # ExitBB /\ k \in 0..(Len(bbs) + 1) /\ k + 1 \in 0..K
        /\ R[k].out \in Seq(Nat) /\ bbs[b].code \in Seq(Nat) /\ From[at[b]] \in Seq(Nat)
        /\ (bbs[b].term \in SwTerm => R[k].sel = 0) /\ Rank(at, b) < m + 1 /\ k + (m + 1) <= K
        /\ Len(bbs) \in Nat /\ k + 1 \in Nat
    BY <1>1, <2>0 DEF Good
  <2>2. R[k + 1].out = R[k].out \o bbs[b].code /\ R[k + 1].out \in Seq(Nat)
    <3>1. R[k + 1].out = R[k].out \o bbs[R[k].b].code
      BY <2>1, RunOne
    <3> QED BY <2>1, <3>1
  <2>8. /\ R[k + 1].sel = IF bbs[b].sel = NoSel THEN R[k].sel ELSE bbs[b].sel
        /\ \A c : bbs[b].term = Goto(c) => R[k + 1].b = c
        /\ bbs[b].term \in SwTerm => R[k + 1].b = Lookup(bbs[b].term.cases, R[k + 1].sel, bbs[b].term.dflt)
    <3>1. /\ R[k + 1].sel = IF bbs[R[k].b].sel = NoSel THEN R[k].sel ELSE bbs[R[k].b].sel
          /\ \A c : bbs[R[k].b].term = Goto(c) => R[k + 1].b = c
          /\ bbs[R[k].b].term \in SwTerm =>
               R[k + 1].b = Lookup(bbs[R[k].b].term.cases, R[k + 1].sel, bbs[R[k].b].term.dflt)
      BY <2>1, RunOne
    <3> QED BY <2>1, <3>1
  <2>3. Ended(bbs, at, b)
    BY <2>1 DEF Settled
  <2>4. CASE Leaves(bbs, at, b)
    <3>1. R[k + 1].b = ExitBB
      BY <2>4, <2>8 DEF Leaves
    <3>2. R[K] = R[k + 1]
      BY <1>1, <2>1, <3>1, OutStays
    <3> QED BY <2>2, <2>4, <3>1, <3>2 DEF Leaves, Then
  <2>5. ASSUME NEW c \in DOMAIN bbs, at[c] > at[b], From[at[b]] = bbs[b].code \o From[at[c]],
               R[k + 1].b = c, bbs[c].term \in SwTerm => R[k + 1].sel = 0
        PROVE  Then(k, b)
    <3>1. Rank(at, c) < m /\ at[c] > 0 /\ From[at[c]] \in Seq(Nat)
      <4>1. Rank(at, c) < Rank(at, b) /\ Rank(at, b) \in Nat
        BY <2>5, RankFacts
      <4>2. Rank(at, c) \in Nat /\ at[c] \in Nat /\ at[b] \in Nat
        BY <1>1
      <4>3. From[at[c]] \in Seq(Nat) /\ at[c] > 0
        <5>1. at[c] > 0
          BY <2>1, <2>5, <4>2
        <5> QED BY <1>1, <2>5, <5>1
      <4>4. Rank(at, b) < m + 1
        BY <2>1
      <4>5. Rank(at, c) < m
        BY <4>1, <4>2, <4>4
      <4> QED BY <4>3, <4>5
    <3>2. Good(k + 1, c, m)
      BY <2>1, <2>2, <2>5, <3>1 DEF Good
    <3>3. Then(k + 1, c)
      BY <1>3, <2>1, <2>5, <3>2 DEF P
    <3>4. R[K].out = (R[k].out \o bbs[b].code) \o From[at[c]]
      BY <2>2, <3>3 DEF Then
    <3>5. (R[k].out \o bbs[b].code) \o From[at[c]] = R[k].out \o (bbs[b].code \o From[at[c]])
      <4>1. PICK s \in Seq(Nat), t \in Seq(Nat), u \in Seq(Nat) : s = R[k].out /\ t = bbs[b].code /\ u = From[at[c]]
        BY <2>1, <3>1
      <4>2. (s \o t) \o u = s \o (t \o u)
        BY ConcatAssoc
      <4> QED BY <4>1, <4>2
    <3> QED BY <2>5, <3>3, <3>4, <3>5 DEF Then
  <2>6. ASSUME NEW c \in DOMAIN bbs, Passes(bbs, at, b, c) PROVE Then(k, b)
    <3>1. R[k + 1].b = c
      BY <2>6, <2>8 DEF Passes
    <3>2. ASSUME bbs[c].term \in SwTerm PROVE R[k + 1].sel = 0
      <4>1. at[c] > 0
        BY <1>1, <2>6 DEF Passes, Lands
      <4>2. Ended(bbs, at, c)
        BY <4>1 DEF Settled
      <4>3. Chooses(bbs, at, c)
        BY <2>6, <3>2, <4>2, NotGoto DEF Ended, Leaves, Passes
      <4>4. items[at[c] - 1].k = "start"
        BY <2>6, <4>3 DEF Chooses, Passes, Lands
      <4>5. bbs[b].sel = 0 /\ NoSel = -1
        BY <2>6, <4>4 DEF Passes, NoSel
      <4> QED BY <2>8, <4>5
    <3> QED BY <2>5, <2>6, <3>1, <3>2 DEF Passes
  <2>7. CASE Chooses(bbs, at, b)
    <3> DEFINE t == bbs[b].term
    <3>1. /\ t \in SwTerm /\ t.cases \in Seq(Nat \X Nat) /\ Len(t.cases) > 0 /\ bbs[b].sel = NoSel
          /\ \A i \in 1..Len(t.cases) : t.cases[i][1] = i - 1
          /\ t.cases[1][2] = t.dflt /\ t.dflt \in DOMAIN bbs /\ at[t.dflt] > at[b]
          /\ items[at[t.dflt] - 1].k = "case" /\ From[at[b]] = bbs[b].code \o From[at[t.dflt]]
      BY <2>7, TermFacts DEF Chooses
    <3>2. R[k].sel = 0 /\ R[k + 1].sel = 0
      BY <2>1, <2>8, <3>1
    <3>3. R[k + 1].b = t.dflt
      <4>1. R[k + 1].b = Lookup(t.cases, 0, t.dflt)
        BY <1>1, <2>1, <3>1, <3>2, RunOne
      <4>2. 0 + 1 \in 1..Len(t.cases) /\ 0 \in Nat /\ 0 + 1 = 1
        BY <3>1
      <4> HIDE DEF t
      <4>3. Lookup(t.cases, 0, t.dflt) = t.cases[0 + 1][2]
        BY <3>1, <4>2, LookupFacts
      <4> QED BY <3>1, <4>1, <4>2, <4>3
    <3>4. bbs[t.dflt].term \notin SwTerm
      <4>1. SUFFICES ASSUME bbs[t.dflt].term \in SwTerm PROVE FALSE
        OBVIOUS
      <4>5. PICK d \in DOMAIN bbs : d = t.dflt /\ at[d] > at[b]
        BY <3>1
      <4>6. at[d] \in Nat /\ at[b] \in Nat
        BY <1>1
      <4>2. at[t.dflt] > 0 /\ t.dflt \in DOMAIN bbs
        BY <2>1, <4>5, <4>6
      <4>3. Ended(bbs, at, t.dflt)
        BY <4>2 DEF Settled
      <4>4. Chooses(bbs, at, t.dflt)
        BY <4>1, <4>3, NotGoto DEF Ended, Leaves, Passes
      <4> QED BY <3>1, <4>4 DEF Chooses
    <3> HIDE DEF t
    <3> QED BY <2>5, <3>1, <3>3, <3>4
  <2> QED BY <2>3, <2>4, <2>6, <2>7 DEF Ended
<1> HIDE DEF P
<1>4. Nat \subseteq P
  BY <1>2, <1>3, InductionOnSets
<1> QED BY <1>4 DEF P, Good, Then

\* The values of the switch before the item p, each once, and the default.
Serving(bs, at, cs, p) ==
  /\ \A c \in 1..Len(cs) : \E i \in 1..(p - 1) :
       items[i].k = "case" /\ cs[c][1] \in Values(i) /\ Serves(bs, at, cs[c][2], i)
  /\ \A c, d \in 1..Len(cs) : cs[c][1] = cs[d][1] => c = d
  /\ \A i \in 1..(p - 1) : items[i].k = "case" => \A v \in Values(i) : \E c \in 1..Len(cs) : cs[c][1] = v
Default(bs, at, d, p) ==
  \/ d = ExitBB /\ \A q \in 1..(p - 1) : items[q].k # "default"
  \/ /\ d \in DOMAIN bs /\ at[d] \in 2..p /\ items[at[d] - 1].k = "default"
     /\ \A q \in at[d]..(p - 1) : items[q].k # "default"

\* The values of a case are a range.
LEMMA ValuesFacts ==
  ASSUME Body, NEW p \in 1..Len(items), items[p].k = "case"
  PROVE  Values(p) = LoOf(p)..HiOf[p]
<1>1. CASE items[p].lo = Null
  <2>1. HiOf[p] \in Int
    BY HiFacts, ItemFacts
  <2>2. PICK h \in Int : h = HiOf[p]
    BY <2>1
  <2>3. {h} = h..h
    OBVIOUS
  <2> QED BY <1>1, <2>2, <2>3 DEF Values, LoOf
<1>2. CASE items[p].lo # Null
  <2>1. HiOf[p] = items[p].hi
    BY <1>2, HiFacts
  <2> QED BY <1>2, <2>1 DEF Values, LoOf
<1> QED BY <1>1, <1>2

\* A label adds no statement.
LEMMA FromLabel ==
  ASSUME Body, Sound, NEW p \in 1..Len(items)
  PROVE  /\ items[p].k \notin {"stmt", "break"} => From[p] = From[p + 1]
         /\ From[p] \in Seq(Nat) /\ From[p + 1] \in Seq(Nat) /\ From[Len(items) + 1] = <<>>
<1>1. p \in 1..(Len(items) + 1) /\ p + 1 \in 1..(Len(items) + 1) /\ Len(items) + 1 \in 1..(Len(items) + 1)
      /\ ~(p > Len(items)) /\ Len(items) + 1 > Len(items)
  BY ItemFacts
<1>2. From[p] = Says(From, p) /\ From[p] \in Seq(Nat) /\ From[p + 1] \in Seq(Nat)
      /\ From[Len(items) + 1] = Says(From, Len(items) + 1)
  BY <1>1, FromFacts
<1>3. Says(From, Len(items) + 1) = <<>>
  BY <1>1 DEF Says
<1>4. items[p].k \notin {"stmt", "break"} => Says(From, p) = From[p + 1]
  BY <1>1 DEF Says
<1> QED BY <1>2, <1>3, <1>4

\* The porch that is described is the porch that is meant.
LEMMA PorchThrough ==
  ASSUME Body, Sound, NEW i \in 1..Len(items), items[i].k = "case", NEW s \in Group(i),
         NEW f \in (s + 1)..i, Firsts(s, f), NoBreak(s, f)
  PROVE  Porch(s, i) = StmtsIn(s, f - 1) \o From[i]
<1> DEFINE first == CHOOSE c \in At("case") : c > s /\ \A d \in At("case") : d > s => c <= d
           jumps == {p \in (s + 1)..(first - 1) : items[p].k = "break"}
<1>1. s \in Nat /\ i \in Nat /\ f \in Nat /\ f \in 1..Len(items)
  BY GroupOfOne, ItemFacts DEF Sound
<1>2. f \in At("case") /\ f > s /\ \A d \in At("case") : d > s => f <= d
  <2>1. f \in At("case") /\ f > s
    BY <1>1, AtFacts DEF Firsts
  <2>2. ASSUME NEW d \in At("case"), d > s PROVE f <= d
    <3>1. d \in Nat /\ items[d].k = "case"
      BY AtFacts
    <3>2. ~(d \in (s + 1)..(f - 1))
      BY <3>1 DEF Firsts
    <3> QED BY <1>1, <2>2, <3>1, <3>2
  <2> QED BY <2>1, <2>2
<1>3. At("case") \subseteq Nat
  BY AtFacts
<1>4. first = f
  BY <1>2, <1>3
<1> HIDE DEF first
<1>5. jumps = {}
  BY <1>4 DEF NoBreak
<1>6. Porch(s, i) = StmtsIn(s, first - 1) \o From[i]
  BY <1>5 DEF Porch, first
<1> QED BY <1>4, <1>6

\* A porch with a break runs to that break and goes on behind the group.
LEMMA PorchJumped ==
  ASSUME Body, Sound, NEW i \in 1..Len(items), items[i].k = "case", NEW s \in Group(i),
         NEW f \in (s + 1)..i, Firsts(s, f), NEW j \in (s + 1)..(f - 1), items[j].k = "break", NoBreak(s, j)
  PROVE  Porch(s, i) = StmtsIn(s, j) \o From[EndOf(s) + 1]
<1> DEFINE first == CHOOSE c \in At("case") : c > s /\ \A d \in At("case") : d > s => c <= d
           jumps == {p \in (s + 1)..(first - 1) : items[p].k = "break"}
           jump == CHOOSE p \in jumps : \A q \in jumps : p <= q
<1>1. s \in Nat /\ i \in Nat /\ f \in Nat /\ f \in 1..Len(items)
  BY GroupOfOne, ItemFacts DEF Sound
<1>2. f \in At("case") /\ f > s /\ \A d \in At("case") : d > s => f <= d
  <2>1. f \in At("case") /\ f > s
    BY <1>1, AtFacts DEF Firsts
  <2>2. ASSUME NEW d \in At("case"), d > s PROVE f <= d
    <3>1. d \in Nat /\ items[d].k = "case"
      BY AtFacts
    <3>2. ~(d \in (s + 1)..(f - 1))
      BY <3>1 DEF Firsts
    <3> QED BY <1>1, <2>2, <3>1, <3>2
  <2> QED BY <2>1, <2>2
<1>3. At("case") \subseteq Nat
  BY AtFacts
<1>4. first = f
  BY <1>2, <1>3
<1> HIDE DEF first
<1>5. j \in jumps /\ \A q \in jumps : j <= q /\ q \in Nat
  BY <1>1, <1>4 DEF NoBreak
<1>6. jump = j /\ jumps # {}
  <2> HIDE DEF jumps
  <2>1. \A p \in jumps : (\A q \in jumps : p <= q) => p = j
    BY <1>1, <1>5
  <2> QED BY <1>5, <2>1
<1> HIDE DEF jump
<1>7. Porch(s, i) = StmtsIn(s, jump) \o From[EndOf(s) + 1]
  BY <1>6 DEF Porch, first, jump
<1> QED BY <1>6, <1>7

\* The blocks of the whole body: all of them are ended, and every value and the default lead to
\* where they should.
Whole(at) ==
  /\ Placed(bbs, at) /\ Settled(bbs, at, {})
  /\ Serving(bbs, at, swc.cases, Len(items) + 1) /\ Default(bbs, at, swc.dflt, Len(items) + 1)

\* What that says of single blocks.
LEMMA WholeFacts ==
  ASSUME IInv, Sound, NEW at, Whole(at)
  PROVE  /\ Body /\ bbs \in Seq(Block) /\ Len(bbs) \in Nat /\ DOMAIN bbs = 1..Len(bbs) /\ Len(bbs) >= 3
         /\ Len(items) \in Nat /\ at[ExitBB] = 0
         /\ \A b \in DOMAIN bbs : at[b] \in Nat /\ at[b] <= Len(items) + 1 /\ bbs[b] \in Block
         /\ \A b \in DOMAIN bbs : at[b] > 1 /\ items[at[b] - 1].k \in {"case", "default", "end"} => bbs[b].term \notin SwTerm
<1>1. Body /\ bbs \in Seq(Block) /\ Len(bbs) \in Nat /\ DOMAIN bbs = 1..Len(bbs) /\ Len(bbs) >= 3
  BY DEF IInv, Typed
<1>2. Len(items) \in Nat
  BY <1>1, ItemFacts
<1>3. at[ExitBB] = 0 /\ \A b \in DOMAIN bbs : at[b] \in Nat /\ at[b] <= Len(items) + 1 /\ bbs[b] \in Block
  BY <1>1, <1>2 DEF Whole, Placed
<1>4. ASSUME NEW b \in DOMAIN bbs, at[b] > 1, items[at[b] - 1].k \in {"case", "default", "end"}, bbs[b].term \in SwTerm
      PROVE  FALSE
  <2>1. Ended(bbs, at, b)
    BY <1>3, <1>4 DEF Whole, Settled
  <2>2. Chooses(bbs, at, b)
    BY <1>4, <2>1, NotGoto DEF Ended, Leaves, Passes
  <2> QED BY <1>4, <2>2 DEF Chooses
<1> QED BY <1>1, <1>2, <1>3, <1>4

\* From the block that a label or an end: starts, the run is what follows it.
LEMMA RunFromLabel ==
  ASSUME IInv, Sound, NEW at, Whole(at), NEW R, Run(R), NEW k \in 0..2, NEW b \in DOMAIN bbs,
         at[b] > 1, items[at[b] - 1].k \in {"case", "default", "end"}, R[k].b = b, R[k].out \in Seq(Nat)
  PROVE  R[Len(bbs) + 2].out = R[k].out \o From[at[b]]
<1>1. /\ Body /\ bbs \in Seq(Block) /\ Len(bbs) \in Nat /\ Placed(bbs, at) /\ Settled(bbs, at, {})
  BY WholeFacts DEF Whole
<1>2. at[b] > 0
  BY WholeFacts
<1>3. bbs[b].term \notin SwTerm
  BY WholeFacts
<1>4. Rank(at, b) \in Nat /\ Rank(at, b) < Len(bbs)
  BY <1>1, RankFacts
<1>5. k \in 0..(Len(bbs) + 2) /\ k + Len(bbs) <= Len(bbs) + 2
  BY <1>1
<1>6. \A m \in Nat : \A l \in 0..(Len(bbs) + 2), c \in DOMAIN bbs :
           /\ at[c] > 0 /\ R[l].b = c /\ R[l].out \in Seq(Nat)
           /\ bbs[c].term \in SwTerm => R[l].sel = 0
           /\ Rank(at, c) < m /\ l + m <= Len(bbs) + 2
           => R[Len(bbs) + 2].b = ExitBB /\ R[Len(bbs) + 2].out = R[l].out \o From[at[c]]
  BY <1>1, RunFromAbove
<1> QED BY <1>1, <1>2, <1>3, <1>4, <1>5, <1>6

\* From a stub the run goes through the porch.
LEMMA RunFromStub ==
  ASSUME IInv, Sound, NEW at, Whole(at), NEW R, Run(R), NEW b \in DOMAIN bbs, b # ExitBB,
         NEW i \in 1..Len(items), items[i].k = "case", NEW s \in Group(i), NEW q \in DOMAIN bbs, NEW f \in Nat,
         Leads(bbs, at, b, i, s, q, f), R[0].b = b, R[0].out = <<>>
  PROVE  R[Len(bbs) + 2].out = Porch(s, i)
<1>1. /\ Body /\ bbs \in Seq(Block) /\ Len(bbs) \in Nat /\ at[ExitBB] = 0 /\ Len(bbs) >= 3
      /\ Placed(bbs, at) /\ Settled(bbs, at, {}) /\ Len(items) \in Nat
      /\ bbs[q] \in Block
  BY WholeFacts DEF Whole
<1>2. /\ s \in 1..Len(items) /\ Group(i) = {s}
  BY <1>1, GroupOfOne DEF Sound
<1>3. /\ bbs[b].code = <<>> /\ bbs[b].sel \in Nat /\ bbs[b].term = Goto(q)
      /\ at[q] = s + 1 /\ bbs[q].sel = NoSel /\ f \in (s + 1)..i /\ Firsts(s, f)
  BY DEF Leads
<1>4. R[1].b = q /\ R[1].sel = bbs[b].sel /\ R[1].out = <<>>
  <2>1. 0 \in 0..(Len(bbs) + 1) /\ 0 + 1 = 1 /\ R[0].b # ExitBB
    BY <1>1
  <2>2. /\ R[0 + 1].out = R[0].out \o bbs[R[0].b].code
        /\ R[0 + 1].sel = IF bbs[R[0].b].sel = NoSel THEN R[0].sel ELSE bbs[R[0].b].sel
        /\ \A c : bbs[R[0].b].term = Goto(c) => R[0 + 1].b = c
    BY <1>1, <2>1, RunOne
  <2>3. bbs[b].sel # NoSel /\ <<>> \o <<>> = <<>>
    BY <1>3 DEF NoSel
  <2> QED BY <1>3, <2>1, <2>2, <2>3
<1>5. q # ExitBB
  BY <1>1, <1>2, <1>3
<1>6. /\ R[2].out = bbs[q].code /\ R[2].out \in Seq(Nat) /\ R[2].sel = bbs[b].sel
      /\ \A c : bbs[q].term = Goto(c) => R[2].b = c
      /\ bbs[q].term \in SwTerm => R[2].b = Lookup(bbs[q].term.cases, bbs[b].sel, bbs[q].term.dflt)
  <2>1. 1 \in 0..(Len(bbs) + 1) /\ 1 + 1 = 2 /\ R[1].b # ExitBB
    BY <1>1, <1>4, <1>5
  <2>4. PICK k \in 0..(Len(bbs) + 1) : k = 1 /\ k + 1 = 2 /\ R[k].b # ExitBB
    BY <2>1
  <2>5. /\ R[k + 1].out = R[k].out \o bbs[R[k].b].code
        /\ R[k + 1].sel = IF bbs[R[k].b].sel = NoSel THEN R[k].sel ELSE bbs[R[k].b].sel
        /\ \A c : bbs[R[k].b].term = Goto(c) => R[k + 1].b = c
        /\ bbs[R[k].b].term \in SwTerm =>
              R[k + 1].b = Lookup(bbs[R[k].b].term.cases, R[k + 1].sel, bbs[R[k].b].term.dflt)
    <3>1. R[k].b # ExitBB /\ Len(bbs) \in Nat /\ k \in 0..(Len(bbs) + 1)
      BY <1>1, <2>4
    <3> HIDE <2>4
    <3> QED BY ONLY <3>1, Run(R), RunOne
  <2>2. /\ R[2].out = R[1].out \o bbs[R[1].b].code
        /\ R[2].sel = IF bbs[R[1].b].sel = NoSel THEN R[1].sel ELSE bbs[R[1].b].sel
        /\ \A c : bbs[R[1].b].term = Goto(c) => R[2].b = c
        /\ bbs[R[1].b].term \in SwTerm =>
              R[2].b = Lookup(bbs[R[1].b].term.cases, R[2].sel, bbs[R[1].b].term.dflt)
    BY <2>4, <2>5
  <2>3. bbs[q].code \in Seq(Nat) /\ <<>> \o bbs[q].code = bbs[q].code
    BY <1>1, BlockFacts
  <2> QED BY <1>3, <1>4, <2>1, <2>2, <2>3
<1>7. CASE Through(bbs, q, s, f) /\ Picks(bbs, at, b, q, i)
  <2> DEFINE cs == bbs[q].term.cases
             c == cs[bbs[b].sel + 1][2]
  <2>1. Ended(bbs, at, q) /\ bbs[q].term \in SwTerm
    BY <1>1, <1>2, <1>3, <1>7 DEF Settled, Picks
  <2>2. Chooses(bbs, at, q)
    BY <2>1, NotGoto DEF Ended, Leaves, Passes
  <2>3. cs \in Seq(Nat \X Nat) /\ (\A k \in 1..Len(cs) : cs[k][1] = k - 1) /\ bbs[b].sel + 1 \in 1..Len(cs)
        /\ c \in DOMAIN bbs /\ at[c] = i + 1
    <3>1. cs \in Seq(Nat \X Nat)
      BY <2>1, TermFacts
    <3>2. bbs[b].sel + 1 \in DOMAIN cs /\ c \in DOMAIN bbs /\ at[c] = i + 1
      BY <1>7 DEF Picks
    <3>3. \A k \in 1..Len(cs) : cs[k][1] = k - 1
      BY <2>2 DEF Chooses
    <3> HIDE DEF cs, c
    <3> QED BY <3>1, <3>2, <3>3
  <2>4. R[2].b = c
    <3>1. R[2].b = Lookup(cs, bbs[b].sel, bbs[q].term.dflt)
      BY <1>6, <2>1
    <3> HIDE DEF cs
    <3>2. Lookup(cs, bbs[b].sel, bbs[q].term.dflt) = cs[bbs[b].sel + 1][2]
      BY <1>3, <2>3, LookupFacts
    <3> QED BY <3>1, <3>2
  <2> HIDE DEF c, cs
  <2>5. at[c] > 1 /\ at[c] - 1 = i /\ items[at[c] - 1].k \in {"case", "default", "end"}
    BY <2>3
  <2>6. R[Len(bbs) + 2].out = R[2].out \o From[i + 1]
    <3>1. PICK k \in 0..2 : k = 2
      OBVIOUS
    <3>2. R[k].b = c /\ R[k].out \in Seq(Nat) /\ c \in DOMAIN bbs
      BY <1>6, <2>3, <2>4, <3>1
    <3>3. R[Len(bbs) + 2].out = R[k].out \o From[at[c]]
      BY <2>5, <3>2, RunFromLabel
    <3> QED BY <2>3, <3>1, <3>3
  <2>7. R[2].out = StmtsIn(s, f - 1) /\ NoBreak(s, f)
    BY <1>6, <1>7 DEF Through
  <2>8. From[i] = From[i + 1]
    BY <1>1, FromLabel
  <2> QED BY <1>1, <1>3, <2>6, <2>7, <2>8, PorchThrough
<1>8. CASE \E e \in DOMAIN bbs : Jumped(bbs, q, s, f, e) /\ at[e] = EndOf(s) + 1
  <2>1. PICK e \in DOMAIN bbs : Jumped(bbs, q, s, f, e) /\ at[e] = EndOf(s) + 1
    BY <1>8
  <2>2. PICK j \in (s + 1)..(f - 1) :
          items[j].k = "break" /\ NoBreak(s, j) /\ bbs[q].code = StmtsIn(s, j) /\ bbs[q].term = Goto(e)
    BY <2>1 DEF Jumped
  <2>3. R[2].b = e
    BY <1>6, <2>2
  <2>4. EndOf(s) \in 1..Len(items) /\ items[EndOf(s)].k = "end"
    BY <1>1, EndFacts
  <2>5. at[e] > 1 /\ at[e] - 1 = EndOf(s) /\ items[at[e] - 1].k \in {"case", "default", "end"}
    BY <1>1, <2>1, <2>4
  <2>6. R[Len(bbs) + 2].out = R[2].out \o From[EndOf(s) + 1]
    <3>1. PICK k \in 0..2 : k = 2
      OBVIOUS
    <3>2. R[k].b = e /\ R[k].out \in Seq(Nat) /\ e \in DOMAIN bbs
      BY <1>6, <2>1, <2>3, <3>1
    <3>3. R[Len(bbs) + 2].out = R[k].out \o From[at[e]]
      BY <2>5, <3>2, RunFromLabel
    <3> QED BY <2>1, <3>1, <3>3
  <2>7. Porch(s, i) = StmtsIn(s, j) \o From[EndOf(s) + 1]
    <3>1. f \in (s + 1)..i /\ Firsts(s, f) /\ items[j].k = "break" /\ NoBreak(s, j)
      BY <1>3, <2>2
    <3> QED BY <1>1, <3>1, PorchJumped
  <2>8. R[2].out = StmtsIn(s, j)
    BY <1>6, <2>2
  <2> QED BY <2>6, <2>7, <2>8
<1> QED BY <1>7, <1>8 DEF Leads

\* The blocks of a whole body run what the switch means, for every value.
LEMMA ExecIsMeaning ==
  ASSUME IInv, Sound, Distinct, NEW at, Whole(at), NEW v
  PROVE  Exec(v) = Meaning(v)
<1> DEFINE n == Len(items)
           K == Len(bbs) + 2
<1>1. /\ Body /\ bbs \in Seq(Block) /\ Len(bbs) \in Nat /\ at[ExitBB] = 0 /\ Len(bbs) >= 3 /\ n \in Nat
      /\ Serving(bbs, at, swc.cases, n + 1) /\ Default(bbs, at, swc.dflt, n + 1) /\ n + 1 - 1 = n
  BY WholeFacts DEF Whole
<1>2. PICK R : /\ Exec(v) = R[K].out
               /\ R[0] = [b |-> Lookup(swc.cases, v, swc.dflt), sel |-> NoSel, out |-> <<>>]
               /\ \A k \in 1..K : R[k] = IF R[k - 1].b = ExitBB THEN R[k - 1] ELSE RunBlock(R[k - 1])
  BY <1>1, ExecFacts
<1>3. Run(R) /\ R[0].b = Lookup(swc.cases, v, swc.dflt) /\ R[0].out = <<>> /\ <<>> \in Seq(Nat)
  BY <1>2 DEF Run
<1>4. \A i : i \in At("case") <=> i \in 1..n /\ items[i].k = "case"
  BY <1>1, AtFacts
<1>7. \A c \in 1..Len(swc.cases) : \E i \in 1..n : items[i].k = "case" /\ swc.cases[c][1] \in Values(i)
  BY <1>1 DEF Serving
<1>5. ASSUME NEW i \in At("case"), v \in Values(i) PROVE Exec(v) = Meaning(v)
  <2>1. \A j \in At("case") : v \in Values(j) => j = i
    BY <1>5 DEF Distinct
  <2>2. (CHOOSE j \in At("case") : v \in Values(j)) = i
    BY <1>5, <2>1
  <2>3. i \in 1..n /\ items[i].k = "case"
    BY <1>4
  <2>4. \E c \in 1..Len(swc.cases) : swc.cases[c][1] = v
    BY <1>1, <1>5, <2>3 DEF Serving
  <2> DEFINE c == CHOOSE c \in 1..Len(swc.cases) : swc.cases[c][1] = v
             b == swc.cases[c][2]
  <2>5. c \in 1..Len(swc.cases) /\ swc.cases[c][1] = v /\ R[0].b = b
    BY <1>3, <2>4 DEF Lookup
  <2> HIDE DEF c
  <2>6. Serves(bbs, at, b, i)
    <3>1. PICK j \in 1..n : items[j].k = "case" /\ v \in Values(j) /\ Serves(bbs, at, b, j)
      BY <1>1, <2>5 DEF Serving
    <3>2. j = i
      BY <1>4, <2>1, <3>1
    <3> QED BY <3>1, <3>2
  <2> HIDE DEF b
  <2>7. CASE Group(i) = {}
    <3>1. b \in DOMAIN bbs /\ at[b] = i + 1 /\ at[b] > 1 /\ at[b] - 1 = i
      BY <2>3, <2>6, <2>7 DEF Serves
    <3>2. R[K].out = R[0].out \o From[at[b]]
      <4>1. PICK k \in 0..2 : k = 0
        OBVIOUS
      <4>2. R[k].b = b /\ R[k].out \in Seq(Nat) /\ b \in DOMAIN bbs
        BY <1>3, <2>5, <3>1, <4>1
      <4>3. at[b] > 1 /\ items[at[b] - 1].k \in {"case", "default", "end"}
        BY <2>3, <3>1
      <4>4. R[K].out = R[k].out \o From[at[b]]
        BY <1>3, <4>2, <4>3, RunFromLabel
      <4> QED BY <4>1, <4>4
    <3>3. From[i] = From[i + 1] /\ From[i + 1] \in Seq(Nat)
      BY <1>1, <2>3, FromLabel
    <3>4. Meaning(v) = From[i]
      BY <1>5, <2>2, <2>7 DEF Meaning
    <3> QED BY <1>2, <1>3, <3>1, <3>2, <3>3, <3>4
  <2>8. CASE Group(i) # {}
    <3>1. b \in DOMAIN bbs /\ b # ExitBB
      BY <2>6, <2>8 DEF Serves
    <3>2. PICK s \in Group(i), q \in DOMAIN bbs, f \in Nat : Leads(bbs, at, b, i, s, q, f)
      BY <2>6, <2>8 DEF Serves
    <3>3. R[K].out = Porch(s, i)
      BY <1>3, <2>3, <2>5, <3>1, <3>2, RunFromStub
    <3>4. Group(i) = {s}
      BY <1>1, <2>3, GroupOfOne DEF Sound
    <3>5. (CHOOSE t \in Group(i) : TRUE) = s
      BY <3>4
    <3>6. Meaning(v) = Porch(s, i)
      BY <1>5, <2>2, <2>8, <3>5 DEF Meaning
    <3> QED BY <1>2, <3>3, <3>6
  <2> QED BY <2>7, <2>8
<1>6. CASE \A i \in At("case") : v \notin Values(i)
  <2>1. \A c \in 1..Len(swc.cases) : swc.cases[c][1] # v
    <3> SUFFICES ASSUME NEW c \in 1..Len(swc.cases), swc.cases[c][1] = v PROVE FALSE
      OBVIOUS
    <3>1. PICK i \in 1..n : items[i].k = "case" /\ swc.cases[c][1] \in Values(i)
      BY <1>7
    <3> QED BY <1>4, <1>6, <3>1
  <2>2. R[0].b = swc.dflt
    BY <1>3, <2>1 DEF Lookup
  <2>3. CASE swc.dflt = ExitBB /\ \A q \in 1..n : items[q].k # "default"
    <3>1. At("default") = {}
      BY <1>1, <2>3, AtFacts
    <3>2. Meaning(v) = <<>>
      BY <1>6, <3>1 DEF Meaning
    <3>3. R[K] = R[0]
      BY <1>1, <1>3, <2>2, <2>3, OutStays
    <3> QED BY <1>2, <1>3, <3>2, <3>3
  <2>4. CASE /\ swc.dflt \in DOMAIN bbs /\ at[swc.dflt] \in 2..(n + 1) /\ items[at[swc.dflt] - 1].k = "default"
             /\ \A q \in at[swc.dflt]..n : items[q].k # "default"
    <3> DEFINE d == at[swc.dflt] - 1
    <3>1. d \in 1..n /\ at[swc.dflt] = d + 1 /\ items[d].k = "default"
      BY <1>1, <2>4
    <3>2. d \in At("default") /\ \A e \in At("default") : e <= d
      <4>1. d \in At("default") /\ At("default") \subseteq Nat /\ d \in Nat
        BY <1>1, <3>1, AtFacts
      <4>2. ASSUME NEW e \in At("default"), ~(e <= d) PROVE FALSE
        <5>1. e \in 1..n /\ items[e].k = "default"
          BY <1>1, AtFacts
        <5>2. e \in at[swc.dflt]..n
          BY <1>1, <3>1, <4>2, <5>1
        <5> QED BY <2>4, <5>1, <5>2
      <4> QED BY <4>1, <4>2
    <3>3. (CHOOSE x \in At("default") : \A e \in At("default") : e <= x) = d
      <4>1. At("default") \subseteq Nat
        BY <1>1, AtFacts
      <4> HIDE DEF d
      <4> QED BY <3>2, <4>1
    <3> HIDE DEF d
    <3>4. Meaning(v) = From[d]
      BY <1>6, <3>2, <3>3 DEF Meaning
    <3>5. swc.dflt \in DOMAIN bbs /\ at[swc.dflt] > 1 /\ items[at[swc.dflt] - 1].k \in {"case", "default", "end"}
      BY <2>4
    <3>6. R[K].out = R[0].out \o From[at[swc.dflt]]
      <4>1. PICK k \in 0..2 : k = 0
        OBVIOUS
      <4>2. PICK b \in DOMAIN bbs : b = swc.dflt
        BY <3>5
      <4>3. R[k].b = b /\ R[k].out \in Seq(Nat)
        BY <1>3, <2>2, <4>1, <4>2
      <4>4. at[b] > 1 /\ items[at[b] - 1].k \in {"case", "default", "end"}
        BY <3>5, <4>2
      <4>5. R[K].out = R[k].out \o From[at[b]]
        BY <1>3, <4>3, <4>4, RunFromLabel
      <4> QED BY <4>1, <4>2, <4>5
    <3>7. From[d] = From[d + 1] /\ From[d + 1] \in Seq(Nat)
      BY <1>1, <3>1, FromLabel
    <3> QED BY <1>2, <1>3, <3>1, <3>4, <3>6, <3>7
  <2> QED BY <1>1, <2>3, <2>4 DEF Default
<1> QED BY <1>5, <1>6

-----------------------------------------------------------------------------
(* The blocks while the body is read *)

\* The group that is open: its porch, and from its first case on its dispatch.
Closing(bs, at, w, s) ==
  /\ w.groupStartBB \in DOMAIN bs /\ at[w.groupStartBB] = s + 1 /\ bs[w.groupStartBB].sel = NoSel
  /\ at[w.groupEndBB] = EndOf(s) + 1
Unopened(bs, at, c, p, w, s) ==
  /\ w.groupSw = NoBlock /\ w.nextGroupId = 0
  /\ at[c] > 1 /\ items[at[c] - 1].k \in {"start", "break"}
  /\ \A r \in (s + 1)..(p - 1) : items[r].k # "case"
  /\ \/ c = w.groupStartBB /\ Through(bs, w.groupStartBB, s, p)
     \/ Jumped(bs, w.groupStartBB, s, p, w.groupEndBB)
Opened(bs, w, s, f) ==
  /\ Firsts(s, f) /\ w.groupSw # NoBlock /\ w.groupSw \in DOMAIN bs
  /\ bs[w.groupSw].term \in SwTerm /\ Len(bs[w.groupSw].term.cases) = w.nextGroupId
  /\ \/ w.groupSw = w.groupStartBB /\ Through(bs, w.groupStartBB, s, f)
     \/ Jumped(bs, w.groupStartBB, s, f, w.groupEndBB)
Grouped(bs, at, c, p, w, s) ==
  Closing(bs, at, w, s) /\ (Unopened(bs, at, c, p, w, s) \/ \E f \in (s + 1)..(p - 1) : Opened(bs, w, s, f))

\* The blocks before the item p, which is generated at the end of c.
Open(c, w) == IF w.inGroup THEN {c, w.groupEndBB} ELSE {c}
Reached(bs, at, c, p) == at[c] \in 1..p /\ bs[c].sel = NoSel /\ From[at[c]] = bs[c].code \o From[p]
Corr(bs, at, c, p, w) ==
  /\ Placed(bs, at) /\ Settled(bs, at, Open(c, w))
  /\ Serving(bs, at, w.cases, p) /\ Default(bs, at, w.dflt, p) /\ Reached(bs, at, c, p)
  /\ w.inGroup => \A s \in Group(p) : Grouped(bs, at, c, p, w, s)

\* The simulation: the blocks made so far have places in the body.
Sim ==
  ~hadError_ /\ Sound /\ Distinct =>
    \E at : IF phase = "done" THEN Whole(at) ELSE Corr(bbs, at, cur, pos, swc)

\* The places do not change as the body is read.
LEMMA CorrFixed ==
  ASSUME items' = items, NEW CONSTANT bs, NEW CONSTANT at, NEW CONSTANT c, NEW CONSTANT p, NEW CONSTANT w
  PROVE  Corr(bs, at, c, p, w)' <=> Corr(bs, at, c, p, w)
<1>1. /\ Placed(bs, at)' <=> Placed(bs, at)
      /\ Settled(bs, at, Open(c, w))' <=> Settled(bs, at, Open(c, w))
  BY DEF Placed, Settled, Open, Ended, Leaves, Passes, Chooses, Lands, From, Group, EndOf, At
<1>2. Serving(bs, at, w.cases, p)' <=> Serving(bs, at, w.cases, p)
  BY DEF Serving, Serves, Leads, Picks, Firsts, NoBreak, Through, Jumped, StmtsIn, Values, HiOf, Group, EndOf, At, Wrap, MinI
<1>3. Default(bs, at, w.dflt, p)' <=> Default(bs, at, w.dflt, p)
  BY DEF Default
<1>4. Reached(bs, at, c, p)' <=> Reached(bs, at, c, p)
  BY DEF Reached, From, Group, EndOf, At
<1>5. \A s : Grouped(bs, at, c, p, w, s)' <=> Grouped(bs, at, c, p, w, s)
  BY DEF Grouped, Closing, Unopened, Opened, Firsts, NoBreak, Through, Jumped, StmtsIn, EndOf, At
<1>6. Group(p)' = Group(p)
  BY DEF Group, At
<1> QED BY <1>1, <1>2, <1>3, <1>4, <1>5, <1>6 DEF Corr

\* Whether the cases are distinct does not change as the body is read.
LEMMA DistinctFixed ==
  ASSUME items' = items PROVE Distinct' <=> Distinct
BY DEF Distinct, At, Values, HiOf, Wrap, MinI

\* A block that stays as it is, except that its dispatch may get more cases.
Kept(x, y) ==
  \/ y = x
  \/ /\ x.term \in SwTerm /\ y.term \in SwTerm /\ y.code = x.code /\ y.sel = x.sel
     /\ y.term.dflt = x.term.dflt /\ Len(y.term.cases) >= Len(x.term.cases)
     /\ \A k \in 1..Len(x.term.cases) : y.term.cases[k] = x.term.cases[k]
     /\ (\A k \in 1..Len(x.term.cases) : x.term.cases[k][1] = k - 1) =>
          \A k \in 1..Len(y.term.cases) : y.term.cases[k][1] = k - 1

\* Blocks and places after a step that works at the block c.
Extends(bs, at, bs2, at2, c) ==
  /\ DOMAIN bs \subseteq DOMAIN bs2 /\ \A b \in DOMAIN bs : at2[b] = at[b]
  /\ \A b \in DOMAIN bs : b # c => Kept(bs[b], bs2[b])

\* What a kept block keeps.
LEMMA KeptFacts ==
  ASSUME NEW x, NEW y, Kept(x, y)
  PROVE  /\ y.code = x.code /\ y.sel = x.sel /\ (x.term \in SwTerm => y.term \in SwTerm)
         /\ x.term \in SwTerm => x.term.cases \in Seq(Nat \X Nat) /\ y.term.cases \in Seq(Nat \X Nat)
         /\ x.term \in SwTerm => \A k \in 1..Len(x.term.cases) : k \in 1..Len(y.term.cases) /\ y.term.cases[k] = x.term.cases[k]
         /\ \A d : x.term = Goto(d) => y = x
<1>1. x.term \in SwTerm => x.term.cases \in Seq(Nat \X Nat) /\ Len(x.term.cases) \in Nat
  BY TermFacts
<1>2. y.term \in SwTerm => y.term.cases \in Seq(Nat \X Nat) /\ Len(y.term.cases) \in Nat
  BY TermFacts
<1>3. \A d : x.term = Goto(d) => x.term \notin SwTerm
  BY NotGoto
<1>4. CASE y = x
  BY <1>1, <1>4
<1>5. CASE y # x
  <2>1. /\ x.term \in SwTerm /\ y.term \in SwTerm /\ y.code = x.code /\ y.sel = x.sel
        /\ Len(y.term.cases) >= Len(x.term.cases)
        /\ \A k \in 1..Len(x.term.cases) : y.term.cases[k] = x.term.cases[k]
    BY <1>5 DEF Kept
  <2> QED BY <1>1, <1>2, <1>3, <2>1
<1> QED BY <1>4, <1>5

\* A block that was ended stays so.
LEMMA EndedKept ==
  ASSUME NEW bs, NEW at, NEW bs2, NEW at2, NEW c, Extends(bs, at, bs2, at2, c),
         NEW b \in DOMAIN bs, b # c, Ended(bs, at, b)
  PROVE  Ended(bs2, at2, b)
<1>1. /\ Kept(bs[b], bs2[b]) /\ at2[b] = at[b] /\ DOMAIN bs \subseteq DOMAIN bs2
      /\ \A d \in DOMAIN bs : at2[d] = at[d]
  BY DEF Extends
<1>2. CASE Leaves(bs, at, b)
  <2>1. bs2[b] = bs[b]
    BY <1>1, <1>2, KeptFacts DEF Leaves
  <2> QED BY <1>1, <1>2, <2>1 DEF Ended, Leaves
<1>3. CASE \E d \in DOMAIN bs : Passes(bs, at, b, d)
  <2>1. PICK d \in DOMAIN bs : Passes(bs, at, b, d)
    BY <1>3
  <2>2. bs2[b] = bs[b]
    BY <1>1, <2>1, KeptFacts DEF Passes
  <2>3. Passes(bs2, at2, b, d)
    BY <1>1, <2>1, <2>2 DEF Passes, Lands
  <2> QED BY <1>1, <2>3 DEF Ended
<1>4. CASE Chooses(bs, at, b)
  <2>1. CASE bs2[b] = bs[b]
    <3>1. Chooses(bs2, at2, b)
      BY <1>1, <1>4, <2>1 DEF Chooses
    <3> QED BY <3>1 DEF Ended
  <2>2. CASE bs2[b] # bs[b]
    <3> DEFINE x == bs[b]
               y == bs2[b]
    <3>1. /\ x.term \in SwTerm /\ y.term \in SwTerm /\ y.code = x.code /\ y.sel = x.sel
          /\ y.term.dflt = x.term.dflt /\ Len(y.term.cases) >= Len(x.term.cases)
          /\ \A k \in 1..Len(x.term.cases) : y.term.cases[k] = x.term.cases[k]
          /\ (\A k \in 1..Len(x.term.cases) : x.term.cases[k][1] = k - 1) =>
               \A k \in 1..Len(y.term.cases) : y.term.cases[k][1] = k - 1
      BY <1>1, <2>2 DEF Kept
    <3>2. /\ x.sel = NoSel
          /\ at[b] > 1 /\ items[at[b] - 1].k \in {"start", "break"}
          /\ Len(x.term.cases) > 0 /\ \A k \in 1..Len(x.term.cases) : x.term.cases[k][1] = k - 1
          /\ x.term.cases[1][2] = x.term.dflt /\ x.term.dflt \in DOMAIN bs /\ at[x.term.dflt] > at[b]
          /\ items[at[x.term.dflt] - 1].k = "case" /\ From[at[b]] = x.code \o From[at[x.term.dflt]]
      BY <1>4 DEF Chooses
    <3>3. Len(x.term.cases) \in Nat /\ Len(y.term.cases) \in Nat
      <4>1. \A t \in SwTerm : Len(t.cases) \in Nat
        BY TermFacts
      <4> QED BY <3>1, <4>1
    <3>4. 1 \in 1..Len(x.term.cases) /\ Len(y.term.cases) > 0
      BY <3>1, <3>2, <3>3
    <3>5. y.term.cases[1] = x.term.cases[1] /\ \A k \in 1..Len(y.term.cases) : y.term.cases[k][1] = k - 1
      BY <3>1, <3>2, <3>4
    <3>6. at2[y.term.dflt] = at[x.term.dflt] /\ y.term.dflt \in DOMAIN bs2
      BY <1>1, <3>1, <3>2
    <3>7. Chooses(bs2, at2, b)
      BY <1>1, <3>1, <3>2, <3>4, <3>5, <3>6 DEF Chooses
    <3> QED BY <3>7 DEF Ended
  <2> QED BY <2>1, <2>2
<1> QED BY <1>2, <1>3, <1>4 DEF Ended

\* A porch that has jumped still has.
LEMMA JumpedKept ==
  ASSUME NEW x, NEW y, NEW bs, NEW bs2, NEW q, NEW s, NEW m, NEW e, Kept(bs[q], bs2[q]), Jumped(bs, q, s, m, e)
  PROVE  Jumped(bs2, q, s, m, e)
<1>1. PICK j \in (s + 1)..(m - 1) :
        items[j].k = "break" /\ NoBreak(s, j) /\ bs[q].code = StmtsIn(s, j) /\ bs[q].term = Goto(e)
  BY DEF Jumped
<1>2. bs2[q] = bs[q]
  BY <1>1, KeptFacts
<1> QED BY <1>1, <1>2 DEF Jumped

\* A stub still leads to its case.
LEMMA LeadsKept ==
  ASSUME NEW bs, NEW at, NEW bs2, NEW at2, NEW c, Extends(bs, at, bs2, at2, c),
         NEW b \in DOMAIN bs, NEW q \in DOMAIN bs, b # c, q # c, NEW i, NEW s, NEW f, Leads(bs, at, b, i, s, q, f)
  PROVE  Leads(bs2, at2, b, i, s, q, f)
<1>1. /\ Kept(bs[b], bs2[b]) /\ Kept(bs[q], bs2[q]) /\ DOMAIN bs \subseteq DOMAIN bs2
      /\ \A d \in DOMAIN bs : at2[d] = at[d]
  BY DEF Extends
<1>2. bs2[b] = bs[b]
  BY <1>1, KeptFacts DEF Leads
<1>3. bs2[q].code = bs[q].code /\ bs2[q].sel = bs[q].sel /\ at2[q] = at[q]
  BY <1>1, KeptFacts
<1>4. ASSUME Through(bs, q, s, f) /\ Picks(bs, at, b, q, i)
      PROVE  Through(bs2, q, s, f) /\ Picks(bs2, at2, b, q, i)
  <2>1. Through(bs2, q, s, f)
    BY <1>3, <1>4 DEF Through
  <2> DEFINE k == bs[b].sel + 1
             cs == bs[q].term.cases
             ds == bs2[q].term.cases
  <2>2. /\ bs[q].term \in SwTerm /\ k \in DOMAIN cs /\ cs[k][2] \in DOMAIN bs /\ at[cs[k][2]] = i + 1
    BY <1>4 DEF Picks
  <2>3. /\ bs2[q].term \in SwTerm /\ cs \in Seq(Nat \X Nat) /\ ds \in Seq(Nat \X Nat)
        /\ \A l \in 1..Len(cs) : l \in 1..Len(ds) /\ ds[l] = cs[l]
    BY <1>1, <2>2, KeptFacts
  <2>4. k \in DOMAIN ds /\ ds[k] = cs[k]
    <3>1. DOMAIN cs = 1..Len(cs) /\ DOMAIN ds = 1..Len(ds)
      BY <2>3
    <3> HIDE DEF k, cs, ds
    <3>2. k \in 1..Len(cs)
      BY <2>2, <3>1
    <3> QED BY <2>3, <3>1, <3>2
  <2>5. ds[k][2] \in DOMAIN bs2 /\ at2[ds[k][2]] = i + 1
    BY <1>1, <2>2, <2>4
  <2>6. Picks(bs2, at2, b, q, i)
    BY <1>2, <2>3, <2>4, <2>5 DEF Picks
  <2> QED BY <2>1, <2>6
<1>5. ASSUME NEW e \in DOMAIN bs, Jumped(bs, q, s, f, e), at[e] = EndOf(s) + 1
      PROVE  e \in DOMAIN bs2 /\ Jumped(bs2, q, s, f, e) /\ at2[e] = EndOf(s) + 1
  BY <1>1, <1>5, JumpedKept
<1> QED BY <1>2, <1>3, <1>4, <1>5 DEF Leads

\* A value still leads to its case: its blocks are not the open one.
LEMMA ServesKept ==
  ASSUME NEW bs, NEW at, NEW bs2, NEW at2, NEW c, Extends(bs, at, bs2, at2, c), bs[c].term = None, at[c] > 0,
         NEW b, NEW i, Serves(bs, at, b, i)
  PROVE  Serves(bs2, at2, b, i)
<1>1. b \in DOMAIN bs /\ b \in DOMAIN bs2 /\ at2[b] = at[b] /\ DOMAIN bs \subseteq DOMAIN bs2
  BY DEF Extends, Serves
<1>2. CASE Group(i) = {}
  BY <1>1, <1>2 DEF Serves
<1>3. CASE Group(i) # {}
  <2>1. at[b] = 0 /\ b # ExitBB
    BY <1>3 DEF Serves
  <2>2. PICK s \in Group(i), q \in DOMAIN bs, f \in Nat : Leads(bs, at, b, i, s, q, f)
    BY <1>3 DEF Serves
  <2>3. b # c
    BY <2>1
  <2>4. q # c
    <3>1. bs[q].term \in SwTerm \/ \E e : bs[q].term = Goto(e)
      BY <2>2 DEF Leads, Picks, Jumped
    <3>2. None \notin SwTerm /\ \A e : None # Goto(e)
      BY TermFacts DEF None, Goto
    <3> QED BY <3>1, <3>2
  <2>5. Leads(bs2, at2, b, i, s, q, f)
    BY <1>1, <2>2, <2>3, <2>4, LeadsKept
  <2> QED BY <1>1, <1>3, <2>1, <2>5 DEF Serves
<1> QED BY <1>2, <1>3

\* The blocks before a step, and what a step adds to them.
Ready(bs, c, w) ==
  /\ bs \in Seq(Block) /\ Len(bs) >= 3 /\ c \in DOMAIN bs /\ c > 2 /\ bs[c].term = None /\ w \in SwitchCtx
  /\ w.inGroup =>
       /\ w.groupEndBB \in DOMAIN bs /\ w.groupEndBB # c /\ w.groupEndBB > 2 /\ bs[w.groupEndBB] = EmptyBlock
       /\ w.groupSw # NoBlock => w.groupSw \in DOMAIN bs /\ bs[w.groupSw].term \in SwTerm
More(bs, bs2, k, X) ==
  /\ bs2 \in Seq(Block) /\ Len(bs2) = Len(bs) + k /\ DOMAIN bs2 = 1..(Len(bs) + k)
  /\ \A b \in DOMAIN bs : b \notin X => bs2[b] = bs[b]
Places(bs, at, bs2, at2) ==
  at2 \in [DOMAIN bs2 -> 0..(Len(items) + 1)] /\ \A b \in DOMAIN bs : at2[b] = at[b]

\* A step that adds blocks and works on the insert point only extends the blocks.
LEMMA MoreExtends ==
  ASSUME NEW bs, NEW c, NEW w, Ready(bs, c, w), NEW at, NEW bs2, NEW at2, NEW k \in Nat, More(bs, bs2, k, {c}),
         Places(bs, at, bs2, at2)
  PROVE  Extends(bs, at, bs2, at2, c)
BY DEF Ready, More, Places, Extends, Kept

\* The blocks settle: the one that is left is ended, and the new ones wait or are stubs.
LEMMA SettledNext ==
  ASSUME NEW bs, NEW at, NEW c, NEW p, NEW w, Ready(bs, c, w), Corr(bs, at, c, p, w),
         NEW bs2, NEW at2, Extends(bs, at, bs2, at2, c), Places(bs, at, bs2, at2),
         NEW X,
         \A b \in DOMAIN bs2 : b \notin DOMAIN bs => b \in X \/ at2[b] = 0,
         c \in X \/ Ended(bs2, at2, c),
         \A b \in Open(c, w) : b = c \/ b \in X
  PROVE  Placed(bs2, at2) /\ Settled(bs2, at2, X)
<1>1. Placed(bs, at) /\ Settled(bs, at, Open(c, w)) /\ 1 \in DOMAIN bs /\ ExitBB \in DOMAIN bs
  BY DEF Corr, Ready, ExitBB
<1>2. Placed(bs2, at2)
  BY <1>1 DEF Placed, Places
<1>3. ASSUME NEW b \in DOMAIN bs2, at2[b] > 0, b \notin X PROVE Ended(bs2, at2, b)
  <2>1. CASE b \notin DOMAIN bs
    <3>1. at2[b] = 0
      BY <1>3, <2>1
    <3> QED BY <1>3, <3>1
  <2>2. CASE b = c
    BY <1>3, <2>2
  <2>3. CASE b \in DOMAIN bs /\ b # c
    <3>1. b \notin Open(c, w) /\ at[b] > 0
      BY <1>3, <2>3 DEF Places
    <3>2. Ended(bs, at, b)
      BY <1>1, <2>3, <3>1 DEF Settled
    <3> QED BY <2>3, <3>2, EndedKept
  <2> QED BY <2>1, <2>2, <2>3
<1> QED BY <1>2, <1>3 DEF Settled

\* The end of the body changes nothing for the values.
LEMMA ServingStays ==
  ASSUME NEW bs, NEW at, NEW c, NEW p, NEW w, Ready(bs, c, w), Corr(bs, at, c, p, w),
         NEW bs2, NEW at2, Extends(bs, at, bs2, at2, c)
  PROVE  Serving(bs2, at2, w.cases, p) /\ Default(bs2, at2, w.dflt, p)
<1>1. Serving(bs, at, w.cases, p) /\ Default(bs, at, w.dflt, p) /\ at[c] > 0 /\ bs[c].term = None
  BY DEF Corr, Reached, Ready
<1>3. \A b, i : Serves(bs, at, b, i) => Serves(bs2, at2, b, i)
  BY <1>1, ServesKept
<1>4. Serving(bs2, at2, w.cases, p)
  BY <1>1, <1>3 DEF Serving
<1>5. Default(bs2, at2, w.dflt, p)
  BY <1>1 DEF Default, Extends
<1> QED BY <1>4, <1>5

\* An item that is no case changes nothing for the values.
LEMMA ServingNext ==
  ASSUME NEW bs, NEW at, NEW c, NEW p \in 1..Len(items), NEW w, Ready(bs, c, w), Corr(bs, at, c, p, w),
         NEW bs2, NEW at2, Extends(bs, at, bs2, at2, c), items[p].k # "case"
  PROVE  Serving(bs2, at2, w.cases, p + 1)
<1>1. Serving(bs, at, w.cases, p) /\ at[c] > 0 /\ bs[c].term = None
  BY DEF Corr, Reached, Ready
<1>2. p \in Nat /\ \A i \in 1..(p + 1 - 1) : i \in 1..(p - 1) \/ i = p
  OBVIOUS
<1>3. \A b, i : Serves(bs, at, b, i) => Serves(bs2, at2, b, i)
  BY <1>1, ServesKept
<1>4. ASSUME NEW d \in 1..Len(w.cases)
      PROVE  \E i \in 1..(p + 1 - 1) :
                items[i].k = "case" /\ w.cases[d][1] \in Values(i) /\ Serves(bs2, at2, w.cases[d][2], i)
  <2>1. PICK i \in 1..(p - 1) : items[i].k = "case" /\ w.cases[d][1] \in Values(i) /\ Serves(bs, at, w.cases[d][2], i)
    BY <1>1 DEF Serving
  <2>2. Serves(bs2, at2, w.cases[d][2], i) /\ i \in 1..(p + 1 - 1)
    BY <1>2, <1>3, <2>1
  <2> QED BY <2>1, <2>2
<1>5. \A i \in 1..(p + 1 - 1) : items[i].k = "case" => \A v \in Values(i) : \E d \in 1..Len(w.cases) : w.cases[d][1] = v
  BY <1>1, <1>2 DEF Serving
<1>6. \A d, e \in 1..Len(w.cases) : w.cases[d][1] = w.cases[e][1] => d = e
  BY <1>1 DEF Serving
<1> QED BY <1>4, <1>5, <1>6 DEF Serving

\* The positions of the values of a range.
LEMMA EntriesSpan ==
  \A n \in Nat, l \in Nat, lo \in Int, hi \in Int : lo <= hi /\ l = n + (hi - lo + 1) =>
    /\ \A d \in 1..n : d \in 1..l
    /\ \A d \in 1..l : d \in 1..n \/ d \in (n + 1)..l
    /\ \A d \in (n + 1)..l : lo + (d - n) - 1 \in lo..hi
    /\ \A v \in lo..hi : \E d \in (n + 1)..l : lo + (d - n) - 1 = v
<1> SUFFICES ASSUME NEW n \in Nat, NEW l \in Nat, NEW lo \in Int, NEW hi \in Int, lo <= hi, l = n + (hi - lo + 1)
             PROVE /\ \A d \in 1..n : d \in 1..l
                   /\ \A d \in 1..l : d \in 1..n \/ d \in (n + 1)..l
                   /\ \A d \in (n + 1)..l : lo + (d - n) - 1 \in lo..hi
                   /\ \A v \in lo..hi : \E d \in (n + 1)..l : lo + (d - n) - 1 = v
  OBVIOUS
<1>1. ASSUME NEW v \in lo..hi PROVE \E d \in (n + 1)..l : lo + (d - n) - 1 = v
  <2>1. n + (v - lo) + 1 \in (n + 1)..l /\ lo + ((n + (v - lo) + 1) - n) - 1 = v
    OBVIOUS
  <2> QED BY <2>1
<1> QED BY <1>1

\* The values of a case, after the ones there are.
Counted(new, cs, lo, to, hi) ==
  /\ new \in Seq(Int \X Nat) /\ Len(cs) \in Nat /\ Len(new) \in Nat
  /\ \A d \in 1..Len(cs) : new[d] = cs[d] /\ d \in 1..Len(new)
  /\ \A d \in 1..Len(new) : d \in 1..Len(cs) \/ d \in (Len(cs) + 1)..Len(new)
  /\ \A d \in (Len(cs) + 1)..Len(new) : new[d][1] = lo + (d - Len(cs)) - 1 /\ new[d][1] \in lo..hi /\ new[d][2] = to
  /\ \A v \in lo..hi : \E d \in 1..Len(new) : new[d][1] = v

\* The values of a case are entered once each.
LEMMA EntriesMore ==
  ASSUME NEW cs \in Seq(Int \X Nat), NEW lo \in Int, NEW hi \in Int, lo <= hi, NEW to \in Nat,
         NEW new, new = cs \o Entries(lo, hi, to)
  PROVE  Counted(new, cs, lo, to, hi)
<1> DEFINE e == Entries(lo, hi, to)
<1>1. e \in Seq(Int \X Nat) /\ Len(e) = hi - lo + 1
  <2>1. hi - lo + 1 \in Nat
    OBVIOUS
  <2>2. \A v \in 1..(hi - lo + 1) : <<lo + v - 1, to>> \in Int \X Nat
    OBVIOUS
  <2> QED BY <2>1, <2>2 DEF Entries
<1>2. \A v \in 1..(hi - lo + 1) : e[v][1] = lo + v - 1 /\ e[v][2] = to
  BY DEF Entries
<1> HIDE DEF e
<1>3. new = cs \o e
  BY DEF e
<1>4. /\ new \in Seq(Int \X Nat) /\ Len(new) = Len(cs) + Len(e) /\ Len(cs) \in Nat
      /\ \A c \in 1..Len(cs) : new[c] = cs[c]
      /\ \A c \in (Len(cs) + 1)..(Len(cs) + Len(e)) : new[c] = e[c - Len(cs)]
  <2>1. cs \in Seq(Int \X Nat) /\ e \in Seq(Int \X Nat)
    BY <1>1
  <2> QED BY <1>3, <2>1, JoinFacts
<1>5. PICK n \in Nat, l \in Nat : n = Len(cs) /\ l = Len(new) /\ l = n + (hi - lo + 1)
  BY <1>1, <1>4
<1>6. /\ \A d \in 1..n : d \in 1..l
      /\ \A d \in 1..l : d \in 1..n \/ d \in (n + 1)..l
      /\ \A d \in (n + 1)..l : lo + (d - n) - 1 \in lo..hi
      /\ \A v \in lo..hi : \E d \in (n + 1)..l : lo + (d - n) - 1 = v
  BY <1>5, EntriesSpan
<1>7. ASSUME NEW c \in (n + 1)..l
      PROVE  new[c][1] = lo + (c - n) - 1 /\ new[c][2] = to
  <2>1. c \in (Len(cs) + 1)..(Len(cs) + Len(e)) /\ c - n \in 1..(hi - lo + 1) /\ lo + (c - n) - 1 \in Int
    BY <1>1, <1>4, <1>5
  <2>2. new[c] = e[c - n]
    BY <1>4, <1>5, <2>1
  <2> QED BY <1>2, <2>1, <2>2
<1>8. /\ \A d \in 1..n : new[d] = cs[d] /\ d \in 1..l
      /\ \A d \in (n + 1)..l : new[d][1] = lo + (d - n) - 1 /\ new[d][1] \in lo..hi /\ new[d][2] = to
  BY <1>4, <1>5, <1>6, <1>7
<1>9. \A d \in (n + 1)..l : d \in 1..l
  BY <1>5
<1>10. ASSUME NEW v \in lo..hi PROVE \E d \in 1..l : new[d][1] = v
  <2>1. PICK d \in (n + 1)..l : lo + (d - n) - 1 = v
    BY <1>6
  <2> QED BY <1>8, <1>9, <2>1
<1>11. new \in Seq(Int \X Nat) /\ Len(cs) = n /\ Len(new) = l
  BY <1>4, <1>5
<1> QED BY <1>6, <1>8, <1>10, <1>11 DEF Counted

\* A case adds its values.
LEMMA ServingCase ==
  ASSUME Body, Sound, Distinct, NEW bs, NEW at, NEW c, NEW p \in 1..Len(items), NEW w, Ready(bs, c, w), Corr(bs, at, c, p, w),
         NEW bs2, NEW at2, Extends(bs, at, bs2, at2, c), items[p].k = "case",
         NEW to \in Nat, Serves(bs2, at2, to, p), NEW lo \in Int, NEW hi \in Int, lo <= hi, lo = LoOf(p), hi = HiOf[p],
         NEW new, new = w.cases \o Entries(lo, hi, to)
  PROVE  Serving(bs2, at2, new, p + 1)
<1> DEFINE cs == w.cases
<1>1. Serving(bs, at, cs, p) /\ at[c] > 0 /\ bs[c].term = None /\ cs \in Seq(Int \X Nat)
  <2>1. Serving(bs, at, cs, p) /\ at[c] > 0 /\ bs[c].term = None /\ w \in SwitchCtx
    BY DEF Corr, Reached, Ready
  <2>2. w.cases \in Seq(Int \X Nat)
    BY <2>1 DEF SwitchCtx
  <2> QED BY <2>1, <2>2
<1>2. p \in Nat /\ p \in 1..(p + 1 - 1) /\ \A i \in 1..(p + 1 - 1) : i \in 1..(p - 1) \/ i = p
  OBVIOUS
<1>13. \A i \in 1..(p - 1) : i \in 1..(p + 1 - 1) /\ i \in 1..Len(items) /\ i # p
  BY ItemFacts
<1>3. \A b, i : Serves(bs, at, b, i) => Serves(bs2, at2, b, i)
  BY <1>1, ServesKept
<1>4. Values(p) = lo..hi
  BY ValuesFacts
<1> HIDE DEF cs
<1>14. Counted(new, cs, lo, to, hi)
  <2>1. new = cs \o Entries(lo, hi, to)
    BY DEF cs
  <2> QED BY <1>1, <2>1, EntriesMore
<1>5. /\ Len(cs) \in Nat
      /\ \A d \in 1..Len(cs) : new[d] = cs[d] /\ d \in 1..Len(new)
      /\ \A d \in 1..Len(new) : d \in 1..Len(cs) \/ d \in (Len(cs) + 1)..Len(new)
      /\ \A d \in (Len(cs) + 1)..Len(new) : new[d][1] = lo + (d - Len(cs)) - 1 /\ new[d][1] \in lo..hi /\ new[d][2] = to
      /\ \A v \in lo..hi : \E d \in 1..Len(new) : new[d][1] = v
  BY <1>14 DEF Counted
<1>7. \A d \in (Len(cs) + 1)..Len(new) : new[d][1] \in Values(p) /\ new[d][2] = to
  BY <1>4, <1>5
<1>8. \A d \in 1..Len(cs) : \E i \in 1..(p - 1) :
        items[i].k = "case" /\ cs[d][1] \in Values(i) /\ Serves(bs, at, cs[d][2], i)
  BY <1>1 DEF Serving
<1>9. ASSUME NEW d \in 1..Len(new)
      PROVE  \E i \in 1..(p + 1 - 1) : items[i].k = "case" /\ new[d][1] \in Values(i) /\ Serves(bs2, at2, new[d][2], i)
  <2>1. CASE d \in 1..Len(cs)
    <3>1. PICK i \in 1..(p - 1) : items[i].k = "case" /\ cs[d][1] \in Values(i) /\ Serves(bs, at, cs[d][2], i)
      BY <1>8, <2>1
    <3>2. new[d] = cs[d] /\ i \in 1..(p + 1 - 1)
      BY <1>5, <1>13, <2>1
    <3> QED BY <1>3, <3>1, <3>2
  <2>2. CASE d \in (Len(cs) + 1)..Len(new)
    BY <1>2, <1>7, <2>2
  <2> QED BY <1>5, <2>1, <2>2
<1>10. ASSUME NEW d \in 1..Len(new), NEW e \in 1..Len(new), new[d][1] = new[e][1] PROVE d = e
  <2>1. CASE d \in 1..Len(cs) /\ e \in 1..Len(cs)
    <3>1. cs[d][1] = cs[e][1]
      BY <1>5, <1>10, <2>1
    <3> QED BY <1>1, <2>1, <3>1 DEF Serving
  <2>2. CASE d \in (Len(cs) + 1)..Len(new) /\ e \in (Len(cs) + 1)..Len(new)
    <3>3. new[d][1] = lo + (d - Len(cs)) - 1 /\ new[e][1] = lo + (e - Len(cs)) - 1
      BY <1>5, <2>2
    <3>1. lo + (d - Len(cs)) - 1 = lo + (e - Len(cs)) - 1
      BY <1>10, <3>3
    <3>2. d \in Int /\ e \in Int /\ Len(cs) \in Int
      BY <1>5
    <3> QED BY <3>1, <3>2
  <2>3. ASSUME NEW x \in 1..Len(cs), NEW y \in (Len(cs) + 1)..Len(new), new[x][1] = new[y][1] PROVE FALSE
    <3>1. PICK i \in 1..(p - 1) : items[i].k = "case" /\ cs[x][1] \in Values(i)
      BY <1>8
    <3>2. new[y][1] \in Values(p) /\ new[x][1] \in Values(i)
      BY <1>5, <1>7, <3>1
    <3>3. i \in At("case") /\ p \in At("case") /\ i # p
      BY <1>13, <3>1, AtFacts
    <3> QED BY <2>3, <3>2, <3>3 DEF Distinct
  <2>4. d \in 1..Len(cs) \/ d \in (Len(cs) + 1)..Len(new)
    BY <1>5
  <2>5. e \in 1..Len(cs) \/ e \in (Len(cs) + 1)..Len(new)
    BY <1>5
  <2>6. ~(d \in 1..Len(cs) /\ e \in (Len(cs) + 1)..Len(new))
    BY <1>10, <2>3
  <2>7. ~(e \in 1..Len(cs) /\ d \in (Len(cs) + 1)..Len(new))
    BY <1>10, <2>3
  <2> QED BY <2>1, <2>2, <2>4, <2>5, <2>6, <2>7
<1>11. ASSUME NEW i \in 1..(p + 1 - 1), items[i].k = "case", NEW v \in Values(i) PROVE \E d \in 1..Len(new) : new[d][1] = v
  <2>1. CASE i = p
    <3>1. v \in lo..hi
      BY <1>4, <1>11, <2>1
    <3> QED BY <1>5, <3>1
  <2>2. CASE i \in 1..(p - 1)
    <3>1. PICK d \in 1..Len(cs) : cs[d][1] = v
      BY <1>1, <1>11, <2>2 DEF Serving
    <3>2. d \in 1..Len(new) /\ new[d] = cs[d]
      BY <1>5
    <3> QED BY <3>1, <3>2
  <2> QED BY <1>2, <2>1, <2>2
<1>15. PICK x, q : x = new /\ q = p + 1
  OBVIOUS
<1>20. \A i : i \in 1..(q - 1) <=> i \in 1..(p + 1 - 1)
  BY <1>2, <1>15
<1>16. \A d \in 1..Len(x) : \E i \in 1..(q - 1) :
          items[i].k = "case" /\ x[d][1] \in Values(i) /\ Serves(bs2, at2, x[d][2], i)
  <2> SUFFICES ASSUME NEW d \in 1..Len(x)
               PROVE  \E i \in 1..(q - 1) : items[i].k = "case" /\ x[d][1] \in Values(i) /\ Serves(bs2, at2, x[d][2], i)
    OBVIOUS
  <2>1. PICK i \in 1..(p + 1 - 1) : items[i].k = "case" /\ new[d][1] \in Values(i) /\ Serves(bs2, at2, new[d][2], i)
    BY <1>9, <1>15
  <2> QED BY <1>15, <1>20, <2>1
<1>17. \A d, e \in 1..Len(x) : x[d][1] = x[e][1] => d = e
  <2> SUFFICES ASSUME NEW d \in 1..Len(x), NEW e \in 1..Len(x), x[d][1] = x[e][1] PROVE d = e
    OBVIOUS
  <2>1. d \in 1..Len(new) /\ e \in 1..Len(new) /\ new[d][1] = new[e][1]
    BY <1>15
  <2> QED BY <1>10, <2>1
<1>18. \A i \in 1..(q - 1) : items[i].k = "case" => \A v \in Values(i) : \E d \in 1..Len(x) : x[d][1] = v
  <2> SUFFICES ASSUME NEW i \in 1..(q - 1), items[i].k = "case", NEW v \in Values(i) PROVE \E d \in 1..Len(x) : x[d][1] = v
    OBVIOUS
  <2>1. i \in 1..(p + 1 - 1)
    BY <1>20
  <2> QED BY <1>11, <1>15, <2>1
<1>19. Serving(bs2, at2, x, q)
  BY <1>16, <1>17, <1>18 DEF Serving
<1> QED BY <1>15, <1>19

\* The default stays as it is over an item that is none.
LEMMA DefaultNext ==
  ASSUME NEW bs, NEW at, NEW c, NEW p \in 1..Len(items), NEW w, Corr(bs, at, c, p, w),
         NEW bs2, NEW at2, Extends(bs, at, bs2, at2, c), items[p].k # "default"
  PROVE  Default(bs2, at2, w.dflt, p + 1)
<1>1. Default(bs, at, w.dflt, p) /\ p \in Nat /\ p + 1 - 1 = p
  BY DEF Corr
<1>2. CASE w.dflt = ExitBB /\ \A q \in 1..(p - 1) : items[q].k # "default"
  <2>1. \A q \in 1..p : q \in 1..(p - 1) \/ q = p
    BY <1>1
  <2> QED BY <1>1, <1>2, <2>1 DEF Default
<1>3. ASSUME w.dflt \in DOMAIN bs, at[w.dflt] \in 2..p, items[at[w.dflt] - 1].k = "default",
             \A q \in at[w.dflt]..(p - 1) : items[q].k # "default"
      PROVE  Default(bs2, at2, w.dflt, p + 1)
  <2>1. w.dflt \in DOMAIN bs2 /\ at2[w.dflt] = at[w.dflt]
    BY <1>3 DEF Extends
  <2>2. at[w.dflt] \in 2..(p + 1) /\ \A q \in at[w.dflt]..(p + 1 - 1) : q \in at[w.dflt]..(p - 1) \/ q = p
    BY <1>1, <1>3
  <2> QED BY <1>3, <2>1, <2>2 DEF Default
<1> QED BY <1>1, <1>2, <1>3 DEF Default

\* The last default label is the default.
LEMMA DefaultNew ==
  ASSUME NEW bs2, NEW at2, NEW p \in 1..Len(items), items[p].k = "default", NEW d \in DOMAIN bs2, at2[d] = p + 1
  PROVE  Default(bs2, at2, d, p + 1)
<1>1. at2[d] \in 2..(p + 1) /\ at2[d] - 1 = p /\ \A q \in at2[d]..(p + 1 - 1) : FALSE
  OBVIOUS
<1> QED BY <1>1 DEF Default

\* The blocks before the item p, and what is known of it.
Go(bs, at, c, p, w) ==
  /\ Body /\ Sound /\ p \in 1..Len(items) /\ Ready(bs, c, w) /\ Corr(bs, at, c, p, w)
  /\ w.inGroup <=> Group(p) # {}

\* That in the form the steps use.
LEMMA GoFacts ==
  ASSUME NEW bs, NEW at, NEW c, NEW p, NEW w, Go(bs, at, c, p, w)
  PROVE  /\ Len(bs) \in Nat /\ Len(bs) >= 3 /\ DOMAIN bs = 1..Len(bs) /\ Len(items) \in Nat
         /\ p \in Nat /\ p > 0 /\ p \in 1..Len(items) /\ p + 1 \in 1..(Len(items) + 1)
         /\ c \in DOMAIN bs /\ c > 2 /\ bs[c].term = None /\ bs[c].sel = NoSel /\ bs[c].code \in Seq(Nat)
         /\ at[c] \in Nat /\ at[c] > 0 /\ at[c] <= p
         /\ From[at[c]] = bs[c].code \o From[p] /\ From[p] \in Seq(Nat) /\ From[p + 1] \in Seq(Nat)
         /\ \A b \in DOMAIN bs : at[b] \in 0..(Len(items) + 1)
         /\ Placed(bs, at) /\ at[ExitBB] = 0
<1>1. Body /\ Sound /\ p \in 1..Len(items) /\ Ready(bs, c, w) /\ Corr(bs, at, c, p, w)
  BY DEF Go
<1>2. Len(bs) \in Nat /\ Len(bs) >= 3 /\ DOMAIN bs = 1..Len(bs) /\ c \in DOMAIN bs /\ c > 2 /\ bs[c].term = None /\ bs[c] \in Block
  BY <1>1 DEF Ready
<1>3. Len(items) \in Nat /\ p \in Nat /\ p > 0 /\ p + 1 \in 1..(Len(items) + 1)
  BY <1>1, ItemFacts
<1>4. Placed(bs, at) /\ at[ExitBB] = 0 /\ at[c] \in 1..p /\ bs[c].sel = NoSel /\ From[at[c]] = bs[c].code \o From[p]
  BY <1>1 DEF Corr, Placed, Reached
<1>5. From[p] \in Seq(Nat) /\ From[p + 1] \in Seq(Nat)
  BY <1>1, FromLabel
<1>6. \A b \in DOMAIN bs : at[b] \in 0..(Len(items) + 1)
  BY <1>4 DEF Placed
<1>7. at[c] \in Nat /\ at[c] > 0 /\ at[c] <= p
  BY <1>3, <1>4
<1> QED BY <1>1, <1>2, <1>3, <1>4, <1>5, <1>6, <1>7, BlockFacts

\* The places of one or two new blocks.
LEMMA PlaceOne ==
  ASSUME NEW bs, NEW at, Placed(bs, at), Len(bs) \in Nat, DOMAIN bs = 1..Len(bs), NEW bs2, NEW X, More(bs, bs2, 1, X),
         NEW x \in 0..(Len(items) + 1)
  PROVE  \E at2 : Places(bs, at, bs2, at2) /\ at2[Len(bs) + 1] = x
<1> DEFINE at2 == [b \in 1..(Len(bs) + 1) |-> IF b \in 1..Len(bs) THEN at[b] ELSE x]
<1>1. DOMAIN bs2 = 1..(Len(bs) + 1) /\ \A b \in 1..Len(bs) : at[b] \in 0..(Len(items) + 1)
  BY DEF More, Placed
<1>2. at2 \in [DOMAIN bs2 -> 0..(Len(items) + 1)]
  BY <1>1
<1>3. at2[Len(bs) + 1] = x /\ \A b \in DOMAIN bs : at2[b] = at[b]
  OBVIOUS
<1> QED BY <1>2, <1>3 DEF Places

\* The same for two.
LEMMA PlaceTwo ==
  ASSUME NEW bs, NEW at, Placed(bs, at), Len(bs) \in Nat, DOMAIN bs = 1..Len(bs), NEW bs2, NEW X, More(bs, bs2, 2, X),
         NEW x \in 0..(Len(items) + 1), NEW y \in 0..(Len(items) + 1)
  PROVE  \E at2 : Places(bs, at, bs2, at2) /\ at2[Len(bs) + 1] = x /\ at2[Len(bs) + 2] = y
<1> DEFINE at2 == [b \in 1..(Len(bs) + 2) |-> IF b \in 1..Len(bs) THEN at[b] ELSE IF b = Len(bs) + 1 THEN x ELSE y]
<1>1. DOMAIN bs2 = 1..(Len(bs) + 2) /\ \A b \in 1..Len(bs) : at[b] \in 0..(Len(items) + 1)
  BY DEF More, Placed
<1>2. at2 \in [DOMAIN bs2 -> 0..(Len(items) + 1)]
  BY <1>1
<1>3. at2[Len(bs) + 1] = x /\ at2[Len(bs) + 2] = y /\ \A b \in DOMAIN bs : at2[b] = at[b]
  OBVIOUS
<1> QED BY <1>2, <1>3 DEF Places

\* The block that is left goes on to the block d of the item before e.
LEMMA PassesOn ==
  ASSUME NEW bs, NEW at, NEW c, NEW p, NEW w, Go(bs, at, c, p, w),
         NEW bs2, NEW at2, NEW d \in DOMAIN bs2, NEW e \in Nat, at2[d] = e, e > p, at2[c] = at[c],
         bs2[c].code = bs[c].code, bs2[c].term = Goto(d),
         items[e - 1].k \in {"case", "default", "start", "end"}, items[e - 1].k = "start" => bs2[c].sel = 0,
         From[p] = From[e]
  PROVE  Ended(bs2, at2, c)
<1>4. p \in Nat /\ p > 0
  BY GoFacts
<1>5. at[c] \in Nat /\ at[c] <= p
  BY GoFacts
<1>6. From[at[c]] = bs[c].code \o From[p]
  BY DEF Go, Corr, Reached
<1>1. /\ p \in Nat /\ p > 0 /\ at[c] \in Nat /\ at[c] <= p /\ From[at[c]] = bs[c].code \o From[p]
  BY <1>4, <1>5, <1>6
<1>2. at2[d] > at2[c] /\ Lands(at2, d)
  BY <1>1 DEF Lands
<1>3. From[at2[c]] = bs2[c].code \o From[at2[d]]
  BY <1>1
<1> QED BY <1>2, <1>3 DEF Ended, Passes

\* What comes after the item is generated at a new block.
LEMMA Reaches ==
  ASSUME NEW bs, NEW at, NEW c, NEW p, NEW w, Go(bs, at, c, p, w), NEW bs2, NEW at2, NEW d, NEW e \in Nat,
         at2[d] = e, e = p + 1, bs2[d] = EmptyBlock
  PROVE  Reached(bs2, at2, d, p + 1)
<1>1. p \in Nat /\ p > 0 /\ From[p + 1] \in Seq(Nat)
  BY GoFacts
<1>2. bs2[d].sel = NoSel /\ bs2[d].code = <<>>
  BY TermFacts
<1>3. \A s \in Seq(Nat) : <<>> \o s = s
  OBVIOUS
<1>4. From[at2[d]] = bs2[d].code \o From[p + 1]
  BY <1>1, <1>2, <1>3
<1>5. at2[d] \in 1..(p + 1)
  BY <1>1
<1> QED BY <1>2, <1>4, <1>5 DEF Reached

\* A label outside a group.
LEMMA OutsideLabel ==
  ASSUME NEW bs, NEW at, NEW c, NEW p, NEW w, Go(bs, at, c, p, w), ~w.inGroup, items[p].k \in {"case", "default"},
         NEW bs2, More(bs, bs2, 1, {c}), bs2[Len(bs) + 1] = EmptyBlock,
         bs2[c].code = bs[c].code, bs2[c].term = Goto(Len(bs) + 1), NEW w2, ~w2.inGroup
  PROVE  \E at2 : /\ Placed(bs2, at2) /\ Settled(bs2, at2, Open(Len(bs) + 1, w2))
                  /\ Reached(bs2, at2, Len(bs) + 1, p + 1)
                  /\ Extends(bs, at, bs2, at2, c) /\ Len(bs) + 1 \in DOMAIN bs2 /\ at2[Len(bs) + 1] = p + 1
<1>1. /\ Len(bs) \in Nat /\ Len(bs) >= 3 /\ DOMAIN bs = 1..Len(bs) /\ Len(items) \in Nat /\ Placed(bs, at)
      /\ p \in Nat /\ p + 1 \in 1..(Len(items) + 1) /\ c \in DOMAIN bs /\ Ready(bs, c, w) /\ Corr(bs, at, c, p, w)
      /\ Body /\ Sound /\ p \in 1..Len(items)
  BY GoFacts DEF Go
<1>2. PICK x \in 0..(Len(items) + 1) : x = p + 1 /\ x \in Nat
  BY <1>1
<1>3. PICK at2 : Places(bs, at, bs2, at2) /\ at2[Len(bs) + 1] = x
  BY <1>1, PlaceOne
<1>4. PICK d : d = Len(bs) + 1
  OBVIOUS
<1>5. d \in DOMAIN bs2 /\ (\A b \in DOMAIN bs2 : b \notin DOMAIN bs => b = d) /\ at2[d] = x /\ bs2[d] = EmptyBlock
  BY <1>1, <1>3, <1>4 DEF More
<1>6. Extends(bs, at, bs2, at2, c)
  BY <1>1, <1>3, MoreExtends
<1>7. at2[c] = at[c]
  BY <1>1, <1>3 DEF Places
<1>8. From[p] = From[x] /\ x > p /\ items[x - 1].k \in {"case", "default", "start", "end"} /\ items[x - 1].k # "start"
  <2>1. items[p].k \notin {"stmt", "break"} /\ x - 1 = p
    BY <1>2, <1>1
  <2> QED BY <1>1, <1>2, <2>1, FromLabel
<1>9. Ended(bs2, at2, c)
  <2>1. bs2[c].term = Goto(d)
    BY <1>4
  <2> QED BY <1>2, <1>5, <1>7, <1>8, <2>1, PassesOn
<1>10. Reached(bs2, at2, d, p + 1)
  BY <1>2, <1>5, Reaches
<1>11. Open(c, w) = {c} /\ Open(d, w2) = {d}
  BY DEF Open
<1>12. Placed(bs2, at2) /\ Settled(bs2, at2, Open(d, w2))
  BY <1>1, <1>3, <1>5, <1>6, <1>9, <1>11, SettledNext
<1> QED BY <1>2, <1>4, <1>5, <1>6, <1>10, <1>12

\* A case outside a group.
LEMMA PlainCorr ==
  ASSUME Distinct, NEW bs, NEW at, NEW c, NEW p, NEW w, Go(bs, at, c, p, w), ~w.inGroup, items[p].k = "case",
         NEW bs2, More(bs, bs2, 1, {c}), bs2[Len(bs) + 1] = EmptyBlock,
         bs2[c].code = bs[c].code, bs2[c].term = Goto(Len(bs) + 1),
         NEW lo \in Int, NEW hi \in Int, lo <= hi, lo = LoOf(p), hi = HiOf[p],
         NEW w2, ~w2.inGroup, w2.cases = w.cases \o Entries(lo, hi, Len(bs) + 1), w2.dflt = w.dflt
  PROVE  \E at2 : Corr(bs2, at2, Len(bs) + 1, p + 1, w2)
<1>1. /\ Len(bs) \in Nat /\ Ready(bs, c, w) /\ Corr(bs, at, c, p, w) /\ Body /\ Sound /\ p \in 1..Len(items)
  BY GoFacts DEF Go
<1>2. PICK at2 : /\ Placed(bs2, at2) /\ Settled(bs2, at2, Open(Len(bs) + 1, w2))
                 /\ Reached(bs2, at2, Len(bs) + 1, p + 1)
                 /\ Extends(bs, at, bs2, at2, c) /\ Len(bs) + 1 \in DOMAIN bs2 /\ at2[Len(bs) + 1] = p + 1
  BY OutsideLabel
<1>3. PICK d \in Nat : d = Len(bs) + 1
  BY <1>1
<1>4. Group(p) = {}
  BY DEF Go
<1>5. Serves(bs2, at2, d, p)
  BY <1>2, <1>3, <1>4 DEF Serves
<1>6. Serving(bs2, at2, w2.cases, p + 1)
  <2>1. w2.cases = w.cases \o Entries(lo, hi, d)
    BY <1>3
  <2>2. PICK new : new = w2.cases
    OBVIOUS
  <2>3. Serving(bs2, at2, new, p + 1)
    BY <1>1, <1>2, <1>5, <2>1, <2>2, ServingCase
  <2> QED BY <2>2, <2>3
<1>7. Default(bs2, at2, w.dflt, p + 1)
  BY <1>1, <1>2, DefaultNext
<1> QED BY <1>2, <1>6, <1>7 DEF Corr

\* The default label.
LEMMA DefaultCorr ==
  ASSUME NEW bs, NEW at, NEW c, NEW p, NEW w, Go(bs, at, c, p, w), ~w.inGroup, items[p].k = "default",
         NEW bs2, More(bs, bs2, 1, {c}), bs2[Len(bs) + 1] = EmptyBlock,
         bs2[c].code = bs[c].code, bs2[c].term = Goto(Len(bs) + 1),
         NEW w2, ~w2.inGroup, w2.cases = w.cases, w2.dflt = Len(bs) + 1
  PROVE  \E at2 : Corr(bs2, at2, Len(bs) + 1, p + 1, w2)
<1>1. /\ Len(bs) \in Nat /\ Ready(bs, c, w) /\ Corr(bs, at, c, p, w) /\ Body /\ Sound /\ p \in 1..Len(items)
  BY GoFacts DEF Go
<1>2. PICK at2 : /\ Placed(bs2, at2) /\ Settled(bs2, at2, Open(Len(bs) + 1, w2))
                 /\ Reached(bs2, at2, Len(bs) + 1, p + 1)
                 /\ Extends(bs, at, bs2, at2, c) /\ Len(bs) + 1 \in DOMAIN bs2 /\ at2[Len(bs) + 1] = p + 1
  BY OutsideLabel
<1>3. Serving(bs2, at2, w.cases, p + 1)
  BY <1>1, <1>2, ServingNext
<1>4. Default(bs2, at2, Len(bs) + 1, p + 1)
  BY <1>1, <1>2, DefaultNew
<1> QED BY <1>2, <1>3, <1>4 DEF Corr

\* A break out of the switch.
LEMMA BreakOutCorr ==
  ASSUME NEW bs, NEW at, NEW c, NEW p, NEW w, Go(bs, at, c, p, w), ~w.inGroup, items[p].k = "break",
         NEW bs2, More(bs, bs2, 1, {c}), bs2[Len(bs) + 1] = EmptyBlock,
         bs2[c].code = bs[c].code, bs2[c].term = Goto(ExitBB)
  PROVE  \E at2 : Corr(bs2, at2, Len(bs) + 1, p + 1, w)
<1>1. /\ Len(bs) \in Nat /\ DOMAIN bs = 1..Len(bs) /\ Len(items) \in Nat /\ Placed(bs, at)
      /\ p \in Nat /\ p + 1 \in 1..(Len(items) + 1) /\ c \in DOMAIN bs /\ Ready(bs, c, w) /\ Corr(bs, at, c, p, w)
      /\ Body /\ Sound /\ p \in 1..Len(items)
  BY GoFacts DEF Go
<1>2. PICK x \in 0..(Len(items) + 1) : x = p + 1 /\ x \in Nat
  BY <1>1
<1>3. PICK at2 : Places(bs, at, bs2, at2) /\ at2[Len(bs) + 1] = x
  BY <1>1, PlaceOne
<1>4. PICK d : d = Len(bs) + 1
  OBVIOUS
<1>5. d \in DOMAIN bs2 /\ (\A b \in DOMAIN bs2 : b \notin DOMAIN bs => b = d) /\ at2[d] = x /\ bs2[d] = EmptyBlock
  BY <1>1, <1>3, <1>4 DEF More
<1>6. Extends(bs, at, bs2, at2, c)
  BY <1>1, <1>3, MoreExtends
<1>7. at2[c] = at[c]
  BY <1>1, <1>3 DEF Places
<1>8. From[p] = <<>>
  <2>1. Group(p) = {} /\ p \in 1..(Len(items) + 1) /\ ~(p > Len(items))
    BY <1>1 DEF Go
  <2>2. From[p] = Says(From, p)
    BY <1>1, <2>1, FromFacts
  <2>3. Says(From, p) = <<>>
    BY <2>1 DEF Says
  <2> QED BY <2>2, <2>3
<1>9. From[at2[c]] = bs2[c].code
  <2>1. From[at[c]] = bs[c].code \o From[p]
    BY DEF Go, Corr, Reached
  <2>3. bs[c].code \in Seq(Nat)
    BY GoFacts
  <2>2. bs[c].code \in Seq(Nat) /\ \A s \in Seq(Nat) : s \o <<>> = s
    BY <2>3
  <2> QED BY <1>7, <1>8, <2>1, <2>2
<1>10. Ended(bs2, at2, c)
  BY <1>9 DEF Ended, Leaves
<1>11. Reached(bs2, at2, d, p + 1)
  BY <1>2, <1>5, Reaches
<1>12. Open(c, w) = {c} /\ Open(d, w) = {d}
  BY DEF Open
<1>13. Placed(bs2, at2) /\ Settled(bs2, at2, Open(d, w))
  BY <1>1, <1>3, <1>5, <1>6, <1>10, <1>12, SettledNext
<1>14. Serving(bs2, at2, w.cases, p + 1) /\ Default(bs2, at2, w.dflt, p + 1)
  BY <1>1, <1>6, ServingNext, DefaultNext
<1>15. Corr(bs2, at2, d, p + 1, w)
  BY <1>11, <1>13, <1>14 DEF Corr
<1> QED BY <1>4, <1>15

\* The end of the body: the last block leaves the switch.
LEMMA FinishCorr ==
  ASSUME Body, Sound, NEW bs, NEW at, NEW c, NEW p, p = Len(items) + 1, NEW w, Ready(bs, c, w), Corr(bs, at, c, p, w), ~w.inGroup,
         NEW bs2, More(bs, bs2, 0, {c}), bs2[c].code = bs[c].code, bs2[c].term = Goto(ExitBB)
  PROVE  /\ Placed(bs2, at) /\ Settled(bs2, at, {})
         /\ Serving(bs2, at, w.cases, p) /\ Default(bs2, at, w.dflt, p)
<1>1. /\ Len(bs) \in Nat /\ DOMAIN bs = 1..Len(bs) /\ c \in DOMAIN bs /\ bs[c] \in Block /\ Placed(bs, at)
      /\ From[at[c]] = bs[c].code \o From[p]
  BY DEF Ready, Corr, Reached
<1>2. DOMAIN bs2 = DOMAIN bs
  BY <1>1 DEF More
<1>3. Places(bs, at, bs2, at)
  BY <1>1, <1>2 DEF Places, Placed
<1>4. Extends(bs, at, bs2, at, c)
  BY <1>3, MoreExtends
<1>5. From[p] = <<>>
  <2>1. p \in 1..(Len(items) + 1) /\ p > Len(items)
    BY ItemFacts
  <2>2. From[p] = Says(From, p)
    BY <2>1, FromFacts
  <2>3. Says(From, p) = <<>>
    BY <2>1 DEF Says
  <2> QED BY <2>2, <2>3
<1>6. From[at[c]] = bs2[c].code
  <2>1. bs[c].code \in Seq(Nat) /\ \A s \in Seq(Nat) : s \o <<>> = s
    BY <1>1, BlockFacts
  <2> QED BY <1>1, <1>5, <2>1
<1>7. Ended(bs2, at, c)
  BY <1>6 DEF Ended, Leaves
<1>8. Open(c, w) = {c}
  BY DEF Open
<1>10. Placed(bs2, at) /\ Settled(bs2, at, {})
  <2>1. Settled(bs, at, Open(c, w))
    BY DEF Corr
  <2>2. ASSUME NEW b \in DOMAIN bs2, at[b] > 0 PROVE Ended(bs2, at, b)
    <3>1. CASE b = c
      BY <1>7, <3>1
    <3>2. CASE b # c
      <4>1. Ended(bs, at, b)
        BY <1>2, <1>8, <2>1, <2>2, <3>2 DEF Settled
      <4> QED BY <1>2, <1>4, <2>2, <3>2, <4>1, EndedKept
    <3> QED BY <3>1, <3>2
  <2>3. Placed(bs2, at)
    BY <1>1, <1>2 DEF Placed
  <2> QED BY <2>2, <2>3 DEF Settled
<1>11. Serving(bs2, at, w.cases, p) /\ Default(bs2, at, w.dflt, p)
  BY <1>4, ServingStays
<1> QED BY <1>10, <1>11

\* The open group and its end.
LEMMA GoGroup ==
  ASSUME NEW bs, NEW at, NEW c, NEW p, NEW w, Go(bs, at, c, p, w), w.inGroup
  PROVE  \E s \in Group(p) :
           /\ Group(p) = {s} /\ s \in Nat /\ s > 0 /\ s < p /\ s \in 1..Len(items) /\ items[s].k = "start"
           /\ EndOf(s) \in Nat /\ EndOf(s) >= p /\ EndOf(s) <= Len(items) /\ items[EndOf(s)].k = "end"
           /\ (EndOf(s) = p <=> items[p].k = "end")
           /\ Grouped(bs, at, c, p, w, s)
<1>1. /\ p \in Nat /\ p > 0 /\ Len(items) \in Nat /\ p \in 1..Len(items) /\ Body /\ Sound /\ Corr(bs, at, c, p, w) /\ Group(p) # {}
  BY GoFacts DEF Go
<1>2. PICK s \in Group(p) : TRUE
  BY <1>1
<1>3. Group(p) = {s} /\ s \in 1..Len(items) /\ s < p /\ items[s].k = "start"
  <2>1. Len(items) \in 0..Len(items) /\ p \in 1..(Len(items) + 1) /\ \A q \in 1..Len(items) : OkItem(q)
    BY <1>1 DEF Sound
  <2> QED BY <1>1, <2>1, GroupOfOne
<1>4. EndOf(s) \in p..Len(items) /\ items[EndOf(s)].k = "end" /\ (EndOf(s) = p <=> items[p].k = "end")
  BY <1>1, EndFacts
<1>5. Grouped(bs, at, c, p, w, s)
  BY <1>1 DEF Corr
<1> QED BY <1>1, <1>3, <1>4, <1>5

\* A start: opens a group, whose porch has no case yet.
LEMMA StartCorr ==
  ASSUME NEW bs, NEW at, NEW c, NEW p, NEW w, Go(bs, at, c, p, w), ~w.inGroup, items[p].k = "start",
         NEW bs2, More(bs, bs2, 2, {c}), bs2[Len(bs) + 1] = EmptyBlock, bs2[Len(bs) + 2] = EmptyBlock,
         bs2[c].code = bs[c].code, bs2[c].sel = 0, bs2[c].term = Goto(Len(bs) + 1),
         NEW w2, w2.inGroup, w2.cases = w.cases, w2.dflt = w.dflt, w2.groupStartBB = Len(bs) + 1,
         w2.groupEndBB = Len(bs) + 2, w2.groupSw = NoBlock, w2.nextGroupId = 0
  PROVE  \E at2 : Corr(bs2, at2, Len(bs) + 1, p + 1, w2)
<1>1. /\ Len(bs) \in Nat /\ Len(bs) >= 3 /\ DOMAIN bs = 1..Len(bs) /\ Len(items) \in Nat /\ Placed(bs, at)
      /\ p \in Nat /\ p > 0 /\ p + 1 \in 1..(Len(items) + 1) /\ c \in DOMAIN bs /\ Ready(bs, c, w) /\ Corr(bs, at, c, p, w)
      /\ Body /\ Sound /\ p \in 1..Len(items) /\ Group(p) = {}
  BY GoFacts DEF Go
<1>2. Group(p + 1) = {p}
  BY <1>1, GroupNext
<1>3. p + 1 \in 1..Len(items)
  <2>1. Group(Len(items) + 1) = {}
    BY <1>1 DEF Sound
  <2>2. p # Len(items)
    BY <1>2, <2>1
  <2> QED BY <1>1, <2>2
<1>4. EndOf(p) \in (p + 1)..Len(items)
  <2>1. PICK q \in 1..Len(items) : q = p + 1
    BY <1>3
  <2>2. p \in Group(q)
    BY <1>2, <2>1
  <2>3. EndOf(p) \in q..Len(items)
    BY <1>1, <2>2, EndFacts
  <2> QED BY <2>1, <2>3
<1>5. PICK x \in 0..(Len(items) + 1), y \in 0..(Len(items) + 1) : x = p + 1 /\ y = EndOf(p) + 1 /\ x \in Nat
  BY <1>1, <1>4
<1>6. PICK at2 : Places(bs, at, bs2, at2) /\ at2[Len(bs) + 1] = x /\ at2[Len(bs) + 2] = y
  BY <1>1, PlaceTwo
<1>7. PICK d, e : d = Len(bs) + 1 /\ e = Len(bs) + 2
  OBVIOUS
<1>8. /\ d \in DOMAIN bs2 /\ e \in DOMAIN bs2 /\ (\A b \in DOMAIN bs2 : b \notin DOMAIN bs => b = d \/ b = e)
      /\ at2[d] = x /\ at2[e] = y /\ bs2[d] = EmptyBlock /\ bs2[e] = EmptyBlock
  BY <1>1, <1>6, <1>7 DEF More
<1>9. Extends(bs, at, bs2, at2, c)
  <2>1. More(bs, bs2, 2, {c}) /\ 2 \in Nat
    OBVIOUS
  <2> QED BY <1>1, <1>6, <2>1, MoreExtends
<1>10. at2[c] = at[c]
  BY <1>1, <1>6 DEF Places
<1>11. From[p] = From[x] /\ x > p /\ items[x - 1].k = "start"
  <2>1. items[p].k \notin {"stmt", "break"} /\ x - 1 = p
    BY <1>5, <1>1
  <2>2. From[p] = From[p + 1]
    BY <1>1, <2>1, FromLabel
  <2> QED BY <1>1, <1>5, <2>1, <2>2
<1>12. Ended(bs2, at2, c)
  <2>1. bs2[c].term = Goto(d)
    BY <1>7
  <2> QED BY <1>5, <1>8, <1>10, <1>11, <2>1, PassesOn
<1>13. Reached(bs2, at2, d, p + 1)
  BY <1>5, <1>8, Reaches
<1>14. Open(c, w) = {c} /\ Open(d, w2) = {d, e}
  BY <1>7 DEF Open
<1>15. Placed(bs2, at2) /\ Settled(bs2, at2, Open(d, w2))
  BY <1>1, <1>6, <1>8, <1>9, <1>12, <1>14, SettledNext
<1>16. Serving(bs2, at2, w.cases, p + 1) /\ Default(bs2, at2, w.dflt, p + 1)
  BY <1>1, <1>9, ServingNext, DefaultNext
<1>17. Closing(bs2, at2, w2, p)
  BY <1>5, <1>7, <1>8, TermFacts DEF Closing
<1>22. PICK m : m = p + 1 /\ m - 1 = p /\ \A q \in (p + 1)..(m - 1) : FALSE
  BY <1>1
<1>18. Through(bs2, d, p, m)
  <2>1. StmtsIn(p, p) = <<>>
    BY <1>1, StmtsFacts
  <2>2. bs2[d].code = <<>>
    BY <1>8, TermFacts
  <2> QED BY <1>22, <2>1, <2>2 DEF Through, NoBreak
<1>19. Unopened(bs2, at2, d, m, w2, p)
  <2>1. at2[d] > 1 /\ items[at2[d] - 1].k = "start"
    BY <1>1, <1>5, <1>8, <1>11
  <2> QED BY <1>7, <1>18, <1>22, <2>1 DEF Unopened
<1>20. \A s \in Group(p + 1) : Grouped(bs2, at2, d, p + 1, w2, s)
  BY <1>2, <1>17, <1>19, <1>22 DEF Grouped
<1>21. Corr(bs2, at2, d, p + 1, w2)
  BY <1>13, <1>15, <1>16, <1>20 DEF Corr
<1> QED BY <1>7, <1>21

\* The end: of a group.
LEMMA EndCorr ==
  ASSUME NEW bs, NEW at, NEW c, NEW p, NEW w, Go(bs, at, c, p, w), w.inGroup, items[p].k = "end",
         NEW bs2, More(bs, bs2, 0, {c}), bs2[c].code = bs[c].code, bs2[c].term = Goto(w.groupEndBB),
         NEW w2, ~w2.inGroup, w2.cases = w.cases, w2.dflt = w.dflt
  PROVE  \E at2 : Corr(bs2, at2, w.groupEndBB, p + 1, w2)
<1>1. /\ Len(bs) \in Nat /\ DOMAIN bs = 1..Len(bs) /\ Len(items) \in Nat /\ Placed(bs, at)
      /\ p \in Nat /\ p > 0 /\ p + 1 \in 1..(Len(items) + 1) /\ c \in DOMAIN bs /\ Ready(bs, c, w) /\ Corr(bs, at, c, p, w)
      /\ Body /\ Sound /\ p \in 1..Len(items)
  BY GoFacts DEF Go
<1>2. PICK s \in Group(p) : EndOf(s) = p /\ Grouped(bs, at, c, p, w, s)
  BY GoGroup
<1>3. PICK e : e = w.groupEndBB
  OBVIOUS
<1>4. e \in DOMAIN bs /\ e # c /\ bs[e] = EmptyBlock /\ at[e] = EndOf(s) + 1
  BY <1>1, <1>2, <1>3 DEF Ready, Grouped, Closing
<1>5. DOMAIN bs2 = DOMAIN bs /\ bs2[e] = EmptyBlock
  BY <1>1, <1>4 DEF More
<1>6. Places(bs, at, bs2, at)
  BY <1>1, <1>5 DEF Places, Placed
<1>7. Extends(bs, at, bs2, at, c)
  <2>1. 0 \in Nat
    OBVIOUS
  <2> QED BY <1>1, <1>6, <2>1, MoreExtends
<1>8. PICK x \in Nat : x = p + 1
  BY <1>1
<1>9. From[p] = From[x] /\ x > p /\ items[x - 1].k = "end" /\ at[e] = x
  <2>1. items[p].k \notin {"stmt", "break"} /\ x - 1 = p
    BY <1>8, <1>1
  <2>2. From[p] = From[p + 1]
    BY <1>1, <2>1, FromLabel
  <2> QED BY <1>1, <1>2, <1>4, <1>8, <2>1, <2>2
<1>10. Ended(bs2, at, c)
  <2>1. bs2[c].term = Goto(e) /\ e \in DOMAIN bs2 /\ at[c] = at[c]
    BY <1>3, <1>4, <1>5
  <2> QED BY <1>9, <2>1, PassesOn
<1>11. Reached(bs2, at, e, p + 1)
  BY <1>5, <1>8, <1>9, Reaches
<1>12. Open(c, w) = {c, e} /\ Open(e, w2) = {e}
  BY <1>3 DEF Open
<1>13. Placed(bs2, at) /\ Settled(bs2, at, Open(e, w2))
  BY <1>1, <1>5, <1>6, <1>7, <1>10, <1>12, SettledNext
<1>14. Serving(bs2, at, w.cases, p + 1) /\ Default(bs2, at, w.dflt, p + 1)
  BY <1>1, <1>7, ServingNext, DefaultNext
<1>15. Corr(bs2, at, e, p + 1, w2)
  BY <1>11, <1>13, <1>14 DEF Corr
<1> QED BY <1>3, <1>15

\* The group that is open stays the same.
SameGroup(w, w2) ==
  w2.groupStartBB = w.groupStartBB /\ w2.groupEndBB = w.groupEndBB

\* The porches of the open group stay where they are.
LEMMA ClosingKept ==
  ASSUME NEW bs, NEW at, NEW bs2, NEW at2, NEW c, NEW w, NEW w2, NEW s, Extends(bs, at, bs2, at2, c),
         bs2[c].sel = bs[c].sel, SameGroup(w, w2), w.groupEndBB \in DOMAIN bs, Closing(bs, at, w, s)
  PROVE  Closing(bs2, at2, w2, s)
<1>1. /\ w.groupStartBB \in DOMAIN bs /\ at[w.groupStartBB] = s + 1 /\ bs[w.groupStartBB].sel = NoSel
      /\ at[w.groupEndBB] = EndOf(s) + 1
  BY DEF Closing
<1>2. bs2[w.groupStartBB].sel = NoSel
  <2>1. CASE w.groupStartBB = c
    BY <1>1, <2>1
  <2>2. CASE w.groupStartBB # c
    <3>1. Kept(bs[w.groupStartBB], bs2[w.groupStartBB])
      BY <1>1, <2>2 DEF Extends
    <3> QED BY <1>1, <3>1, KeptFacts
  <2> QED BY <2>1, <2>2
<1>3. w.groupStartBB \in DOMAIN bs2 /\ at2[w.groupStartBB] = s + 1 /\ at2[w.groupEndBB] = EndOf(s) + 1
  BY <1>1 DEF Extends
<1> QED BY <1>2, <1>3 DEF Closing, SameGroup

\* A porch that has jumped is left alone.
LEMMA JumpedNext ==
  ASSUME NEW bs, NEW at, NEW bs2, NEW at2, NEW c, Extends(bs, at, bs2, at2, c), bs[c].term = None,
         NEW q \in DOMAIN bs, NEW s, NEW m, NEW e, Jumped(bs, q, s, m, e)
  PROVE  q # c /\ Jumped(bs2, q, s, m, e)
<1>1. \E d : bs[q].term = Goto(d)
  BY DEF Jumped
<1>2. \A d : None # Goto(d)
  BY DEF None, Goto
<1>3. q # c
  BY <1>1, <1>2
<1>4. Kept(bs[q], bs2[q])
  BY <1>3 DEF Extends
<1> QED BY <1>3, <1>4, JumpedKept

\* A porch that has jumped before an item has jumped before the next.
LEMMA JumpedLater ==
  ASSUME NEW bs, NEW q, NEW s \in Nat, NEW p \in Nat, NEW e, Jumped(bs, q, s, p, e)
  PROVE  Jumped(bs, q, s, p + 1, e)
<1>1. PICK j \in (s + 1)..(p - 1) :
        items[j].k = "break" /\ NoBreak(s, j) /\ bs[q].code = StmtsIn(s, j) /\ bs[q].term = Goto(e)
  BY DEF Jumped
<1>2. j \in (s + 1)..(p + 1 - 1)
  OBVIOUS
<1>3. PICK m : m = p + 1 /\ j \in (s + 1)..(m - 1)
  BY <1>2
<1>4. Jumped(bs, q, s, m, e)
  BY <1>1, <1>3 DEF Jumped
<1> QED BY <1>3, <1>4

\* A group that has a dispatch keeps it.
LEMMA OpenedKept ==
  ASSUME NEW bs, NEW at, NEW bs2, NEW at2, NEW c, NEW w, NEW w2, NEW s, NEW f, Extends(bs, at, bs2, at2, c),
         bs[c].term = None, SameGroup(w, w2), w2.groupSw = w.groupSw, w.groupStartBB \in DOMAIN bs,
         Len(bs2[w.groupSw].term.cases) = w2.nextGroupId, Opened(bs, w, s, f)
  PROVE  Opened(bs2, w2, s, f)
<1>1. /\ Firsts(s, f) /\ w.groupSw # NoBlock /\ w.groupSw \in DOMAIN bs /\ bs[w.groupSw].term \in SwTerm
      /\ \/ w.groupSw = w.groupStartBB /\ Through(bs, w.groupStartBB, s, f)
         \/ Jumped(bs, w.groupStartBB, s, f, w.groupEndBB)
  BY DEF Opened
<1>2. w.groupSw # c
  BY <1>1, TermFacts
<1>3. Kept(bs[w.groupSw], bs2[w.groupSw]) /\ w.groupSw \in DOMAIN bs2
  BY <1>1, <1>2 DEF Extends
<1>4. bs2[w.groupSw].term \in SwTerm /\ bs2[w.groupSw].code = bs[w.groupSw].code
  BY <1>1, <1>3, KeptFacts
<1>5. CASE w.groupSw = w.groupStartBB /\ Through(bs, w.groupStartBB, s, f)
  <2>1. Through(bs2, w.groupStartBB, s, f)
    BY <1>4, <1>5 DEF Through
  <2> QED BY <1>1, <1>3, <1>4, <1>5, <2>1 DEF Opened, SameGroup
<1>6. CASE Jumped(bs, w.groupStartBB, s, f, w.groupEndBB)
  <2>1. Jumped(bs2, w.groupStartBB, s, f, w.groupEndBB)
    BY <1>6, JumpedNext
  <2> QED BY <1>1, <1>3, <1>4, <2>1 DEF Opened, SameGroup
<1> QED BY <1>1, <1>5, <1>6

\* A statement at the end of a block is a statement before what follows.
LEMMA AppendConcat ==
  ASSUME NEW s \in Seq(Nat), NEW u \in Seq(Nat), NEW p \in Nat
  PROVE  s \o (<<p>> \o u) = Append(s, p) \o u
<1>3. <<p>> \in Seq(Nat) /\ Append(s, p) = s \o <<p>>
  OBVIOUS
<1>1. PICK v \in Seq(Nat) : v = <<p>> /\ Append(s, p) = s \o v
  BY ONLY <1>3
<1>2. (s \o v) \o u = s \o (v \o u)
  BY ConcatAssoc
<1> QED BY <1>1, <1>2

\* A statement, whether or not it stands in a group.
LEMMA StmtCorr ==
  ASSUME NEW bs, NEW at, NEW c, NEW p, NEW w, Go(bs, at, c, p, w), items[p].k = "stmt",
         NEW bs2, More(bs, bs2, 0, {c}), bs2[c].code = Append(bs[c].code, p), bs2[c].sel = bs[c].sel, bs2[c].term = None
  PROVE  Corr(bs2, at, c, p + 1, w)
<1>1. /\ Len(bs) \in Nat /\ DOMAIN bs = 1..Len(bs) /\ Len(items) \in Nat /\ Placed(bs, at)
      /\ p \in Nat /\ p > 0 /\ c \in DOMAIN bs /\ Ready(bs, c, w) /\ Corr(bs, at, c, p, w)
      /\ Body /\ Sound /\ p \in 1..Len(items) /\ bs[c].term = None
  <2>1. Len(bs) \in Nat /\ DOMAIN bs = 1..Len(bs) /\ Len(items) \in Nat /\ Placed(bs, at)
    BY ONLY Go(bs, at, c, p, w), GoFacts
  <2>3. p \in Nat /\ p > 0 /\ c \in DOMAIN bs /\ bs[c].term = None
    BY ONLY Go(bs, at, c, p, w), GoFacts
  <2>2. Ready(bs, c, w) /\ Corr(bs, at, c, p, w) /\ Body /\ Sound /\ p \in 1..Len(items)
    BY DEF Go
  <2> QED BY <2>1, <2>2, <2>3
<1>2. DOMAIN bs2 = DOMAIN bs
  BY <1>1 DEF More
<1>3. Places(bs, at, bs2, at)
  BY <1>1, <1>2 DEF Places, Placed
<1>4. Extends(bs, at, bs2, at, c)
  <2>1. 0 \in Nat
    OBVIOUS
  <2> QED BY <1>1, <1>3, <2>1, MoreExtends
<1>5. c \in Open(c, w)
  BY DEF Open
<1>6. Placed(bs2, at) /\ Settled(bs2, at, Open(c, w))
  BY <1>1, <1>2, <1>3, <1>4, <1>5, SettledNext
<1>7. Serving(bs2, at, w.cases, p + 1) /\ Default(bs2, at, w.dflt, p + 1)
  BY <1>1, <1>4, ServingNext, DefaultNext
<1>8. Reached(bs2, at, c, p + 1)
  <2>1. From[p] = <<p>> \o From[p + 1]
    <3>1. p \in 1..(Len(items) + 1) /\ ~(p > Len(items))
      BY <1>1
    <3>2. From[p] = Says(From, p)
      BY <1>1, <3>1, FromFacts
    <3>3. Says(From, p) = <<p>> \o From[p + 1]
      BY <3>1 DEF Says
    <3> QED BY <3>2, <3>3
  <2>2. at[c] \in 1..p /\ bs[c].sel = NoSel /\ From[at[c]] = bs[c].code \o From[p]
    BY <1>1 DEF Corr, Reached
  <2>3. bs[c].code \in Seq(Nat) /\ From[p + 1] \in Seq(Nat)
    BY GoFacts
  <2>4. From[at[c]] = bs2[c].code \o From[p + 1]
    <3>1. \A t, u \in Seq(Nat) : t \o (<<p>> \o u) = Append(t, p) \o u
      BY <1>1, AppendConcat
    <3>2. PICK t \in Seq(Nat), u \in Seq(Nat) : t = bs[c].code /\ u = From[p + 1]
      BY <2>3
    <3>3. From[at[c]] = t \o (<<p>> \o u)
      BY <2>1, <2>2, <3>2
    <3>4. From[at[c]] = Append(t, p) \o u
      BY <3>1, <3>3
    <3> QED BY <3>2, <3>4
  <2>5. at[c] \in 1..(p + 1)
    BY <1>1, <2>2
  <2> QED BY <2>2, <2>4, <2>5 DEF Reached
<1>9. ASSUME w.inGroup, NEW s \in Group(p + 1) PROVE Grouped(bs2, at, c, p + 1, w, s)
  <2>1. Group(p + 1) = Group(p)
    BY <1>1, GroupNext
  <2>2. s \in Nat /\ s < p /\ Grouped(bs, at, c, p, w, s)
    <3>1. PICK t \in Group(p) : Group(p) = {t} /\ t \in Nat /\ t < p /\ Grouped(bs, at, c, p, w, t)
      BY <1>9, GoGroup
    <3> QED BY <1>9, <2>1, <3>1
  <2>3. w.groupEndBB \in DOMAIN bs /\ Closing(bs, at, w, s) /\ SameGroup(w, w)
    BY <1>1, <1>9, <2>2 DEF Ready, Grouped, SameGroup
  <2>4. Closing(bs2, at, w, s) /\ w.groupStartBB \in DOMAIN bs
    BY <1>4, <2>3, ClosingKept DEF Closing
  <2>5. PICK m \in Nat : m = p + 1 /\ m - 1 = p
    BY <1>1
  <2>6. CASE Unopened(bs, at, c, p, w, s)
    <3>1. \A r \in (s + 1)..(m - 1) : items[r].k # "case"
      <4>1. \A r \in (s + 1)..p : r \in (s + 1)..(p - 1) \/ r = p
        BY <1>1, <2>2
      <4> QED BY <2>5, <2>6, <4>1 DEF Unopened
    <3>2. CASE c = w.groupStartBB /\ Through(bs, w.groupStartBB, s, p)
      <4>1. NoBreak(s, p) /\ bs[c].code = StmtsIn(s, p - 1)
        BY <3>2 DEF Through
      <4>2. StmtsIn(s, p) = Append(StmtsIn(s, p - 1), p)
        <5>1. p - 1 \in Nat /\ s <= p - 1 /\ p - 1 + 1 = p
          BY <1>1, <2>2
        <5>2. PICK n \in Nat : n = p - 1 /\ s <= n /\ n + 1 = p
          BY <5>1
        <5>3. StmtsIn(s, n + 1) = IF items[n + 1].k = "stmt" THEN Append(StmtsIn(s, n), n + 1) ELSE StmtsIn(s, n)
          BY <2>2, <5>2, StmtsFacts
        <5> QED BY <5>2, <5>3
      <4>3. NoBreak(s, m)
        <5>1. \A r \in (s + 1)..p : r \in (s + 1)..(p - 1) \/ r = p
          BY <1>1, <2>2
        <5> QED BY <2>5, <4>1, <5>1 DEF NoBreak
      <4>4. Through(bs2, w.groupStartBB, s, m)
        BY <2>5, <3>2, <4>1, <4>2, <4>3 DEF Through
      <4>5. Unopened(bs2, at, c, m, w, s)
        BY <2>6, <3>1, <3>2, <4>4 DEF Unopened
      <4> QED BY <2>4, <2>5, <4>5 DEF Grouped
    <3>3. CASE Jumped(bs, w.groupStartBB, s, p, w.groupEndBB)
      <4>1. Jumped(bs2, w.groupStartBB, s, p, w.groupEndBB)
        BY <1>1, <1>4, <2>4, <3>3, JumpedNext
      <4>2. Jumped(bs2, w.groupStartBB, s, m, w.groupEndBB)
        BY <1>1, <2>2, <2>5, <4>1, JumpedLater
      <4>3. Unopened(bs2, at, c, m, w, s)
        BY <2>6, <3>1, <4>2 DEF Unopened
      <4> QED BY <2>4, <2>5, <4>3 DEF Grouped
    <3> QED BY <2>6, <3>2, <3>3 DEF Unopened
  <2>7. ASSUME NEW f \in (s + 1)..(p - 1), Opened(bs, w, s, f) PROVE Grouped(bs2, at, c, m, w, s)
    <3>1. w.groupSw \in DOMAIN bs /\ bs[w.groupSw].term \in SwTerm /\ Len(bs[w.groupSw].term.cases) = w.nextGroupId
      BY <2>7 DEF Opened
    <3>2. w.groupSw # c
      BY <1>1, <3>1, TermFacts
    <3>3. Len(bs2[w.groupSw].term.cases) = w.nextGroupId
      BY <3>1, <3>2 DEF More
    <3>4. Opened(bs2, w, s, f)
      BY <1>1, <1>4, <2>3, <2>4, <2>7, <3>3, OpenedKept
    <3>5. f \in (s + 1)..(m - 1)
      BY <1>1, <2>2, <2>5
    <3> QED BY <2>4, <3>4, <3>5 DEF Grouped
  <2> QED BY <2>2, <2>5, <2>6, <2>7 DEF Grouped
<1> QED BY <1>6, <1>7, <1>8, <1>9 DEF Corr

\* A break leads behind the end: of its group.
LEMMA FromBreak ==
  ASSUME Body, Sound, NEW p \in 1..Len(items), items[p].k = "break", NEW s, Group(p) = {s}
  PROVE  From[p] = From[EndOf(s) + 1]
<1>1. p \in 1..(Len(items) + 1) /\ ~(p > Len(items))
  BY ItemFacts
<1>2. From[p] = Says(From, p)
  BY <1>1, FromFacts
<1>3. (CHOOSE t \in Group(p) : TRUE) = s /\ Group(p) # {}
  OBVIOUS
<1>4. Says(From, p) = From[EndOf(s) + 1]
  BY <1>1, <1>3 DEF Says
<1> QED BY <1>2, <1>4

\* The group after a break in it.
LEMMA BreakGrouped ==
  ASSUME Body, NEW bs, NEW at, NEW c, NEW p \in Nat, NEW w, NEW s \in Nat, s < p, bs[c].term = None,
         Grouped(bs, at, c, p, w, s), w.groupEndBB \in DOMAIN bs, items[p].k = "break",
         NEW bs2, NEW at2, Extends(bs, at, bs2, at2, c), bs2[c].code = bs[c].code, bs2[c].sel = bs[c].sel,
         bs2[c].term = Goto(w.groupEndBB), \A b \in DOMAIN bs : b # c => bs2[b] = bs[b],
         NEW d, at2[d] > 1, items[at2[d] - 1].k = "break"
  PROVE  Grouped(bs2, at2, d, p + 1, w, s)
<1>1. Closing(bs, at, w, s) /\ SameGroup(w, w) /\ w.groupStartBB \in DOMAIN bs
  BY DEF Grouped, Closing, SameGroup
<1>2. Closing(bs2, at2, w, s)
  BY <1>1, ClosingKept
<1>3. PICK m \in Nat : m = p + 1 /\ m - 1 = p
  OBVIOUS
<1>4. \A r \in (s + 1)..(m - 1) : r \in (s + 1)..(p - 1) \/ r = p
  BY <1>3
<1>5. CASE Unopened(bs, at, c, p, w, s)
  <2>1. \A r \in (s + 1)..(m - 1) : items[r].k # "case"
    BY <1>4, <1>5 DEF Unopened
  <2>2. Jumped(bs2, w.groupStartBB, s, m, w.groupEndBB)
    <3>1. CASE c = w.groupStartBB /\ Through(bs, w.groupStartBB, s, p)
      <4>1. NoBreak(s, p) /\ bs[c].code = StmtsIn(s, p - 1)
        BY <3>1 DEF Through
      <4>2. StmtsIn(s, p) = StmtsIn(s, p - 1)
        <5>2. PICK n \in Nat : n = p - 1 /\ s <= n /\ n + 1 = p
          OBVIOUS
        <5>3. StmtsIn(s, n + 1) = IF items[n + 1].k = "stmt" THEN Append(StmtsIn(s, n), n + 1) ELSE StmtsIn(s, n)
          BY <5>2, StmtsFacts
        <5> QED BY <5>2, <5>3
      <4>3. p \in (s + 1)..(m - 1)
        BY <1>3
      <4> QED BY <3>1, <4>1, <4>2, <4>3 DEF Jumped
    <3>2. CASE Jumped(bs, w.groupStartBB, s, p, w.groupEndBB)
      <4>1. Jumped(bs2, w.groupStartBB, s, p, w.groupEndBB)
        BY <1>1, <3>2, JumpedNext
      <4> QED BY <1>3, <4>1, JumpedLater
    <3> QED BY <1>5, <3>1, <3>2 DEF Unopened
  <2>3. Unopened(bs2, at2, d, m, w, s)
    BY <1>5, <2>1, <2>2 DEF Unopened
  <2> QED BY <1>2, <1>3, <2>3 DEF Grouped
<1>6. ASSUME NEW f \in (s + 1)..(p - 1), Opened(bs, w, s, f) PROVE Grouped(bs2, at2, d, m, w, s)
  <2>1. w.groupSw \in DOMAIN bs /\ bs[w.groupSw].term \in SwTerm /\ Len(bs[w.groupSw].term.cases) = w.nextGroupId
    BY <1>6 DEF Opened
  <2>2. w.groupSw # c
    BY <2>1, TermFacts
  <2>3. Len(bs2[w.groupSw].term.cases) = w.nextGroupId
    BY <2>1, <2>2
  <2>4. Opened(bs2, w, s, f)
    BY <1>1, <1>6, <2>3, OpenedKept
  <2>5. f \in (s + 1)..(m - 1)
    BY <1>3
  <2> QED BY <1>2, <2>4, <2>5 DEF Grouped
<1> QED BY <1>3, <1>5, <1>6 DEF Grouped

\* A break in a group leads to its end porch.
LEMMA BreakInCorr ==
  ASSUME NEW bs, NEW at, NEW c, NEW p, NEW w, Go(bs, at, c, p, w), w.inGroup, items[p].k = "break",
         NEW bs2, More(bs, bs2, 1, {c}), bs2[Len(bs) + 1] = EmptyBlock,
         bs2[c].code = bs[c].code, bs2[c].sel = bs[c].sel, bs2[c].term = Goto(w.groupEndBB)
  PROVE  \E at2 : Corr(bs2, at2, Len(bs) + 1, p + 1, w)
<1>1. /\ Len(bs) \in Nat /\ DOMAIN bs = 1..Len(bs) /\ Len(items) \in Nat /\ Placed(bs, at)
      /\ p \in Nat /\ p > 0 /\ p + 1 \in 1..(Len(items) + 1) /\ c \in DOMAIN bs /\ bs[c].term = None
  <2>1. bs[c].term = None /\ c \in DOMAIN bs
    BY DEF Go, Ready
  <2>2. /\ Len(bs) \in Nat /\ DOMAIN bs = 1..Len(bs) /\ Len(items) \in Nat /\ Placed(bs, at)
        /\ p \in Nat /\ p > 0 /\ p + 1 \in 1..(Len(items) + 1)
    BY GoFacts
  <2> QED BY <2>1, <2>2
<1>2. Ready(bs, c, w) /\ Corr(bs, at, c, p, w) /\ Body /\ Sound /\ p \in 1..Len(items)
  BY DEF Go
<1>3. PICK s \in Group(p) :
           /\ Group(p) = {s} /\ s \in Nat /\ s > 0 /\ s < p /\ s \in 1..Len(items)
           /\ EndOf(s) \in Nat /\ EndOf(s) >= p /\ EndOf(s) <= Len(items) /\ items[EndOf(s)].k = "end"
           /\ (EndOf(s) = p <=> items[p].k = "end")
           /\ Grouped(bs, at, c, p, w, s)
  BY GoGroup
<1>4. PICK x \in 0..(Len(items) + 1) : x = p + 1 /\ x \in Nat /\ x > 1 /\ x - 1 = p
  BY <1>1
<1>5. PICK at2 : Places(bs, at, bs2, at2) /\ at2[Len(bs) + 1] = x
  BY <1>1, <1>2, PlaceOne
<1>6. PICK d, e : d = Len(bs) + 1 /\ e = w.groupEndBB
  OBVIOUS
<1>7. d \in DOMAIN bs2 /\ (\A b \in DOMAIN bs2 : b \notin DOMAIN bs => b = d) /\ at2[d] = x /\ bs2[d] = EmptyBlock
  BY <1>1, <1>5, <1>6 DEF More
<1>8. Extends(bs, at, bs2, at2, c)
  BY <1>2, <1>5, MoreExtends
<1>9. e \in DOMAIN bs /\ e \in DOMAIN bs2 /\ at2[c] = at[c] /\ at2[e] = EndOf(s) + 1
  <2>1. e \in DOMAIN bs /\ at[e] = EndOf(s) + 1
    BY <1>2, <1>3, <1>6 DEF Ready, Grouped, Closing
  <2> QED BY <1>1, <1>8, <2>1 DEF Extends
<1>10. PICK y \in Nat : y = EndOf(s) + 1 /\ y > p /\ y - 1 = EndOf(s)
  BY <1>1, <1>3
<1>11. From[p] = From[y]
  BY <1>2, <1>3, <1>10, FromBreak
<1>12. Ended(bs2, at2, c)
  <2>1. bs2[c].term = Goto(e) /\ at2[e] = y /\ items[y - 1].k = "end"
    BY <1>3, <1>6, <1>9, <1>10
  <2> QED BY <1>9, <1>10, <1>11, <2>1, PassesOn
<1>13. Reached(bs2, at2, d, p + 1)
  BY <1>4, <1>7, Reaches
<1>14. Open(c, w) = {c, e} /\ Open(d, w) = {d, e}
  BY <1>6 DEF Open
<1>15. Placed(bs2, at2) /\ Settled(bs2, at2, Open(d, w))
  BY <1>2, <1>5, <1>7, <1>8, <1>12, <1>14, SettledNext
<1>16. Serving(bs2, at2, w.cases, p + 1) /\ Default(bs2, at2, w.dflt, p + 1)
  BY <1>2, <1>8, ServingNext, DefaultNext
<1>17. Grouped(bs2, at2, d, p + 1, w, s)
  <2>1. at2[d] > 1 /\ items[at2[d] - 1].k = "break"
    BY <1>4, <1>7
  <2>2. \A b \in DOMAIN bs : b # c => bs2[b] = bs[b]
    BY DEF More
  <2>3. w.groupEndBB \in DOMAIN bs
    BY <1>6, <1>9
  <2> QED BY <1>1, <1>2, <1>3, <1>8, <2>1, <2>2, <2>3, BreakGrouped
<1>18. Group(p + 1) = {s}
  BY <1>2, <1>3, GroupNext
<1>19. Corr(bs2, at2, d, p + 1, w)
  BY <1>13, <1>15, <1>16, <1>17, <1>18 DEF Corr
<1> QED BY <1>6, <1>19

\* A case of the values lo..hi in a group: the block d for it, and the stub t of its values.
Entered(bs, at, c, p, w, bs2, at2, d, t, lo, hi, w2, s) ==
  /\ w.inGroup /\ items[p].k = "case"
  /\ Places(bs, at, bs2, at2) /\ Extends(bs, at, bs2, at2, c)
  /\ t \in Nat /\ \A b \in DOMAIN bs2 : b \notin DOMAIN bs => b = d \/ b = t
  /\ at2[d] = p + 1 /\ at2[t] = 0 /\ bs2[d] = EmptyBlock /\ Ended(bs2, at2, c) /\ Serves(bs2, at2, t, p)
  /\ lo \in Int /\ hi \in Int /\ lo <= hi /\ lo = LoOf(p) /\ hi = HiOf[p]
  /\ w2.inGroup /\ w2.groupEndBB = w.groupEndBB /\ w2.cases = w.cases \o Entries(lo, hi, t) /\ w2.dflt = w.dflt
  /\ Group(p) = {s} /\ Grouped(bs2, at2, d, p + 1, w2, s)

\* A case of a group, whether or not it is the first.
LEMMA GroupCaseCorr ==
  ASSUME Distinct, NEW bs, NEW at, NEW c, NEW p, NEW w, Go(bs, at, c, p, w), NEW bs2, NEW at2, NEW d, NEW t,
         NEW lo, NEW hi, NEW w2, NEW s, Entered(bs, at, c, p, w, bs2, at2, d, t, lo, hi, w2, s)
  PROVE  Corr(bs2, at2, d, p + 1, w2)
<1>9. /\ w.inGroup /\ items[p].k = "case"
      /\ Places(bs, at, bs2, at2) /\ Extends(bs, at, bs2, at2, c)
      /\ t \in Nat /\ \A b \in DOMAIN bs2 : b \notin DOMAIN bs => b = d \/ b = t
      /\ at2[d] = p + 1 /\ at2[t] = 0 /\ bs2[d] = EmptyBlock /\ Ended(bs2, at2, c) /\ Serves(bs2, at2, t, p)
      /\ lo \in Int /\ hi \in Int /\ lo <= hi /\ lo = LoOf(p) /\ hi = HiOf[p]
      /\ w2.inGroup /\ w2.groupEndBB = w.groupEndBB /\ w2.cases = w.cases \o Entries(lo, hi, t) /\ w2.dflt = w.dflt
      /\ Group(p) = {s} /\ Grouped(bs2, at2, d, p + 1, w2, s)
  BY DEF Entered
<1>1. p \in Nat /\ p \in 1..Len(items)
  BY GoFacts
<1>2. Ready(bs, c, w) /\ Corr(bs, at, c, p, w) /\ Body /\ Sound
  BY DEF Go
<1>3. Reached(bs2, at2, d, p + 1)
  <2>1. PICK x \in Nat : x = p + 1
    BY <1>1
  <2> QED BY <1>9, <2>1, Reaches
<1>4. Open(c, w) = {c, w.groupEndBB} /\ Open(d, w2) = {d, w.groupEndBB}
  BY <1>9 DEF Open
<1>5. Placed(bs2, at2) /\ Settled(bs2, at2, Open(d, w2))
  BY <1>2, <1>4, <1>9, SettledNext
<1>6. Serving(bs2, at2, w2.cases, p + 1)
  <2>1. PICK new : new = w2.cases
    OBVIOUS
  <2>2. Serving(bs2, at2, new, p + 1)
    BY <1>1, <1>2, <1>9, <2>1, ServingCase
  <2> QED BY <2>1, <2>2
<1>7. Default(bs2, at2, w.dflt, p + 1)
  BY <1>1, <1>2, <1>9, DefaultNext
<1>8. Group(p + 1) = {s}
  BY <1>1, <1>2, <1>9, GroupNext
<1> QED BY <1>9, <1>3, <1>5, <1>6, <1>7, <1>8 DEF Corr

\* The first case of a group.
LEMMA FirstCorr ==
  ASSUME Distinct, NEW bs, NEW at, NEW c, NEW p, NEW w, Go(bs, at, c, p, w), w.inGroup, w.groupSw = NoBlock, items[p].k = "case",
         NEW bs2, More(bs, bs2, 2, {c}), bs2[Len(bs) + 1] = EmptyBlock,
         bs2[Len(bs) + 2] = Stub(w.nextGroupId, w.groupStartBB),
         bs2[c].code = bs[c].code, bs2[c].sel = bs[c].sel, bs2[c].term \in SwTerm,
         bs2[c].term.cases = <<<<w.nextGroupId, Len(bs) + 1>>>>, bs2[c].term.dflt = Len(bs) + 1,
         NEW lo \in Int, NEW hi \in Int, lo <= hi, lo = LoOf(p), hi = HiOf[p],
         NEW w2, w2.inGroup, SameGroup(w, w2), w2.cases = w.cases \o Entries(lo, hi, Len(bs) + 2), w2.dflt = w.dflt,
         w2.groupSw = c, w2.nextGroupId = w.nextGroupId + 1
  PROVE  \E at2 : Corr(bs2, at2, Len(bs) + 1, p + 1, w2)
<1>1. /\ Len(bs) \in Nat /\ Len(bs) >= 3 /\ DOMAIN bs = 1..Len(bs) /\ Len(items) \in Nat /\ Placed(bs, at)
      /\ p \in Nat /\ p > 0 /\ p + 1 \in 1..(Len(items) + 1)
  BY GoFacts
<1>2. Ready(bs, c, w) /\ Corr(bs, at, c, p, w) /\ Body /\ Sound /\ p \in 1..Len(items)
  BY DEF Go
<1>3. c \in DOMAIN bs /\ bs[c].term = None /\ c > 2 /\ at[c] \in 1..p /\ bs[c].sel = NoSel /\ From[at[c]] = bs[c].code \o From[p]
  BY <1>2 DEF Ready, Corr, Reached
<1>4. PICK s \in Group(p) : /\ Group(p) = {s} /\ s \in Nat /\ s > 0 /\ s < p /\ s \in 1..Len(items)
                            /\ Grouped(bs, at, c, p, w, s)
  BY GoGroup
<1>5. PICK x \in 0..(Len(items) + 1), y \in 0..(Len(items) + 1) : x = p + 1 /\ x \in Nat /\ x - 1 = p /\ y = 0
  BY <1>1
<1>6. PICK at2 : Places(bs, at, bs2, at2) /\ at2[Len(bs) + 1] = x /\ at2[Len(bs) + 2] = y
  BY <1>1, PlaceTwo
<1>7. PICK d \in Nat, t \in Nat : d = Len(bs) + 1 /\ t = Len(bs) + 2
  BY <1>1
<1>8. /\ d \in DOMAIN bs2 /\ t \in DOMAIN bs2 /\ (\A b \in DOMAIN bs2 : b \notin DOMAIN bs => b = d \/ b = t)
      /\ at2[d] = x /\ at2[t] = 0 /\ bs2[d] = EmptyBlock /\ bs2[t] = Stub(w.nextGroupId, w.groupStartBB)
      /\ t # ExitBB /\ d # NoBlock
  <2>1. d \in DOMAIN bs2 /\ t \in DOMAIN bs2 /\ (\A b \in DOMAIN bs2 : b \notin DOMAIN bs => b = d \/ b = t)
    <3>1. DOMAIN bs2 = 1..(Len(bs) + 2)
      BY DEF More
    <3>2. Len(bs) \in Nat /\ DOMAIN bs = 1..Len(bs)
      BY <1>1
    <3> QED BY ONLY <1>7, <3>1, <3>2
  <2>2. at2[d] = x /\ at2[t] = 0 /\ bs2[d] = EmptyBlock /\ bs2[t] = Stub(w.nextGroupId, w.groupStartBB)
    BY <1>5, <1>6, <1>7
  <2>3. t # ExitBB /\ d # NoBlock
    BY <1>1, <1>7 DEF ExitBB, NoBlock
  <2> QED BY <2>1, <2>2, <2>3
<1>9. Extends(bs, at, bs2, at2, c)
  <2>1. More(bs, bs2, 2, {c}) /\ 2 \in Nat
    OBVIOUS
  <2> QED BY <1>2, <1>6, <2>1, MoreExtends
<1>10. at2[c] = at[c] /\ c \in DOMAIN bs2
  BY <1>3, <1>9 DEF Extends
<1>11. /\ w.nextGroupId = 0 /\ at[c] > 1 /\ items[at[c] - 1].k \in {"start", "break"} /\ Firsts(s, p)
       /\ \/ c = w.groupStartBB /\ Through(bs, w.groupStartBB, s, p)
          \/ Jumped(bs, w.groupStartBB, s, p, w.groupEndBB)
       /\ Closing(bs, at, w, s)
  <2>1. Unopened(bs, at, c, p, w, s) /\ Closing(bs, at, w, s)
    BY <1>4 DEF Grouped, Opened
  <2> QED BY <1>4, <2>1 DEF Unopened, Firsts
<1>12. /\ w.groupEndBB \in DOMAIN bs /\ w.groupStartBB \in DOMAIN bs /\ w.groupStartBB \in Nat
       /\ w.groupEndBB \in DOMAIN bs2 /\ w.groupStartBB \in DOMAIN bs2
  <2>1. w.groupEndBB \in DOMAIN bs /\ w.groupStartBB \in DOMAIN bs
    BY <1>2, <1>11 DEF Ready, Closing
  <2>2. w.groupStartBB \in Nat
    <3>1. DOMAIN bs = 1..Len(bs) /\ Len(bs) \in Nat
      BY <1>1
    <3> QED BY ONLY <2>1, <3>1
  <2> QED BY <1>9, <2>1, <2>2 DEF Extends
<1>13. /\ bs2[t].code = <<>> /\ bs2[t].sel = 0 /\ bs2[t].term = Goto(w.groupStartBB)
  <2>1. bs2[t] = [code |-> <<>>, sel |-> 0, term |-> Goto(w.groupStartBB)]
    BY <1>8, <1>11 DEF Stub
  <2> QED BY <2>1
<1>14. Closing(bs2, at2, w2, s)
  BY <1>9, <1>11, <1>12, ClosingKept
<1>15. PICK cs : cs = bs2[c].term.cases
  OBVIOUS
<1>16. Len(cs) = 1 /\ DOMAIN cs = {1} /\ cs[1][1] = 0 /\ cs[1][2] = d /\ bs2[c].term.dflt = d
  BY <1>7, <1>11, <1>15
<1>17. Ended(bs2, at2, c)
  <2>1. \A k \in 1..Len(cs) : cs[k][1] = k - 1
    BY <1>16
  <2>2. From[p] = From[x]
    <3>1. items[p].k \notin {"stmt", "break"}
      OBVIOUS
    <3>2. From[p] = From[p + 1]
      BY <1>2, <3>1, FromLabel
    <3> QED BY <1>5, <3>2
  <2>3. at2[c] > 1 /\ items[at2[c] - 1].k \in {"start", "break"} /\ at2[d] > at2[c] /\ items[at2[d] - 1].k = "case"
    <3>1. at2[c] = at[c] /\ at2[d] = x /\ at[c] <= p /\ p < x /\ at[c] \in Nat /\ x - 1 = p
      BY <1>1, <1>3, <1>5, <1>8, <1>10
    <3> QED BY <1>1, <1>11, <3>1
  <2>4. From[at2[c]] = bs2[c].code \o From[at2[d]]
    BY <1>3, <1>8, <1>10, <2>2
  <2>6. /\ bs2[c].term \in SwTerm /\ bs2[c].sel = NoSel
        /\ Len(bs2[c].term.cases) > 0 /\ \A k \in 1..Len(bs2[c].term.cases) : bs2[c].term.cases[k][1] = k - 1
        /\ bs2[c].term.cases[1][2] = d /\ bs2[c].term.dflt = d /\ d \in DOMAIN bs2
    BY <1>3, <1>8, <1>15, <1>16, <2>1
  <2>5. Chooses(bs2, at2, c)
    BY <2>3, <2>4, <2>6 DEF Chooses
  <2> QED BY <2>5 DEF Ended
<1>18. \/ c = w.groupStartBB /\ Through(bs2, w.groupStartBB, s, p)
       \/ Jumped(bs2, w.groupStartBB, s, p, w.groupEndBB)
  <2>1. CASE c = w.groupStartBB /\ Through(bs, w.groupStartBB, s, p)
    BY <2>1 DEF Through
  <2>2. CASE Jumped(bs, w.groupStartBB, s, p, w.groupEndBB)
    <3>1. Jumped(bs2, w.groupStartBB, s, p, w.groupEndBB)
      BY <1>3, <1>9, <1>12, <2>2, JumpedNext
    <3> QED BY <3>1
  <2> QED BY <1>11, <2>1, <2>2
<1>19. Grouped(bs2, at2, d, x, w2, s)
  <2>1. w2.groupSw = c /\ c # NoBlock /\ c \in DOMAIN bs2 /\ Len(bs2[c].term.cases) = w2.nextGroupId
    BY <1>3, <1>10, <1>11, <1>15, <1>16 DEF NoBlock
  <2>2. Opened(bs2, w2, s, p)
    BY <1>11, <1>18, <2>1 DEF Opened, SameGroup
  <2>3. p \in (s + 1)..(x - 1)
    BY <1>1, <1>4, <1>5
  <2> QED BY <1>14, <2>2, <2>3 DEF Grouped
<1>20. Serves(bs2, at2, t, p)
  <2>1. /\ at2[w.groupStartBB] = s + 1 /\ bs2[w.groupStartBB].sel = NoSel /\ at2[w.groupEndBB] = EndOf(s) + 1
    BY <1>14 DEF Closing, SameGroup
  <2>2. Through(bs2, w.groupStartBB, s, p) /\ c = w.groupStartBB => Picks(bs2, at2, t, w.groupStartBB, p)
    BY <1>5, <1>8, <1>13, <1>15, <1>16 DEF Picks
  <2>5. bs2[t].sel \in Nat
    BY <1>13
  <2>6. p \in (s + 1)..p
    <3>1. s \in Nat /\ p \in Nat /\ s < p
      BY <1>1, <1>4
    <3> QED BY ONLY <3>1
  <2>3. p \in (s + 1)..p /\ bs2[t].sel \in Nat
    BY <2>5, <2>6
  <2>4. Leads(bs2, at2, t, p, s, w.groupStartBB, p)
    BY <1>11, <1>12, <1>13, <1>18, <2>1, <2>2, <2>3 DEF Leads
  <2> QED BY <1>1, <1>4, <1>8, <1>12, <2>4 DEF Serves
<1>21. w2.groupEndBB = w.groupEndBB /\ w2.cases = w.cases \o Entries(lo, hi, t)
  BY <1>7 DEF SameGroup
<1>22. Corr(bs2, at2, d, p + 1, w2)
  <2>1. Entered(bs, at, c, p, w, bs2, at2, d, t, lo, hi, w2, s)
    BY <1>4, <1>5, <1>6, <1>8, <1>9, <1>17, <1>19, <1>20, <1>21 DEF Entered
  <2> QED BY <2>1, GroupCaseCorr
<1> QED BY <1>7, <1>22

\* A dispatch that gets one more case.
Joined(v, u, id, d) == u \in SwTerm /\ u.dflt = v.dflt /\ u.cases = Append(v.cases, <<id, d>>)

Joins(x, y, id, d) ==
  /\ x.term \in SwTerm /\ y.code = x.code /\ y.sel = x.sel /\ d \in Nat
  /\ id = Len(x.term.cases) /\ Joined(x.term, y.term, id, d)

\* A dispatch with one more case is kept, and the case is the last.
LEMMA KeptAppend ==
  ASSUME NEW x, NEW y, NEW id, NEW d, Joins(x, y, id, d)
  PROVE  /\ Kept(x, y) /\ Len(y.term.cases) = id + 1 /\ id + 1 \in DOMAIN y.term.cases
         /\ y.term.cases[id + 1][2] = d
<1>11. /\ x.term \in SwTerm /\ y.code = x.code /\ y.sel = x.sel /\ d \in Nat
       /\ id = Len(x.term.cases) /\ Joined(x.term, y.term, id, d)
  BY DEF Joins
<1>1. x.term.cases \in Seq(Nat \X Nat)
  BY <1>11, TermFacts
<1>2. PICK cs \in Seq(Nat \X Nat), n \in Nat : cs = x.term.cases /\ n = Len(cs)
  BY <1>1
<1>3. PICK e \in Nat \X Nat : e = <<n, d>> /\ e[1] = n /\ e[2] = d
  <2>1. <<n, d>> \in Nat \X Nat /\ <<n, d>>[1] = n /\ <<n, d>>[2] = d
    BY <1>11, Zenon
  <2> QED BY <2>1, Zenon
<1>4. PICK ds : ds = Append(cs, e)
  OBVIOUS
<1>5. ds \in Seq(Nat \X Nat) /\ Len(ds) = n + 1 /\ ds[n + 1] = e /\ \A k \in 1..n : ds[k] = cs[k]
  BY <1>2, <1>4, AppendFacts
<1>6. ds = y.term.cases /\ y.term \in SwTerm /\ y.term.dflt = x.term.dflt
  BY <1>2, <1>3, <1>4, <1>11 DEF Joined
<1>7. \A k \in 1..Len(ds) : k \in 1..n \/ k = n + 1
  BY <1>5
<1>8. (\A k \in 1..n : cs[k][1] = k - 1) => \A k \in 1..Len(ds) : ds[k][1] = k - 1
  <2> SUFFICES ASSUME \A k \in 1..n : cs[k][1] = k - 1, NEW k \in 1..Len(ds) PROVE ds[k][1] = k - 1
    OBVIOUS
  <2>1. CASE k = n + 1
    BY <1>3, <1>5, <2>1
  <2>2. CASE k \in 1..n
    <3>1. ds[k] = cs[k]
      BY <1>5, <2>2
    <3> QED BY <2>2, <3>1
  <2> QED BY <1>7, <2>1, <2>2
<1>9. Kept(x, y)
  <2>1. x.term.cases = cs /\ y.term.cases = ds /\ Len(cs) = n /\ n \in Nat
    BY <1>2, <1>6
  <2>2. Len(y.term.cases) >= Len(x.term.cases)
    BY <1>5, <2>1
  <2>3. \A k \in 1..Len(x.term.cases) : y.term.cases[k] = x.term.cases[k]
    BY <1>5, <2>1
  <2>4. (\A k \in 1..Len(x.term.cases) : x.term.cases[k][1] = k - 1) =>
          \A k \in 1..Len(y.term.cases) : y.term.cases[k][1] = k - 1
    BY <1>8, <2>1
  <2>5. x.term \in SwTerm /\ y.term \in SwTerm /\ y.code = x.code /\ y.sel = x.sel /\ y.term.dflt = x.term.dflt
    BY <1>6, <1>11
  <2> QED BY <2>2, <2>3, <2>4, <2>5 DEF Kept
<1>10. n + 1 \in DOMAIN ds /\ ds[n + 1][2] = d
  BY <1>3, <1>5
<1> QED BY <1>2, <1>5, <1>6, <1>9, <1>10, <1>11

\* A later case of a group.
LEMMA LaterCorr ==
  ASSUME Distinct, NEW bs, NEW at, NEW c, NEW p, NEW w, Go(bs, at, c, p, w), w.inGroup, w.groupSw # NoBlock, items[p].k = "case",
         NEW bs2, More(bs, bs2, 2, {c, w.groupSw}), bs2[Len(bs) + 1] = EmptyBlock,
         bs2[Len(bs) + 2] = Stub(w.nextGroupId, w.groupStartBB),
         bs2[c].code = bs[c].code, bs2[c].sel = bs[c].sel, bs2[c].term = Goto(Len(bs) + 1),
         bs2[w.groupSw].code = bs[w.groupSw].code, bs2[w.groupSw].sel = bs[w.groupSw].sel,
         Joined(bs[w.groupSw].term, bs2[w.groupSw].term, w.nextGroupId, Len(bs) + 1),
         NEW lo \in Int, NEW hi \in Int, lo <= hi, lo = LoOf(p), hi = HiOf[p],
         NEW w2, w2.inGroup, SameGroup(w, w2), w2.cases = w.cases \o Entries(lo, hi, Len(bs) + 2), w2.dflt = w.dflt,
         w2.groupSw = w.groupSw, w2.nextGroupId = w.nextGroupId + 1
  PROVE  \E at2 : Corr(bs2, at2, Len(bs) + 1, p + 1, w2)
<1>1. /\ Len(bs) \in Nat /\ Len(bs) >= 3 /\ DOMAIN bs = 1..Len(bs) /\ Len(items) \in Nat /\ Placed(bs, at)
      /\ p \in Nat /\ p > 0 /\ p + 1 \in 1..(Len(items) + 1)
  BY GoFacts
<1>2. Ready(bs, c, w) /\ Corr(bs, at, c, p, w) /\ Body /\ Sound /\ p \in 1..Len(items)
  BY DEF Go
<1>3. c \in DOMAIN bs /\ bs[c].term = None /\ c > 2 /\ at[c] \in 1..p /\ w \in SwitchCtx
  BY <1>2 DEF Ready, Corr, Reached
<1>4. PICK s \in Group(p) : /\ Group(p) = {s} /\ s \in Nat /\ s > 0 /\ s < p /\ s \in 1..Len(items)
                            /\ Grouped(bs, at, c, p, w, s)
  BY GoGroup
<1>5. PICK x \in 0..(Len(items) + 1), y \in 0..(Len(items) + 1) : x = p + 1 /\ x \in Nat /\ x - 1 = p /\ y = 0
  BY <1>1
<1>6. PICK at2 : Places(bs, at, bs2, at2) /\ at2[Len(bs) + 1] = x /\ at2[Len(bs) + 2] = y
  <2>1. PICK X : More(bs, bs2, 2, X)
    OBVIOUS
  <2> QED BY <1>1, <2>1, PlaceTwo
<1>7. PICK d \in Nat, t \in Nat, g \in {w.groupSw} : d = Len(bs) + 1 /\ t = Len(bs) + 2 /\ g = w.groupSw
  BY <1>1
<1>8. /\ d \in DOMAIN bs2 /\ t \in DOMAIN bs2 /\ (\A b \in DOMAIN bs2 : b \notin DOMAIN bs => b = d \/ b = t)
      /\ at2[d] = x /\ at2[t] = 0 /\ bs2[d] = EmptyBlock /\ bs2[t] = Stub(w.nextGroupId, w.groupStartBB)
      /\ t # ExitBB
  BY <1>1, <1>5, <1>6, <1>7 DEF More, ExitBB
<1>9. /\ Closing(bs, at, w, s) /\ \E f \in (s + 1)..(p - 1) : Opened(bs, w, s, f)
  BY <1>4 DEF Grouped, Unopened
<1>10. PICK f \in (s + 1)..(p - 1) : Opened(bs, w, s, f)
  BY <1>9
<1>11. /\ g \in DOMAIN bs /\ bs[g].term \in SwTerm /\ Len(bs[g].term.cases) = w.nextGroupId /\ w.nextGroupId \in Nat
       /\ Firsts(s, f)
       /\ \/ g = w.groupStartBB /\ Through(bs, w.groupStartBB, s, f)
          \/ Jumped(bs, w.groupStartBB, s, f, w.groupEndBB)
  BY <1>3, <1>7, <1>10 DEF Opened, SwitchCtx
<1>12. g # c
  BY <1>3, <1>11, TermFacts
<1>13. /\ Kept(bs[g], bs2[g]) /\ Len(bs2[g].term.cases) = w.nextGroupId + 1 /\ w.nextGroupId + 1 \in DOMAIN bs2[g].term.cases
       /\ bs2[g].term.cases[w.nextGroupId + 1][2] = d
  <2>1. PICK a, b, id : a = bs[g] /\ b = bs2[g] /\ id = w.nextGroupId
    OBVIOUS
  <2>2. Joins(a, b, id, d)
    BY <1>7, <1>11, <2>1 DEF Joins
  <2>3. /\ Kept(a, b) /\ Len(b.term.cases) = id + 1 /\ id + 1 \in DOMAIN b.term.cases /\ b.term.cases[id + 1][2] = d
    BY <2>2, KeptAppend
  <2> QED BY <2>1, <2>3
<1>25. bs2[g].term \in SwTerm
  BY <1>7 DEF Joined
<1>14. Extends(bs, at, bs2, at2, c)
  <2>1. \A b \in DOMAIN bs : b # c => Kept(bs[b], bs2[b])
    <3>1. \A b \in DOMAIN bs : b # c /\ b # g => bs2[b] = bs[b]
      BY <1>7 DEF More
    <3>2. \A b \in DOMAIN bs : b # c /\ b # g => Kept(bs[b], bs2[b])
      BY <3>1 DEF Kept
    <3> QED BY <1>13, <3>2
  <2>2. DOMAIN bs \subseteq DOMAIN bs2
    BY <1>1 DEF More
  <2> QED BY <1>6, <2>1, <2>2 DEF Extends, Places
<1>15. at2[c] = at[c] /\ c \in DOMAIN bs2
  BY <1>3, <1>14 DEF Extends
<1>16. /\ w.groupEndBB \in DOMAIN bs /\ w.groupStartBB \in DOMAIN bs /\ w.groupStartBB \in Nat
       /\ w.groupEndBB \in DOMAIN bs2 /\ w.groupStartBB \in DOMAIN bs2
  <2>1. w.groupEndBB \in DOMAIN bs /\ w.groupStartBB \in DOMAIN bs
    BY <1>2, <1>9 DEF Ready, Closing
  <2>2. w.groupStartBB \in Nat
    <3>1. DOMAIN bs = 1..Len(bs) /\ Len(bs) \in Nat
      BY <1>1
    <3> QED BY ONLY <2>1, <3>1
  <2> QED BY <1>14, <2>1, <2>2 DEF Extends
<1>17. /\ bs2[t].code = <<>> /\ bs2[t].sel = w.nextGroupId /\ bs2[t].term = Goto(w.groupStartBB)
  <2>1. bs2[t] = [code |-> <<>>, sel |-> w.nextGroupId, term |-> Goto(w.groupStartBB)]
    BY <1>8 DEF Stub
  <2> QED BY <2>1
<1>18. Closing(bs2, at2, w2, s)
  BY <1>9, <1>14, <1>16, ClosingKept
<1>19. Ended(bs2, at2, c)
  <2>1. From[p] = From[x]
    <3>1. items[p].k \notin {"stmt", "break"}
      OBVIOUS
    <3>2. From[p] = From[p + 1]
      BY <1>2, <3>1, FromLabel
    <3> QED BY <1>5, <3>2
  <2>2. bs2[c].term = Goto(d) /\ items[x - 1].k = "case" /\ x > p
    BY <1>1, <1>5, <1>7
  <2> QED BY <1>5, <1>8, <1>15, <2>1, <2>2, PassesOn
<1>20. Opened(bs2, w2, s, f)
  <2>1. Len(bs2[w.groupSw].term.cases) = w2.nextGroupId
    BY <1>7, <1>13
  <2> QED BY <1>3, <1>10, <1>14, <1>16, <2>1, OpenedKept
<1>21. Grouped(bs2, at2, d, x, w2, s)
  <2>1. f \in (s + 1)..(x - 1)
    BY <1>1, <1>4, <1>5
  <2> QED BY <1>18, <1>20, <2>1 DEF Grouped
<1>22. Serves(bs2, at2, t, p)
  <2>1. /\ at2[w.groupStartBB] = s + 1 /\ bs2[w.groupStartBB].sel = NoSel /\ at2[w.groupEndBB] = EndOf(s) + 1
    BY <1>18 DEF Closing, SameGroup
  <2>2. \/ g = w.groupStartBB /\ Through(bs2, w.groupStartBB, s, f)
        \/ Jumped(bs2, w.groupStartBB, s, f, w.groupEndBB)
    BY <1>7, <1>20 DEF Opened, SameGroup
  <2>3. Picks(bs2, at2, t, g, p)
    BY <1>5, <1>8, <1>13, <1>17, <1>25 DEF Picks
  <2>4. f \in (s + 1)..p /\ f \in Nat
    <3>1. f \in (s + 1)..(p - 1) /\ s \in Nat /\ p \in Nat
      BY <1>1, <1>4
    <3> QED BY <3>1
  <2>6. bs2[t].sel \in Nat
    BY <1>11, <1>17
  <2>5. Leads(bs2, at2, t, p, s, w.groupStartBB, f)
    BY <1>11, <1>16, <1>17, <2>1, <2>2, <2>3, <2>4, <2>6 DEF Leads
  <2> QED BY <1>4, <1>8, <1>16, <2>4, <2>5 DEF Serves
<1>23. w2.groupEndBB = w.groupEndBB /\ w2.cases = w.cases \o Entries(lo, hi, t)
  BY <1>7 DEF SameGroup
<1>24. Corr(bs2, at2, d, p + 1, w2)
  <2>1. Entered(bs, at, c, p, w, bs2, at2, d, t, lo, hi, w2, s)
    BY <1>4, <1>5, <1>6, <1>8, <1>14, <1>19, <1>21, <1>22, <1>23 DEF Entered
  <2> QED BY <2>1, GroupCaseCorr
<1> QED BY <1>7, <1>24

\* A step of the generator in the terms of the lemmas above.
LEMMA MoreOf ==
  ASSUME NEW k \in Nat, Grown(k), NEW X, Keeps(X)
  PROVE  More(bbs, bbs', k, X)
BY DEF Grown, Keeps, More

\* The invariants give the state before an item.
LEMMA GoOf ==
  ASSUME IInv, Sound, phase = "gen", pos \in 1..Len(items), ToldOf(pos, swc.inGroup, swc.nextCaseVal),
         NEW at, Corr(bbs, at, cur, pos, swc)
  PROVE  Go(bbs, at, cur, pos, swc)
<1>1. Ready(bbs, cur, swc)
  BY IInvFacts DEF Ready
<1>2. swc.inGroup <=> Group(pos) # {}
  BY DEF ToldOf
<1> QED BY <1>1, <1>2, IInvFacts DEF Go

\* The case of the values lo..hi, as the blocks show it.
LEMMA CaseSim ==
  ASSUME IInv, Sound, Distinct, phase = "gen", pos \in 1..Len(items), ToldOf(pos, swc.inGroup, swc.nextCaseVal),
         NEW at, Corr(bbs, at, cur, pos, swc), items[pos].k = "case",
         NEW lo \in Int, NEW hi \in Int, lo <= hi, lo = LoOf(pos), hi = HiOf[pos], NEW next \in Int,
         IF swc.inGroup THEN GroupCase(lo, hi, next) ELSE PlainCase(lo, hi, next)
  PROVE  \E at2 : Corr(bbs', at2, cur', pos + 1, swc')
<1>1. Typed /\ Ctl /\ swc \in SwitchCtx /\ Go(bbs, at, cur, pos, swc) /\ 1 \in Nat /\ 2 \in Nat
  BY IInvFacts, GoOf
<1>2. PICK bs, c, p, w, bs2, c2, w2 :
         bs = bbs /\ c = cur /\ p = pos /\ w = swc /\ bs2 = bbs' /\ c2 = cur' /\ w2 = swc'
  OBVIOUS
<1>3. w \in SwitchCtx /\ Go(bs, at, c, p, w) /\ lo = LoOf(p) /\ hi = HiOf[p] /\ items[p].k = "case"
  BY <1>1, <1>2
<1>4. CASE ~swc.inGroup
  <2>1. /\ Grown(1) /\ Keeps({cur}) /\ bbs'[Len(bbs) + 1] = EmptyBlock /\ cur' = Len(bbs) + 1
        /\ Ends(cur, bbs[cur].sel, Goto(Len(bbs) + 1))
        /\ swc' = [swc EXCEPT !.cases = @ \o Entries(lo, hi, Len(bbs) + 1), !.nextCaseVal = next]
    <3>1. PlainCase(lo, hi, next)
      BY <1>4
    <3>2. swc' = [swc EXCEPT !.cases = @ \o Entries(lo, hi, Len(bbs) + 1), !.nextCaseVal = next] /\ cur' = Len(bbs) + 1
      BY <3>1 DEF PlainCase, Entries
    <3>3. bbs' = Append(Br(bbs, cur, Len(bbs) + 1), EmptyBlock)
      BY <3>1 DEF PlainCase
    <3>4. /\ Grown(1) /\ Keeps({cur}) /\ bbs'[Len(bbs) + 1] = EmptyBlock
          /\ Ends(cur, bbs[cur].sel, Goto(Len(bbs) + 1))
      BY <1>1, <3>3, Labelled
    <3> QED BY <3>2, <3>4
  <2>2. /\ More(bs, bs2, 1, {c}) /\ bs2[Len(bs) + 1] = EmptyBlock /\ c2 = Len(bs) + 1
        /\ bs2[c].code = bs[c].code /\ bs2[c].term = Goto(Len(bs) + 1)
    BY <1>1, <1>2, <2>1, MoreOf DEF Ends
  <2>3. ~w2.inGroup /\ w2.cases = w.cases \o Entries(lo, hi, Len(bs) + 1) /\ w2.dflt = w.dflt /\ ~w.inGroup
    BY <1>1, <1>2, <1>4, <2>1 DEF SwitchCtx
  <2>4. \E at2 : Corr(bs2, at2, Len(bs) + 1, p + 1, w2)
    BY <1>3, <2>2, <2>3, PlainCorr
  <2> QED BY <1>2, <2>2, <2>4
<1>5. CASE swc.inGroup /\ swc.groupSw = NoBlock
  <2>1. /\ Grown(2) /\ Keeps({cur}) /\ bbs'[Len(bbs) + 1] = EmptyBlock /\ cur' = Len(bbs) + 1
         /\ bbs'[Len(bbs) + 2] = Stub(swc.nextGroupId, swc.groupStartBB)
         /\ bbs'[cur].code = bbs[cur].code /\ bbs'[cur].sel = bbs[cur].sel
         /\ bbs'[cur].term \in SwTerm
         /\ bbs'[cur].term.cases = <<<<swc.nextGroupId, Len(bbs) + 1>>>>
         /\ bbs'[cur].term.dflt = Len(bbs) + 1
         /\ swc' = GroupSwc(lo, hi, next, cur)
    BY <1>1, <1>5, FirstStep
  <2>2. /\ More(bs, bs2, 2, {c}) /\ bs2[Len(bs) + 1] = EmptyBlock /\ c2 = Len(bs) + 1
        /\ bs2[Len(bs) + 2] = Stub(w.nextGroupId, w.groupStartBB)
        /\ bs2[c].code = bs[c].code /\ bs2[c].sel = bs[c].sel /\ bs2[c].term \in SwTerm
        /\ bs2[c].term.cases = <<<<w.nextGroupId, Len(bs) + 1>>>> /\ bs2[c].term.dflt = Len(bs) + 1
    BY <1>1, <1>2, <2>1, MoreOf
  <2>3. /\ w2.inGroup /\ SameGroup(w, w2) /\ w2.cases = w.cases \o Entries(lo, hi, Len(bs) + 2) /\ w2.dflt = w.dflt
        /\ w2.groupSw = c /\ w2.nextGroupId = w.nextGroupId + 1 /\ w.inGroup /\ w.groupSw = NoBlock
    BY <1>1, <1>2, <1>5, <2>1 DEF SwitchCtx, GroupSwc, SameGroup
  <2>4. \E at2 : Corr(bs2, at2, Len(bs) + 1, p + 1, w2)
    BY <1>3, <2>2, <2>3, FirstCorr
  <2> QED BY <1>2, <2>2, <2>4
<1>6. CASE swc.inGroup /\ swc.groupSw # NoBlock
  <2>1. /\ Grown(2) /\ Keeps({cur, swc.groupSw}) /\ bbs'[Len(bbs) + 1] = EmptyBlock /\ cur' = Len(bbs) + 1
         /\ bbs'[Len(bbs) + 2] = Stub(swc.nextGroupId, swc.groupStartBB)
         /\ Ends(cur, bbs[cur].sel, Goto(Len(bbs) + 1)) /\ swc.groupSw # cur
         /\ bbs'[swc.groupSw].code = bbs[swc.groupSw].code /\ bbs'[swc.groupSw].sel = bbs[swc.groupSw].sel
         /\ bbs'[swc.groupSw].term \in SwTerm
         /\ bbs'[swc.groupSw].term.dflt = bbs[swc.groupSw].term.dflt
         /\ bbs'[swc.groupSw].term.cases = Append(bbs[swc.groupSw].term.cases, <<swc.nextGroupId, Len(bbs) + 1>>)
         /\ swc' = GroupSwc(lo, hi, next, swc.groupSw)
    BY <1>1, <1>6, LaterStep
  <2>5. Joined(bs[w.groupSw].term, bs2[w.groupSw].term, w.nextGroupId, Len(bs) + 1)
    BY <1>2, <2>1 DEF Joined
  <2>2. /\ More(bs, bs2, 2, {c, w.groupSw}) /\ bs2[Len(bs) + 1] = EmptyBlock /\ c2 = Len(bs) + 1
        /\ bs2[Len(bs) + 2] = Stub(w.nextGroupId, w.groupStartBB)
        /\ bs2[c].code = bs[c].code /\ bs2[c].sel = bs[c].sel /\ bs2[c].term = Goto(Len(bs) + 1)
        /\ bs2[w.groupSw].code = bs[w.groupSw].code /\ bs2[w.groupSw].sel = bs[w.groupSw].sel
    BY <1>1, <1>2, <2>1, MoreOf DEF Ends
  <2>3. /\ w2.inGroup /\ SameGroup(w, w2) /\ w2.cases = w.cases \o Entries(lo, hi, Len(bs) + 2) /\ w2.dflt = w.dflt
        /\ w2.groupSw = w.groupSw /\ w2.nextGroupId = w.nextGroupId + 1 /\ w.inGroup /\ w.groupSw # NoBlock
    BY <1>1, <1>2, <1>6, <2>1 DEF SwitchCtx, GroupSwc, SameGroup
  <2>4. \E at2 : Corr(bs2, at2, Len(bs) + 1, p + 1, w2)
    BY <1>3, <2>2, <2>3, <2>5, LaterCorr
  <2> QED BY <1>2, <2>2, <2>4
<1> QED BY <1>4, <1>5, <1>6

\* Whole of any blocks, so that it can be said of those of the next state.
WholeOf(bs, at, w, n) ==
  /\ Placed(bs, at) /\ Settled(bs, at, {})
  /\ Serving(bs, at, w.cases, n) /\ Default(bs, at, w.dflt, n)

\* The whole body stays the whole body.
LEMMA WholeFixed ==
  ASSUME items' = items, NEW CONSTANT bs, NEW CONSTANT at, NEW CONSTANT n, NEW CONSTANT w
  PROVE  WholeOf(bs, at, w, n)' <=> WholeOf(bs, at, w, n)
<1>1. /\ Placed(bs, at)' <=> Placed(bs, at)
      /\ Settled(bs, at, {})' <=> Settled(bs, at, {})
  BY DEF Placed, Settled, Ended, Leaves, Passes, Chooses, Lands, From, Group, EndOf, At
<1>2. Serving(bs, at, w.cases, n)' <=> Serving(bs, at, w.cases, n)
  BY DEF Serving, Serves, Leads, Picks, Firsts, NoBreak, Through, Jumped, StmtsIn, Values, HiOf, Group, EndOf, At, Wrap, MinI
<1>3. Default(bs, at, w.dflt, n)' <=> Default(bs, at, w.dflt, n)
  BY DEF Default
<1> QED BY <1>1, <1>2, <1>3 DEF WholeOf

-----------------------------------------------------------------------------
(* The simulation *)

\* The dead block before the first label stands at the first item.
LEMMA InitSim ==
  ASSUME Init PROVE Sim
<1>1. IInv /\ Body
  BY InitIInv DEF IInv, Typed
<1>2. SUFFICES ASSUME Sound PROVE \E at : Corr(bbs, at, cur, pos, swc)
  BY DEF Init, Sim
<1>3. /\ pos = 1 /\ cur = 3 /\ Len(bbs) = 3 /\ DOMAIN bbs = 1..3 /\ bbs[3] = EmptyBlock
      /\ swc.cases = <<>> /\ swc.dflt = ExitBB /\ swc.inGroup = FALSE
  BY DEF Init
<1>4. PICK at : at = [b \in 1..3 |-> IF b = 3 THEN 1 ELSE 0]
  OBVIOUS
<1>5. at[1] = 0 /\ at[2] = 0 /\ at[3] = 1 /\ DOMAIN at = 1..3
  BY <1>4
<1>6. Len(items) \in Nat /\ 1 \in 1..(Len(items) + 1)
  BY <1>1, ItemFacts
<1>7. Placed(bbs, at)
  BY <1>3, <1>4, <1>5, <1>6 DEF Placed, ExitBB
<1>8. Settled(bbs, at, Open(cur, swc))
  <2>1. \A b \in 1..3 : b = 1 \/ b = 2 \/ b = 3
    OBVIOUS
  <2> QED BY <1>3, <1>5, <2>1 DEF Settled, Open
<1>9. Serving(bbs, at, swc.cases, pos)
  <2>1. Len(swc.cases) = 0 /\ 1..0 = {} /\ pos - 1 = 0
    BY <1>3
  <2> QED BY <2>1 DEF Serving
<1>10. Default(bbs, at, swc.dflt, pos)
  <2>1. 1..0 = {} /\ pos - 1 = 0
    BY <1>3
  <2> QED BY <1>3, <2>1 DEF Default
<1>11. Reached(bbs, at, cur, pos)
  <2>1. From[1] \in Seq(Nat)
    BY <1>1, <1>2, <1>6, FromFacts
  <2>2. bbs[3].sel = NoSel /\ bbs[3].code = <<>>
    BY <1>3, TermFacts
  <2>3. <<>> \o From[1] = From[1]
    BY <2>1
  <2> QED BY <1>3, <1>5, <2>2, <2>3 DEF Reached
<1> QED BY <1>3, <1>7, <1>8, <1>9, <1>10, <1>11 DEF Corr

\* Every item keeps the simulation.
LEMMA SimItem ==
  ASSUME IInv, Told, Sim, genItem
  PROVE  Sim'
<1>1. /\ phase = "gen" /\ pos <= Len(items) /\ items' = items /\ pos' = pos + 1
      /\ \/ genCaseLabel(items[pos]) \/ DefaultLabel(items[pos]) \/ genSubStart(items[pos])
         \/ genSubEnd(items[pos]) \/ Break(items[pos]) \/ Statement(items[pos])
  BY DEF genItem
<1>2. SUFFICES ASSUME ~hadError_', Sound', Distinct'
               PROVE  phase' # "done" /\ \E at : Corr(bbs, at, cur, pos, swc)'
  BY DEF Sim
<1>3. Sound /\ Distinct
  BY <1>1, <1>2, SoundFixed, DistinctFixed
<1>4. /\ ~hadError_ /\ OkItem(pos) /\ pos \in 1..Len(items) /\ phase' \in {"gen", "endless"}
      /\ ToldOf(pos, swc.inGroup, swc.nextCaseVal)
  BY <1>2, ToldItem
<1>5. PICK at : Corr(bbs, at, cur, pos, swc)
  BY <1>1, <1>3, <1>4 DEF Sim
<1>6. Typed /\ Ctl /\ swc \in SwitchCtx /\ Go(bbs, at, cur, pos, swc) /\ 0 \in Nat /\ 1 \in Nat /\ 2 \in Nat
  BY <1>1, <1>3, <1>4, <1>5, IInvFacts, GoOf
<1>7. \E at2 : Corr(bbs', at2, cur', pos + 1, swc')
  <2>0. PICK bs, c, p, w, bs2, c2, w2 :
          bs = bbs /\ c = cur /\ p = pos /\ w = swc /\ bs2 = bbs' /\ c2 = cur' /\ w2 = swc'
    OBVIOUS
  <2>9. w \in SwitchCtx /\ Go(bs, at, c, p, w)
    BY <1>6, <2>0
  <2>1. CASE genCaseLabel(items[pos])
    <3>1. PICK lo \in Int, hi \in Int, next \in Int :
           /\ lo <= hi
           /\ IF swc.inGroup THEN GroupCase(lo, hi, next) ELSE PlainCase(lo, hi, next)
           /\ lo = IF items[pos].lo = Null THEN swc.nextCaseVal ELSE items[pos].lo
           /\ items[pos].k = "case" /\ hi = IF items[pos].lo = Null THEN lo ELSE items[pos].hi
      BY <1>1, <1>2, <1>6, <2>1, CaseStep
    <3>2. HiOf[pos] = IF items[pos].lo = Null THEN Wrap(HiOf[pos - 1] + 1) ELSE items[pos].hi
      BY <1>4, <3>1, HiFacts, IInvFacts, <1>1
    <3>3. hi = HiOf[pos] /\ lo = LoOf(pos)
      BY <1>4, <3>1, <3>2 DEF ToldOf, LoOf
    <3> QED BY <1>1, <1>3, <1>4, <1>5, <3>1, <3>3, CaseSim
  <2>2. CASE DefaultLabel(items[pos])
    <3>1. items[pos].k = "default" /\ ~swc.inGroup
      BY <1>2, <2>2 DEF DefaultLabel
    <3>2. /\ Grown(1) /\ Keeps({cur}) /\ bbs'[Len(bbs) + 1] = EmptyBlock /\ cur' = Len(bbs) + 1
          /\ Ends(cur, bbs[cur].sel, Goto(Len(bbs) + 1))
          /\ swc' = IF swc.inGroup THEN swc ELSE [swc EXCEPT !.dflt = Len(bbs) + 1]
      BY <1>1, <1>6, <2>2, DefaultStep
    <3>3. /\ More(bs, bs2, 1, {c}) /\ bs2[Len(bs) + 1] = EmptyBlock /\ c2 = Len(bs) + 1
          /\ bs2[c].code = bs[c].code /\ bs2[c].term = Goto(Len(bs) + 1) /\ items[p].k = "default"
      BY <1>6, <2>0, <3>1, <3>2, MoreOf DEF Ends
    <3>4. ~w2.inGroup /\ w2.cases = w.cases /\ w2.dflt = Len(bs) + 1 /\ ~w.inGroup
      BY <1>6, <2>0, <3>1, <3>2 DEF SwitchCtx
    <3>5. \E at2 : Corr(bs2, at2, Len(bs) + 1, p + 1, w2)
      BY <2>9, <3>3, <3>4, DefaultCorr
    <3> QED BY <2>0, <3>3, <3>5
  <2>3. CASE genSubStart(items[pos])
    <3>1. items[pos].k = "start" /\ ~swc.inGroup
      BY <1>2, <2>3 DEF genSubStart
    <3>2. /\ Grown(2) /\ Keeps({cur}) /\ bbs'[Len(bbs) + 1] = EmptyBlock /\ bbs'[Len(bbs) + 2] = EmptyBlock
          /\ cur' = Len(bbs) + 1 /\ Ends(cur, 0, Goto(Len(bbs) + 1))
          /\ swc' = [swc EXCEPT !.inGroup = TRUE, !.groupStartBB = Len(bbs) + 1, !.groupEndBB = Len(bbs) + 2,
                               !.groupSw = NoBlock, !.nextGroupId = 0]
      BY <1>1, <1>6, <2>3, <3>1, StartStep
    <3>3. /\ More(bs, bs2, 2, {c}) /\ bs2[Len(bs) + 1] = EmptyBlock /\ bs2[Len(bs) + 2] = EmptyBlock /\ c2 = Len(bs) + 1
          /\ bs2[c].code = bs[c].code /\ bs2[c].sel = 0 /\ bs2[c].term = Goto(Len(bs) + 1) /\ items[p].k = "start"
      BY <1>6, <2>0, <3>1, <3>2, MoreOf DEF Ends
    <3>4. /\ w2.inGroup /\ w2.cases = w.cases /\ w2.dflt = w.dflt /\ w2.groupStartBB = Len(bs) + 1
          /\ w2.groupEndBB = Len(bs) + 2 /\ w2.groupSw = NoBlock /\ w2.nextGroupId = 0 /\ ~w.inGroup
      BY <1>6, <2>0, <3>1, <3>2 DEF SwitchCtx
    <3>5. \E at2 : Corr(bs2, at2, Len(bs) + 1, p + 1, w2)
      BY <2>9, <3>3, <3>4, StartCorr
    <3> QED BY <2>0, <3>3, <3>5
  <2>4. CASE genSubEnd(items[pos])
    <3>1. items[pos].k = "end" /\ swc.inGroup
      BY <1>2, <2>4 DEF genSubEnd
    <3>2. /\ Grown(0) /\ Keeps({cur}) /\ cur' = swc.groupEndBB
          /\ Ends(cur, bbs[cur].sel, Goto(swc.groupEndBB)) /\ swc' = [swc EXCEPT !.inGroup = FALSE]
      BY <1>1, <1>6, <2>4, <3>1, EndStep
    <3>3. /\ More(bs, bs2, 0, {c}) /\ c2 = w.groupEndBB
          /\ bs2[c].code = bs[c].code /\ bs2[c].term = Goto(w.groupEndBB) /\ items[p].k = "end"
      BY <1>6, <2>0, <3>1, <3>2, MoreOf DEF Ends
    <3>4. ~w2.inGroup /\ w2.cases = w.cases /\ w2.dflt = w.dflt /\ w.inGroup
      BY <1>6, <2>0, <3>1, <3>2 DEF SwitchCtx
    <3>5. \E at2 : Corr(bs2, at2, w.groupEndBB, p + 1, w2)
      BY <2>9, <3>3, <3>4, EndCorr
    <3> QED BY <2>0, <3>3, <3>5
  <2>5. CASE Break(items[pos])
    <3>1. items[pos].k = "break"
      BY <2>5 DEF Break
    <3>2. /\ Grown(1) /\ Keeps({cur}) /\ bbs'[Len(bbs) + 1] = EmptyBlock /\ cur' = Len(bbs) + 1
          /\ Ends(cur, bbs[cur].sel, Goto(IF swc.inGroup THEN swc.groupEndBB ELSE ExitBB)) /\ swc' = swc
      BY <1>1, <1>6, <2>5, BreakStep
    <3>3. /\ More(bs, bs2, 1, {c}) /\ bs2[Len(bs) + 1] = EmptyBlock /\ c2 = Len(bs) + 1 /\ w2 = w
          /\ bs2[c].code = bs[c].code /\ bs2[c].sel = bs[c].sel
          /\ bs2[c].term = Goto(IF w.inGroup THEN w.groupEndBB ELSE ExitBB) /\ items[p].k = "break"
      BY <1>6, <2>0, <3>1, <3>2, MoreOf DEF Ends
    <3>4. \E at2 : Corr(bs2, at2, Len(bs) + 1, p + 1, w)
      <4>1. CASE w.inGroup
        <5>1. bs2[c].term = Goto(w.groupEndBB)
          BY <3>3, <4>1
        <5> QED BY <2>9, <3>3, <4>1, <5>1, BreakInCorr
      <4>2. CASE ~w.inGroup
        <5>1. bs2[c].term = Goto(ExitBB)
          BY <3>3, <4>2
        <5> QED BY <2>9, <3>3, <4>2, <5>1, BreakOutCorr
      <4> QED BY <4>1, <4>2
    <3> QED BY <2>0, <3>3, <3>4
  <2>6. CASE Statement(items[pos])
    <3>1. items[pos].k = "stmt"
      BY <2>6 DEF Statement
    <3>2. /\ Grown(0) /\ Keeps({cur}) /\ cur' = cur /\ swc' = swc
          /\ bbs'[cur].code = Append(bbs[cur].code, pos) /\ bbs'[cur].sel = bbs[cur].sel /\ bbs'[cur].term = None
      BY <1>1, <1>6, <2>6, StmtStep
    <3>3. /\ More(bs, bs2, 0, {c}) /\ c2 = c /\ w2 = w
          /\ bs2[c].code = Append(bs[c].code, p) /\ bs2[c].sel = bs[c].sel /\ bs2[c].term = None /\ items[p].k = "stmt"
      BY <1>6, <2>0, <3>1, <3>2, MoreOf
    <3>4. Corr(bs2, at, c, p + 1, w)
      BY <2>9, <3>3, StmtCorr
    <3> QED BY <2>0, <3>3, <3>4
  <2> QED BY <1>1, <2>1, <2>2, <2>3, <2>4, <2>5, <2>6
<1>8. PICK bs2, at2, c2, q, w2 :
        bs2 = bbs' /\ c2 = cur' /\ q = pos' /\ w2 = swc' /\ Corr(bs2, at2, c2, q, w2)
  BY <1>1, <1>7
<1>9. Corr(bs2, at2, c2, q, w2)'
  BY <1>1, <1>8, CorrFixed
<1>10. Corr(bbs, at2, cur, pos, swc)'
  BY <1>8, <1>9
<1> QED BY <1>4, <1>10

\* At the end the insert point is the last block, and leads out of the switch.
LEMMA SimFinish ==
  ASSUME IInv, Told, Sim, Finish
  PROVE  Sim'
<1>1. /\ phase = "gen" /\ items' = items /\ pos' = pos /\ swc' = swc /\ phase' = "done" /\ bbs' = Br(bbs, cur, ExitBB)
  BY DEF Finish
<1>2. SUFFICES ASSUME ~hadError_', Sound', Distinct' PROVE \E at : Whole(at)'
  BY <1>1 DEF Sim
<1>3. Sound /\ Distinct
  BY <1>1, <1>2, SoundFixed, DistinctFixed
<1>4. ~hadError_ /\ pos = Len(items) + 1 /\ ~swc.inGroup
  BY <1>2, ToldFinish
<1>5. PICK at : Corr(bbs, at, cur, pos, swc)
  BY <1>1, <1>3, <1>4 DEF Sim
<1>6. Body /\ Ready(bbs, cur, swc)
  BY <1>1, IInvFacts DEF Ready
<1>7. PICK bs, c, p, w, bs2 : bs = bbs /\ c = cur /\ p = pos /\ w = swc /\ bs2 = bbs'
  OBVIOUS
<1>8. /\ More(bs, bs2, 0, {c}) /\ bs2[c].code = bs[c].code /\ bs2[c].term = Goto(ExitBB)
  <2>1. bs \in Seq(Block) /\ c \in DOMAIN bs /\ bs[c].term = None /\ ExitBB \in Nat
    BY <1>6, <1>7 DEF Ready, ExitBB
  <2>2. bs2 = Br(bs, c, ExitBB)
    BY <1>1, <1>7
  <2>3. /\ bs2 \in Seq(Block) /\ Len(bs2) = Len(bs) /\ DOMAIN bs2 = DOMAIN bs
        /\ bs2[c].code = bs[c].code /\ bs2[c].term = Goto(ExitBB) /\ \A b \in DOMAIN bs : b # c => bs2[b] = bs[b]
    BY <2>1, <2>2, BrOpen
  <2> QED BY <2>1, <2>3 DEF More
<1>9. WholeOf(bs2, at, w, p)
  <2>1. p = Len(items) + 1 /\ Ready(bs, c, w) /\ Corr(bs, at, c, p, w) /\ ~w.inGroup
    BY <1>4, <1>5, <1>6, <1>7
  <2> QED BY <1>3, <1>6, <1>8, <2>1, FinishCorr DEF WholeOf
<1>10. WholeOf(bs2, at, w, p)'
  BY <1>1, <1>9, WholeFixed
<1>11. bs2 = bbs' /\ w = swc' /\ p = Len(items') + 1
  BY <1>1, <1>4, <1>7
<1>12. Whole(at)'
  BY <1>10, <1>11 DEF WholeOf, Whole
<1> QED BY <1>12

\* Every step keeps the simulation.
LEMMA SimStep ==
  ASSUME IInv, Told, Sim, [Next]_vars
  PROVE  Sim'
<1>1. CASE genItem
  BY <1>1, SimItem
<1>2. CASE Finish
  BY <1>2, SimFinish
<1>3. CASE UNCHANGED vars
  <2>1. /\ items' = items /\ pos' = pos /\ phase' = phase /\ bbs' = bbs /\ cur' = cur /\ swc' = swc
        /\ hadError_' = hadError_
    BY <1>3 DEF vars
  <2>2. SUFFICES ASSUME ~hadError_', Sound', Distinct'
                 PROVE  \E at : (IF phase = "done" THEN Whole(at) ELSE Corr(bbs, at, cur, pos, swc))'
    BY DEF Sim
  <2>3. ~hadError_ /\ Sound /\ Distinct
    BY <2>1, <2>2, SoundFixed, DistinctFixed
  <2>4. PICK at : IF phase = "done" THEN Whole(at) ELSE Corr(bbs, at, cur, pos, swc)
    BY <2>3 DEF Sim
  <2>5. PICK bs, c, p, w, n : bs = bbs /\ c = cur /\ p = pos /\ w = swc /\ n = Len(items) + 1
    OBVIOUS
  <2>6. (WholeOf(bs, at, w, n)' <=> WholeOf(bs, at, w, n)) /\ (Corr(bs, at, c, p, w)' <=> Corr(bs, at, c, p, w))
    BY <2>1, WholeFixed, CorrFixed
  <2>7. CASE phase = "done"
    <3>1. WholeOf(bs, at, w, n)
      BY <2>4, <2>5, <2>7 DEF WholeOf, Whole
    <3>2. WholeOf(bs, at, w, n)'
      BY <2>6, <3>1
    <3>3. bs = bbs' /\ w = swc' /\ n = Len(items') + 1
      BY <2>1, <2>5
    <3>4. Whole(at)'
      BY <3>2, <3>3 DEF WholeOf, Whole
    <3> QED BY <2>1, <2>7, <3>4
  <2>8. CASE phase # "done"
    <3>1. Corr(bs, at, c, p, w)
      BY <2>4, <2>5, <2>8
    <3>2. Corr(bs, at, c, p, w)'
      BY <2>6, <3>1
    <3>3. bs = bbs' /\ c = cur' /\ p = pos' /\ w = swc'
      BY <2>1, <2>5
    <3>4. Corr(bbs, at, cur, pos, swc)'
      BY <3>2, <3>3
    <3> QED BY <2>1, <2>8, <3>4
  <2> QED BY <2>7, <2>8
<1> QED BY <1>1, <1>2, <1>3 DEF Next

\* What the simulation says when the switch is done.
LEMMA SimMeans ==
  ASSUME IInv, Told, Sim
  PROVE  LoweringCorrect
<1>1. SUFFICES ASSUME Accepted, Distinct
               PROVE  Unique /\ \A v \in MinI..MaxI : Exec(v) = Meaning(v)
  BY DEF LoweringCorrect
<1>2. Sound
  BY <1>1 DEF Told, Accepted
<1>3. PICK at : Whole(at)
  BY <1>1, <1>2 DEF Sim, Accepted
<1>4. Unique
  BY <1>3 DEF Whole, Serving, Unique
<1>5. ASSUME NEW v \in MinI..MaxI PROVE Exec(v) = Meaning(v)
  BY <1>1, <1>2, <1>3, ExecIsMeaning
<1> QED BY <1>4, <1>5

\* In every switch that is accepted, of any length and width, with ranges, null cases and groups
\* in any order, whatever value it is given the blocks run the statements it means, and cases
\* that are distinct in the source are distinct in the SwitchInst (LoweringCorrect).
THEOREM SwitchRunsItsMeaning == Spec => []LoweringCorrect
<1> DEFINE Inv == IInv /\ Told /\ Sim
<1>1. Init => Inv
  BY InitIInv, InitTold, InitSim
<1>2. Inv /\ [Next]_vars => Inv'
  BY IInvStep, ToldStep, SimStep
<1>3. Inv => LoweringCorrect
  BY SimMeans
<1> QED BY <1>1, <1>2, <1>3, PTL DEF Spec
=============================================================================
