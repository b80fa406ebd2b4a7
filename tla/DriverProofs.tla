---------------------------- MODULE DriverProofs ----------------------------
(***************************************************************************)
(* Proofs about the driver (Pipeline), the preprocessor that runs in it    *)
(* (Preprocessor) and the macros it expands (MacroExpansion).              *)
(*                                                                         *)
(* For every text and every bound, the conditionals select what they say;  *)
(* for every table of macros without recursion, the parser is given what   *)
(* the text stands for; for every combination of options, every failure    *)
(* and any number of snippets and prints, exit status 0 means the outputs  *)
(* asked for unless a snippet gave it, and a snippet splices in its own    *)
(* output.                                                                 *)
(***************************************************************************)
EXTENDS Preprocessor, Pipeline, MacroExpansion, SeqLemmas, FiniteSetTheorems, SequenceTheorems, TLAPS

Branch == [val : BOOLEAN, inElse : BOOLEAN]

-----------------------------------------------------------------------------
(* Conditionals and the branches being read *)

Sel(n, k) == \A j \in 1..k : n[j].val # n[j].inElse

\* The flags of the conditional at level i, as the branches n determine them.
\* What #else will do depends on "taken", so it is part of the invariant; in a
\* region that is skipped anyway it may hold any value, and does.
Level(c, n, i) ==
  /\ c[i].active <=> Sel(n, i)
  /\ c[i].elseSeen <=> n[i].inElse
  /\ Sel(n, i - 1) /\ ~c[i].elseSeen => (c[i].taken <=> n[i].val)

Agree(c, n) == Len(n) = Len(c) /\ \A i \in 1..Len(c) : Level(c, n, i)

Skipping(c) == \E i \in 1..Len(c) : ~c[i].active

\* Whether a prefix of the branches is selected depends on that prefix only.
LEMMA SelOfPrefix ==
  ASSUME NEW n, NEW m, NEW k \in Nat, \A j \in 1..k : n[j] = m[j]
  PROVE  Sel(n, k) <=> Sel(m, k)
  BY DEF Sel

\* One more level is selected when those around it are and its own branch is.
LEMMA SelNext ==
  ASSUME NEW n, NEW k \in Nat
  PROVE  Sel(n, k + 1) <=> Sel(n, k) /\ n[k + 1].val # n[k + 1].inElse
  <1>1. 1..(k + 1) = 1..k \cup {k + 1}
    OBVIOUS
  <1>. QED
    BY <1>1 DEF Sel

\* What is selected at one level is selected at every level around it.
LEMMA SelShorter ==
  ASSUME NEW n, NEW k \in Nat, NEW l \in 0..k, Sel(n, k)
  PROVE  Sel(n, l)
  BY DEF Sel

\* Text is skipped exactly when some branch around it is not selected.
LEMMA SkippingMeans ==
  ASSUME NEW c \in Seq(Cond), NEW n \in Seq(Branch), Agree(c, n)
  PROVE  Skipping(c) <=> ~Sel(n, Len(n))
  <1>1. Len(c) \in Nat /\ Len(n) = Len(c)
    BY DEF Agree
  <1>2. ASSUME NEW i \in 1..Len(c), ~c[i].active
        PROVE  ~Sel(n, Len(c))
    <2>1. ~Sel(n, i)
      BY <1>2 DEF Agree, Level
    <2>2. i \in 0..Len(c)
      BY <1>1
    <2>. QED
      BY <1>1, <2>1, <2>2, SelShorter
  <1>3. ASSUME ~Sel(n, Len(c))
        PROVE  Skipping(c)
    <2>1. Len(c) # 0
      BY <1>3 DEF Sel
    <2>2. Len(c) \in 1..Len(c)
      BY <1>1, <2>1
    <2>3. ~c[Len(c)].active
      BY <1>3, <2>2 DEF Agree, Level
    <2>. QED
      BY <2>2, <2>3 DEF Skipping
  <1>. QED
    BY <1>1, <1>2, <1>3 DEF Skipping

\* Levels that a step leaves alone keep their flags right.
LEMMA LevelKept ==
  ASSUME NEW c, NEW n, NEW d, NEW m, NEW k \in Nat,
         \A j \in 1..k : c[j] = d[j] /\ n[j] = m[j],
         NEW i \in 1..k, Level(c, n, i)
  PROVE  Level(d, m, i)
  <1>1. i \in Nat /\ i - 1 \in Nat /\ i <= k /\ i - 1 <= k
    OBVIOUS
  <1>2. Sel(n, i) <=> Sel(m, i)
    BY <1>1, SelOfPrefix
  <1>3. Sel(n, i - 1) <=> Sel(m, i - 1)
    BY <1>1, SelOfPrefix
  <1>. QED
    BY <1>2, <1>3 DEF Level

\* The flags #if pushes are right for the branch that is opened.
LEMMA PushAgree ==
  ASSUME NEW c \in Seq(Cond), NEW n \in Seq(Branch), Agree(c, n),
         NEW e \in Cond, NEW b \in Branch,
         e.active <=> (~Skipping(c) /\ b.val), ~e.elseSeen, ~b.inElse,
         ~Skipping(c) => (e.taken <=> b.val)
  PROVE  Agree(Append(c, e), Append(n, b))
  <1> DEFINE d == Append(c, e)
             m == Append(n, b)
             k == Len(c)
  <1>1. /\ k \in Nat /\ Len(n) = k /\ Len(d) = k + 1 /\ Len(m) = k + 1
        /\ d[k + 1] = e /\ m[k + 1] = b
        /\ \A j \in 1..k : c[j] = d[j] /\ n[j] = m[j]
    BY AppendFacts DEF Agree
  <1>2. Skipping(c) <=> ~Sel(n, k)
    BY <1>1, SkippingMeans
  <1> HIDE DEF d, m, k
  <1>3. Sel(m, k) <=> Sel(n, k)
    BY <1>1, SelOfPrefix
  <1>4. Sel(m, k + 1) <=> Sel(m, k) /\ b.val
    <2>1. b.val # b.inElse <=> b.val
      BY DEF Branch
    <2>. QED
      BY <1>1, <2>1, SelNext
  <1>5. Level(d, m, k + 1)
    BY <1>1, <1>2, <1>3, <1>4 DEF Level
  <1>6. ASSUME NEW i \in 1..k
        PROVE  Level(d, m, i)
    <2>1. Level(c, n, i)
      BY DEF Agree, k
    <2>. QED
      BY <1>1, <2>1, LevelKept
  <1>7. \A i \in 1..(k + 1) : Level(d, m, i)
    BY <1>1, <1>5, <1>6
  <1>. QED
    BY <1>1, <1>7 DEF Agree, d, m

\* #endif leaves the flags of the levels around it right.
LEMMA PopAgree ==
  ASSUME NEW c \in Seq(Cond), NEW n \in Seq(Branch), Agree(c, n), c # <<>>
  PROVE  Agree(Popped(c), Popped(n))
  <1> DEFINE d == SubSeq(c, 1, Len(c) - 1)
             m == SubSeq(n, 1, Len(n) - 1)
             k == Len(c) - 1
  <1>1. k \in 0..Len(c) /\ k \in Nat /\ Len(n) = Len(c)
    BY DEF Agree
  <1>2. /\ Len(d) = k /\ Len(m) = k
        /\ \A j \in 1..k : c[j] = d[j] /\ n[j] = m[j]
    BY <1>1, PrefixFacts
  <1>3. \A i \in 1..k : Level(c, n, i)
    BY <1>1 DEF Agree
  <1> HIDE DEF d, m, k
  <1>4. \A i \in 1..k : Level(d, m, i)
    BY <1>1, <1>2, <1>3, LevelKept
  <1>. QED
    BY <1>2, <1>4 DEF Agree, Popped, d, m

\* The flags #else sets are right for the other branch.
LEMMA FlipAgree ==
  ASSUME NEW c \in Seq(Cond), NEW n \in Seq(Branch), Agree(c, n), c # <<>>,
         ~c[Len(c)].elseSeen,
         NEW d, NEW m, Len(d) = Len(c), Len(m) = Len(n),
         \A j \in 1..(Len(c) - 1) : c[j] = d[j] /\ n[j] = m[j],
         d[Len(c)].active <=> ((\A i \in 1..(Len(c) - 1) : c[i].active)
                                 /\ ~c[Len(c)].taken),
         d[Len(c)].elseSeen,
         m[Len(c)].val = n[Len(c)].val, m[Len(c)].inElse = TRUE
  PROVE  Agree(d, m)
  <1> DEFINE k == Len(c) - 1
  <1>1. k \in Nat /\ Len(c) = k + 1 /\ Len(n) = k + 1 /\ k + 1 \in 1..(k + 1)
    BY DEF Agree
  <1>2. \A i \in 1..(k + 1) : Level(c, n, i)
    BY <1>1 DEF Agree
  <1> DEFINE p == k + 1
  <1>3. n[p] \in Branch /\ n[p].val \in BOOLEAN /\ c[p] \in Cond
    <2>1. n[p] \in Branch /\ c[p] \in Cond
      BY <1>1
    <2>. QED
      BY <2>1 DEF Branch
  <1>4. m[p].val = n[p].val /\ m[p].inElse = TRUE
    BY <1>1
  <1>5. d[p].elseSeen
    BY <1>1
  <1>6. d[p].active <=> (\A i \in 1..k : c[i].active) /\ ~c[p].taken
    BY <1>1
  <1>7. (\A i \in 1..k : c[i].active) <=> Sel(n, k)
    <2>1. ASSUME Sel(n, k), NEW i \in 1..k
          PROVE  c[i].active
      <3>1. i \in 0..k /\ i \in 1..(k + 1)
        BY <1>1
      <3>2. Sel(n, i)
        BY <1>1, <2>1, <3>1, SelShorter
      <3>. QED
        BY <1>2, <3>1, <3>2 DEF Level
    <2>2. ASSUME \A i \in 1..k : c[i].active
          PROVE  Sel(n, k)
      <3>1. CASE k = 0
        BY <3>1 DEF Sel
      <3>2. CASE k # 0
        <4>1. k \in 1..k /\ k \in 1..(k + 1)
          BY <1>1, <3>2
        <4>. QED
          BY <1>2, <2>2, <4>1 DEF Level
      <3>. QED
        BY <3>1, <3>2
    <2>. QED
      BY <2>1, <2>2
  <1>8. Sel(n, k) => (c[p].taken <=> n[p].val)
    <2>1. Level(c, n, p) /\ p - 1 = k /\ ~c[p].elseSeen
      BY <1>1, <1>2
    <2>. QED
      BY <2>1 DEF Level
  <1>9. \A j \in 1..k : c[j] = d[j] /\ n[j] = m[j]
    OBVIOUS
  <1>10. Len(d) = p /\ Len(m) = p
    BY <1>1
  <1> HIDE DEF k
  <1>11. Sel(m, k) <=> Sel(n, k)
    BY <1>1, <1>9, SelOfPrefix
  <1>12. Sel(m, p) <=> Sel(m, k) /\ ~n[p].val
    <2>1. (m[p].val # m[p].inElse) <=> ~n[p].val
      BY <1>3, <1>4
    <2>. QED
      BY <1>1, <2>1, SelNext
  <1>13. Level(d, m, p)
    BY <1>4, <1>5, <1>6, <1>7, <1>8, <1>11, <1>12 DEF Level
  <1>14. ASSUME NEW i \in 1..k
         PROVE  Level(d, m, i)
    <2>1. Level(c, n, i)
      BY <1>1, <1>2
    <2>. QED
      BY <1>1, <1>9, <2>1, LevelKept
  <1>15. \A i \in 1..p : Level(d, m, i)
    BY <1>1, <1>13, <1>14
  <1>. QED
    BY <1>10, <1>15 DEF Agree
-----------------------------------------------------------------------------
(* The steps *)

CondInv ==
  /\ TypeOK
  /\ Len(nest) = Len(conds_)
  /\ Faithful => Agree(conds_, nest)

\* What the four ways of touching conds_ do to the invariant's parts about it.
CondsOK ==
  /\ conds_ \in Seq(Cond) /\ nest \in Seq(Branch)
  /\ Len(nest) = Len(conds_)

\* OpenCond keeps the flags right.
LEMMA OpenStep ==
  ASSUME CondInv, NEW val \in BOOLEAN, NEW tk \in BOOLEAN, OpenCond(val, tk)
  PROVE  CondsOK' /\ (Agree(conds_, nest) => Agree(conds_', nest'))
  <1> DEFINE e == [active |-> ~skippingConds /\ val,
                   taken |-> IF skippingConds THEN tk ELSE val, elseSeen |-> FALSE]
             b == [val |-> val, inElse |-> FALSE]
  <1>1. skippingConds \in BOOLEAN /\ (skippingConds <=> Skipping(conds_))
    BY DEF skippingConds, Skipping
  <1>2. e \in Cond /\ b \in Branch
    BY <1>1 DEF Cond, Branch
  <1>3. conds_' = Append(conds_, e) /\ nest' = Append(nest, b)
    BY DEF OpenCond
  <1>4. /\ e.active <=> (~Skipping(conds_) /\ b.val)
        /\ ~e.elseSeen /\ ~b.inElse
        /\ ~Skipping(conds_) => (e.taken <=> b.val)
    BY <1>1
  <1> HIDE DEF e, b
  <1>5. conds_ \in Seq(Cond) /\ nest \in Seq(Branch) /\ Len(nest) = Len(conds_)
    BY DEF CondInv, TypeOK, Branch
  <1>6. CondsOK'
    BY <1>2, <1>3, <1>5, AppendFacts DEF CondsOK
  <1>7. ASSUME Agree(conds_, nest)
        PROVE  Agree(Append(conds_, e), Append(nest, b))
    BY <1>2, <1>4, <1>5, <1>7, PushAgree
  <1>. QED
    BY <1>3, <1>6, <1>7

\* CloseCond keeps the flags right.
LEMMA CloseStep ==
  ASSUME CondInv, conds_ # <<>>, CloseCond
  PROVE  CondsOK' /\ (Agree(conds_, nest) => Agree(conds_', nest'))
  <1>1. conds_ \in Seq(Cond) /\ nest \in Seq(Branch) /\ Len(nest) = Len(conds_)
    BY DEF CondInv, TypeOK, Branch
  <1>2. Len(conds_) - 1 \in 0..Len(conds_)
    BY <1>1
  <1>3. CondsOK'
    BY <1>1, <1>2, PrefixFacts DEF CloseCond, Popped, CondsOK
  <1>. QED
    BY <1>1, <1>3, PopAgree DEF CloseCond

\* FlipCond keeps the flags right, at the first #else of a conditional.
LEMMA FlipStep ==
  ASSUME CondInv, conds_ # <<>>, FlipCond
  PROVE  /\ CondsOK'
         /\ Agree(conds_, nest) /\ ~conds_[Len(conds_)].elseSeen => Agree(conds_', nest')
  <1>1. conds_ \in Seq(Cond) /\ nest \in Seq(Branch) /\ Len(nest) = Len(conds_)
    BY DEF CondInv, TypeOK, Branch
  <1> DEFINE k == Len(conds_)
             o == (\A i \in 1..(k - 1) : conds_[i].active) /\ ~conds_[k].taken
             e == [active |-> o, taken |-> TRUE, elseSeen |-> TRUE]
             b == [nest[k] EXCEPT !.inElse = TRUE]
  <1>2. k \in 1..Len(conds_) /\ k \in 1..Len(nest)
    BY <1>1
  <1>3. conds_' = [conds_ EXCEPT ![k] = e] /\ nest' = [nest EXCEPT ![k] = b]
    BY DEF FlipCond
  <1>4. nest[k] \in Branch
    BY <1>1, <1>2
  <1>5. b \in Branch /\ b.val = nest[k].val /\ b.inElse = TRUE
    BY <1>4 DEF Branch
  <1>6. o \in BOOLEAN
    OBVIOUS
  <1>7. e.active <=> o
    OBVIOUS
  <1>8. e.elseSeen
    OBVIOUS
  <1>9. o <=> ((\A i \in 1..(k - 1) : conds_[i].active) /\ ~conds_[k].taken)
    OBVIOUS
  <1> HIDE DEF o
  <1>10. e \in Cond
    BY <1>6 DEF Cond
  <1> HIDE DEF e, b
  <1>11. /\ conds_' \in Seq(Cond) /\ Len(conds_') = Len(conds_) /\ conds_'[k] = e
         /\ \A i \in 1..Len(conds_) : i # k => conds_'[i] = conds_[i]
    BY <1>1, <1>2, <1>3, <1>10, UpdateFacts
  <1>12. /\ nest' \in Seq(Branch) /\ Len(nest') = Len(nest) /\ nest'[k] = b
         /\ \A i \in 1..Len(nest) : i # k => nest'[i] = nest[i]
    BY <1>1, <1>2, <1>3, <1>5, UpdateFacts
  <1>13. CondsOK'
    BY <1>1, <1>11, <1>12 DEF CondsOK
  <1>14. \A j \in 1..(k - 1) : conds_[j] = conds_'[j] /\ nest[j] = nest'[j]
    BY <1>1, <1>11, <1>12
  <1>15. ASSUME Agree(conds_, nest), ~conds_[k].elseSeen
         PROVE  Agree(conds_', nest')
    <2>1. conds_'[k].active <=> ((\A i \in 1..(k - 1) : conds_[i].active) /\ ~conds_[k].taken)
      BY <1>7, <1>9, <1>11
    <2>2. conds_'[k].elseSeen
      BY <1>8, <1>11
    <2>3. nest'[k].val = nest[k].val /\ nest'[k].inElse = TRUE
      BY <1>5, <1>12
    <2>4. Len(conds_') = Len(conds_) /\ Len(nest') = Len(nest) /\ conds_ # <<>>
      BY <1>11, <1>12
    <2>. QED
      BY <1>1, <1>14, <1>15, <2>1, <2>2, <2>3, <2>4, FlipAgree
  <1>. QED
    BY <1>13, <1>15

\* Every item and every end of a source keeps the flags right.
LEMMA CondStep ==
  ASSUME CondInv, [Next]_vars
  PROVE  CondInv'
  <1>0. CondsOK
    BY DEF CondInv, CondsOK, TypeOK, Branch
  <1>1. ASSUME NEW val \in BOOLEAN, NEW tk \in BOOLEAN, OpenCond(val, tk),
               NEW bad \in BOOLEAN, Diagnose(bad), items' \in Nat
        PROVE  CondInv'
    <2>1. Faithful' => Faithful
      BY <1>1 DEF Faithful, Diagnose, OpenCond
    <2>. QED
      BY <1>1, <2>1, OpenStep
      DEF CondInv, CondsOK, TypeOK, Branch, OpenCond, Diagnose
  <1>2. ASSUME conds_' = conds_, nest' = nest, items' \in Nat, out' \in Nat,
               stack_' \in Seq({"file", "include", "exe"}), macros_' \subseteq Macros,
               hadError_' \in BOOLEAN, hadError_ => hadError_', misread' = misread
        PROVE  CondInv'
    BY <1>2 DEF CondInv, TypeOK, Faithful
  <1>3. ASSUME Else, items' \in Nat
        PROVE  CondInv'
    <2>1. CASE conds_ = <<>>
      BY <1>2, <1>3, <2>1 DEF Else, error, CondInv, TypeOK
    <2>2. CASE conds_ # <<>>
      <3>1. FlipCond /\ Diagnose(conds_[Len(conds_)].elseSeen)
        BY <1>3, <2>2 DEF Else
      <3>2. CondsOK'
        BY <2>2, <3>1, FlipStep
      <3>3. conds_[Len(conds_)].elseSeen \in BOOLEAN
        <4>1. conds_[Len(conds_)] \in Cond
          BY <1>0, <2>2 DEF CondsOK
        <4>. QED
          BY <4>1 DEF Cond
      <3>4. hadError_' \in BOOLEAN
        BY <3>1, <3>3 DEF Diagnose
      <3>5. Faithful' => Faithful /\ ~conds_[Len(conds_)].elseSeen
        BY <1>3, <3>1 DEF Faithful, Diagnose, Else
      <3>6. Faithful' => Agree(conds_', nest')
        BY <2>2, <3>1, <3>5, FlipStep DEF CondInv
      <3>. QED
        BY <1>3, <3>2, <3>4, <3>6 DEF CondInv, CondsOK, TypeOK, Branch, Else
    <2>. QED
      BY <2>1, <2>2
  <1>4. ASSUME Endif, items' \in Nat
        PROVE  CondInv'
    <2>1. CASE conds_ = <<>>
      BY <1>2, <1>4, <2>1 DEF Endif, error, CondInv, TypeOK
    <2>2. CASE conds_ # <<>>
      <3>1. CloseCond /\ hadError_' = hadError_
        BY <1>4, <2>2 DEF Endif, NoError
      <3>2. CondsOK' /\ (Agree(conds_, nest) => Agree(conds_', nest'))
        BY <2>2, <3>1, CloseStep
      <3>. QED
        BY <1>4, <3>1, <3>2 DEF CondInv, CondsOK, TypeOK, Branch, Endif, Faithful
    <2>. QED
      BY <2>1, <2>2
  <1>5. ASSUME OtherDirective, items' \in Nat
        PROVE  CondInv'
    <2>1. stack_' \in Seq({"file", "include", "exe"})
      <3>1. stack_' \in {stack_, Append(stack_, "include"), Append(stack_, "exe")}
        BY <1>5 DEF OtherDirective, Define, Undef, openInclude, handleExeBlock, Complain
      <3>2. stack_ \in Seq({"file", "include", "exe"})
        BY DEF CondInv, TypeOK
      <3>3. /\ Append(stack_, "include") \in Seq({"file", "include", "exe"})
            /\ Append(stack_, "exe") \in Seq({"file", "include", "exe"})
        BY <3>2, AppendFacts
      <3>. QED
        BY <3>1, <3>2, <3>3
    <2>2. macros_' \subseteq Macros /\ out' \in Nat
      BY <1>5 DEF OtherDirective, Define, Undef, openInclude, handleExeBlock, Complain,
                  CondInv, TypeOK
    <2>3. hadError_' \in BOOLEAN /\ (hadError_ => hadError_')
      <3>1. hadError_ \in BOOLEAN
        BY DEF CondInv, TypeOK
      <3>2. hadError_' = hadError_ \/ \E bad \in BOOLEAN : Diagnose(bad) \/ hadError_' = TRUE
        BY <1>5 DEF OtherDirective, Define, Undef, openInclude, handleExeBlock, Complain,
                    NoError, error
      <3>. QED
        BY <3>1, <3>2, Zenon DEF Diagnose
    <2>. QED
      BY <1>2, <1>5, <2>1, <2>2, <2>3 DEF OtherDirective
  <1>6. ASSUME Text, items' \in Nat
        PROVE  CondInv'
    <2>1. out' \in Nat
      BY <1>6 DEF Text, CondInv, TypeOK
    <2>2. hadError_' \in BOOLEAN /\ (hadError_ => hadError_')
      <3>1. hadError_ \in BOOLEAN
        BY DEF CondInv, TypeOK
      <3>2. hadError_' = hadError_ \/ hadError_' = TRUE
        BY <1>6 DEF Text
      <3>. QED
        BY <3>1, <3>2, Zenon
    <2>. QED
      BY <1>2, <1>6, <2>1, <2>2 DEF Text, CondInv, TypeOK
  <1>7. ASSUME StringWithHash, items' \in Nat
        PROVE  CondInv'
    <2>1. CASE Text
      BY <1>6, <1>7, <2>1
    <2>2. CASE skippingConds /\ (FlipCond \/ CloseCond) /\ misread' = TRUE
               /\ hadError_' \in {hadError_, TRUE} /\ UNCHANGED <<stack_, macros_, out>>
      <3>1. conds_ # <<>>
        BY <2>2 DEF skippingConds
      <3>2. CondsOK'
        BY <2>2, <3>1, FlipStep, CloseStep
      <3>. QED
        BY <1>7, <2>2, <3>2 DEF CondInv, CondsOK, TypeOK, Branch, Faithful
    <2>. QED
      BY <1>7, <2>1, <2>2 DEF StringWithHash
  <1>8. ASSUME EndOfSource, stack_ # <<>>, items' = items
        PROVE  CondInv'
    <2>1. Len(stack_) - 1 \in 0..Len(stack_)
      BY <1>8 DEF CondInv, TypeOK
    <2>2. stack_' \in Seq({"file", "include", "exe"})
      BY <1>8, <2>1, PrefixFacts DEF EndOfSource, Popped, CondInv, TypeOK
    <2>. QED
      BY <1>2, <1>8, <2>2 DEF EndOfSource, Diagnose, CondInv, TypeOK
  <1>9. ASSUME Item, items' \in Nat
        PROVE  CondInv'
    <2>0. /\ skippingConds \in BOOLEAN /\ FALSE \in BOOLEAN /\ TRUE \in BOOLEAN
          /\ (NoError => Diagnose(FALSE))
      BY DEF skippingConds, NoError, Diagnose, CondInv, TypeOK
    <2>1. ASSUME NEW mac \in Macros, Ifdef(mac) \/ Ifndef(mac)
          PROVE  CondInv'
      <3>1. (mac \in macros_) \in BOOLEAN /\ (mac \notin macros_) \in BOOLEAN
        OBVIOUS
      <3>. QED
        BY <1>1, <1>9, <2>0, <2>1, <3>1 DEF Ifdef, Ifndef
    <2>2. ASSUME NEW neg \in BOOLEAN, IfdefMalformed(neg)
          PROVE  CondInv'
      BY <1>1, <1>9, <2>0, <2>2 DEF IfdefMalformed
    <2>3. ASSUME NEW v \in BOOLEAN, NEW bad \in BOOLEAN, If(v, bad)
          PROVE  CondInv'
      <3>1. (~skippingConds /\ bad) \in BOOLEAN
        BY <2>0
      <3>. QED
        BY <1>1, <1>9, <2>0, <2>3, <3>1 DEF If
    <2>4. ASSUME NEW name \in {"ifjit", "ifaot"}, IfMode(name)
          PROVE  CondInv'
      <3>1. ((name = "ifjit") = JitMode) \in BOOLEAN
        OBVIOUS
      <3>. QED
        BY <1>1, <1>9, <2>0, <2>4, <3>1 DEF IfMode
    <2>. QED
      BY <1>3, <1>4, <1>5, <1>6, <1>7, <1>9, <2>1, <2>2, <2>3, <2>4 DEF Item
  <1>10. ASSUME Next
         PROVE  CondInv'
    <2>1. ASSUME items' = items + 1, Item
          PROVE  CondInv'
      <3>1. items' \in Nat
        BY <2>1 DEF CondInv, TypeOK
      <3>. QED
        BY <1>9, <2>1, <3>1
    <2>2. ASSUME UNCHANGED vars
          PROVE  CondInv'
      BY <2>2 DEF vars, CondInv, TypeOK, Faithful
    <2>. QED
      BY <1>8, <1>10, <2>1, <2>2 DEF Next
  <1>. QED
    BY <1>2, <1>10 DEF vars, CondInv, TypeOK

\* The inductive invariant: types, and flags that agree with the branches.
LEMMA CondInductive == Spec => []CondInv
  <1>1. ASSUME Init
        PROVE  CondInv
    <2>1. /\ Len(conds_) = 0 /\ Len(nest) = 0
          /\ conds_ \in Seq(Cond) /\ nest \in Seq(Branch)
      BY <1>1 DEF Init
    <2>2. Agree(conds_, nest)
      BY <2>1 DEF Agree
    <2>3. stack_ \in Seq({"file", "include", "exe"})
      <3>1. /\ <<"file">> \in Seq({"file", "include", "exe"})
            /\ <<"file", "include">> \in Seq({"file", "include", "exe"})
        OBVIOUS
      <3>. QED
        BY <1>1, <3>1 DEF Init
    <2>. QED
      BY <1>1, <2>1, <2>2, <2>3 DEF Init, CondInv, TypeOK, Branch
  <1>2. CondInv /\ [Next]_vars => CondInv'
    BY CondStep
  <1>. QED
    BY <1>1, <1>2, PTL DEF Spec

\* Every variable keeps its type, whatever the text.
THEOREM TypeCorrect == Spec => []TypeOK
  <1>1. CondInv => TypeOK
    BY DEF CondInv
  <1>. QED
    BY <1>1, CondInductive, PTL

\* In a text without errors, and until a string literal of skipped text is
\* misread, the active flag of each open conditional is TRUE exactly when the
\* text being read is in the branch it selects, and so are those around it.
THEOREM ConditionalsCorrect == Spec => []ActiveIsSelected
  <1>1. CondInv => ActiveIsSelected
    BY DEF CondInv, ActiveIsSelected, Agree, Level, Sel, Selected
  <1>. QED
    BY <1>1, CondInductive, PTL

\* Text in a branch that is not selected has no effect on the program, the
\* macro table or the open sources.
THEOREM SkippedTextIsInert == Spec => SkippedIsInert
  <1>1. ASSUME CondInv, [Next]_vars
        PROVE  [Faithful /\ ~Selected(Len(nest))
                  => /\ out' = out /\ macros_' = macros_
                     /\ Len(stack_') <= Len(stack_)]_vars
    <2> SUFFICES ASSUME Faithful, ~Selected(Len(nest)), Next
                 PROVE  out' = out /\ macros_' = macros_ /\ Len(stack_') <= Len(stack_)
      BY <1>1
    <2>1. skippingConds
      <3>1. conds_ \in Seq(Cond) /\ nest \in Seq(Branch) /\ Agree(conds_, nest)
        BY <1>1 DEF CondInv, TypeOK, Branch
      <3>2. ~Sel(nest, Len(nest))
        BY DEF Sel, Selected
      <3>. QED
        BY <3>1, <3>2, SkippingMeans DEF skippingConds, Skipping
    <2>2. Len(stack_) \in Nat
      BY <1>1 DEF CondInv, TypeOK
    <2>3. CASE Item
      <3>1. UNCHANGED <<out, macros_, stack_>>
        BY <2>1, <2>3 DEF Item, Ifdef, Ifndef, IfdefMalformed, If, IfMode, OpenCond,
           Else, Endif, OtherDirective, Text, StringWithHash
      <3>. QED
        BY <2>2, <3>1
    <2>4. CASE EndOfSource /\ stack_ # <<>>
      <3>1. Len(stack_) - 1 \in 0..Len(stack_) /\ stack_ \in Seq({"file", "include", "exe"})
        BY <1>1, <2>4 DEF CondInv, TypeOK
      <3>2. Len(stack_') = Len(stack_) - 1
        BY <2>4, <3>1, PrefixFacts DEF EndOfSource, Popped
      <3>. QED
        BY <2>2, <2>4, <3>2 DEF EndOfSource
    <2>5. CASE UNCHANGED vars
      BY <2>2, <2>5 DEF vars
    <2>. QED
      BY <2>3, <2>4, <2>5 DEF Next
  <1>. QED
    BY <1>1, CondInductive, PTL DEF Spec, SkippedIsInert

\* No item of the text takes a source off the stack.
LEMMA ItemsKeepSources ==
  ASSUME CondInv, stack_ # <<>>, Item
  PROVE  stack_' # <<>>
  <1>1. stack_' \in {stack_, Append(stack_, "include"), Append(stack_, "exe")}
    BY DEF Item, Ifdef, Ifndef, IfdefMalformed, If, IfMode, OpenCond, Else, Endif, Text,
           StringWithHash, OtherDirective, Define, Undef, openInclude, handleExeBlock, Complain
  <1>2. stack_ \in Seq({"file", "include", "exe"})
    BY DEF CondInv, TypeOK
  <1>3. Append(stack_, "include") # <<>> /\ Append(stack_, "exe") # <<>>
    <2>1. Len(Append(stack_, "include")) = Len(stack_) + 1 /\ Len(Append(stack_, "exe")) = Len(stack_) + 1
      BY <1>2, AppendFacts
    <2>2. Len(stack_) \in Nat /\ Len(<<>>) = 0
      BY <1>2
    <2>. QED
      BY <2>1, <2>2
  <1>. QED
    BY <1>1, <1>3

\* Whatever is open when the last source ends is reported: a program without
\* errors closes every conditional it opens, in whichever source it does so.
THEOREM NothingStaysOpen == Spec => []EndsBalanced
  <1>1. Init => EndsBalanced
    BY DEF Init, EndsBalanced
  <1>2. CondInv /\ EndsBalanced /\ [Next]_vars => EndsBalanced'
    <2> SUFFICES ASSUME CondInv, EndsBalanced, [Next]_vars, stack_' = <<>>, ~hadError_'
                 PROVE  conds_' = <<>>
      BY DEF EndsBalanced
    <2>1. CASE UNCHANGED vars
      BY <2>1 DEF vars, EndsBalanced
    <2>2. CASE stack_ # <<>> /\ Item
      BY <2>2, ItemsKeepSources
    <2>3. CASE stack_ # <<>> /\ EndOfSource
      <3>1. stack_ \in Seq({"file", "include", "exe"}) /\ Len(stack_) - 1 \in 0..Len(stack_)
        BY <2>3 DEF CondInv, TypeOK
      <3>2. Len(stack_') = Len(stack_) - 1
        <4>1. stack_' = SubSeq(stack_, 1, Len(stack_) - 1)
          BY <2>3 DEF EndOfSource, Popped
        <4>2. PICK n \in 0..Len(stack_) : n = Len(stack_) - 1
          BY <3>1
        <4>3. Len(SubSeq(stack_, 1, n)) = n
          BY <3>1, PrefixFacts
        <4> QED
          BY ONLY <4>1, <4>2, <4>3
      <3>3. Len(stack_) = 1
        BY <3>1, <3>2
      <3>4. conds_ = <<>> /\ conds_' = conds_
        BY <2>3, <3>3 DEF EndOfSource, Diagnose
      <3>. QED
        BY <3>4
    <2>. QED
      BY <2>1, <2>2, <2>3 DEF Next
  <1>. QED
    BY <1>1, <1>2, CondInductive, PTL DEF Spec

-----------------------------------------------------------------------------
(* The driver *)

Options == [outExe : BOOLEAN, outObj : BOOLEAN, emitLL : BOOLEAN, noRun : BOOLEAN]

\* What is on disk, and whether the program was started, at each stage: the object
\* file is written last but one, so nothing is there before it.
Progress ==
  /\ opts \in Options
  /\ stage \in {"open", "parse", "snippet", "codegen", "object", "link", "jit", "exit"}
  /\ stage # "exit" => ran = FALSE
  /\ stage \in {"open", "parse", "snippet", "codegen", "object", "jit"} => files = {}
  /\ stage = "object" => aotMode
  /\ stage = "link" => opts.outExe /\ files = {"obj"}
  /\ stage = "jit" => ~aotMode /\ ~opts.emitLL
  /\ ended \in BOOLEAN
  /\ ended => stage = "exit" /\ files = {} /\ ran = FALSE

\* While a snippet runs, the stream holds as many pieces as it printed, all its own.
Stream ==
  /\ hc_stream \in Seq(Nat) /\ exes \in Nat /\ printed \in Nat
  /\ stage = "snippet" => /\ Len(hc_stream) = printed
                          /\ \A i \in 1..Len(hc_stream) : hc_stream[i] = exes

\* What exit status 0 promises, with each option asked by itself, when no snippet
\* ended the process.
Outcome ==
  stage = "exit" /\ rc = 0 /\ ~ended =>
    /\ ~opts.outExe /\ ~opts.outObj => files = {}
    /\ ~opts.outExe /\ opts.outObj => files = {"obj"}
    /\ opts.outExe /\ ~opts.outObj => files = {"exe"}
    /\ opts.outExe /\ opts.outObj => files = {"exe", "obj"}
    /\ aotMode \/ opts.emitLL \/ opts.noRun => ran = FALSE
    /\ ~aotMode /\ ~opts.emitLL /\ ~opts.noRun => ran = TRUE

HccInv == Progress /\ Outcome /\ Stream /\ SpliceIsOwn

-----------------------------------------------------------------------------
\* hcc starts with nothing written and nothing printed.
LEMMA HccInitHolds == HccInit => HccInv
<1> SUFFICES ASSUME HccInit PROVE HccInv
  OBVIOUS
<1>1. Progress /\ Outcome
  BY DEF HccInit, Progress, Options, Outcome
<1>2. Stream /\ SpliceIsOwn
  BY DEF HccInit, Stream, SpliceIsOwn
<1> QED
  BY <1>1, <1>2 DEF HccInv

\* The options, the files and the exit status fit together after every step.
LEMMA ProgressStep ==
  ASSUME Progress, [HccNext]_hccVars
  PROVE  Progress'
<1> USE DEF Progress, aotMode
<1>1. CASE Open
  BY <1>1 DEF Open, Exit, exe
<1>2. CASE ExeFails
  BY <1>2 DEF ExeFails, build
<1>3. CASE ExeStart
  BY <1>3 DEF ExeStart, build
<1>4. CASE HC_StreamPrint
  BY <1>4 DEF HC_StreamPrint, build
<1>5. CASE ExeExits
  BY <1>5 DEF ExeExits, HC_Exit, Unhandled, Exit
<1>6. CASE ExeEnds
  BY <1>6 DEF ExeEnds, build
<1>7. CASE Parsed
  BY <1>7 DEF Parsed, Exit, exe
<1>8. CASE Codegen
  BY <1>8 DEF Codegen, Exit, exe
<1>9. CASE emitObjectFile
  BY <1>9 DEF emitObjectFile, Exit, exe
<1>10. CASE linkExecutable
  BY <1>10 DEF linkExecutable, Exit, exe
<1>11. CASE runJIT
  BY <1>11 DEF runJIT, HC_Exit, Unhandled, Exit, exe
<1>12. CASE UNCHANGED hccVars
  BY <1>12 DEF hccVars
<1> QED
  BY <1>1, <1>2, <1>3, <1>4, <1>5, <1>6, <1>7, <1>8, <1>9, <1>10, <1>11, <1>12 DEF HccNext

\* The steps that end with exit status 0 leave what was asked for.
LEMMA OutcomeStep ==
  ASSUME Progress, Outcome, [HccNext]_hccVars
  PROVE  Outcome'
<1> USE DEF Progress, Outcome, aotMode
<1>1. CASE Open
  BY <1>1 DEF Open, Exit, exe
<1>2. CASE ExeFails
  BY <1>2 DEF ExeFails, build
<1>3. CASE ExeStart
  BY <1>3 DEF ExeStart, build
<1>4. CASE HC_StreamPrint
  BY <1>4 DEF HC_StreamPrint, build
<1>5. CASE ExeExits
  BY <1>5 DEF ExeExits, HC_Exit, Unhandled, Exit
<1>6. CASE ExeEnds
  BY <1>6 DEF ExeEnds, build
<1>7. CASE Parsed
  BY <1>7 DEF Parsed, Exit, exe
<1>8. CASE Codegen
  BY <1>8 DEF Codegen, Exit, exe
<1>9. CASE emitObjectFile
  BY <1>9 DEF emitObjectFile, Exit, exe
<1>10. CASE linkExecutable
  BY <1>10 DEF linkExecutable, RemoveTemporary, Exit, exe
<1>11. CASE runJIT
  BY <1>11 DEF runJIT, HC_Exit, Unhandled, Exit, exe
<1>12. CASE UNCHANGED hccVars
  BY <1>12 DEF hccVars
<1> QED
  BY <1>1, <1>2, <1>3, <1>4, <1>5, <1>6, <1>7, <1>8, <1>9, <1>10, <1>11, <1>12 DEF HccNext

\* A snippet starts on an empty stream, which only it adds to, and leaves an
\* empty one behind.
LEMMA StreamStep ==
  ASSUME Stream, SpliceIsOwn, [HccNext]_hccVars
  PROVE  Stream' /\ SpliceIsOwn'
<1> USE DEF Stream, SpliceIsOwn
<1>1. CASE Open
  BY <1>1 DEF Open, Exit, exe
<1>2. CASE ExeFails
  BY <1>2 DEF ExeFails
<1>3. CASE ExeStart
  BY <1>3 DEF ExeStart, HC_StreamGet
<1>4. CASE HC_StreamPrint
  BY <1>4 DEF HC_StreamPrint
<1>5. CASE ExeExits
  BY <1>5 DEF ExeExits, HC_Exit, Unhandled, Exit
<1>6. CASE ExeEnds
  BY <1>6 DEF ExeEnds, HC_StreamGet
<1>7. CASE Parsed
  BY <1>7 DEF Parsed, Exit, exe
<1>8. CASE Codegen
  BY <1>8 DEF Codegen, Exit, exe
<1>9. CASE emitObjectFile
  BY <1>9 DEF emitObjectFile, Exit, exe
<1>10. CASE linkExecutable
  BY <1>10 DEF linkExecutable, Exit, exe
<1>11. CASE runJIT
  BY <1>11 DEF runJIT, HC_Exit, Unhandled, Exit, exe
<1>12. CASE UNCHANGED hccVars
  BY <1>12 DEF hccVars
<1> QED
  BY <1>1, <1>2, <1>3, <1>4, <1>5, <1>6, <1>7, <1>8, <1>9, <1>10, <1>11, <1>12 DEF HccNext

LEMMA HccInductive == HccSpec => []HccInv
<1>1. HccInv /\ [HccNext]_hccVars => HccInv'
  BY ProgressStep, OutcomeStep, StreamStep DEF HccInv
<1> QED
  BY HccInitHolds, <1>1, PTL DEF HccSpec

-----------------------------------------------------------------------------
\* Exit status 0 of compileMain means exactly the files of -o and -c, or that the
\* program was run when nothing else was asked for, whatever failed on the way.  A
\* snippet that ends the process, with status 0 or any other, leaves nothing behind.
THEOREM ZeroIsDelivery == HccSpec => []ZeroMeansDelivered
<1>1. ASSUME HccInv, stage = "exit", rc = 0, ~ended
      PROVE  files = Requested /\ ran = (~aotMode /\ ~opts.emitLL /\ ~opts.noRun)
  <2>1. files = Requested
    BY <1>1 DEF HccInv, Outcome, Requested
  <2>2. CASE aotMode \/ opts.emitLL \/ opts.noRun
    <3>1. ran = FALSE
      BY <1>1, <2>2 DEF HccInv, Outcome
    <3> QED
      BY <2>1, <2>2, <3>1, Zenon
  <2>3. CASE ~aotMode /\ ~opts.emitLL /\ ~opts.noRun
    <3>1. ran = TRUE
      BY <1>1, <2>3 DEF HccInv, Outcome
    <3> QED
      BY <2>1, <2>3, <3>1, Zenon
  <2> QED
    BY <2>2, <2>3
<1>2. HccInv /\ ended => stage = "exit" /\ files = {} /\ ~ran
  BY DEF HccInv, Progress
<1>3. HccInv => ZeroMeansDelivered
  BY <1>1, <1>2 DEF ZeroMeansDelivered
<1> QED
  BY HccInductive, <1>3, PTL

\* What runExeSnippet splices in is all the snippet printed and nothing else,
\* however many snippets ran, failed or printed before it.
THEOREM SplicesOwnOutput == HccSpec => []SpliceIsOwn
<1>1. HccInv => SpliceIsOwn
  BY DEF HccInv
<1> QED
  BY HccInductive, <1>1, PTL

-----------------------------------------------------------------------------
(* Macros: the expansion handed over is what the text means *)

\* Replacing every token of s by h of it.
Maps(h, S) == h \in [S -> Seq(S)]
Each(h, s) == FlattenSeq([i \in 1..Len(s) |-> h[s[i]]])

\* The loop of FlattenSeq over a sequence of n sequences.
Loops(g, ss, n, S) ==
  g \in [0..n -> Seq(S)] /\ g[0] = <<>> /\ \A k \in 1..n : g[k] = g[k - 1] \o ss[k]

\* FlattenSeq is that loop: it appends the sequences one after the other.
LEMMA FlattenLoop ==
  ASSUME NEW S, NEW n \in Nat, NEW ss \in [1..n -> Seq(S)]
  PROVE  \E g : Loops(g, ss, n, S) /\ FlattenSeq(ss) = g[n]
<1>1. Len(ss) = n
  OBVIOUS
<1> DEFINE F == [k \in Nat |-> [x \in Seq(S) |-> IF k \in 1..n THEN x \o ss[k] ELSE x]]
<1>2. <<>> \in Seq(S)
  OBVIOUS
<1>3. F \in [Nat -> [Seq(S) -> Seq(S)]]
  <2>1. ASSUME NEW k \in Nat, NEW x \in Seq(S) PROVE (IF k \in 1..n THEN x \o ss[k] ELSE x) \in Seq(S)
    <3>1. CASE k \in 1..n
      <4>1. ss[k] \in Seq(S)
        BY <3>1
      <4> QED BY <4>1, <3>1, ConcatProperties
    <3> QED BY <3>1
  <2> QED BY <2>1
<1>4. PICK g \in [0..n -> Seq(S)] : Recurs(g, <<>>, F, n)
  <2> HIDE DEF F
  <2> QED BY <1>2, <1>3, BoundedRecursion
<1>5. \A k \in 1..n : g[k] = g[k - 1] \o ss[k]
  <2> SUFFICES ASSUME NEW k \in 1..n PROVE g[k] = g[k - 1] \o ss[k]
    OBVIOUS
  <2>1. k \in Nat /\ k - 1 \in 0..n /\ g[k - 1] \in Seq(S)
    OBVIOUS
  <2>2. g[k] = F[k][g[k - 1]]
    BY <1>4 DEF Recurs
  <2> QED BY <2>1, <2>2
<1>6. g[0] = <<>>
  BY <1>4 DEF Recurs
<1> HIDE DEF F
<1>7. CASE n = 0
  <2>1. ss = <<>>
    BY <1>7
  <2>2. FlattenSeq(ss) = ss
    BY <1>1, <1>7 DEF FlattenSeq
  <2> QED BY <1>5, <1>6, <1>7, <2>1, <2>2 DEF Loops
<1>8. CASE n # 0
  <2> DEFINE G(f) == [i \in 1..n |-> IF i = 1 THEN ss[i] ELSE f[i - 1] \o ss[i]]
             fl == CHOOSE f : f = G(f)
             h == [i \in 1..n |-> g[i]]
  <2>1. h = G(h)
    <3>1. ASSUME NEW i \in 1..n PROVE h[i] = IF i = 1 THEN ss[i] ELSE h[i - 1] \o ss[i]
      <4>1. CASE i = 1
        <5>1. g[1] = g[1 - 1] \o ss[1] /\ 1 - 1 = 0 /\ ss[1] \in Seq(S)
          BY <1>5, <4>1
        <5>2. <<>> \o ss[1] = ss[1]
          BY <5>1, ConcatEmptySeq
        <5> QED BY <1>6, <4>1, <5>1, <5>2
      <4>2. CASE i # 1
        <5>1. i - 1 \in 1..n
          BY <4>2
        <5> QED BY <1>5, <4>2, <5>1
      <4> QED BY <4>1, <4>2
    <3> QED BY <3>1
  <2>2. fl = G(fl)
    <3> HIDE DEF h
    <3> QED BY <2>1
  <2>3. FlattenSeq(ss) = fl[n]
    BY <1>1, <1>8 DEF FlattenSeq
  <2> HIDE DEF fl
  <2> DEFINE P == {k \in Nat : k + 1 \in 1..n => fl[k + 1] = g[k + 1]}
  <2>4. \A i \in 1..n : fl[i] = IF i = 1 THEN ss[i] ELSE fl[i - 1] \o ss[i]
    BY <2>2
  <2>5. \A i \in 1..n : g[i] = IF i = 1 THEN ss[i] ELSE g[i - 1] \o ss[i]
    <3> SUFFICES ASSUME NEW i \in 1..n PROVE g[i] = IF i = 1 THEN ss[i] ELSE g[i - 1] \o ss[i]
      OBVIOUS
    <3>1. h[i] = IF i = 1 THEN ss[i] ELSE h[i - 1] \o ss[i]
      BY <2>1
    <3>2. i # 1 => i - 1 \in 1..n
      OBVIOUS
    <3> QED BY <3>1, <3>2
  <2>6. 0 \in P
    <3>1. 0 + 1 = 1 /\ (1 \in 1..n => fl[1] = g[1])
      BY <2>4, <2>5
    <3> QED BY <3>1
  <2>7. ASSUME NEW k \in Nat, k \in P PROVE k + 1 \in P
    <3> SUFFICES ASSUME k + 1 + 1 \in 1..n PROVE fl[k + 1 + 1] = g[k + 1 + 1]
      OBVIOUS
    <3>1. k + 1 \in 1..n /\ k + 1 + 1 # 1 /\ k + 1 + 1 - 1 = k + 1
      OBVIOUS
    <3>2. fl[k + 1] = g[k + 1]
      BY <2>7, <3>1
    <3> QED BY <2>4, <2>5, <3>1, <3>2
  <2> HIDE DEF P, h
  <2>8. Nat \subseteq P
    BY <2>6, <2>7, InductionOnSets
  <2>9. n - 1 \in Nat /\ n - 1 + 1 = n /\ n \in 1..n
    BY <1>8
  <2>10. n - 1 \in P
    BY <2>8, <2>9
  <2>11. fl[n] = g[n]
    BY <2>9, <2>10 DEF P
  <2> QED BY <1>5, <1>6, <2>3, <2>11 DEF Loops
<1> QED BY <1>7, <1>8

\* Flattening one more sequence adds it at the end.
LEMMA FlattenAppend ==
  ASSUME NEW S, NEW n \in Nat, NEW ss \in [1..(n + 1) -> Seq(S)]
  PROVE  /\ [k \in 1..n |-> ss[k]] \in [1..n -> Seq(S)]
         /\ FlattenSeq([k \in 1..n |-> ss[k]]) \in Seq(S)
         /\ FlattenSeq(ss) = FlattenSeq([k \in 1..n |-> ss[k]]) \o ss[n + 1]
<1> DEFINE tt == [k \in 1..n |-> ss[k]]
<1>1. tt \in [1..n -> Seq(S)]
  OBVIOUS
<1>2. \A k \in 1..n : tt[k] = ss[k]
  OBVIOUS
<1> HIDE DEF tt
<1>3. PICK g : Loops(g, tt, n, S) /\ FlattenSeq(tt) = g[n]
  BY <1>1, FlattenLoop
<1>4. g \in [0..n -> Seq(S)] /\ g[0] = <<>> /\ (\A k \in 1..n : g[k] = g[k - 1] \o tt[k]) /\ FlattenSeq(tt) = g[n]
  BY <1>3 DEF Loops
<1>5. PICK m \in Nat : m = n + 1
  OBVIOUS
<1>6. PICK h : Loops(h, ss, m, S) /\ FlattenSeq(ss) = h[m]
  <2>1. ss \in [1..m -> Seq(S)]
    BY <1>5
  <2> QED BY <2>1, FlattenLoop
<1>7. h \in [0..m -> Seq(S)] /\ h[0] = <<>> /\ (\A k \in 1..m : h[k] = h[k - 1] \o ss[k]) /\ FlattenSeq(ss) = h[m]
  BY <1>6 DEF Loops
<1> DEFINE P == {k \in Nat : k \in 0..n => h[k] = g[k]}
<1>8. 0 \in P
  BY <1>4, <1>7
<1>9. ASSUME NEW k \in Nat, k \in P PROVE k + 1 \in P
  <2> SUFFICES ASSUME k + 1 \in 0..n PROVE h[k + 1] = g[k + 1]
    OBVIOUS
  <2>1. k + 1 \in 1..n /\ k + 1 \in 1..m /\ k + 1 - 1 = k /\ k \in 0..n
    BY <1>5
  <2>2. h[k] = g[k]
    BY <1>9, <2>1
  <2>3. PICK j \in 1..n : j = k + 1 /\ j - 1 = k /\ j \in 1..m
    BY <2>1
  <2>4. h[j] = h[j - 1] \o ss[j]
    BY <1>7, <2>3
  <2>5. g[j] = g[j - 1] \o ss[j]
    BY <1>2, <1>4
  <2> QED BY <2>2, <2>3, <2>4, <2>5
<1> HIDE DEF P
<1>10. n \in P
  BY <1>8, <1>9, InductionOnSets
<1>11. h[n] = g[n]
  BY <1>10 DEF P
<1>12. h[m] = h[m - 1] \o ss[m] /\ m - 1 = n /\ g[n] \in Seq(S)
  <2>1. m \in 1..m /\ m - 1 = n /\ n \in 0..n
    BY <1>5
  <2>2. h[m] = h[m - 1] \o ss[m]
    BY <1>7, <2>1
  <2>3. g[n] \in Seq(S)
    BY <1>4, <2>1
  <2> QED BY <2>1, <2>2, <2>3
<1>13. FlattenSeq(ss) = FlattenSeq(tt) \o ss[n + 1] /\ FlattenSeq(tt) \in Seq(S)
  BY <1>4, <1>5, <1>7, <1>11, <1>12
<1> QED BY <1>1, <1>13 DEF tt

\* Replacing the tokens of a sequence, from its beginning on.
LEMMA EachFacts ==
  ASSUME NEW S, NEW h, Maps(h, S)
  PROVE  /\ Each(h, <<>>) = <<>>
         /\ \A s \in Seq(S) : Each(h, s) \in Seq(S)
         /\ \A s \in Seq(S), t \in S : Each(h, Append(s, t)) = Each(h, s) \o h[t]
<1> USE DEF Maps
<1>1. Each(h, <<>>) = <<>>
  <2> DEFINE e == [i \in 1..Len(<<>>) |-> h[<<>>[i]]]
  <2>1. e = <<>> /\ Len(e) = 0
    OBVIOUS
  <2>2. FlattenSeq(e) = e
    BY <2>1 DEF FlattenSeq
  <2> QED BY <2>1, <2>2 DEF Each
<1>2. ASSUME NEW s \in Seq(S) PROVE Each(h, s) \in Seq(S)
  <2>1. Len(s) \in Nat /\ \A i \in 1..Len(s) : s[i] \in S
    OBVIOUS
  <2> DEFINE ss == [i \in 1..Len(s) |-> h[s[i]]]
  <2>2. ss \in [1..Len(s) -> Seq(S)]
    BY <2>1
  <2> HIDE DEF ss
  <2>3. FlattenSeq(ss) \in Seq(S)
    <3>1. PICK g : Loops(g, ss, Len(s), S) /\ FlattenSeq(ss) = g[Len(s)]
      BY <2>1, <2>2, FlattenLoop
    <3> QED BY <2>1, <3>1 DEF Loops
  <2> QED BY <2>3 DEF ss, Each
<1>3. ASSUME NEW s \in Seq(S), NEW t \in S PROVE Each(h, Append(s, t)) = Each(h, s) \o h[t]
  <2>1. PICK n \in Nat : n = Len(s)
    OBVIOUS
  <2>2. Append(s, t) \in Seq(S) /\ Len(Append(s, t)) = n + 1 /\ Append(s, t)[n + 1] = t
        /\ \A i \in 1..n : Append(s, t)[i] = s[i]
    BY <2>1, AppendFacts
  <2> DEFINE u == Append(s, t)
             ss == [i \in 1..Len(u) |-> h[u[i]]]
             tt == [i \in 1..Len(s) |-> h[s[i]]]
             rr == [k \in 1..n |-> ss[k]]
  <2>3. ss \in [1..(n + 1) -> Seq(S)]
    <3>1. \A i \in 1..(n + 1) : u[i] \in S
      BY <2>2
    <3> HIDE DEF u
    <3> QED BY <2>2, <3>1 DEF u
  <2>4. ss[n + 1] = h[t]
    BY <2>2
  <2>5. rr = tt
    BY <2>1, <2>2
  <2> HIDE DEF ss, tt
  <2>6. FlattenSeq(ss) = FlattenSeq(rr) \o ss[n + 1]
    BY <2>3, FlattenAppend
  <2>7. Each(h, u) = FlattenSeq(ss) /\ Each(h, s) = FlattenSeq(tt)
    BY DEF Each, ss, tt
  <2> QED BY <2>4, <2>5, <2>6, <2>7
<1> QED BY <1>1, <1>2, <1>3
\* ... of one token.
LEMMA EachOne ==
  ASSUME NEW S, NEW h, Maps(h, S), NEW t \in S
  PROVE  Each(h, <<t>>) = h[t]
<1>1. <<>> \in Seq(S) /\ Append(<<>>, t) = <<t>>
  OBVIOUS
<1>2. Each(h, <<t>>) = <<>> \o h[t]
  BY <1>1, EachFacts
<1>3. h[t] \in Seq(S)
  BY DEF Maps
<1> QED BY <1>2, <1>3, ConcatEmptySeq

\* A property of all sequences that the empty one has, and with s every Append(s, t).
LEMMA InductionOnSequences ==
  ASSUME NEW S, NEW Q, <<>> \in Q, \A s \in Seq(S), t \in S : s \in Q => Append(s, t) \in Q
  PROVE  Seq(S) \subseteq Q
<1> DEFINE P == {n \in Nat : \A s \in Seq(S) : Len(s) = n => s \in Q}
<1>1. 0 \in P
  OBVIOUS
<1>2. ASSUME NEW n \in Nat, n \in P PROVE n + 1 \in P
  <2> SUFFICES ASSUME NEW s \in Seq(S), Len(s) = n + 1 PROVE s \in Q
    OBVIOUS
  <2> DEFINE r == SubSeq(s, 1, n)
  <2>1. r \in Seq(S) /\ Len(r) = n /\ (\A i \in 1..n : r[i] = s[i]) /\ s[n + 1] \in S
    BY PrefixFacts
  <2> HIDE DEF r
  <2>2. r \in Q
    BY <1>2, <2>1
  <2>3. Append(r, s[n + 1]) = s
    BY <2>1
  <2> QED BY <2>1, <2>2, <2>3
<1> HIDE DEF P
<1>3. Nat \subseteq P
  BY <1>1, <1>2, InductionOnSets
<1> SUFFICES ASSUME NEW s \in Seq(S) PROVE s \in Q
  OBVIOUS
<1>4. Len(s) \in Nat
  OBVIOUS
<1>5. Len(s) \in P
  BY <1>3, <1>4
<1> QED BY <1>5 DEF P

\* Replacing the tokens of two parts one after the other.
LEMMA EachConcat ==
  ASSUME NEW S, NEW h, Maps(h, S), NEW s, s \in Seq(S), NEW u, u \in Seq(S)
  PROVE  Each(h, s \o u) = Each(h, s) \o Each(h, u)
<1> DEFINE Q == {v \in Seq(S) : Each(h, s \o v) = Each(h, s) \o Each(h, v)}
<1>1. <<>> \in Q
  <2>1. Each(h, <<>>) = <<>> /\ Each(h, s) \in Seq(S)
    BY EachFacts
  <2>2. s \o <<>> = s /\ Each(h, s) \o <<>> = Each(h, s)
    BY <2>1, ConcatEmptySeq
  <2>3. <<>> \in Seq(S)
    OBVIOUS
  <2> QED BY <2>1, <2>2, <2>3
<1>2. ASSUME NEW v, v \in Seq(S), NEW t, t \in S, v \in Q PROVE Append(v, t) \in Q
  <2>1. s \o v \in Seq(S) /\ Append(v, t) \in Seq(S) /\ s \o Append(v, t) = Append(s \o v, t)
    BY <1>2
  <2>2. Each(h, Append(s \o v, t)) = Each(h, s \o v) \o h[t] /\ Each(h, Append(v, t)) = Each(h, v) \o h[t]
    <3>1. PICK r : r = s \o v
      OBVIOUS
    <3>2. r \in Seq(S) /\ v \in Seq(S) /\ t \in S
      BY <1>2, <2>1, <3>1
    <3>3. Each(h, Append(r, t)) = Each(h, r) \o h[t]
      BY ONLY Maps(h, S), <3>2, EachFacts
    <3>4. Each(h, Append(v, t)) = Each(h, v) \o h[t]
      BY ONLY Maps(h, S), <3>2, EachFacts
    <3> QED BY <3>1, <3>3, <3>4
  <2>3. Each(h, s \o v) = Each(h, s) \o Each(h, v)
    BY <1>2
  <2>4. Each(h, s) \in Seq(S) /\ Each(h, v) \in Seq(S) /\ h[t] \in Seq(S)
    BY <1>2, EachFacts DEF Maps
  <2>5. (Each(h, s) \o Each(h, v)) \o h[t] = Each(h, s) \o (Each(h, v) \o h[t])
    <3>1. PICK a, b, c : a = Each(h, s) /\ b = Each(h, v) /\ c = h[t]
      OBVIOUS
    <3>2. a \in Seq(S) /\ b \in Seq(S) /\ c \in Seq(S)
      BY <2>4, <3>1
    <3>3. (a \o b) \o c = a \o (b \o c)
      BY ONLY <3>2, ConcatAssociative
    <3> QED BY <3>1, <3>3
  <2> QED BY <1>2, <2>1, <2>2, <2>3, <2>5
<1> HIDE DEF Q
<1>3. u \in Q
  BY <1>1, <1>2, InductionOnSequences
<1> QED BY <1>3 DEF Q

\* t occurs in s.
Occurs(t, s) == \E i \in 1..Len(s) : s[i] = t

\* What occurs in two parts, and in one token more.
LEMMA OccursConcat ==
  ASSUME NEW S, NEW s \in Seq(S), NEW u \in Seq(S), NEW x
  PROVE  Occurs(x, s \o u) <=> Occurs(x, s) \/ Occurs(x, u)
<1>1. /\ s \o u \in Seq(S) /\ Len(s \o u) = Len(s) + Len(u) /\ Len(s) \in Nat /\ Len(u) \in Nat
      /\ \A i \in 1..(Len(s) + Len(u)) : (s \o u)[i] = IF i <= Len(s) THEN s[i] ELSE u[i - Len(s)]
  BY ConcatProperties
<1>2. ASSUME NEW i \in 1..(Len(s) + Len(u)) PROVE (s \o u)[i] = x => Occurs(x, s) \/ Occurs(x, u)
  <2>1. CASE i <= Len(s)
    BY <1>1, <2>1 DEF Occurs
  <2>2. CASE ~(i <= Len(s))
    <3>1. i - Len(s) \in 1..Len(u)
      BY <1>1, <2>2
    <3> QED BY <1>1, <2>2, <3>1 DEF Occurs
  <2> QED BY <2>1, <2>2
<1>3. ASSUME NEW i \in 1..Len(s) PROVE s[i] = x => Occurs(x, s \o u)
  <2>1. i \in 1..(Len(s) + Len(u)) /\ i <= Len(s)
    BY <1>1
  <2> QED BY <1>1, <2>1 DEF Occurs
<1>4. ASSUME NEW i \in 1..Len(u) PROVE u[i] = x => Occurs(x, s \o u)
  <2>1. PICK j \in Nat : j = i + Len(s)
    BY <1>1
  <2>2. j \in 1..(Len(s) + Len(u)) /\ ~(j <= Len(s)) /\ j - Len(s) = i
    BY <1>1, <2>1
  <2> QED BY <1>1, <2>2 DEF Occurs
<1> QED BY <1>1, <1>2, <1>3, <1>4 DEF Occurs

\* What occurs in a sequence with one token more, in one token, and in none.
LEMMA OccursFacts ==
  ASSUME NEW S, NEW s \in Seq(S), NEW x, NEW t \in S
  PROVE  /\ Occurs(x, Append(s, t)) <=> Occurs(x, s) \/ x = t
         /\ Occurs(x, <<t>>) <=> x = t
         /\ ~Occurs(x, <<>>)
         /\ Occurs(x, s) => x \in S
<1>1. Occurs(x, Append(s, t)) <=> Occurs(x, s) \/ x = t
  <2>1. Len(Append(s, t)) = Len(s) + 1 /\ Append(s, t)[Len(s) + 1] = t /\ \A i \in 1..Len(s) : Append(s, t)[i] = s[i]
    BY AppendFacts
  <2>2. Len(s) \in Nat /\ \A i \in 1..(Len(s) + 1) : i \in 1..Len(s) \/ i = Len(s) + 1
    OBVIOUS
  <2>3. Len(s) + 1 \in 1..(Len(s) + 1) /\ \A i \in 1..Len(s) : i \in 1..(Len(s) + 1)
    OBVIOUS
  <2> QED BY <2>1, <2>2, <2>3 DEF Occurs
<1>2. /\ Occurs(x, <<t>>) <=> x = t
      /\ ~Occurs(x, <<>>)
      /\ Occurs(x, s) => x \in S
  BY DEF Occurs
<1> QED BY <1>1, <1>2

\* A token comes from one that was replaced.
LEMMA EachOccurs ==
  ASSUME NEW S, NEW h, Maps(h, S), NEW s, s \in Seq(S), NEW x
  PROVE  Occurs(x, Each(h, s)) <=> \E u \in S : Occurs(u, s) /\ Occurs(x, h[u])
<1> DEFINE Q == {v \in Seq(S) : Occurs(x, Each(h, v)) <=> \E u \in S : Occurs(u, v) /\ Occurs(x, h[u])}
<1>1. <<>> \in Q
  <2>1. Each(h, <<>>) = <<>> /\ <<>> \in Seq(S)
    BY EachFacts
  <2>2. \A y : ~Occurs(y, <<>>)
    BY DEF Occurs
  <2> QED BY <2>1, <2>2
<1>2. ASSUME NEW v, v \in Seq(S), NEW t, t \in S, v \in Q PROVE Append(v, t) \in Q
  <2>1. PICK a, b : a = Each(h, v) /\ b = h[t]
    OBVIOUS
  <2>2. a \in Seq(S) /\ b \in Seq(S)
    BY <1>2, <2>1, EachFacts DEF Maps
  <2>3. Append(v, t) \in Seq(S)
    BY <1>2
  <2>4. Each(h, Append(v, t)) = a \o b
    BY <1>2, <2>1, EachFacts
  <2>5. Occurs(x, a \o b) <=> Occurs(x, a) \/ Occurs(x, b)
    BY ONLY <2>2, OccursConcat
  <2>6. \A u : Occurs(u, Append(v, t)) <=> Occurs(u, v) \/ u = t
    BY ONLY <1>2, OccursFacts
  <2>7. Occurs(x, Each(h, v)) <=> \E u \in S : Occurs(u, v) /\ Occurs(x, h[u])
    BY <1>2
  <2>8. Occurs(x, Each(h, Append(v, t))) <=> \E u \in S : Occurs(u, Append(v, t)) /\ Occurs(x, h[u])
    BY ONLY <1>2, <2>1, <2>4, <2>5, <2>6, <2>7
  <2> QED BY <2>3, <2>8
<1> HIDE DEF Q
<1>3. s \in Q
  BY <1>1, <1>2, InductionOnSequences
<1> QED BY <1>3 DEF Q

\* Two replacements that agree on what occurs in s do the same to it; one that leaves every
\* token as it is does nothing.
LEMMA EachSame ==
  ASSUME NEW S, NEW h, Maps(h, S), NEW s \in Seq(S), \A u \in S : Occurs(u, s) => h[u] = <<u>>
  PROVE  Each(h, s) = s
<1> DEFINE Q == {v \in Seq(S) : (\A u \in S : Occurs(u, v) => h[u] = <<u>>) => Each(h, v) = v}
<1>1. <<>> \in Q
  BY EachFacts
<1>2. ASSUME NEW v \in Seq(S), NEW t \in S, v \in Q PROVE Append(v, t) \in Q
  <2> SUFFICES ASSUME \A u \in S : Occurs(u, Append(v, t)) => h[u] = <<u>> PROVE Each(h, Append(v, t)) = Append(v, t)
    OBVIOUS
  <2>1. \A u : Occurs(u, Append(v, t)) <=> Occurs(u, v) \/ u = t
    BY OccursFacts
  <2>2. Each(h, v) = v /\ h[t] = <<t>>
    BY <1>2, <2>1
  <2>3. Each(h, Append(v, t)) = Each(h, v) \o h[t]
    BY EachFacts
  <2>4. v \o <<t>> = Append(v, t)
    OBVIOUS
  <2> QED BY <2>2, <2>3, <2>4
<1> HIDE DEF Q
<1>3. s \in Q
  BY <1>1, <1>2, InductionOnSequences
<1> QED BY <1>3 DEF Q
-----------------------------------------------------------------------------
\* What a table is.
Table(tb) ==
  /\ IsFiniteSet(Names) /\ DOMAIN tb \subseteq Names
  /\ \A m \in DOMAIN tb : tb[m] \in Seq(Tokens)
\* Every name by its body, all other tokens by themselves.
Bodies1(tb) == [t \in Tokens |-> IF t \in DOMAIN tb THEN tb[t] ELSE <<t>>]

\* A round of substitution replaces every token.
LEMMA SubstituteFacts ==
  ASSUME NEW tb, Table(tb)
  PROVE  /\ Maps(Bodies1(tb), Tokens)
         /\ \A s \in Seq(Tokens) : Substitute(tb, s) = Each(Bodies1(tb), s)
<1>1. Maps(Bodies1(tb), Tokens)
  <2>1. ASSUME NEW t \in Tokens PROVE (IF t \in DOMAIN tb THEN tb[t] ELSE <<t>>) \in Seq(Tokens)
    BY DEF Table
  <2> QED BY <2>1 DEF Bodies1, Maps
<1>2. ASSUME NEW s \in Seq(Tokens) PROVE Substitute(tb, s) = Each(Bodies1(tb), s)
  <2>1. \A i \in 1..Len(s) : s[i] \in Tokens
    OBVIOUS
  <2>2. [i \in 1..Len(s) |-> IF s[i] \in DOMAIN tb THEN tb[s[i]] ELSE <<s[i]>>]
          = [i \in 1..Len(s) |-> Bodies1(tb)[s[i]]]
    BY <2>1 DEF Bodies1
  <2> QED BY <2>2 DEF Substitute, Each
<1> QED BY <1>1, <1>2

\* The rounds one by one.
LEMMA RoundsFacts ==
  ASSUME NEW tb, Table(tb), NEW s \in Seq(Tokens)
  PROVE  /\ Rounds(tb, s, 0) = s
         /\ \A n \in Nat : Rounds(tb, s, n) \in Seq(Tokens)
         /\ \A n \in Nat : Rounds(tb, s, n + 1) = Each(Bodies1(tb), Rounds(tb, s, n))
<1> DEFINE S == Seq(Tokens)
           h == Bodies1(tb)
           F == [k \in Nat |-> [x \in S |-> Each(h, x)]]
           G(f, n) == [k \in 0..n |-> IF k = 0 THEN s ELSE Substitute(tb, f[k - 1])]
           R(n) == CHOOSE f : f = G(f, n)
<1>1. Maps(h, Tokens) /\ \A x \in S : Substitute(tb, x) = Each(h, x) /\ Each(h, x) \in S
  BY SubstituteFacts, EachFacts
<1> HIDE DEF h, S
<1>2. F \in [Nat -> [S -> S]] /\ s \in S
  BY <1>1 DEF S
<1>3. \A k \in Nat, x \in S : F[k][x] = Each(h, x)
  OBVIOUS
<1> HIDE DEF F
<1>4. ASSUME NEW n \in Nat PROVE R(n) = G(R(n), n)
  <2>1. PICK g \in [0..n -> S] : Recurs(g, s, F, n)
    BY <1>2, BoundedRecursion
  <2>2. \A k \in 0..n : g[k] = IF k = 0 THEN s ELSE Substitute(tb, g[k - 1])
    <3> SUFFICES ASSUME NEW k \in 0..n PROVE g[k] = IF k = 0 THEN s ELSE Substitute(tb, g[k - 1])
      OBVIOUS
    <3>1. CASE k = 0
      BY <2>1, <3>1 DEF Recurs
    <3>2. CASE k # 0
      <4>1. k \in 1..n /\ k - 1 \in 0..n /\ k \in Nat
        BY <3>2
      <4>2. g[k] = F[k][g[k - 1]] /\ g[k - 1] \in S
        BY <2>1, <4>1 DEF Recurs
      <4> QED BY <1>1, <1>3, <3>2, <4>1, <4>2
    <3> QED BY <3>1, <3>2
  <2>3. g = G(g, n)
    BY <2>1, <2>2
  <2> QED BY <2>3
<1>5. \A n \in Nat : Rounds(tb, s, n) = R(n)[n]
  BY DEF Rounds
<1>6. \A n \in Nat : \A k \in 0..n : R(n)[k] = IF k = 0 THEN s ELSE Substitute(tb, R(n)[k - 1])
  BY <1>4
<1> HIDE DEF R
<1> DEFINE P == {k \in Nat : \A n \in Nat : k <= n => R(n)[k] = R(k)[k] /\ R(n)[k] \in S}
<1>7. 0 \in P
  <2>1. \A n \in Nat : R(n)[0] = s
    BY <1>6
  <2> QED BY <1>2, <2>1
<1>8. ASSUME NEW k \in Nat, k \in P PROVE k + 1 \in P
  <2> SUFFICES ASSUME NEW n \in Nat, k + 1 <= n PROVE R(n)[k + 1] = R(k + 1)[k + 1] /\ R(n)[k + 1] \in S
    OBVIOUS
  <2>1. PICK j \in Nat : j = k + 1 /\ j # 0 /\ j - 1 = k /\ j \in 0..n /\ j \in 0..j /\ k <= n /\ k <= j
    OBVIOUS
  <2>2. R(n)[j] = Substitute(tb, R(n)[k]) /\ R(j)[j] = Substitute(tb, R(j)[k])
    BY <1>6, <2>1
  <2>3. R(n)[k] = R(k)[k] /\ R(j)[k] = R(k)[k] /\ R(n)[k] \in S
    BY <1>8, <2>1
  <2>4. R(n)[j] = R(j)[j] /\ R(n)[j] \in S
    BY <1>1, <2>2, <2>3
  <2> QED BY <2>1, <2>4
<1> HIDE DEF P
<1>9. Nat \subseteq P
  BY <1>7, <1>8, InductionOnSets
<1>10. ASSUME NEW n \in Nat PROVE R(n)[n] \in S /\ R(n + 1)[n + 1] = Each(h, R(n)[n])
  <2>1. PICK j \in Nat : j = n + 1 /\ j # 0 /\ j - 1 = n /\ j \in 0..j /\ n <= j /\ n <= n
    OBVIOUS
  <2>2. R(j)[n] = R(n)[n] /\ R(n)[n] \in S
    BY <1>9, <2>1 DEF P
  <2>3. R(j)[j] = Substitute(tb, R(j)[n])
    BY <1>6, <2>1
  <2> QED BY <1>1, <2>1, <2>2, <2>3
<1>11. R(0)[0] = s
  BY <1>6
<1>12. \A n \in Nat : n + 1 \in Nat
  OBVIOUS
<1> QED BY <1>5, <1>10, <1>11, <1>12 DEF S, h

\* The rounds of two parts one after the other.
LEMMA RoundsConcat ==
  ASSUME NEW tb, Table(tb), NEW s, s \in Seq(Tokens), NEW u, u \in Seq(Tokens)
  PROVE  \A n \in Nat : Rounds(tb, s \o u, n) = Rounds(tb, s, n) \o Rounds(tb, u, n)
<1> DEFINE P == {n \in Nat : Rounds(tb, s \o u, n) = Rounds(tb, s, n) \o Rounds(tb, u, n)}
<1>1. s \o u \in Seq(Tokens)
  OBVIOUS
<1>2. 0 \in P
  BY <1>1, RoundsFacts
<1>3. ASSUME NEW n \in Nat, n \in P PROVE n + 1 \in P
  <2>1. PICK x, y, z : x = Rounds(tb, s, n) /\ y = Rounds(tb, u, n) /\ z = Rounds(tb, s \o u, n)
    OBVIOUS
  <2>2. x \in Seq(Tokens) /\ y \in Seq(Tokens)
    BY <1>1, <2>1, RoundsFacts
  <2>3. Rounds(tb, s, n + 1) = Each(Bodies1(tb), x) /\ Rounds(tb, u, n + 1) = Each(Bodies1(tb), y)
        /\ Rounds(tb, s \o u, n + 1) = Each(Bodies1(tb), z)
    BY <1>1, <2>1, RoundsFacts
  <2>4. z = x \o y
    BY <1>3, <2>1
  <2>5. Maps(Bodies1(tb), Tokens)
    BY SubstituteFacts
  <2>6. Each(Bodies1(tb), x \o y) = Each(Bodies1(tb), x) \o Each(Bodies1(tb), y)
    BY ONLY <2>5, <2>2, EachConcat
  <2>7. n + 1 \in Nat
    OBVIOUS
  <2> QED BY <2>3, <2>4, <2>6, <2>7
<1> HIDE DEF P
<1>4. Nat \subseteq P
  BY <1>2, <1>3, InductionOnSets
<1> QED BY <1>4 DEF P

\* The first of the rounds may be taken before the others.
LEMMA RoundsOfNext ==
  ASSUME NEW tb, Table(tb), NEW s \in Seq(Tokens)
  PROVE  \A n \in Nat : Rounds(tb, s, n + 1) = Rounds(tb, Each(Bodies1(tb), s), n)
<1> DEFINE h == Bodies1(tb)
           u == Each(h, s)
           P == {n \in Nat : Rounds(tb, s, n + 1) = Rounds(tb, u, n)}
<1>1. u \in Seq(Tokens)
  BY SubstituteFacts, EachFacts
<1> HIDE DEF h, u
<1>2. 0 \in P
  <2>1. Rounds(tb, s, 0 + 1) = Each(h, Rounds(tb, s, 0)) /\ Rounds(tb, s, 0) = s /\ Rounds(tb, u, 0) = u
    BY <1>1, RoundsFacts DEF h
  <2> QED BY <2>1 DEF u
<1>3. ASSUME NEW n \in Nat, n \in P PROVE n + 1 \in P
  <2>1. PICK j \in Nat : j = n + 1
    OBVIOUS
  <2>2. Rounds(tb, s, j + 1) = Each(h, Rounds(tb, s, j)) /\ Rounds(tb, u, n + 1) = Each(h, Rounds(tb, u, n))
    BY <1>1, RoundsFacts DEF h
  <2>3. Rounds(tb, s, j) = Rounds(tb, u, n)
    BY <1>3, <2>1
  <2> QED BY <2>1, <2>2, <2>3
<1> HIDE DEF P
<1>4. Nat \subseteq P
  BY <1>2, <1>3, InductionOnSets
<1> QED BY <1>4 DEF P, u, h
-----------------------------------------------------------------------------
\* t occurs n rounds after m.
Reaches(tb, m, t, n) == Occurs(t, Rounds(tb, <<m>>, n))
\* The names that may occur, and how often a round may be necessary.
Uses(tb) == DOMAIN tb \cap Tokens
Enough == Cardinality(Names)

\* A name is its body after a round; what is no name stays.
LEMMA RoundsOfName ==
  ASSUME NEW tb, Table(tb), NEW m \in Uses(tb), NEW n \in Nat
  PROVE  Rounds(tb, <<m>>, n + 1) = Rounds(tb, tb[m], n)
<1>1. m \in Tokens /\ <<m>> \in Seq(Tokens) /\ Bodies1(tb)[m] = tb[m]
  BY DEF Uses, Bodies1
<1>2. Each(Bodies1(tb), <<m>>) = tb[m]
  BY <1>1, SubstituteFacts, EachOne
<1> QED BY <1>1, <1>2, RoundsOfNext

\* No round changes a token that is no macro's name.
LEMMA RoundsOfPlain ==
  ASSUME NEW tb, Table(tb), NEW t \in Tokens, t \notin DOMAIN tb
  PROVE  \A n \in Nat : Rounds(tb, <<t>>, n) = <<t>>
<1> DEFINE P == {n \in Nat : Rounds(tb, <<t>>, n) = <<t>>}
<1>1. <<t>> \in Seq(Tokens) /\ Bodies1(tb)[t] = <<t>>
  BY DEF Bodies1
<1>2. Each(Bodies1(tb), <<t>>) = <<t>>
  BY <1>1, SubstituteFacts, EachOne
<1>3. 0 \in P
  BY <1>1, RoundsFacts
<1>4. ASSUME NEW n \in Nat, n \in P PROVE n + 1 \in P
  <2>1. Rounds(tb, <<t>>, n + 1) = Each(Bodies1(tb), Rounds(tb, <<t>>, n))
    BY <1>1, RoundsFacts
  <2> QED BY <1>2, <1>4, <2>1
<1> HIDE DEF P
<1>5. Nat \subseteq P
  BY <1>3, <1>4, InductionOnSets
<1> QED BY <1>5 DEF P

\* What occurs after one more round.
LEMMA OccursNext ==
  ASSUME NEW tb, Table(tb), NEW s, s \in Seq(Tokens), NEW n \in Nat, NEW x
  PROVE  Occurs(x, Rounds(tb, s, n + 1))
           <=> \E u \in Tokens : Occurs(u, Rounds(tb, s, n)) /\ (IF u \in DOMAIN tb THEN Occurs(x, tb[u]) ELSE x = u)
<1>1. PICK r : r = Rounds(tb, s, n)
  OBVIOUS
<1>2. r = Rounds(tb, s, n) /\ r \in Seq(Tokens) /\ Rounds(tb, s, n + 1) = Each(Bodies1(tb), r)
  BY <1>1, RoundsFacts
<1>3. Maps(Bodies1(tb), Tokens)
  BY SubstituteFacts
<1>4. Occurs(x, Each(Bodies1(tb), r)) <=> \E u \in Tokens : Occurs(u, r) /\ Occurs(x, Bodies1(tb)[u])
  BY <1>2, <1>3, EachOccurs
<1>5. ASSUME NEW u \in Tokens PROVE Occurs(x, Bodies1(tb)[u]) <=> IF u \in DOMAIN tb THEN Occurs(x, tb[u]) ELSE x = u
  <2>1. CASE u \in DOMAIN tb
    BY <2>1 DEF Bodies1
  <2>2. CASE u \notin DOMAIN tb
    <3>1. Bodies1(tb)[u] = <<u>>
      BY <2>2 DEF Bodies1
    <3>2. Occurs(x, <<u>>) <=> x = u
      BY DEF Occurs
    <3> QED BY <2>2, <3>1, <3>2
  <2> QED BY <2>1, <2>2
<1> QED BY <1>2, <1>4, <1>5

\* What occurs after n rounds comes from one of the tokens.
LEMMA OccursFrom ==
  ASSUME NEW tb, Table(tb), NEW s, s \in Seq(Tokens)
  PROVE  \A n \in Nat : \A x : Occurs(x, Rounds(tb, s, n)) <=> \E u \in Tokens : Occurs(u, s) /\ Reaches(tb, u, x, n)
<1> DEFINE From1(x, n) == Occurs(x, Rounds(tb, s, n)) <=> \E u \in Tokens : Occurs(u, s) /\ Reaches(tb, u, x, n)
           P == {n \in Nat : \A x : From1(x, n)}
<1>1. 0 \in P
  <2>1. Rounds(tb, s, 0) = s
    BY RoundsFacts
  <2>2. ASSUME NEW u \in Tokens, NEW x PROVE Reaches(tb, u, x, 0) <=> x = u
    <3>1. <<u>> \in Seq(Tokens)
      OBVIOUS
    <3>2. Rounds(tb, <<u>>, 0) = <<u>>
      BY <3>1, RoundsFacts
    <3> QED BY <3>2 DEF Reaches, Occurs
  <2>3. \A x : Occurs(x, s) => x \in Tokens
    BY DEF Occurs
  <2> QED BY <2>1, <2>2, <2>3
<1>2. ASSUME NEW n \in Nat, n \in P PROVE n + 1 \in P
  <2> DEFINE To(v, x) == IF v \in DOMAIN tb THEN Occurs(x, tb[v]) ELSE x = v
  <2> SUFFICES ASSUME NEW x PROVE From1(x, n + 1)
    OBVIOUS
  <2>1. Occurs(x, Rounds(tb, s, n + 1)) <=> \E v \in Tokens : Occurs(v, Rounds(tb, s, n)) /\ To(v, x)
    BY OccursNext
  <2>2. ASSUME NEW u \in Tokens PROVE Reaches(tb, u, x, n + 1) <=> \E v \in Tokens : Reaches(tb, u, v, n) /\ To(v, x)
    <3>1. <<u>> \in Seq(Tokens)
      OBVIOUS
    <3>2. PICK w : w = <<u>> /\ w \in Seq(Tokens)
      BY <3>1
    <3>3. Occurs(x, Rounds(tb, w, n + 1)) <=> \E v \in Tokens : Occurs(v, Rounds(tb, w, n)) /\ To(v, x)
      <4>1. w \in Seq(Tokens)
        BY <3>2
      <4> QED BY ONLY Table(tb), n \in Nat, <4>1, OccursNext
    <3> HIDE DEF To
    <3> QED BY <3>2, <3>3 DEF Reaches
  <2> HIDE DEF To
  <2>3. \A v : From1(v, n)
    BY <1>2
  <2> QED BY <2>1, <2>2, <2>3
<1> HIDE DEF P
<1>3. Nat \subseteq P
  BY <1>1, <1>2, InductionOnSets
<1> QED BY <1>3 DEF P

\* A step from m to u, and n more to t.
LEMMA ReachesAfter ==
  ASSUME NEW tb, Table(tb), NEW m \in Uses(tb), NEW u \in Tokens, Occurs(u, tb[m]), NEW t, NEW n \in Nat
  PROVE  Reaches(tb, u, t, n) => Reaches(tb, m, t, n + 1)
<1>1. Rounds(tb, <<m>>, n + 1) = Rounds(tb, tb[m], n)
  BY RoundsOfName
<1>2. tb[m] \in Seq(Tokens)
  BY DEF Table, Uses
<1> QED BY <1>1, <1>2, OccursFrom DEF Reaches

\* Names that follow one another, each in the body of the one before.
Chain(tb, c, n) == c \in [0..n -> Uses(tb)] /\ \A i \in 1..n : Occurs(c[i], tb[c[i - 1]])

\* A name that is left after n rounds is at the end of a chain.
LEMMA ChainTo ==
  ASSUME NEW tb, Table(tb), NEW s, s \in Seq(Tokens)
  PROVE  \A n \in Nat : \A t \in Uses(tb) : Occurs(t, Rounds(tb, s, n)) => \E c : Chain(tb, c, n) /\ c[n] = t
<1> DEFINE P == {n \in Nat : \A t \in Uses(tb) : Occurs(t, Rounds(tb, s, n)) => \E c : Chain(tb, c, n) /\ c[n] = t}
<1>1. 0 \in P
  <2>1. ASSUME NEW t \in Uses(tb) PROVE \E c : Chain(tb, c, 0) /\ c[0] = t
    <3>1. [i \in 0..0 |-> t] \in [0..0 -> Uses(tb)] /\ [i \in 0..0 |-> t][0] = t
      OBVIOUS
    <3>2. \A i \in 1..0 : FALSE
      OBVIOUS
    <3> QED BY <3>1, <3>2 DEF Chain
  <2> QED BY <2>1
<1>2. ASSUME NEW n \in Nat, n \in P PROVE n + 1 \in P
  <2> SUFFICES ASSUME NEW t \in Uses(tb), Occurs(t, Rounds(tb, s, n + 1)) PROVE \E c : Chain(tb, c, n + 1) /\ c[n + 1] = t
    OBVIOUS
  <2>1. PICK u \in Tokens : Occurs(u, Rounds(tb, s, n)) /\ (IF u \in DOMAIN tb THEN Occurs(t, tb[u]) ELSE t = u)
    BY OccursNext
  <2>2. u \in Uses(tb) /\ Occurs(t, tb[u])
    BY <2>1 DEF Uses
  <2>3. PICK c : Chain(tb, c, n) /\ c[n] = u
    BY <1>2, <2>1, <2>2
  <2> DEFINE d == [i \in 0..(n + 1) |-> IF i = n + 1 THEN t ELSE c[i]]
  <2>4. c \in [0..n -> Uses(tb)]
    BY <2>3 DEF Chain
  <2>5. d \in [0..(n + 1) -> Uses(tb)] /\ d[n + 1] = t /\ \A i \in 0..n : d[i] = c[i]
    BY <2>4
  <2>6. ASSUME NEW i \in 1..(n + 1) PROVE Occurs(d[i], tb[d[i - 1]])
    <3>1. CASE i = n + 1
      <4>1. i - 1 = n /\ n \in 0..n
        BY <3>1
      <4> QED BY <2>2, <2>3, <2>5, <3>1, <4>1
    <3>2. CASE i # n + 1
      <4>1. i \in 1..n /\ i \in 0..n /\ i - 1 \in 0..n
        BY <3>2
      <4> QED BY <2>3, <2>5, <4>1 DEF Chain
    <3> QED BY <3>1, <3>2
  <2> HIDE DEF d
  <2>7. Chain(tb, d, n + 1)
    BY <2>5, <2>6 DEF Chain
  <2> QED BY <2>5, <2>7
<1> HIDE DEF P
<1>3. Nat \subseteq P
  BY <1>1, <1>2, InductionOnSets
<1> QED BY <1>3 DEF P

\* Each name of a chain reaches those behind it.
LEMMA ChainReaches ==
  ASSUME NEW tb, Table(tb), NEW n \in Nat, NEW c, Chain(tb, c, n)
  PROVE  \A d \in Nat : \A i \in 0..n : i + d <= n => Reaches(tb, c[i], c[i + d], d)
<1> DEFINE P == {d \in Nat : \A i \in 0..n : i + d <= n => Reaches(tb, c[i], c[i + d], d)}
<1>1. c \in [0..n -> Uses(tb)] /\ (\A i \in 1..n : Occurs(c[i], tb[c[i - 1]])) /\ Uses(tb) \subseteq Tokens
  BY DEF Chain, Uses
<1>2. 0 \in P
  <2> SUFFICES ASSUME NEW i \in 0..n PROVE Reaches(tb, c[i], c[i], 0)
    OBVIOUS
  <2>1. PICK t \in Tokens : t = c[i] /\ <<t>> \in Seq(Tokens)
    BY <1>1
  <2>2. Rounds(tb, <<t>>, 0) = <<t>>
    BY <2>1, RoundsFacts
  <2> QED BY <2>1, <2>2 DEF Reaches, Occurs
<1>3. ASSUME NEW d \in Nat, d \in P PROVE d + 1 \in P
  <2> SUFFICES ASSUME NEW i \in 0..n, i + (d + 1) <= n PROVE Reaches(tb, c[i], c[i + (d + 1)], d + 1)
    OBVIOUS
  <2>1. PICK j \in 0..n : j = i + 1 /\ j \in 1..n /\ j - 1 = i /\ j + d = i + (d + 1) /\ j + d <= n
    OBVIOUS
  <2>2. Reaches(tb, c[j], c[j + d], d)
    BY <1>3, <2>1
  <2>3. c[i] \in Uses(tb) /\ c[j] \in Tokens /\ Occurs(c[j], tb[c[i]])
    BY <1>1, <2>1
  <2>4. Reaches(tb, c[i], c[j + d], d + 1)
    BY <2>2, <2>3, ReachesAfter
  <2> QED BY <2>1, <2>4
<1> HIDE DEF P
<1>4. Nat \subseteq P
  BY <1>2, <1>3, InductionOnSets
<1> QED BY <1>4 DEF P

\* No name leads back to itself within as many rounds as there are names.
LEMMA NoCycle ==
  ASSUME NEW tb, Table(tb), Acyclic(tb), NEW m \in Uses(tb), NEW k \in 1..Enough
  PROVE  ~Reaches(tb, m, m, k)
<1>1. Enough \in Nat
  BY FS_CardinalityType DEF Table, Enough
<1>2. PICK n \in Nat : k = n + 1 /\ k - 1 = n
  <2>1. k - 1 \in Nat /\ k = k - 1 + 1
    BY <1>1
  <2> QED BY <2>1
<1>3. Rounds(tb, <<m>>, k) = Rounds(tb, tb[m], n)
  BY <1>2, RoundsOfName
<1>4. ~Occurs(m, Rounds(tb, tb[m], k - 1))
  BY DEF Acyclic, Occurs, Uses, Enough
<1> QED BY <1>2, <1>3, <1>4 DEF Reaches

\* Enough rounds leave no name, when no body leads back to its own name: a name that is left would
\* be at the end of a chain longer than there are names.
LEMMA NoNameIsLeft ==
  ASSUME NEW tb, Table(tb), Acyclic(tb), NEW s, s \in Seq(Tokens), NEW t \in Uses(tb)
  PROVE  ~Occurs(t, Rounds(tb, s, Enough))
<1>1. PICK n \in Nat : n = Enough /\ n = Cardinality(Names)
  BY FS_CardinalityType DEF Table, Enough
<1> SUFFICES ASSUME Occurs(t, Rounds(tb, s, n)) PROVE FALSE
  BY <1>1
<1>2. PICK c : Chain(tb, c, n)
  BY ChainTo
<1>3. c \in [0..n -> Uses(tb)]
  BY <1>2 DEF Chain
<1>4. IsFiniteSet(Uses(tb)) /\ Cardinality(Uses(tb)) <= n /\ Cardinality(Uses(tb)) \in Nat
  <2>1. Uses(tb) \in SUBSET Names /\ IsFiniteSet(Names)
    BY DEF Uses, Table
  <2> QED BY <1>1, <2>1, FS_Subset, FS_CardinalityType
<1>5. IsFiniteSet(0..n) /\ Cardinality(0..n) = n + 1
  BY FS_Interval
<1>6. PICK x \in 0..n, y \in 0..n : x # y /\ c[x] = c[y]
  <2>1. Cardinality(Uses(tb)) < Cardinality(0..n)
    BY <1>4, <1>5
  <2> QED BY <1>3, <1>4, <1>5, <2>1, FS_PigeonHole
<1>7. PICK i \in 0..n, j \in 0..n : i < j /\ c[i] = c[j]
  <2>1. x < y \/ y < x
    BY <1>6
  <2> QED BY <1>6, <2>1
<1>8. PICK d \in Nat : d = j - i /\ i + d = j /\ d \in 1..n /\ i + d <= n
  BY <1>7
<1>9. Reaches(tb, c[i], c[i + d], d)
  <2>1. \A e \in Nat : \A k \in 0..n : k + e <= n => Reaches(tb, c[k], c[k + e], e)
    BY <1>2, ChainReaches
  <2> QED BY ONLY <2>1, <1>8, i \in 0..n
<1>10. PICK m \in Uses(tb) : m = c[i]
  BY <1>3
<1>11. Reaches(tb, m, m, d)
  BY <1>7, <1>8, <1>9, <1>10
<1> QED BY <1>1, <1>8, <1>11, NoCycle

\* The meaning of two parts is that of one and then that of the other; what is no name means itself,
\* and a name means what its body does.
LEMMA MeaningFacts ==
  ASSUME NEW tb, Table(tb), Acyclic(tb)
  PROVE  /\ \A s \in Seq(Tokens) : Meaning(tb, s) \in Seq(Tokens)
         /\ \A s, u \in Seq(Tokens) : Meaning(tb, s \o u) = Meaning(tb, s) \o Meaning(tb, u)
         /\ \A t \in Tokens : t \notin DOMAIN tb => Meaning(tb, <<t>>) = <<t>>
         /\ \A m \in Uses(tb) : Meaning(tb, <<m>>) = Meaning(tb, tb[m])
<1>1. PICK n \in Nat : n = Enough /\ n = Cardinality(Names)
  BY FS_CardinalityType DEF Table, Enough
<1>2. \A s : Meaning(tb, s) = Rounds(tb, s, n)
  BY <1>1 DEF Meaning
<1>3. ASSUME NEW s, s \in Seq(Tokens) PROVE Meaning(tb, s) \in Seq(Tokens)
  BY <1>2, <1>3, RoundsFacts
<1>4. ASSUME NEW s, NEW u, s \in Seq(Tokens), u \in Seq(Tokens)
      PROVE  Meaning(tb, s \o u) = Meaning(tb, s) \o Meaning(tb, u)
  <2>1. Rounds(tb, s \o u, n) = Rounds(tb, s, n) \o Rounds(tb, u, n)
    BY ONLY Table(tb), n \in Nat, <1>4, RoundsConcat
  <2>2. Meaning(tb, s \o u) = Rounds(tb, s \o u, n)
    BY <1>2
  <2>3. Meaning(tb, s) = Rounds(tb, s, n) /\ Meaning(tb, u) = Rounds(tb, u, n)
    BY <1>2
  <2> QED BY ONLY <2>1, <2>2, <2>3
<1>5. ASSUME NEW t \in Tokens, t \notin DOMAIN tb PROVE Meaning(tb, <<t>>) = <<t>>
  BY <1>2, <1>5, RoundsOfPlain
<1>6. ASSUME NEW m \in Uses(tb) PROVE Meaning(tb, <<m>>) = Meaning(tb, tb[m])
  <2>1. m \in Tokens
    BY DEF Uses
  <2>2. <<m>> \in Seq(Tokens)
    BY <2>1
  <2>3. PICK w : w = <<m>> /\ w \in Seq(Tokens)
    BY <2>2
  <2>4. PICK r : r = Rounds(tb, w, n)
    OBVIOUS
  <2>5. r \in Seq(Tokens) /\ Rounds(tb, w, n + 1) = Each(Bodies1(tb), r)
    BY <2>3, <2>4, RoundsFacts
  <2>6. ASSUME NEW u \in Tokens, Occurs(u, r) PROVE Bodies1(tb)[u] = <<u>>
    <3>1. u \notin Uses(tb)
      BY <1>1, <2>3, <2>4, <2>6, NoNameIsLeft
    <3> QED BY <3>1 DEF Uses, Bodies1
  <2>7. Each(Bodies1(tb), r) = r
    BY <2>5, <2>6, SubstituteFacts, EachSame
  <2>8. Rounds(tb, w, n + 1) = Rounds(tb, tb[m], n)
    BY <2>3, RoundsOfName
  <2> QED BY <1>2, <2>3, <2>4, <2>5, <2>7, <2>8
<1> QED BY <1>3, <1>4, <1>5, <1>6

\* Replacing tokens by what means the same keeps the meaning.
LEMMA MeaningOfEach ==
  ASSUME NEW tb, Table(tb), Acyclic(tb), NEW h, Maps(h, Tokens), NEW s, s \in Seq(Tokens),
         \A t \in Tokens : Meaning(tb, h[t]) = Meaning(tb, <<t>>)
  PROVE  Meaning(tb, Each(h, s)) = Meaning(tb, s)
<1> DEFINE Q == {v \in Seq(Tokens) : Meaning(tb, Each(h, v)) = Meaning(tb, v)}
<1>1. <<>> \in Q
  <2>1. Each(h, <<>>) = <<>> /\ <<>> \in Seq(Tokens)
    BY EachFacts
  <2> QED BY <2>1
<1>2. ASSUME NEW v, v \in Seq(Tokens), NEW t, t \in Tokens, v \in Q PROVE Append(v, t) \in Q
  <2>1. Append(v, t) \in Seq(Tokens) /\ Append(v, t) = v \o <<t>> /\ <<t>> \in Seq(Tokens)
    BY <1>2
  <2>2. Each(h, Append(v, t)) = Each(h, v) \o h[t]
    BY <1>2, EachFacts
  <2>3. PICK a, b, c : a = Each(h, v) /\ b = h[t] /\ c = <<t>>
    OBVIOUS
  <2>4. a \in Seq(Tokens) /\ b \in Seq(Tokens) /\ c \in Seq(Tokens)
    BY <1>2, <2>1, <2>3, EachFacts DEF Maps
  <2>5. Meaning(tb, a \o b) = Meaning(tb, a) \o Meaning(tb, b)
    BY <2>4, MeaningFacts
  <2>6. Meaning(tb, v \o c) = Meaning(tb, v) \o Meaning(tb, c)
    BY <1>2, <2>4, MeaningFacts
  <2>7. Meaning(tb, a) = Meaning(tb, v) /\ Meaning(tb, b) = Meaning(tb, c)
    BY <1>2, <2>3
  <2> HIDE DEF Q
  <2>8. Meaning(tb, Each(h, Append(v, t))) = Meaning(tb, Append(v, t))
    BY <2>1, <2>2, <2>3, <2>5, <2>6, <2>7
  <2> QED BY <2>1, <2>8 DEF Q
<1> HIDE DEF Q
<1>3. s \in Q
  BY <1>1, <1>2, InductionOnSequences
<1> QED BY <1>3 DEF Q
-----------------------------------------------------------------------------
\* The expansion of m from e, that of the names in its body; and all expansions as a function.
Body(tb, e, X, m) ==
  FlattenSeq([i \in 1..Len(tb[m]) |-> IF tb[m][i] \in DOMAIN tb \ (X \cup {m}) THEN e[tb[m][i]] ELSE <<tb[m][i]>>])
Layer(tb, f) == [X \in SUBSET DOMAIN tb |-> [m \in DOMAIN tb \ X |-> Body(tb, f[X \cup {m}], X, m)]]
\* How many names may still be expanded.
Free(tb, X) == Cardinality(DOMAIN tb \ X)

\* There are no more names to expand than names; ...
LEMMA FreeFacts ==
  ASSUME NEW tb, Table(tb), NEW X \in SUBSET DOMAIN tb
  PROVE  Free(tb, X) \in Nat /\ Free(tb, X) <= Enough /\ Enough \in Nat
<1>1. IsFiniteSet(Names) /\ DOMAIN tb \ X \in SUBSET Names
  BY DEF Table
<1>2. IsFiniteSet(DOMAIN tb \ X) /\ Cardinality(DOMAIN tb \ X) <= Cardinality(Names)
  BY <1>1, FS_Subset
<1> QED BY <1>1, <1>2, FS_CardinalityType DEF Free, Enough

\* ... one less of them when m is being expanded; ...
LEMMA FreeLess ==
  ASSUME NEW tb, Table(tb), NEW X \in SUBSET DOMAIN tb, NEW m \in DOMAIN tb \ X
  PROVE  /\ X \cup {m} \in SUBSET DOMAIN tb
         /\ Free(tb, X) = Free(tb, X \cup {m}) + 1
         /\ Free(tb, X) \in Nat /\ Free(tb, X \cup {m}) \in Nat
<1>1. X \cup {m} \in SUBSET DOMAIN tb
  OBVIOUS
<1>2. PICK Y : Y = DOMAIN tb \ X
  OBVIOUS
<1>3. DOMAIN tb \ (X \cup {m}) = Y \ {m} /\ m \in Y
  BY <1>2
<1>4. IsFiniteSet(Y)
  <2>1. IsFiniteSet(Names) /\ Y \in SUBSET Names
    BY <1>2 DEF Table
  <2> QED BY <2>1, FS_Subset
<1>5. Cardinality(Y \ {m}) = Cardinality(Y) - 1
  BY <1>3, <1>4, FS_RemoveElement
<1>6. Free(tb, X) = Cardinality(Y) /\ Free(tb, X \cup {m}) = Cardinality(Y \ {m})
  BY <1>2, <1>3 DEF Free
<1>7. Free(tb, X) \in Nat /\ Free(tb, X \cup {m}) \in Nat
  BY <1>1, FreeFacts
<1> QED BY <1>1, <1>5, <1>6, <1>7

\* ... and while there is such an m, not none.
LEMMA FreeNone ==
  ASSUME NEW tb, Table(tb), NEW X \in SUBSET DOMAIN tb, NEW m \in DOMAIN tb \ X
  PROVE  ~(Free(tb, X) <= 0)
<1>1. Free(tb, X) = Free(tb, X \cup {m}) + 1 /\ Free(tb, X \cup {m}) \in Nat
  BY FreeLess
<1> QED BY <1>1

\* The recursion of expand() comes to an end, as each call has a name less to expand.
LEMMA ExpandIs ==
  ASSUME NEW tb, Table(tb)
  PROVE  \E f : f = Layer(tb, f) /\ expand(tb) = f[{}]
<1> DEFINE Sets == SUBSET DOMAIN tb
           Up(f, n) == f = [X \in Sets |-> f[X]] /\ \A X \in Sets : Free(tb, X) <= n => f[X] = Layer(tb, f)[X]
           P == {n \in Nat : \E f : Up(f, n)}
<1>1. 0 \in P
  <2>1. PICK f : f = [X \in Sets |-> <<>>]
    OBVIOUS
  <2>2. ASSUME NEW X \in Sets, Free(tb, X) <= 0 PROVE Layer(tb, Layer(tb, f))[X] = Layer(tb, f)[X]
    <3>1. \A m \in DOMAIN tb \ X : FALSE
      BY <2>2, FreeNone
    <3> QED BY <3>1 DEF Layer
  <2>3. Layer(tb, f) = [X \in Sets |-> Layer(tb, f)[X]]
    BY DEF Layer
  <2>4. Up(Layer(tb, f), 0)
    BY <2>2, <2>3
  <2> HIDE DEF Up
  <2> QED BY <2>4
<1>2. ASSUME NEW n \in Nat, n \in P PROVE n + 1 \in P
  <2>1. PICK f : Up(f, n)
    BY <1>2
  <2>2. PICK g : g = Layer(tb, f)
    OBVIOUS
  <2>3. \A X \in Sets : g[X] = [m \in DOMAIN tb \ X |-> Body(tb, f[X \cup {m}], X, m)]
    BY <2>2 DEF Layer
  <2>4. \A X \in Sets : Layer(tb, g)[X] = [m \in DOMAIN tb \ X |-> Body(tb, g[X \cup {m}], X, m)]
    BY DEF Layer
  <2>5. ASSUME NEW X \in Sets, Free(tb, X) <= n + 1 PROVE g[X] = Layer(tb, g)[X]
    <3>1. ASSUME NEW m \in DOMAIN tb \ X PROVE f[X \cup {m}] = g[X \cup {m}]
      <4>1. X \cup {m} \in Sets /\ Free(tb, X \cup {m}) <= n
        BY <2>5, FreeLess
      <4> QED BY <2>1, <2>2, <4>1
    <3>2. \A m \in DOMAIN tb \ X : Body(tb, f[X \cup {m}], X, m) = Body(tb, g[X \cup {m}], X, m)
      BY <3>1
    <3>3. [m \in DOMAIN tb \ X |-> Body(tb, f[X \cup {m}], X, m)] = [m \in DOMAIN tb \ X |-> Body(tb, g[X \cup {m}], X, m)]
      BY <3>2
    <3> QED BY <2>3, <2>4, <3>3
  <2>6. g = [X \in Sets |-> g[X]]
    BY <2>2 DEF Layer
  <2>7. Up(g, n + 1)
    BY <2>5, <2>6
  <2> HIDE DEF Up
  <2> QED BY <2>7
<1> HIDE DEF P
<1>3. Nat \subseteq P
  BY <1>1, <1>2, InductionOnSets
<1>4. Enough \in Nat
  BY FreeFacts
<1>5. PICK f : Up(f, Enough)
  BY <1>3, <1>4 DEF P
<1>6. f = Layer(tb, f)
  <2>1. \A X \in Sets : f[X] = Layer(tb, f)[X]
    BY <1>5, FreeFacts
  <2>2. Layer(tb, f) = [X \in Sets |-> Layer(tb, f)[X]]
    BY DEF Layer
  <2> QED BY <1>5, <2>1, <2>2
<1> DEFINE G(e) == [X \in SUBSET DOMAIN tb |->
                     [m \in DOMAIN tb \ X |->
                        FlattenSeq([i \in 1..Len(tb[m]) |->
                                      IF tb[m][i] \in DOMAIN tb \ (X \cup {m})
                                      THEN e[X \cup {m}][tb[m][i]]
                                      ELSE <<tb[m][i]>>])]]
           E == CHOOSE e : e = G(e)
<1>7. \A e : G(e) = Layer(tb, e)
  BY DEF Layer, Body
<1>8. expand(tb) = E[{}]
  BY DEF expand
<1> HIDE DEF G
<1>9. E = G(E)
  <2>1. f = G(f)
    BY <1>6, <1>7
  <2> QED BY <2>1
<1> HIDE DEF E
<1>10. E = Layer(tb, E)
  BY <1>7, <1>9
<1> QED BY <1>8, <1>10

\* What replaces a token of the body of m.
Inside(tb, f, X, m) ==
  [t \in Tokens |-> IF t \in DOMAIN tb \ (X \cup {m}) THEN f[X \cup {m}][t] ELSE <<t>>]

\* The eager expansion of m replaces each token of its body.
LEMMA BodyIsEach ==
  ASSUME NEW tb, Table(tb), NEW f, f = Layer(tb, f), NEW X \in SUBSET DOMAIN tb, NEW m \in DOMAIN tb \ X
  PROVE  f[X][m] = Each(Inside(tb, f, X, m), tb[m]) /\ tb[m] \in Seq(Tokens)
<1>1. tb[m] \in Seq(Tokens) /\ \A i \in 1..Len(tb[m]) : tb[m][i] \in Tokens
  BY DEF Table
<1>2. f[X][m] = Body(tb, f[X \cup {m}], X, m)
  <2>1. Layer(tb, f)[X][m] = Body(tb, f[X \cup {m}], X, m)
    BY DEF Layer
  <2> QED BY <2>1
<1>3. [i \in 1..Len(tb[m]) |-> IF tb[m][i] \in DOMAIN tb \ (X \cup {m}) THEN f[X \cup {m}][tb[m][i]] ELSE <<tb[m][i]>>]
        = [i \in 1..Len(tb[m]) |-> Inside(tb, f, X, m)[tb[m][i]]]
  BY <1>1 DEF Inside
<1> QED BY <1>1, <1>2, <1>3 DEF Body, Each

\* The expansions are sequences of tokens, ...
LEMMA ExpandedTyped ==
  ASSUME NEW tb, Table(tb), NEW f, f = Layer(tb, f)
  PROVE  \A X \in SUBSET DOMAIN tb : \A m \in DOMAIN tb \ X :
           f[X][m] \in Seq(Tokens) /\ Maps(Inside(tb, f, X, m), Tokens)
<1> DEFINE T(X, m) == f[X][m] \in Seq(Tokens) /\ Maps(Inside(tb, f, X, m), Tokens)
           P == {n \in Nat : \A X \in SUBSET DOMAIN tb : Free(tb, X) <= n => \A m \in DOMAIN tb \ X : T(X, m)}
<1>1. 0 \in P
  <2>1. ASSUME NEW X \in SUBSET DOMAIN tb, Free(tb, X) <= 0, NEW m \in DOMAIN tb \ X PROVE FALSE
    BY <2>1, FreeNone
  <2> QED BY <2>1
<1>2. ASSUME NEW n \in Nat, n \in P PROVE n + 1 \in P
  <2> SUFFICES ASSUME NEW X \in SUBSET DOMAIN tb, Free(tb, X) <= n + 1, NEW m \in DOMAIN tb \ X PROVE T(X, m)
    OBVIOUS
  <2>1. X \cup {m} \in SUBSET DOMAIN tb /\ Free(tb, X \cup {m}) <= n
    BY FreeLess
  <2>2. \A t \in DOMAIN tb \ (X \cup {m}) : f[X \cup {m}][t] \in Seq(Tokens)
    BY <1>2, <2>1
  <2>3. ASSUME NEW t \in Tokens
        PROVE  (IF t \in DOMAIN tb \ (X \cup {m}) THEN f[X \cup {m}][t] ELSE <<t>>) \in Seq(Tokens)
    <3>1. CASE t \in DOMAIN tb \ (X \cup {m})
      BY <2>2, <3>1
    <3>2. CASE t \notin DOMAIN tb \ (X \cup {m})
      BY <3>2
    <3> QED BY <3>1, <3>2
  <2>4. Maps(Inside(tb, f, X, m), Tokens)
    BY <2>3 DEF Inside, Maps
  <2> QED BY <2>4, BodyIsEach, EachFacts
<1> HIDE DEF P
<1>3. Nat \subseteq P
  BY <1>1, <1>2, InductionOnSets
<1> SUFFICES ASSUME NEW X \in SUBSET DOMAIN tb, NEW m \in DOMAIN tb \ X PROVE T(X, m)
  OBVIOUS
<1>4. Free(tb, X) \in Nat
  BY FreeFacts
<1>5. Free(tb, X) \in P
  BY <1>3, <1>4
<1> QED BY <1>4, <1>5 DEF P

\* ... they mean what the names do, ...
LEMMA ExpandedMeans ==
  ASSUME NEW tb, Table(tb), Acyclic(tb), NEW f, f = Layer(tb, f)
  PROVE  \A X \in SUBSET DOMAIN tb : \A m \in DOMAIN tb \ X : Meaning(tb, f[X][m]) = Meaning(tb, tb[m])
<1> DEFINE P == {n \in Nat : \A X \in SUBSET DOMAIN tb : Free(tb, X) <= n =>
                              \A m \in DOMAIN tb \ X : Meaning(tb, f[X][m]) = Meaning(tb, tb[m])}
<1>1. 0 \in P
  <2>1. ASSUME NEW X \in SUBSET DOMAIN tb, Free(tb, X) <= 0, NEW m \in DOMAIN tb \ X PROVE FALSE
    BY <2>1, FreeNone
  <2> QED BY <2>1
<1>2. ASSUME NEW n \in Nat, n \in P PROVE n + 1 \in P
  <2> SUFFICES ASSUME NEW X \in SUBSET DOMAIN tb, Free(tb, X) <= n + 1, NEW m \in DOMAIN tb \ X
               PROVE  Meaning(tb, f[X][m]) = Meaning(tb, tb[m])
    OBVIOUS
  <2>1. X \cup {m} \in SUBSET DOMAIN tb /\ Free(tb, X \cup {m}) <= n
    BY FreeLess
  <2>2. ASSUME NEW t \in Tokens PROVE Meaning(tb, Inside(tb, f, X, m)[t]) = Meaning(tb, <<t>>)
    <3>1. CASE t \in DOMAIN tb \ (X \cup {m})
      <4>1. Meaning(tb, f[X \cup {m}][t]) = Meaning(tb, tb[t])
        BY <1>2, <2>1, <3>1
      <4>2. t \in Uses(tb)
        BY <3>1 DEF Uses
      <4>3. Meaning(tb, <<t>>) = Meaning(tb, tb[t])
        BY <4>2, MeaningFacts
      <4>4. Inside(tb, f, X, m)[t] = f[X \cup {m}][t]
        BY <3>1 DEF Inside
      <4> QED BY <4>1, <4>3, <4>4
    <3>2. CASE t \notin DOMAIN tb \ (X \cup {m})
      BY <3>2 DEF Inside
    <3> QED BY <3>1, <3>2
  <2>3. PICK h : h = Inside(tb, f, X, m)
    OBVIOUS
  <2>4. Maps(h, Tokens)
    BY <2>3, ExpandedTyped
  <2>5. PICK b : b = tb[m]
    OBVIOUS
  <2>6. b \in Seq(Tokens) /\ f[X][m] = Each(h, b)
    BY <2>3, <2>5, BodyIsEach
  <2>7. \A t \in Tokens : Meaning(tb, h[t]) = Meaning(tb, <<t>>)
    BY <2>2, <2>3
  <2>8. Meaning(tb, Each(h, b)) = Meaning(tb, b)
    BY ONLY Table(tb), Acyclic(tb), <2>4, <2>6, <2>7, MeaningOfEach
  <2> QED BY <2>5, <2>6, <2>8
<1> HIDE DEF P
<1>3. Nat \subseteq P
  BY <1>1, <1>2, InductionOnSets
<1> SUFFICES ASSUME NEW X \in SUBSET DOMAIN tb, NEW m \in DOMAIN tb \ X PROVE Meaning(tb, f[X][m]) = Meaning(tb, tb[m])
  OBVIOUS
<1>4. Free(tb, X) \in Nat
  BY FreeFacts
<1>5. Free(tb, X) \in P
  BY <1>3, <1>4
<1> QED BY <1>4, <1>5 DEF P

\* ... and the names left in them are among those being expanded: any other that is copied would lead
\* back to itself.
LEMMA ExpandedLeaves ==
  ASSUME NEW tb, Table(tb), Acyclic(tb), NEW f, f = Layer(tb, f)
  PROVE  \A X \in SUBSET DOMAIN tb : \A m \in Uses(tb) \ X, t \in Uses(tb) :
           Occurs(t, f[X][m]) => t \in X /\ \E k \in 1..Free(tb, X) : Reaches(tb, m, t, k)
<1> DEFINE L(X, m, t) == t \in X /\ \E k \in 1..Free(tb, X) : Reaches(tb, m, t, k)
           P == {n \in Nat : \A X \in SUBSET DOMAIN tb : Free(tb, X) <= n =>
                              \A m \in Uses(tb) \ X, t \in Uses(tb) : Occurs(t, f[X][m]) => L(X, m, t)}
<1>1. Uses(tb) \subseteq DOMAIN tb /\ Uses(tb) \subseteq Tokens
  BY DEF Uses
<1>2. 0 \in P
  <2>1. ASSUME NEW X \in SUBSET DOMAIN tb, Free(tb, X) <= 0, NEW m \in DOMAIN tb \ X PROVE FALSE
    BY <2>1, FreeNone
  <2> QED BY <1>1, <2>1
<1>3. ASSUME NEW n \in Nat, n \in P PROVE n + 1 \in P
  <2> SUFFICES ASSUME NEW X \in SUBSET DOMAIN tb, Free(tb, X) <= n + 1,
                      NEW m \in Uses(tb) \ X, NEW t \in Uses(tb), Occurs(t, f[X][m])
               PROVE  L(X, m, t)
    OBVIOUS
  <2> DEFINE Y == X \cup {m}
             h == Inside(tb, f, X, m)
  <2>1. PICK j \in Nat : j = Free(tb, Y) /\ Free(tb, X) = j + 1 /\ j <= n /\ j + 1 <= Enough /\ Enough \in Nat /\ m \in DOMAIN tb \ X
    BY <1>1, FreeFacts, FreeLess
  <2>2. Y \in SUBSET DOMAIN tb
    BY <1>1
  <2>3. \A u \in Uses(tb) \ Y : Occurs(t, f[Y][u]) => t \in Y /\ \E k \in 1..j : Reaches(tb, u, t, k)
    BY <1>3, <2>1, <2>2
  <2>4. PICK u \in Tokens : Occurs(u, tb[m]) /\ Occurs(t, h[u])
    <3>1. Maps(h, Tokens)
      BY <2>1, ExpandedTyped
    <3>2. f[X][m] = Each(h, tb[m]) /\ tb[m] \in Seq(Tokens)
      BY <2>1, BodyIsEach
    <3> HIDE DEF h
    <3> QED BY <3>1, <3>2, EachOccurs
  <2>5. \E k \in 1..(j + 1) : Reaches(tb, m, t, k) /\ t \in Y
    <3>1. CASE u \in DOMAIN tb \ Y
      <4>1. h[u] = f[Y][u] /\ u \in Uses(tb) \ Y
        BY <3>1 DEF Inside, Uses
      <4>2. PICK k \in 1..j : Reaches(tb, u, t, k) /\ t \in Y
        BY <2>3, <2>4, <4>1
      <4>3. Reaches(tb, m, t, k + 1)
        BY <2>4, <4>2, ReachesAfter
      <4>4. k + 1 \in 1..(j + 1)
        OBVIOUS
      <4> QED BY <4>2, <4>3, <4>4
    <3>2. CASE u \notin DOMAIN tb \ Y
      <4>1. h[u] = <<u>>
        BY <3>2 DEF Inside
      <4>2. t = u
        BY <2>4, <4>1 DEF Occurs
      <4>3. t \in Y
        BY <1>1, <3>2, <4>2
      <4>4. Rounds(tb, <<u>>, 0) = <<u>>
        <5>1. <<u>> \in Seq(Tokens)
          OBVIOUS
        <5> QED BY <5>1, RoundsFacts
      <4>5. Reaches(tb, u, t, 0)
        <5>1. Occurs(t, <<u>>)
          BY <4>2 DEF Occurs
        <5> QED BY <4>4, <5>1 DEF Reaches
      <4>6. Reaches(tb, m, t, 0 + 1)
        BY <2>4, <4>5, ReachesAfter
      <4>7. 0 + 1 \in 1..(j + 1)
        OBVIOUS
      <4> QED BY <4>3, <4>6, <4>7
    <3> QED BY <3>1, <3>2
  <2>6. t # m
    <3> SUFFICES ASSUME t = m PROVE FALSE
      OBVIOUS
    <3>1. PICK k \in 1..(j + 1) : Reaches(tb, m, m, k)
      BY <2>5
    <3>2. k \in 1..Enough
      BY <2>1
    <3> QED BY <3>1, <3>2, NoCycle
  <2> QED BY <2>1, <2>5, <2>6
<1> HIDE DEF P
<1>4. Nat \subseteq P
  BY <1>2, <1>3, InductionOnSets
<1> SUFFICES ASSUME NEW X \in SUBSET DOMAIN tb, NEW m \in Uses(tb) \ X, NEW t \in Uses(tb), Occurs(t, f[X][m]) PROVE L(X, m, t)
  OBVIOUS
<1>5. Free(tb, X) \in Nat
  BY FreeFacts
<1>6. Free(tb, X) \in P
  BY <1>4, <1>5
<1> QED BY <1>5, <1>6 DEF P
\* So the body that replaces a name is what the name means, and has no names left.
LEMMA ExpandFacts ==
  ASSUME NEW tb, Table(tb), NEW m \in Uses(tb)
  PROVE  /\ expand(tb)[m] \in Seq(Tokens)
         /\ Acyclic(tb) => /\ Meaning(tb, <<m>>) = Meaning(tb, expand(tb)[m])
                           /\ \A t \in Uses(tb) : ~Occurs(t, expand(tb)[m])
<1>1. PICK f : f = Layer(tb, f) /\ expand(tb) = f[{}]
  BY ExpandIs
<1>2. PICK X : X = {}
  OBVIOUS
<1>3. X = {} /\ X \in SUBSET DOMAIN tb /\ m \in DOMAIN tb \ X /\ m \in Uses(tb) \ X
  BY <1>2 DEF Uses
<1>4. f[X][m] \in Seq(Tokens)
  BY <1>1, <1>3, ExpandedTyped
<1>5. ASSUME Acyclic(tb) PROVE Meaning(tb, <<m>>) = Meaning(tb, f[X][m])
  <2>1. Meaning(tb, f[X][m]) = Meaning(tb, tb[m])
    BY <1>1, <1>3, <1>5, ExpandedMeans
  <2> QED BY <1>5, <2>1, MeaningFacts
<1>6. ASSUME Acyclic(tb), NEW t \in Uses(tb), Occurs(t, f[X][m]) PROVE FALSE
  <2>1. t \in X
    BY <1>1, <1>3, <1>6, ExpandedLeaves
  <2> QED BY <1>3, <2>1
<1> QED BY <1>1, <1>3, <1>4, <1>5, <1>6

\* The first of two parts, when it is not empty, gives the head of both.
LEMMA HeadAndTail ==
  ASSUME NEW S, NEW s, s \in Seq(S), s # <<>>, NEW z, z \in Seq(S)
  PROVE  /\ s[1] \in S /\ Tail(s) \in Seq(S)
         /\ s \o z # <<>> /\ Head(s \o z) = s[1] /\ Tail(s \o z) = Tail(s) \o z
<1>1. s[1] \in S /\ Tail(s) \in Seq(S) /\ Len(s) \in Nat /\ Len(s) >= 1
  OBVIOUS
<1>2. s \o z \in Seq(S) /\ s \o z # <<>> /\ Head(s \o z) = s[1]
  BY <1>1
<1>3. Tail(s \o z) = Tail(s) \o z
  OBVIOUS
<1> QED BY <1>1, <1>2, <1>3

\* A text without names means itself.
LEMMA PlainText ==
  ASSUME NEW tb, Table(tb), NEW s, s \in Seq(Tokens), \A t \in Uses(tb) : ~Occurs(t, s)
  PROVE  Meaning(tb, s) = s
<1> DEFINE P == {n \in Nat : Rounds(tb, s, n) = s}
<1>1. Each(Bodies1(tb), s) = s
  <2>1. \A u \in Tokens : Occurs(u, s) => Bodies1(tb)[u] = <<u>>
    BY DEF Uses, Bodies1
  <2> QED BY <2>1, SubstituteFacts, EachSame
<1>2. 0 \in P
  BY RoundsFacts
<1>3. ASSUME NEW n \in Nat, n \in P PROVE n + 1 \in P
  <2>1. Rounds(tb, s, n + 1) = Rounds(tb, s, n)
    BY <1>1, RoundsOfNext
  <2> QED BY <1>3, <2>1
<1> HIDE DEF P
<1>4. Nat \subseteq P
  BY <1>2, <1>3, InductionOnSets
<1>5. Cardinality(Names) \in Nat
  BY FS_CardinalityType DEF Table
<1>6. Rounds(tb, s, Cardinality(Names)) = s
  BY <1>4, <1>5 DEF P
<1> QED BY <1>6 DEF Meaning

\* Reading one token t, with rest behind it in the queue and more in the input.
LEMMA ReadOne ==
  ASSUME Table(defs), NEW t, t \in Tokens, NEW rest, rest \in Seq(Tokens), expandOrReturn(t, rest)
  PROVE  /\ pending_' \in Seq(Tokens)
         /\ \A more \in Seq(Tokens) :
              Acyclic(defs) /\ due = Meaning(defs, <<t>> \o (rest \o more)) => due' = Meaning(defs, pending_' \o more)
<1>1. PICK tb : tb = defs
  OBVIOUS
<1>2. Table(tb)
  BY <1>1
<1>3. CASE t \notin DOMAIN defs
  <2>1. Deliver(t) /\ pending_' = rest
    BY <1>3 DEF expandOrReturn
  <2>2. ASSUME NEW more, more \in Seq(Tokens), Acyclic(tb), due = Meaning(tb, <<t>> \o (rest \o more))
        PROVE  due' = Meaning(tb, rest \o more)
    <3>1. PICK u, w : u = rest \o more /\ w = <<t>>
      OBVIOUS
    <3>2. u \in Seq(Tokens) /\ w \in Seq(Tokens)
      BY <2>2, <3>1
    <3>3. Meaning(tb, w \o u) = Meaning(tb, w) \o Meaning(tb, u) /\ Meaning(tb, u) \in Seq(Tokens)
      BY <1>2, <2>2, <3>2, MeaningFacts
    <3>4. Meaning(tb, w) = <<t>>
      BY <1>1, <1>2, <1>3, <2>2, <3>1, MeaningFacts
    <3>5. PICK z : z = Meaning(tb, u) /\ z \in Seq(Tokens)
      BY <3>3
    <3>6. due = <<t>> \o z
      BY <2>2, <3>1, <3>3, <3>4, <3>5
    <3>7. due # <<>> /\ Head(due) = t /\ Tail(due) = z
      BY <3>5, <3>6
    <3> QED BY <2>1, <3>1, <3>5, <3>7 DEF Deliver
  <2> QED BY <1>1, <2>1, <2>2
<1>4. CASE t \in DOMAIN defs
  <2>1. PICK body : body = expand(defs)[t]
    OBVIOUS
  <2>2. \/ body = <<>> /\ pending_' = rest /\ UNCHANGED due
        \/ body # <<>> /\ Deliver(body[1]) /\ pending_' = Tail(body) \o rest
    BY <1>4, <2>1 DEF expandOrReturn
  <2>3. t \in Uses(tb)
    BY <1>1, <1>4 DEF Uses
  <2>4. body \in Seq(Tokens)
    BY <1>1, <1>2, <2>1, <2>3, ExpandFacts
  <2>5. ASSUME Acyclic(tb)
        PROVE  Meaning(tb, <<t>>) = body /\ (body # <<>> => Meaning(tb, Tail(body)) = Tail(body))
    <3>1. Meaning(tb, <<t>>) = Meaning(tb, body) /\ \A v \in Uses(tb) : ~Occurs(v, body)
      BY <1>1, <1>2, <2>1, <2>3, <2>5, ExpandFacts
    <3>2. Meaning(tb, body) = body
      BY <1>2, <2>4, <3>1, PlainText
    <3>3. ASSUME body # <<>> PROVE Meaning(tb, Tail(body)) = Tail(body)
      <4>1. Tail(body) \in Seq(Tokens) /\ \A i \in 1..Len(Tail(body)) : i + 1 \in 1..Len(body) /\ Tail(body)[i] = body[i + 1]
        BY <2>4, <3>3
      <4>2. \A v : Occurs(v, Tail(body)) => Occurs(v, body)
        BY <4>1 DEF Occurs
      <4> QED BY <1>2, <3>1, <4>1, <4>2, PlainText
    <3> QED BY <3>1, <3>2, <3>3
  <2>6. ASSUME NEW more, more \in Seq(Tokens), Acyclic(tb), due = Meaning(tb, <<t>> \o (rest \o more))
        PROVE  due' = Meaning(tb, pending_' \o more)
    <3>1. PICK u, w : u = rest \o more /\ w = <<t>>
      OBVIOUS
    <3>2. u \in Seq(Tokens) /\ w \in Seq(Tokens)
      BY <2>6, <3>1
    <3>3. Meaning(tb, w \o u) = Meaning(tb, w) \o Meaning(tb, u) /\ Meaning(tb, u) \in Seq(Tokens)
      BY <1>2, <2>6, <3>2, MeaningFacts
    <3>4. PICK z : z = Meaning(tb, u) /\ z \in Seq(Tokens)
      BY <3>3
    <3>5. due = body \o z
      BY <2>5, <2>6, <3>1, <3>3, <3>4
    <3>6. CASE body = <<>> /\ pending_' = rest /\ UNCHANGED due
      <4>1. due = z
        BY <3>4, <3>5, <3>6
      <4> QED BY <3>1, <3>4, <3>6, <4>1
    <3>7. CASE body # <<>> /\ Deliver(body[1]) /\ pending_' = Tail(body) \o rest
      <4>1. Tail(body) \in Seq(Tokens)
        BY ONLY <2>4, <3>4, <3>7, HeadAndTail
      <4>2. PICK v : v = Tail(body) /\ v \in Seq(Tokens)
        BY <4>1
      <4>3. due # <<>> /\ Head(due) = body[1] /\ Tail(due) = v \o z
        <5>1. body \o z # <<>> /\ Head(body \o z) = body[1] /\ Tail(body \o z) = Tail(body) \o z
          BY ONLY <2>4, <3>4, <3>7, HeadAndTail
        <5> QED BY <3>5, <4>2, <5>1
      <4>4. due' = v \o z
        BY <3>7, <4>3 DEF Deliver
      <4>5. Meaning(tb, v \o u) = Meaning(tb, v) \o z
        BY <1>2, <2>6, <3>2, <3>4, <4>2, MeaningFacts
      <4>6. Meaning(tb, v) = v
        BY <2>5, <2>6, <3>7, <4>2
      <4>7. pending_' \o more = v \o u
        <5>1. PICK r : r = rest /\ r \in Seq(Tokens)
          OBVIOUS
        <5>2. PICK q : q = more /\ q \in Seq(Tokens)
          BY <2>6
        <5>3. v \in Seq(Tokens) /\ r \in Seq(Tokens) /\ q \in Seq(Tokens)
          BY <4>2, <5>1, <5>2
        <5>4. (v \o r) \o q = v \o (r \o q)
          BY ONLY <5>3, ConcatAssociative
        <5> QED BY <3>1, <3>7, <4>2, <5>1, <5>2, <5>4
      <4> QED BY <4>4, <4>5, <4>6, <4>7
    <3> QED BY <2>2, <3>6, <3>7
  <2>7. pending_' \in Seq(Tokens)
    <3>1. CASE pending_' = rest
      BY <3>1
    <3>2. CASE body # <<>> /\ pending_' = Tail(body) \o rest
      <4>1. Tail(body) \in Seq(Tokens)
        BY <2>4, <3>2
      <4> QED BY <3>2, <4>1
    <3> QED BY <2>2, <3>1, <3>2
  <2> QED BY <1>1, <2>6, <2>7
<1> QED BY <1>3, <1>4

\* The table and what is still to be read; with ExpansionCorrect this is inductive.
LexTyped ==
  /\ defs \in Tables
  /\ input \in Seq(Tokens)
  /\ pending_ \in Seq(Tokens)
LexInv == LexTyped /\ ExpansionCorrect

\* Whichever of the queue and the input the next token is read from, the invariant is kept.
LEMMA LexStep == LexInv /\ LexNext => LexInv'
<1> SUFFICES ASSUME LexInv, LexNext PROVE LexInv'
  OBVIOUS
<1> USE DEF LexInv, LexTyped
<1>1. Table(defs)
  BY TablesAssumption DEF Table
<1>2. CASE FromPending
  <2>1. PICK t, rest : t = Head(pending_) /\ rest = Tail(pending_)
    OBVIOUS
  <2>2. pending_ # <<>> /\ expandOrReturn(t, rest) /\ UNCHANGED <<defs, input>>
    BY <1>2, <2>1 DEF FromPending
  <2>3. t \in Tokens /\ rest \in Seq(Tokens) /\ pending_ = <<t>> \o rest
    BY <2>1, <2>2
  <2>4. pending_ \o input = <<t>> \o (rest \o input)
    <3>1. PICK a, b, c : a = <<t>> /\ b = rest /\ c = input
      OBVIOUS
    <3>2. a \in Seq(Tokens) /\ b \in Seq(Tokens) /\ c \in Seq(Tokens)
      BY <2>3, <3>1
    <3>3. (a \o b) \o c = a \o (b \o c)
      BY ONLY <3>2, ConcatAssociative
    <3> QED BY <2>3, <3>1, <3>3
  <2>5. pending_' \in Seq(Tokens)
        /\ \A more \in Seq(Tokens) :
             Acyclic(defs) /\ due = Meaning(defs, <<t>> \o (rest \o more)) => due' = Meaning(defs, pending_' \o more)
    BY <1>1, <2>2, <2>3, ReadOne
  <2> QED BY <2>2, <2>4, <2>5 DEF ExpansionCorrect
<1>3. CASE FromInput
  <2>1. PICK t, rest : t = Head(input) /\ rest = <<>>
    OBVIOUS
  <2>2. pending_ = <<>> /\ input # <<>> /\ expandOrReturn(t, rest) /\ input' = Tail(input) /\ UNCHANGED defs
    BY <1>3, <2>1 DEF FromInput
  <2>3. t \in Tokens /\ rest \in Seq(Tokens) /\ input' \in Seq(Tokens)
    BY <2>1, <2>2
  <2>4. pending_ \o input = <<t>> \o (rest \o input')
    <3>1. rest \o input' = input'
      BY <2>1, <2>3, ConcatEmptySeq
    <3>2. pending_ \o input = input
      BY <2>2, ConcatEmptySeq
    <3>3. input = <<t>> \o input'
      BY <2>1, <2>2
    <3> QED BY <3>1, <3>2, <3>3
  <2>5. pending_' \in Seq(Tokens)
        /\ \A more \in Seq(Tokens) :
             Acyclic(defs) /\ due = Meaning(defs, <<t>> \o (rest \o more)) => due' = Meaning(defs, pending_' \o more)
    BY <1>1, <2>2, <2>3, ReadOne
  <2> QED BY <2>2, <2>3, <2>4, <2>5 DEF ExpansionCorrect
<1>4. CASE UNCHANGED lexVars
  BY <1>4 DEF lexVars, ExpansionCorrect
<1> QED BY <1>2, <1>3, <1>4 DEF LexNext, next

\* For every set of macros, every text and however the lexer's queue and its input take turns:
\* when no macro leads back to itself, the parser is given what the text stands for, in order.
THEOREM TextMeansItsExpansion == LexSpec => []ExpansionCorrect
<1>1. LexInit => LexInv
  <2> SUFFICES ASSUME LexInit PROVE LexInv
    OBVIOUS
  <2>1. defs \in Tables /\ input \in Seq(Tokens) /\ pending_ = <<>>
        /\ due = IF Acyclic(defs) THEN Meaning(defs, input) ELSE <<>>
    BY InputsAssumption DEF LexInit
  <2>2. <<>> \in Seq(Tokens) /\ <<>> \o input = input
    BY <2>1, ConcatEmptySeq
  <2> QED BY <2>1, <2>2 DEF LexInv, LexTyped, ExpansionCorrect
<1>2. LexInv /\ UNCHANGED lexVars => LexInv'
  BY DEF LexInv, LexTyped, ExpansionCorrect, lexVars
<1>3. LexInv => ExpansionCorrect
  BY DEF LexInv
<1> QED BY <1>1, <1>2, <1>3, LexStep, PTL DEF LexSpec
=============================================================================
