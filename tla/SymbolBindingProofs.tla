------------------------- MODULE SymbolBindingProofs -------------------------
(***************************************************************************)
(* For every program: each definition of a function gets an LLVM function  *)
(* of its own, and no function two bodies; each call runs the definition   *)
(* that is in force where it stands; its arguments and defaults arrive in  *)
(* the parameters of that definition; and a use of a variable reads what   *)
(* the nearest assignment or initialiser above it stored.                  *)
(***************************************************************************)
EXTENDS SymbolBinding, SeqLemmas, TLAPS

\* The positions of the definitions declared so far.
DeclaredDefs == {i \in DOMAIN declToFn_ : items[i].k = "def"}

\* The positions, the passes and the tables fit together.
Shape ==
  /\ Len(items) \in Nat /\ pos \in Nat /\ pos >= 1 /\ pos <= Len(items) + 1
  /\ uniq_ \in Nat
  /\ pass = "done" => pos = Len(items) + 1
  /\ DOMAIN declToFn_ = {i \in Positions : IsFunc(items[i]) /\ (pass = "declare" => i < pos)}

\* The functions of the module: records under names no suffix of which is ahead
\* of uniq_.
ModuleShape ==
  /\ mod_ = [f \in DOMAIN mod_ |-> mod_[f]]
  /\ \A f \in DOMAIN mod_ : /\ mod_[f] = [ty |-> mod_[f].ty, bodies |-> mod_[f].bodies]
                            /\ f[2] \in Nat /\ f[2] <= uniq_

\* A declaration has a function of the module, under its own symbol; the symbols
\* of definitions are noted.
Bound ==
  /\ \A i \in DOMAIN declToFn_ : /\ declToFn_[i] \in DOMAIN mod_
                                 /\ declToFn_[i][1] = items[i].sym
  /\ \A i \in DeclaredDefs : items[i].sym \in bodyDeclared_

\* No two definitions have one function.
Apart == \A i, j \in DeclaredDefs : declToFn_[i] = declToFn_[j] => i = j

\* The bodies of a function are those of the definitions the walk has passed.
BodiesOf(f) == {i \in DeclaredDefs : declToFn_[i] = f /\ pass # "declare" /\ i < pos}
Bodies == \A f \in DOMAIN mod_ : mod_[f].bodies = BodiesOf(f)

IInv == Shape /\ ModuleShape /\ Bound /\ Apart /\ Bodies

-----------------------------------------------------------------------------
\* A program starts with an empty module.
LEMMA InitHolds == Init => IInv
<1> SUFFICES ASSUME Init PROVE IInv
  OBVIOUS
<1>1. Len(items) \in Nat
  BY FamiliesAssumption DEF Init
<1>2. DOMAIN mod_ = {} /\ DOMAIN declToFn_ = {} /\ mod_ = [f \in DOMAIN mod_ |-> mod_[f]]
  BY DEF Init, Empty
<1>3. pass = "declare" /\ pos = 1 /\ uniq_ = 0
  BY DEF Init
<1>4. Shape
  BY <1>1, <1>2, <1>3 DEF Shape, Positions
<1>5. ModuleShape /\ Bound /\ Apart /\ Bodies
  BY <1>2 DEF ModuleShape, Bound, Apart, Bodies, DeclaredDefs
<1> QED
  BY <1>4, <1>5 DEF IInv

\* A declaration is given a function that was there only when it reuses it.
LEMMA FreshOrReused ==
  ASSUME ModuleShape, uniq_ \in Nat, NEW it, FunctionFor(it) \in DOMAIN mod_
  PROVE  Reuses(it)
<1> SUFFICES ASSUME ~Reuses(it) PROVE FALSE
  OBVIOUS
<1>1. CASE Symbol(it.sym) \notin DOMAIN mod_
  BY <1>1 DEF FunctionFor
<1>2. CASE Symbol(it.sym) \in DOMAIN mod_
  <2>1. FunctionFor(it) = <<it.sym, uniq_ + 1>>
    BY <1>2 DEF FunctionFor, Renamed
  <2>2. <<it.sym, uniq_ + 1>>[2] <= uniq_
    BY <2>1 DEF ModuleShape
  <2> QED
    BY <2>2
<1> QED
  BY <1>1, <1>2

\* The name a declaration's function is made under.
LEMMA NameOfFunction ==
  ASSUME uniq_ \in Nat, NEW it
  PROVE  /\ FunctionFor(it)[1] = it.sym
         /\ FunctionFor(it)[2] \in Nat
         /\ FunctionFor(it)[2] <= IF FunctionFor(it)[2] > 0 THEN uniq_ + 1 ELSE uniq_
  BY DEF FunctionFor, Symbol, Renamed

\* What the pre-pass over a prototype or a definition does to the tables.
LEMMA DeclareFuncDoes ==
  ASSUME IInv, pass = "declare", pos <= Len(items), IsFunc(items[pos]),
         declareFunc(items[pos]), NEW f, f = FunctionFor(items[pos])
  PROVE  /\ f[1] = items[pos].sym /\ f[2] \in Nat /\ f[2] <= uniq_'
         /\ f \in DOMAIN mod_ => Reuses(items[pos])
         /\ DOMAIN declToFn_' = DOMAIN declToFn_ \cup {pos}
         /\ declToFn_'[pos] = f
         /\ \A i \in DOMAIN declToFn_ : i # pos => declToFn_'[i] = declToFn_[i]
         /\ pos \notin DOMAIN declToFn_ /\ pos \in Nat
         /\ DOMAIN mod_' = DOMAIN mod_ \cup {f}
         /\ mod_' = [g \in DOMAIN mod_' |-> mod_'[g]]
         /\ \A g \in DOMAIN mod_ : mod_'[g] = mod_[g]
         /\ f \notin DOMAIN mod_ =>
              mod_'[f] = [ty |-> llvmFnType(items[pos].ty), bodies |-> {}]
<1> DEFINE it == items[pos]
<1>1. /\ mod_' = IF f \in DOMAIN mod_ THEN mod_
                 ELSE Set(mod_, f, [ty |-> llvmFnType(it.ty), bodies |-> {}])
      /\ uniq_' = IF f[2] > 0 THEN uniq_ + 1 ELSE uniq_
      /\ declToFn_' = Set(declToFn_, pos, f)
  BY DEF declareFunc
<1>2. /\ f[1] = it.sym /\ f[2] \in Nat
      /\ f[2] <= uniq_'
  BY <1>1, NameOfFunction DEF IInv, Shape
<1>3. f \in DOMAIN mod_ => Reuses(it)
  BY FreshOrReused DEF IInv, Shape
<1>5. /\ DOMAIN declToFn_' = DOMAIN declToFn_ \cup {pos}
      /\ declToFn_'[pos] = f
      /\ \A i \in DOMAIN declToFn_ : i # pos => declToFn_'[i] = declToFn_[i]
  BY <1>1, Zenon DEF Set
<1>6. pos \notin DOMAIN declToFn_ /\ pos \in Nat
  BY DEF IInv, Shape
<1>7. /\ DOMAIN mod_' = DOMAIN mod_ \cup {f}
      /\ mod_' = [g \in DOMAIN mod_' |-> mod_'[g]]
      /\ \A g \in DOMAIN mod_ : mod_'[g] = mod_[g]
      /\ f \notin DOMAIN mod_ => mod_'[f] = [ty |-> llvmFnType(it.ty), bodies |-> {}]
  <2>1. CASE f \in DOMAIN mod_
    BY <1>1, <2>1 DEF IInv, ModuleShape
  <2>2. CASE f \notin DOMAIN mod_
    <3>1. mod_' = [z \in DOMAIN mod_ \cup {f} |->
                     IF z = f THEN [ty |-> llvmFnType(it.ty), bodies |-> {}] ELSE mod_[z]]
      BY <1>1, <2>2, Zenon DEF Set
    <3> HIDE DEF it
    <3> QED
      BY <3>1, <2>2
  <2> QED
    BY <2>1, <2>2
<1> HIDE DEF it
<1> QED
  BY <1>2, <1>3, <1>5, <1>6, <1>7 DEF it

\* The pre-pass over a prototype or a definition keeps the invariant.
LEMMA DeclareFuncStep ==
  ASSUME IInv, pass = "declare", pos <= Len(items), IsFunc(items[pos]),
         declareFunc(items[pos]), pos' = pos + 1, items' = items, pass' = pass
  PROVE  IInv'
<1> DEFINE it == items[pos]
           f  == FunctionFor(it)
<1>1. /\ uniq_' = IF f[2] > 0 THEN uniq_ + 1 ELSE uniq_
      /\ bodyDeclared_' = IF it.k = "def" THEN bodyDeclared_ \cup {it.sym} ELSE bodyDeclared_
  BY DEF declareFunc
<1>a. /\ f[1] = it.sym /\ f[2] \in Nat /\ f[2] <= uniq_'
      /\ f \in DOMAIN mod_ => Reuses(it)
      /\ DOMAIN declToFn_' = DOMAIN declToFn_ \cup {pos}
      /\ declToFn_'[pos] = f
      /\ \A i \in DOMAIN declToFn_ : i # pos => declToFn_'[i] = declToFn_[i]
      /\ pos \notin DOMAIN declToFn_ /\ pos \in Nat
      /\ DOMAIN mod_' = DOMAIN mod_ \cup {f}
      /\ mod_' = [g \in DOMAIN mod_' |-> mod_'[g]]
      /\ \A g \in DOMAIN mod_ : mod_'[g] = mod_[g]
      /\ f \notin DOMAIN mod_ => mod_'[f] = [ty |-> llvmFnType(it.ty), bodies |-> {}]
  BY DeclareFuncDoes
<1>2. /\ f[1] = it.sym /\ f[2] \in Nat
      /\ f[2] <= uniq_'
  BY <1>a
<1>4. f \in DOMAIN mod_ /\ it.k = "def" => it.sym \notin bodyDeclared_
  BY <1>a DEF Reuses
<1> HIDE DEF f
<1>5. /\ DOMAIN declToFn_' = DOMAIN declToFn_ \cup {pos}
      /\ declToFn_'[pos] = f
      /\ \A i \in DOMAIN declToFn_ : i # pos => declToFn_'[i] = declToFn_[i]
  BY <1>a
<1>6. pos \notin DOMAIN declToFn_ /\ pos \in Nat
  BY <1>a
<1>7. /\ DOMAIN mod_' = DOMAIN mod_ \cup {f}
      /\ mod_' = [g \in DOMAIN mod_' |-> mod_'[g]]
      /\ \A g \in DOMAIN mod_ : mod_'[g] = mod_[g]
      /\ f \notin DOMAIN mod_ => mod_'[f] = [ty |-> llvmFnType(it.ty), bodies |-> {}]
  BY <1>a
<1>8. uniq_ \in Nat /\ uniq_' \in Nat /\ uniq_ <= uniq_'
  BY <1>1 DEF IInv, Shape
<1>9. Shape'
  <2>1. DOMAIN declToFn_ = {i \in Positions : IsFunc(items[i]) /\ i < pos}
    BY DEF IInv, Shape
  <2>2. Positions' = Positions /\ pos \in Positions
    BY DEF Positions, IInv, Shape
  <2>3. DOMAIN declToFn_' = {i \in Positions : IsFunc(items[i]) /\ i < pos + 1}
    BY <1>5, <2>1, <2>2 DEF Positions, IInv, Shape
  <2>4. DOMAIN declToFn_' = {i \in Positions : IsFunc(items[i]) /\ (pass = "declare" => i < pos + 1)}
    BY <2>3
  <2>5. (DOMAIN declToFn_ = {i \in Positions : IsFunc(items[i]) /\ (pass = "declare" => i < pos)})'
    BY <2>4, <2>2 DEF IsFunc
  <2> QED
    BY <2>5, <1>8 DEF Shape, IInv
<1>10. ModuleShape'
  <2> SUFFICES ASSUME NEW g \in DOMAIN mod_'
               PROVE  /\ mod_'[g] = [ty |-> mod_'[g].ty, bodies |-> mod_'[g].bodies]
                      /\ g[2] \in Nat /\ g[2] <= uniq_'
    BY <1>7 DEF ModuleShape
  <2>1. CASE g \in DOMAIN mod_
    BY <2>1, <1>7, <1>8 DEF IInv, ModuleShape
  <2>2. CASE g \notin DOMAIN mod_
    BY <2>2, <1>7, <1>2
  <2> QED
    BY <2>1, <2>2
<1>11. DeclaredDefs' = DeclaredDefs \cup (IF it.k = "def" THEN {pos} ELSE {})
  BY <1>5, <1>6 DEF DeclaredDefs
<1>12. Bound'
  <2>1. ASSUME NEW i \in DOMAIN declToFn_'
        PROVE  declToFn_'[i] \in DOMAIN mod_' /\ declToFn_'[i][1] = items[i].sym
    <3>1. CASE i = pos
      BY <3>1, <1>5, <1>7, <1>2
    <3>2. CASE i # pos
      BY <3>2, <1>5, <1>7 DEF IInv, Bound
    <3> QED
      BY <3>1, <3>2
  <2>2. ASSUME NEW i \in DeclaredDefs' PROVE items[i].sym \in bodyDeclared_'
    <3>1. CASE i \in DeclaredDefs
      BY <3>1, <1>1 DEF IInv, Bound
    <3>2. CASE i \notin DeclaredDefs
      BY <3>2, <2>2, <1>11, <1>1
    <3> QED
      BY <3>1, <3>2
  <2> QED
    BY <2>1, <2>2 DEF Bound
<1>13. ASSUME NEW i \in DeclaredDefs, it.k = "def" PROVE declToFn_[i] # f
  <2> SUFFICES ASSUME declToFn_[i] = f PROVE FALSE
    OBVIOUS
  <2>1. f \in DOMAIN mod_ /\ f[1] = items[i].sym /\ items[i].sym \in bodyDeclared_
    BY DEF IInv, Bound, DeclaredDefs
  <2> QED
    BY <2>1, <1>2, <1>4, <1>13
<1>14. \A i \in DeclaredDefs : declToFn_'[i] = declToFn_[i]
  BY <1>5, <1>6 DEF DeclaredDefs
<1>15. Apart'
  <2> SUFFICES ASSUME NEW i \in DeclaredDefs', NEW j \in DeclaredDefs', declToFn_'[i] = declToFn_'[j]
               PROVE  i = j
    BY DEF Apart
  <2>1. CASE i \in DeclaredDefs /\ j \in DeclaredDefs
    BY <2>1, <1>14 DEF IInv, Apart
  <2>2. CASE i \notin DeclaredDefs
    BY <2>2, <1>11, <1>5, <1>13, <1>14
  <2>3. CASE j \notin DeclaredDefs
    BY <2>3, <1>11, <1>5, <1>13, <1>14
  <2> QED
    BY <2>1, <2>2, <2>3
<1>16. Bodies'
  <2>1. \A g \in DOMAIN mod_ : mod_[g].bodies = {}
    BY DEF IInv, Bodies, BodiesOf
  <2>2. \A g \in DOMAIN mod_' : mod_'[g].bodies = {}
    BY <2>1, <1>7
  <2> QED
    BY <2>2 DEF Bodies, BodiesOf
<1> QED
  BY <1>9, <1>10, <1>12, <1>15, <1>16 DEF IInv

\* A step that leaves the functions alone and moves pos within the items, not
\* over a function.
LEMMA OtherStep ==
  ASSUME IInv, pos <= Len(items), ~IsFunc(items[pos]), pos' = pos + 1,
         pass' = pass, pass # "done",
         UNCHANGED <<items, mod_, uniq_, bodyDeclared_, declToFn_>>
  PROVE  IInv'
<1>1. pos \in Nat /\ pos \notin DOMAIN declToFn_
  BY DEF IInv, Shape
<1>2. Shape'
  BY DEF IInv, Shape, Positions, IsFunc
<1>3. ModuleShape' /\ Bound' /\ Apart' /\ DeclaredDefs' = DeclaredDefs
  BY DEF IInv, ModuleShape, Bound, Apart, DeclaredDefs
<1>4. \A i \in DeclaredDefs : i \in Nat /\ i # pos
  BY <1>1 DEF DeclaredDefs, IInv, Shape, Positions
<1>5. \A f : BodiesOf(f)' = BodiesOf(f)
  BY <1>1, <1>3, <1>4 DEF BodiesOf
<1>6. Bodies'
  BY <1>5 DEF Bodies, IInv
<1> QED
  BY <1>2, <1>3, <1>6 DEF IInv

\* What the walk over a prototype or a definition does to the functions.
LEMMA WalkFuncDoes ==
  ASSUME IInv, pass = "walk", pos <= Len(items), WalkFunc(items[pos]),
         NEW d, d = declToFn_[pos]
  PROVE  /\ pos \in Positions /\ pos \in DOMAIN declToFn_ /\ pos \in Nat
         /\ d \in DOMAIN mod_
         /\ DOMAIN mod_' = DOMAIN mod_
         /\ mod_' = [f \in DOMAIN mod_' |-> mod_'[f]]
         /\ \A f \in DOMAIN mod_ : f # d => mod_'[f] = mod_[f]
         /\ items[pos].k # "def" => mod_' = mod_
         /\ items[pos].k = "def" =>
              mod_'[d] = [ty |-> mod_[d].ty, bodies |-> mod_[d].bodies \cup {pos}]
<1>1. /\ IsFunc(items[pos])
      /\ mod_' = IF items[pos].k = "def" THEN [mod_ EXCEPT ![d].bodies = @ \cup {pos}] ELSE mod_
  BY DEF WalkFunc
<1>2. pos \in Positions /\ pos \in DOMAIN declToFn_ /\ pos \in Nat
  BY <1>1 DEF IInv, Shape, Positions
<1>3. d \in DOMAIN mod_
  BY <1>2 DEF IInv, Bound
<1>4. /\ DOMAIN mod_' = DOMAIN mod_
      /\ mod_' = [f \in DOMAIN mod_' |-> mod_'[f]]
      /\ \A f \in DOMAIN mod_ : f # d => mod_'[f] = mod_[f]
      /\ items[pos].k # "def" => mod_' = mod_
      /\ items[pos].k = "def" =>
           mod_'[d] = [ty |-> mod_[d].ty, bodies |-> mod_[d].bodies \cup {pos}]
  <2>1. mod_ = [f \in DOMAIN mod_ |-> mod_[f]]
    BY DEF IInv, ModuleShape
  <2>2. mod_[d] = [ty |-> mod_[d].ty, bodies |-> mod_[d].bodies]
    BY <1>3 DEF IInv, ModuleShape
  <2>3. CASE items[pos].k = "def"
    <3>1. mod_' = [mod_ EXCEPT ![d].bodies = @ \cup {pos}]
      BY <1>1, <2>3
    <3> QED
      BY <3>1, <2>1, <2>2, <1>3, <2>3
  <2>4. CASE items[pos].k # "def"
    BY <1>1, <2>1, <2>4
  <2> QED
    BY <2>3, <2>4
<1> QED
  BY <1>2, <1>3, <1>4

\* The walk over a prototype or a definition.
LEMMA WalkFuncStep ==
  ASSUME IInv, pass = "walk", pos <= Len(items), WalkFunc(items[pos]), pos' = pos + 1,
         pass' = pass, UNCHANGED <<items, uniq_, bodyDeclared_, declToFn_>>
  PROVE  IInv'
<1> DEFINE d == declToFn_[pos]
<1>a. /\ pos \in Positions /\ pos \in DOMAIN declToFn_ /\ pos \in Nat
      /\ d \in DOMAIN mod_
      /\ DOMAIN mod_' = DOMAIN mod_
      /\ mod_' = [f \in DOMAIN mod_' |-> mod_'[f]]
      /\ \A f \in DOMAIN mod_ : f # d => mod_'[f] = mod_[f]
      /\ items[pos].k # "def" => mod_' = mod_
      /\ items[pos].k = "def" =>
           mod_'[d] = [ty |-> mod_[d].ty, bodies |-> mod_[d].bodies \cup {pos}]
  BY WalkFuncDoes
<1>2. pos \in Positions /\ pos \in DOMAIN declToFn_ /\ pos \in Nat
  BY <1>a
<1> HIDE DEF d
<1>4. /\ DOMAIN mod_' = DOMAIN mod_
      /\ mod_' = [f \in DOMAIN mod_' |-> mod_'[f]]
      /\ \A f \in DOMAIN mod_ : f # d => mod_'[f] = mod_[f]
      /\ items[pos].k # "def" => mod_' = mod_
      /\ items[pos].k = "def" =>
           mod_'[d] = [ty |-> mod_[d].ty, bodies |-> mod_[d].bodies \cup {pos}]
  BY <1>a
<1>5. Shape'
  BY DEF IInv, Shape, Positions, IsFunc
<1>6. ModuleShape'
  <2> SUFFICES ASSUME NEW f \in DOMAIN mod_
               PROVE  mod_'[f] = [ty |-> mod_'[f].ty, bodies |-> mod_'[f].bodies]
    BY <1>4 DEF IInv, ModuleShape
  <2>1. CASE f = d /\ items[pos].k = "def"
    BY <2>1, <1>4
  <2>2. CASE ~(f = d /\ items[pos].k = "def")
    BY <2>2, <1>4 DEF IInv, ModuleShape
  <2> QED
    BY <2>1, <2>2
<1>7. Bound' /\ Apart' /\ DeclaredDefs' = DeclaredDefs
  BY <1>4 DEF IInv, Bound, Apart, DeclaredDefs
<1>8. \A i \in DeclaredDefs : i \in Nat
  BY DEF DeclaredDefs, IInv, Shape, Positions
<1>9. \A f : BodiesOf(f)' = BodiesOf(f) \cup
               (IF items[pos].k = "def" /\ f = d THEN {pos} ELSE {})
  <2> SUFFICES ASSUME NEW f
               PROVE  {i \in DeclaredDefs : declToFn_[i] = f /\ pass # "declare" /\ i < pos + 1}
                        = {i \in DeclaredDefs : declToFn_[i] = f /\ pass # "declare" /\ i < pos}
                            \cup (IF items[pos].k = "def" /\ f = d THEN {pos} ELSE {})
    BY <1>7 DEF BodiesOf
  <2>1. pos \in DeclaredDefs <=> items[pos].k = "def"
    BY <1>2 DEF DeclaredDefs
  <2>2. \A i \in DeclaredDefs : i < pos + 1 <=> i < pos \/ i = pos
    BY <1>8, <1>2
  <2> QED
    BY <2>1, <2>2, <1>2 DEF d
<1>10. Bodies'
  <2> SUFFICES ASSUME NEW f \in DOMAIN mod_ PROVE mod_'[f].bodies = BodiesOf(f)'
    BY <1>4 DEF Bodies
  <2>1. mod_[f].bodies = BodiesOf(f)
    BY DEF IInv, Bodies
  <2>4. BodiesOf(f)' = BodiesOf(f) \cup (IF items[pos].k = "def" /\ f = d THEN {pos} ELSE {})
    BY <1>9
  <2>2. CASE f = d /\ items[pos].k = "def"
    <3>1. mod_'[f].bodies = mod_[f].bodies \cup {pos}
      BY <2>2, <1>4
    <3> QED
      BY <2>1, <2>2, <2>4, <3>1, Zenon
  <2>3. CASE ~(f = d /\ items[pos].k = "def")
    <3>1. mod_'[f] = mod_[f]
      BY <2>3, <1>4
    <3>2. BodiesOf(f)' = BodiesOf(f)
      BY <2>3, <2>4
    <3> QED
      BY <2>1, <3>1, <3>2, Zenon
  <2> QED
    BY <2>2, <2>3
<1> QED
  BY <1>5, <1>6, <1>7, <1>10 DEF IInv

\* Between the passes and at the end only pass and pos change.
LEMMA TurnStep == IInv /\ (EndDeclare \/ Finish) => IInv'
<1> SUFFICES ASSUME IInv, EndDeclare \/ Finish PROVE IInv'
  OBVIOUS
<1>1. UNCHANGED <<items, mod_, uniq_, bodyDeclared_, declToFn_>>
  BY DEF EndDeclare, Finish
<1>2. ModuleShape' /\ Bound' /\ Apart' /\ DeclaredDefs' = DeclaredDefs
  BY <1>1 DEF IInv, ModuleShape, Bound, Apart, DeclaredDefs
<1>3. \A i \in DeclaredDefs : i \in Nat /\ i >= 1
  BY DEF DeclaredDefs, IInv, Shape, Positions
<1>4. CASE EndDeclare
  <2>1. pass = "declare" /\ pass' = "walk" /\ pos' = 1 /\ pos = Len(items) + 1
    BY <1>4 DEF EndDeclare, IInv, Shape
  <2>2. Shape'
    BY <2>1, <1>1 DEF IInv, Shape, Positions, IsFunc
  <2>3. \A f : BodiesOf(f)' = {} /\ BodiesOf(f) = {}
    BY <2>1, <1>1, <1>2, <1>3 DEF BodiesOf
  <2>4. Bodies'
    BY <2>3, <1>1 DEF Bodies, IInv
  <2> QED
    BY <2>2, <1>2, <2>4 DEF IInv
<1>5. CASE Finish
  <2>1. pass = "walk" /\ pass' = "done" /\ pos' = pos /\ pos = Len(items) + 1
    BY <1>5 DEF Finish, IInv, Shape
  <2>2. Shape'
    BY <2>1, <1>1 DEF IInv, Shape, Positions, IsFunc
  <2>3. \A f : BodiesOf(f)' = BodiesOf(f)
    BY <2>1, <1>1, <1>2 DEF BodiesOf
  <2>4. Bodies'
    BY <2>3, <1>1 DEF Bodies, IInv
  <2> QED
    BY <2>2, <1>2, <2>4 DEF IInv
<1> QED
  BY <1>4, <1>5

\* Every step keeps the invariant.
LEMMA StepHolds == IInv /\ [Next]_vars => IInv'
<1> SUFFICES ASSUME IInv, [Next]_vars PROVE IInv'
  OBVIOUS
<1>1. CASE Declare
  <2>1. /\ pass = "declare" /\ pass' = pass /\ pos <= Len(items) /\ pos' = pos + 1 /\ items' = items
        /\ \/ IsFunc(items[pos]) /\ declareFunc(items[pos])
           \/ /\ IsGlobal(items[pos]) \/ IsStmt(items[pos])
              /\ UNCHANGED <<mod_, uniq_, bodyDeclared_, declToFn_>>
    BY <1>1 DEF Declare
  <2>2. CASE IsFunc(items[pos]) /\ declareFunc(items[pos])
    BY <2>1, <2>2, DeclareFuncStep
  <2>3. CASE ~(IsFunc(items[pos]) /\ declareFunc(items[pos]))
    <3>1. ~IsFunc(items[pos]) /\ UNCHANGED <<mod_, uniq_, bodyDeclared_, declToFn_>>
      BY <2>1, <2>3 DEF IsFunc, IsGlobal, IsStmt
    <3> QED
      BY <2>1, <3>1, OtherStep
  <2> QED
    BY <2>2, <2>3
<1>2. CASE Walk
  <2>1. /\ pass = "walk" /\ pass' = pass /\ pos <= Len(items) /\ pos' = pos + 1
        /\ UNCHANGED <<items, uniq_, bodyDeclared_, declToFn_>>
        /\ WalkFunc(items[pos]) \/ WalkCall(items[pos]) \/ WalkUse(items[pos]) \/ WalkGlobal(items[pos])
    BY <1>2 DEF Walk
  <2>2. CASE WalkFunc(items[pos])
    BY <2>1, <2>2, WalkFuncStep
  <2>3. CASE ~WalkFunc(items[pos])
    <3>1. ~IsFunc(items[pos]) /\ mod_' = mod_
      BY <2>1, <2>3 DEF WalkCall, WalkUse, WalkGlobal, IsFunc, IsGlobal
    <3> QED
      BY <2>1, <3>1, OtherStep
  <2> QED
    BY <2>2, <2>3
<1>3. CASE EndDeclare \/ Finish
  BY <1>3, TurnStep
<1>4. CASE UNCHANGED vars
  BY <1>4 DEF vars, IInv, Shape, ModuleShape, Bound, Apart, Bodies, BodiesOf, DeclaredDefs,
              Positions, IsFunc
<1> QED
  BY <1>1, <1>2, <1>3, <1>4 DEF Next

\* At the end the walk has passed every definition.
LEMMA BodiesAtEnd == IInv => OneBodyEach
<1> SUFFICES ASSUME IInv, pass = "done", NEW p \in Positions, items[p].k = "def"
             PROVE  mod_[declToFn_[p]].bodies = {p}
  BY DEF OneBodyEach
<1>1. p \in DeclaredDefs
  BY DEF DeclaredDefs, IInv, Shape, IsFunc
<1>2. declToFn_[p] \in DOMAIN mod_
  BY <1>1 DEF DeclaredDefs, IInv, Bound
<1>3. mod_[declToFn_[p]].bodies = BodiesOf(declToFn_[p])
  BY <1>2 DEF IInv, Bodies
<1>4. \A i \in DeclaredDefs : i < pos
  BY DEF DeclaredDefs, IInv, Shape, Positions
<1>5. BodiesOf(declToFn_[p]) = {p}
  BY <1>1, <1>4 DEF BodiesOf, IInv, Apart
<1> QED
  BY <1>3, <1>5

\* Whatever prototypes, definitions and aliases a program holds, and in whatever
\* order, each of its definitions has a function of its own with its body and no
\* other (declareFunc, genFuncBody): no module is made in which a function has
\* two bodies.
THEOREM EveryDefinitionHasItsFunction == Spec => []OneBodyEach
<1>1. Init => IInv
  BY InitHolds
<1>2. IInv /\ [Next]_vars => IInv'
  BY StepHolds
<1>3. IInv => OneBodyEach
  BY BodiesAtEnd
<1> QED
  BY <1>1, <1>2, <1>3, PTL DEF Spec
-----------------------------------------------------------------------------
(* What a name is bound to *)

FirstOf(S, i) == i \in S /\ \A j \in S : i <= j
LastOf(S, i)  == i \in S /\ \A j \in S : j <= i

DefsOf(s)   == {i \in OfSymbol(s) : items[i].k = "def"}
SameType(s) == \A i, j \in OfSymbol(s) : llvmFnType(items[i].ty) = llvmFnType(items[j].ty)

\* Item i says what the name n means at position q: it is the last above q that
\* declares n, or the first of all when none is above.
InForce(n, q, i) == \/ LastOf(Before(Decls(n), q), i)
                    \/ Before(Decls(n), q) = {} /\ FirstOf(Decls(n), i)

\* A function has the type of every declaration it serves, and serves one.
Typed == /\ \A i \in DOMAIN declToFn_ : mod_[declToFn_[i]].ty = llvmFnType(items[i].ty)
         /\ \A f \in DOMAIN mod_ : \E i \in DOMAIN declToFn_ : declToFn_[i] = f

\* The symbols noted are those of definitions.
Noted == \A s \in bodyDeclared_ : \E i \in DeclaredDefs : items[i].sym = s

\* The declarations of a symbol of one type share the function that has the
\* symbol for its name, with the first definition of the symbol.
Shared ==
  \A i \in DOMAIN declToFn_ :
    /\ SameType(items[i].sym)
    /\ items[i].k = "def" => FirstOf(DefsOf(items[i].sym), i)
    => declToFn_[i] = Symbol(items[i].sym)

\* The pre-pass binds a name to its first declaration, the walk to the one that
\* is in force at its position.
Named ==
  /\ \A n : n \in DOMAIN funcs_ <=> IF pass = "declare" THEN Before(Decls(n), pos) # {}
                                    ELSE Decls(n) # {}
  /\ \A n \in DOMAIN funcs_ :
       \E i \in Decls(n) :
         /\ IF pass = "declare" THEN FirstOf(Decls(n), i) ELSE InForce(n, pos, i)
         /\ funcs_[n] = [fn |-> declToFn_[i], ty |-> items[i].ty]

\* A call was generated for the declaration in force at its position, and a
\* diagnostic was given when that declaration refuses its arguments.
Called ==
  /\ \A p \in DOMAIN uses \cup errors : p \in Positions /\ pass # "declare" /\ p < pos
  /\ \A p \in Calls :
       \E i \in Decls(items[p].n) :
         /\ InForce(items[p].n, p, i)
         /\ uses[p].fn = declToFn_[i]
         /\ uses[p].vals = genCallTo(items[i].ty, items[p].args).vals
         /\ p \in errors <=> genCallTo(items[i].ty, items[p].args).bad

BindInv == Typed /\ Noted /\ Shared /\ Named /\ Called

\* There is one first and one last of a set of positions.
LEMMA FirstLast ==
  ASSUME NEW S \in SUBSET Nat, NEW i
  PROVE  /\ FirstOf(S, i) => i = First(S)
         /\ LastOf(S, i) => i = Last(S)
<1>1. ASSUME FirstOf(S, i) PROVE i = First(S)
  <2>1. \A k \in S : (\A j \in S : k <= j) => k = i
    BY <1>1 DEF FirstOf
  <2> QED
    BY <1>1, <2>1 DEF FirstOf, First
<1>2. ASSUME LastOf(S, i) PROVE i = Last(S)
  <2>1. \A k \in S : (\A j \in S : j <= k) => k = i
    BY <1>2 DEF LastOf
  <2> QED
    BY <1>2, <2>1 DEF LastOf, Last
<1> QED
  BY <1>1, <1>2

\* A name that the walk passes is bound to the item it passes, every other keeps
\* its binding.
LEMMA InForceMoves ==
  ASSUME NEW n, NEW q \in Positions
  PROVE  /\ q \in Decls(n) => InForce(n, q + 1, q)
         /\ q \notin Decls(n) => \A i : InForce(n, q, i) => InForce(n, q + 1, i)
<1>1. \A j \in Decls(n) : j \in Nat
  BY DEF Decls, Positions
<1>2. q \in Nat
  BY DEF Positions
<1>3. ASSUME q \in Decls(n) PROVE InForce(n, q + 1, q)
  <2>1. q \in Before(Decls(n), q + 1) /\ \A j \in Before(Decls(n), q + 1) : j <= q
    BY <1>1, <1>2, <1>3 DEF Before
  <2> QED
    BY <2>1 DEF InForce, LastOf
<1>4. ASSUME q \notin Decls(n)
      PROVE  Before(Decls(n), q + 1) = Before(Decls(n), q)
  <2>1. \A j \in Decls(n) : j < q + 1 <=> j < q
    BY <1>1, <1>2, <1>4
  <2> QED
    BY <2>1 DEF Before
<1> QED
  BY <1>3, <1>4 DEF InForce

\* The tables of names are empty at first.
LEMMA BindInit == Init => BindInv
<1> SUFFICES ASSUME Init PROVE BindInv
  OBVIOUS
<1>1. /\ DOMAIN mod_ = {} /\ DOMAIN declToFn_ = {} /\ DOMAIN funcs_ = {} /\ DOMAIN uses = {}
      /\ bodyDeclared_ = {} /\ errors = {} /\ pass = "declare" /\ pos = 1
  BY DEF Init, Empty
<1>2. \A n : Before(Decls(n), pos) = {}
  BY <1>1 DEF Before, Decls, Positions
<1>3. Named
  BY <1>1, <1>2 DEF Named
<1> QED
  BY <1>1, <1>3 DEF BindInv, Typed, Noted, Shared, Called, Calls

\* The pre-pass over a prototype or a definition.
LEMMA BindDeclare ==
  ASSUME IInv, BindInv, pass = "declare", pos <= Len(items), IsFunc(items[pos]),
         declareFunc(items[pos]), pos' = pos + 1,
         UNCHANGED <<items, pass, uses, errors>>
  PROVE  BindInv'
<1> DEFINE it == items[pos]
           f  == FunctionFor(it)
<1>1. /\ f[1] = it.sym /\ f[2] \in Nat /\ f[2] <= uniq_'
      /\ f \in DOMAIN mod_ => Reuses(it)
      /\ DOMAIN declToFn_' = DOMAIN declToFn_ \cup {pos}
      /\ declToFn_'[pos] = f
      /\ \A i \in DOMAIN declToFn_ : i # pos => declToFn_'[i] = declToFn_[i]
      /\ pos \notin DOMAIN declToFn_ /\ pos \in Nat
      /\ DOMAIN mod_' = DOMAIN mod_ \cup {f}
      /\ mod_' = [g \in DOMAIN mod_' |-> mod_'[g]]
      /\ \A g \in DOMAIN mod_ : mod_'[g] = mod_[g]
      /\ f \notin DOMAIN mod_ => mod_'[f] = [ty |-> llvmFnType(it.ty), bodies |-> {}]
  BY DeclareFuncDoes
<1>2. Reuses(it) => f = Symbol(it.sym)
  BY DEF FunctionFor
<1>3. Symbol(it.sym) \notin DOMAIN mod_ \/ Reuses(it) => f = Symbol(it.sym)
  BY DEF FunctionFor
<1> HIDE DEF f
<1>4. /\ bodyDeclared_' = IF it.k = "def" THEN bodyDeclared_ \cup {it.sym} ELSE bodyDeclared_
      /\ funcs_' = IF it.n \in DOMAIN funcs_ THEN funcs_
                   ELSE Set(funcs_, it.n, [fn |-> f, ty |-> it.ty])
  BY DEF declareFunc, f
<1>5. /\ Positions' = Positions /\ pos \in Positions
      /\ \A n : Decls(n)' = Decls(n)
      /\ \A x : OfSymbol(x)' = OfSymbol(x) /\ DefsOf(x)' = DefsOf(x)
      /\ \A x : SameType(x)' <=> SameType(x)
  BY <1>1 DEF Positions, Decls, OfSymbol, DefsOf, SameType, IsFunc, IInv, Shape
<1>6. \A i \in DOMAIN declToFn_ : i \in Nat /\ i < pos /\ i \in Positions
  BY DEF IInv, Shape, Positions
<1>7. DeclaredDefs' = DeclaredDefs \cup (IF it.k = "def" THEN {pos} ELSE {})
  BY <1>1 DEF DeclaredDefs
<1>8. \A i \in DOMAIN declToFn_ : declToFn_'[i] = declToFn_[i] /\ declToFn_[i] \in DOMAIN mod_
  BY <1>1 DEF IInv, Bound
<1>9. Typed'
  <2>1. f \in DOMAIN mod_ => mod_[f].ty = llvmFnType(it.ty)
    BY <1>1, <1>2 DEF Reuses
  <2>2. mod_'[f].ty = llvmFnType(it.ty)
    BY <1>1, <2>1
  <2>3. \A i \in DOMAIN declToFn_' : mod_'[declToFn_'[i]].ty = llvmFnType(items[i].ty)
    BY <1>1, <1>8, <2>2 DEF BindInv, Typed
  <2>4. \A g \in DOMAIN mod_' : \E i \in DOMAIN declToFn_' : declToFn_'[i] = g
    BY <1>1, <1>8 DEF BindInv, Typed
  <2> QED
    BY <2>3, <2>4 DEF Typed
<1>10. Noted'
  BY <1>4, <1>7 DEF BindInv, Noted
<1>11. Shared'
  <2> SUFFICES ASSUME NEW i \in DOMAIN declToFn_', SameType(items[i].sym),
                      items[i].k = "def" => FirstOf(DefsOf(items[i].sym), i)
               PROVE  declToFn_'[i] = Symbol(items[i].sym)
    BY <1>5 DEF Shared, Symbol, FirstOf
  <2>1. CASE i # pos
    BY <2>1, <1>1, <1>8 DEF BindInv, Shared
  <2>2. CASE i = pos
    <3>1. pos \in OfSymbol(it.sym)
      BY <1>5 DEF OfSymbol
    <3>2. ASSUME Symbol(it.sym) \in DOMAIN mod_
          PROVE  mod_[Symbol(it.sym)].ty = llvmFnType(it.ty)
      <4>1. PICK j \in DOMAIN declToFn_ : declToFn_[j] = Symbol(it.sym)
        BY <3>2 DEF BindInv, Typed
      <4>2. items[j].sym = it.sym
        BY <4>1 DEF IInv, Bound, Symbol
      <4>3. j \in OfSymbol(it.sym)
        BY <4>2, <1>6 DEF OfSymbol, IInv, Shape
      <4> QED
        BY <4>1, <4>3, <3>1, <2>2 DEF BindInv, Typed, SameType
    <3>3. ASSUME it.k = "def" PROVE it.sym \notin bodyDeclared_
      <4> SUFFICES ASSUME it.sym \in bodyDeclared_ PROVE FALSE
        OBVIOUS
      <4>1. PICK j \in DeclaredDefs : items[j].sym = it.sym
        BY DEF BindInv, Noted
      <4>2. j \in DefsOf(it.sym) /\ j < pos /\ j \in Nat
        BY <4>1, <1>6 DEF DeclaredDefs, DefsOf, OfSymbol, IInv, Shape
      <4>3. pos <= j
        BY <4>2, <3>3, <2>2 DEF FirstOf
      <4> QED
        BY <4>2, <4>3, <1>1
    <3>4. Symbol(it.sym) \in DOMAIN mod_ => Reuses(it)
      BY <3>2, <3>3 DEF Reuses
    <3> QED
      BY <3>4, <1>3, <1>1, <2>2
  <2> QED
    BY <2>1, <2>2
<1>12. Named'
  <2>1. \A n : Before(Decls(n), pos + 1) = Before(Decls(n), pos) \cup
                                           (IF n = it.n THEN {pos} ELSE {})
    <3> SUFFICES ASSUME NEW n
                 PROVE  {i \in Decls(n) : i < pos + 1} =
                          {i \in Decls(n) : i < pos} \cup (IF n = it.n THEN {pos} ELSE {})
      BY DEF Before
    <3>1. \A i \in Decls(n) : i \in Nat
      BY DEF Decls, Positions
    <3>2. \A i \in Decls(n) : i < pos + 1 <=> i < pos \/ i = pos
      BY <3>1, <1>1
    <3>3. pos \in Decls(n) <=> n = it.n
      BY <1>5 DEF Decls
    <3> QED
      BY <3>2, <3>3, <1>1
  <2>2. \A n : n \in DOMAIN funcs_ <=> Before(Decls(n), pos) # {}
    BY DEF BindInv, Named
  <2>3. DOMAIN funcs_' = DOMAIN funcs_ \cup {it.n}
    BY <1>4, Zenon DEF Set
  <2>4. \A n : n \in DOMAIN funcs_' <=> Before(Decls(n), pos + 1) # {}
    BY <2>1, <2>2, <2>3
  <2>5. ASSUME NEW n \in DOMAIN funcs_'
        PROVE  \E i \in Decls(n) : /\ FirstOf(Decls(n), i)
                                   /\ funcs_'[n] = [fn |-> declToFn_'[i], ty |-> items[i].ty]
    <3>1. CASE n \in DOMAIN funcs_
      <4>1. funcs_'[n] = funcs_[n]
        BY <3>1, <1>4, Zenon DEF Set
      <4>2. PICK i \in Decls(n) : /\ FirstOf(Decls(n), i)
                                  /\ funcs_[n] = [fn |-> declToFn_[i], ty |-> items[i].ty]
        BY <3>1 DEF BindInv, Named
      <4>3. PICK j \in Decls(n) : j < pos
        BY <3>1, <2>2 DEF Before
      <4>4. i < pos /\ i \in Positions
        BY <4>2, <4>3, <1>1 DEF FirstOf, Decls, Positions
      <4>5. i \in DOMAIN declToFn_
        BY <4>2, <4>4 DEF Decls, IInv, Shape
      <4> QED
        BY <4>1, <4>2, <4>5, <1>8
    <3>2. CASE n \notin DOMAIN funcs_
      <4>1. n = it.n
        BY <3>2, <2>3, <2>5
      <4>2. funcs_' = Set(funcs_, n, [fn |-> f, ty |-> it.ty])
        BY <4>1, <3>2, <1>4
      <4>3. funcs_'[n] = [fn |-> f, ty |-> it.ty]
        BY <4>2, Zenon DEF Set
      <4>4. Before(Decls(n), pos) = {}
        BY <3>2, <2>2
      <4>5. pos \in Decls(n)
        BY <4>1, <1>5 DEF Decls
      <4>6. \A j \in Decls(n) : j \in Nat /\ ~(j < pos)
        BY <4>4 DEF Before, Decls, Positions
      <4>7. FirstOf(Decls(n), pos)
        BY <4>5, <4>6, <1>1 DEF FirstOf
      <4> QED
        BY <4>3, <4>5, <4>7, <1>1
    <3> QED
      BY <3>1, <3>2
  <2>6. /\ \A n : n \in DOMAIN funcs_' <=> Before(Decls(n)', pos') # {}
        /\ \A n \in DOMAIN funcs_' :
             \E i \in Decls(n)' : /\ FirstOf(Decls(n)', i)
                                  /\ funcs_'[n] = [fn |-> declToFn_'[i], ty |-> items'[i].ty]
    BY <2>4, <2>5, <1>5
  <2> QED
    BY <2>6 DEF Named, Before, FirstOf
<1>13. Called'
  <2>1. DOMAIN uses = {} /\ errors = {}
    BY DEF BindInv, Called
  <2> QED
    BY <2>1 DEF Called, Calls
<1> QED
  BY <1>9, <1>10, <1>11, <1>12, <1>13 DEF BindInv

\* A step that leaves the functions and the names alone does not move past a
\* declaration of a function, and gives no call a binding of its own.
LEMMA BindKept ==
  ASSUME IInv, BindInv, pos \in Positions, ~IsFunc(items[pos]), pos' = pos + 1, pass # "done",
         UNCHANGED <<items, pass, mod_, bodyDeclared_, declToFn_, funcs_>>
  PROVE  /\ (Typed /\ Noted /\ Shared /\ Named)'
         /\ \A n, q, i : InForce(n, q, i)' <=> InForce(n, q, i)
<1>1. /\ \A n : Decls(n)' = Decls(n)
      /\ \A x : OfSymbol(x)' = OfSymbol(x) /\ DefsOf(x)' = DefsOf(x)
      /\ \A x : SameType(x)' <=> SameType(x)
      /\ DeclaredDefs' = DeclaredDefs
  BY DEF Positions, Decls, OfSymbol, DefsOf, SameType, IsFunc, DeclaredDefs
<1>2. \A n, q, i : InForce(n, q, i)' <=> InForce(n, q, i)
  BY <1>1 DEF InForce, LastOf, FirstOf, Before
<1>3. Typed' /\ Noted'
  BY <1>1 DEF BindInv, Typed, Noted
<1>4. Shared'
  BY <1>1 DEF BindInv, Shared, FirstOf, Symbol
<1>5. \A n : pos \notin Decls(n)
  BY DEF Decls
<1>6. \A n : Before(Decls(n), pos + 1) = Before(Decls(n), pos)
  <2>1. ASSUME NEW n, NEW i \in Decls(n) PROVE i < pos + 1 <=> i < pos
    BY <1>5 DEF Decls, Positions
  <2> QED
    BY <2>1 DEF Before
<1>7. \A n, i : InForce(n, pos, i) => InForce(n, pos + 1, i)
  BY <1>5, InForceMoves
<1>8. /\ \A n : n \in DOMAIN funcs_ <=> IF pass = "declare" THEN Before(Decls(n)', pos') # {}
                                        ELSE Decls(n)' # {}
      /\ \A n \in DOMAIN funcs_ :
           \E i \in Decls(n)' :
             /\ IF pass = "declare" THEN FirstOf(Decls(n)', i) ELSE InForce(n, pos', i)
             /\ funcs_[n] = [fn |-> declToFn_[i], ty |-> items[i].ty]
  BY <1>1, <1>6, <1>7 DEF BindInv, Named
<1>9. Named'
  BY <1>1, <1>2, <1>8 DEF Named, Before, FirstOf
<1> QED
  BY <1>2, <1>3, <1>4, <1>9

\* The walk over a prototype or a definition rebinds its name.
LEMMA BindWalkFunc ==
  ASSUME IInv, BindInv, pass = "walk", pos <= Len(items), WalkFunc(items[pos]), pos' = pos + 1,
         UNCHANGED <<items, pass, bodyDeclared_, declToFn_>>
  PROVE  BindInv'
<1> DEFINE it == items[pos]
           d  == declToFn_[pos]
<1>1. /\ pos \in Positions /\ pos \in DOMAIN declToFn_ /\ pos \in Nat
      /\ d \in DOMAIN mod_
      /\ DOMAIN mod_' = DOMAIN mod_
      /\ mod_' = [f \in DOMAIN mod_' |-> mod_'[f]]
      /\ \A f \in DOMAIN mod_ : f # d => mod_'[f] = mod_[f]
      /\ items[pos].k # "def" => mod_' = mod_
      /\ items[pos].k = "def" =>
           mod_'[d] = [ty |-> mod_[d].ty, bodies |-> mod_[d].bodies \cup {pos}]
  BY WalkFuncDoes
<1>2. /\ IsFunc(it) /\ UNCHANGED <<uses, errors>>
      /\ funcs_' = Set(funcs_, it.n, [fn |-> d, ty |-> it.ty])
  BY DEF WalkFunc, Rebind
<1> HIDE DEF d
<1>3. /\ \A n : Decls(n)' = Decls(n)
      /\ \A x : OfSymbol(x)' = OfSymbol(x) /\ DefsOf(x)' = DefsOf(x)
      /\ \A x : SameType(x)' <=> SameType(x)
      /\ DeclaredDefs' = DeclaredDefs /\ Positions' = Positions
  BY DEF Positions, Decls, OfSymbol, DefsOf, SameType, IsFunc, DeclaredDefs
<1>4. \A n, q, i : InForce(n, q, i)' <=> InForce(n, q, i)
  BY <1>3 DEF InForce, LastOf, FirstOf, Before
<1>5. \A f \in DOMAIN mod_ : mod_'[f].ty = mod_[f].ty
  BY <1>1
<1>6. Typed'
  BY <1>1, <1>5 DEF BindInv, Typed, IInv, Bound
<1>7. Noted' /\ Shared'
  BY <1>3 DEF BindInv, Noted, Shared, FirstOf, Symbol
<1>8. Named'
  <2>1. /\ DOMAIN funcs_' = DOMAIN funcs_ \cup {it.n}
        /\ funcs_'[it.n] = [fn |-> d, ty |-> it.ty]
        /\ \A n \in DOMAIN funcs_ : n # it.n => funcs_'[n] = funcs_[n]
    BY <1>2, Zenon DEF Set
  <2>2. pos \in Decls(it.n) /\ \A n : n # it.n => pos \notin Decls(n)
    BY <1>1, <1>2 DEF Decls
  <2>3. \A n : n \in DOMAIN funcs_' <=> Decls(n) # {}
    BY <2>1, <2>2 DEF BindInv, Named
  <2>4. ASSUME NEW n \in DOMAIN funcs_'
        PROVE  \E i \in Decls(n) : /\ InForce(n, pos + 1, i)
                                   /\ funcs_'[n] = [fn |-> declToFn_[i], ty |-> items[i].ty]
    <3>1. CASE n = it.n
      BY <3>1, <2>1, <2>2, <1>1, InForceMoves DEF d
    <3>2. CASE n # it.n
      <4>1. PICK i \in Decls(n) : /\ InForce(n, pos, i)
                                  /\ funcs_[n] = [fn |-> declToFn_[i], ty |-> items[i].ty]
        BY <3>2, <2>1, <2>4 DEF BindInv, Named
      <4> QED
        BY <4>1, <3>2, <2>1, <2>2, <2>4, <1>1, InForceMoves
    <3> QED
      BY <3>1, <3>2
  <2>5. /\ \A n : n \in DOMAIN funcs_' <=> Decls(n)' # {}
        /\ \A n \in DOMAIN funcs_' :
             \E i \in Decls(n)' :
               /\ InForce(n, pos', i)
               /\ funcs_'[n] = [fn |-> declToFn_'[i], ty |-> items'[i].ty]
    BY <2>3, <2>4, <1>3
  <2> QED
    BY <2>5, <1>4 DEF Named
<1>9. Called'
  <2>1. Calls' = Calls
    BY <1>2 DEF Calls
  <2>2. \A p \in Calls :
          \E i \in Decls(items[p].n)' :
            /\ InForce(items[p].n, p, i)'
            /\ uses[p].fn = declToFn_[i]
            /\ uses[p].vals = genCallTo(items[i].ty, items[p].args).vals
            /\ p \in errors <=> genCallTo(items[i].ty, items[p].args).bad
    BY <1>3, <1>4 DEF BindInv, Called
  <2>3. \A p \in DOMAIN uses \cup errors : p \in Positions /\ p < pos + 1
    BY <1>1 DEF BindInv, Called, Positions
  <2>4. \A p \in Calls : items'[p].n = items[p].n
    BY <1>2
  <2>5. \A p \in (DOMAIN uses \cup errors)' : p \in Positions' /\ pass' # "declare" /\ p < pos'
    BY <1>2, <1>4, <2>3 DEF Positions
  <2>6. (\A p \in Calls :
           \E i \in Decls(items[p].n) :
             /\ InForce(items[p].n, p, i)
             /\ uses[p].fn = declToFn_[i]
             /\ uses[p].vals = genCallTo(items[i].ty, items[p].args).vals
             /\ p \in errors <=> genCallTo(items[i].ty, items[p].args).bad)'
    BY <1>2, <1>3, <1>4, <2>1, <2>2, <2>4
  <2> QED
    BY <2>5, <2>6 DEF Called
<1> QED
  BY <1>6, <1>7, <1>8, <1>9 DEF BindInv

\* The walk over a call binds it to what its name means there.
LEMMA BindWalkCall ==
  ASSUME IInv, BindInv, pass = "walk", pos <= Len(items), WalkCall(items[pos]), pos' = pos + 1,
         UNCHANGED <<items, pass, bodyDeclared_, declToFn_>>
  PROVE  BindInv'
<1> DEFINE it == items[pos]
<1>1. /\ it.k = "call" /\ funcs_' = funcs_ /\ mod_' = mod_
      /\ it.n \notin DOMAIN funcs_ => uses' = uses /\ errors' = errors \cup {pos}
      /\ it.n \in DOMAIN funcs_ =>
           /\ uses' = Set(uses, pos, [fn   |-> funcs_[it.n].fn,
                                      vals |-> genCallTo(funcs_[it.n].ty, it.args).vals])
           /\ errors' = IF genCallTo(funcs_[it.n].ty, it.args).bad
                        THEN errors \cup {pos} ELSE errors
  BY DEF WalkCall
<1>2. pos \in Positions /\ pos \in Nat /\ ~IsFunc(it)
  BY <1>1 DEF IInv, Shape, Positions, IsFunc
<1>3. /\ (Typed /\ Noted /\ Shared /\ Named)'
      /\ \A n, q, i : InForce(n, q, i)' <=> InForce(n, q, i)
  BY <1>1, <1>2, BindKept
<1>4. (\A n : Decls(n)' = Decls(n)) /\ Positions' = Positions
  BY DEF Decls, Positions, IsFunc
<1>5. \A p \in DOMAIN uses \cup errors : p \in Positions /\ p < pos
  BY DEF BindInv, Called
<1>6. pos \notin DOMAIN uses /\ pos \notin errors
  BY <1>5, <1>2
<1>7. CASE it.n \notin DOMAIN funcs_
  <2>1. /\ \A p \in DOMAIN uses' \cup errors' : p \in Positions /\ p < pos + 1
        /\ Calls' = Calls
    BY <1>1, <1>2, <1>5, <1>7 DEF Calls, Positions
  <2>2. \A p \in Calls :
          \E i \in Decls(items[p].n) :
            /\ InForce(items[p].n, p, i)
            /\ uses'[p].fn = declToFn_[i]
            /\ uses'[p].vals = genCallTo(items[i].ty, items[p].args).vals
            /\ p \in errors' <=> genCallTo(items[i].ty, items[p].args).bad
    <3> SUFFICES ASSUME NEW p \in Calls
                 PROVE  \E i \in Decls(items[p].n) :
                          /\ InForce(items[p].n, p, i)
                          /\ uses'[p].fn = declToFn_[i]
                          /\ uses'[p].vals = genCallTo(items[i].ty, items[p].args).vals
                          /\ p \in errors' <=> genCallTo(items[i].ty, items[p].args).bad
      OBVIOUS
    <3>1. p \in errors' <=> p \in errors
      BY <1>1, <1>6, <1>7 DEF Calls
    <3> QED
      BY <1>1, <1>7, <3>1 DEF BindInv, Called
  <2>3. Called'
    BY <1>3, <1>4, <2>1, <2>2 DEF Called
  <2> QED
    BY <1>3, <2>3 DEF BindInv
<1>8. CASE it.n \in DOMAIN funcs_
  <2>1. /\ DOMAIN uses' = DOMAIN uses \cup {pos}
        /\ uses'[pos] = [fn   |-> funcs_[it.n].fn,
                         vals |-> genCallTo(funcs_[it.n].ty, it.args).vals]
        /\ \A p \in DOMAIN uses : p # pos => uses'[p] = uses[p]
    BY <1>1, <1>8, Zenon DEF Set
  <2>2. \A p \in DOMAIN uses' \cup errors' : p \in Positions /\ p < pos + 1
    BY <1>1, <1>2, <1>5, <1>8, <2>1 DEF Positions
  <2>3. \A p \in Calls' :
          \E i \in Decls(items[p].n) :
            /\ InForce(items[p].n, p, i)
            /\ uses'[p].fn = declToFn_[i]
            /\ uses'[p].vals = genCallTo(items[i].ty, items[p].args).vals
            /\ p \in errors' <=> genCallTo(items[i].ty, items[p].args).bad
    <3> SUFFICES ASSUME NEW p \in Calls'
                 PROVE  \E i \in Decls(items[p].n) :
                          /\ InForce(items[p].n, p, i)
                          /\ uses'[p].fn = declToFn_[i]
                          /\ uses'[p].vals = genCallTo(items[i].ty, items[p].args).vals
                          /\ p \in errors' <=> genCallTo(items[i].ty, items[p].args).bad
      OBVIOUS
    <3>1. CASE p = pos
      <4>1. PICK i \in Decls(it.n) : /\ InForce(it.n, pos, i)
                                     /\ funcs_[it.n] = [fn |-> declToFn_[i], ty |-> items[i].ty]
        BY <1>8 DEF BindInv, Named
      <4>2. funcs_[it.n].fn = declToFn_[i] /\ funcs_[it.n].ty = items[i].ty
        BY <4>1
      <4>3. /\ uses'[pos].fn = declToFn_[i]
            /\ uses'[pos].vals = genCallTo(items[i].ty, it.args).vals
        BY <2>1, <4>2
      <4>4. pos \in errors' <=> genCallTo(items[i].ty, it.args).bad
        BY <1>1, <1>6, <1>8, <4>2
      <4> QED
        BY <3>1, <4>1, <4>3, <4>4
    <3>2. CASE p # pos
      <4>1. p \in Calls /\ uses'[p] = uses[p]
        BY <3>2, <2>1 DEF Calls
      <4>2. p \in errors' <=> p \in errors
        BY <1>1, <1>8, <3>2
      <4> QED
        BY <4>1, <4>2 DEF BindInv, Called
    <3> QED
      BY <3>1, <3>2
  <2>4. Called'
    BY <1>3, <1>4, <2>2, <2>3 DEF Called
  <2> QED
    BY <1>3, <2>4 DEF BindInv
<1> QED
  BY <1>7, <1>8

\* The walk over an item of a variable.
LEMMA BindWalkOther ==
  ASSUME IInv, BindInv, pass = "walk", pos <= Len(items),
         WalkUse(items[pos]) \/ WalkGlobal(items[pos]), pos' = pos + 1,
         UNCHANGED <<items, pass, bodyDeclared_, declToFn_>>
  PROVE  BindInv'
<1>1. /\ ~IsFunc(items[pos]) /\ items[pos].k # "call" /\ funcs_' = funcs_ /\ mod_' = mod_
      /\ DOMAIN uses' \subseteq DOMAIN uses \cup {pos}
      /\ \A p \in DOMAIN uses' : p # pos => p \in DOMAIN uses /\ uses'[p] = uses[p]
      /\ \A p \in DOMAIN uses : p # pos => p \in DOMAIN uses'
      /\ errors' = errors \/ errors' = errors \cup {pos}
  <2>1. CASE WalkUse(items[pos])
    <3>1. CASE items[pos].n \in DOMAIN globals_
      <4>1. uses' = Set(uses, pos, globals_[items[pos].n]) /\ errors' = errors
        BY <2>1, <3>1 DEF WalkUse
      <4>2. /\ DOMAIN uses' = DOMAIN uses \cup {pos}
            /\ \A p \in DOMAIN uses : p # pos => uses'[p] = uses[p]
        BY <4>1, Zenon DEF Set
      <4> QED
        BY <2>1, <4>1, <4>2 DEF WalkUse, IsFunc
    <3>2. CASE items[pos].n \notin DOMAIN globals_
      BY <2>1, <3>2 DEF WalkUse, IsFunc
    <3> QED
      BY <3>1, <3>2
  <2>2. CASE WalkGlobal(items[pos])
    BY <2>2 DEF WalkGlobal, IsFunc, IsGlobal
  <2> QED
    BY <2>1, <2>2
<1>2. pos \in Positions /\ pos \in Nat
  BY DEF IInv, Shape, Positions
<1>3. /\ (Typed /\ Noted /\ Shared /\ Named)'
      /\ \A n, q, i : InForce(n, q, i)' <=> InForce(n, q, i)
  BY <1>1, <1>2, BindKept
<1>4. (\A n : Decls(n)' = Decls(n)) /\ Positions' = Positions
  BY DEF Decls, Positions, IsFunc
<1>5. \A p \in DOMAIN uses' \cup errors' : p \in Positions /\ p < pos + 1
  BY <1>1, <1>2 DEF BindInv, Called, Positions
<1>6. \A p \in Calls' : p \in Calls /\ uses'[p] = uses[p] /\ (p \in errors' <=> p \in errors)
  BY <1>1 DEF Calls
<1>7. Called'
  BY <1>3, <1>4, <1>5, <1>6 DEF Called, BindInv
<1> QED
  BY <1>3, <1>7 DEF BindInv

\* Between the passes the names keep their first declarations.
LEMMA BindTurn ==
  ASSUME IInv, BindInv, EndDeclare \/ Finish
  PROVE  BindInv'
<1>1. UNCHANGED <<items, mod_, bodyDeclared_, declToFn_, funcs_, uses, errors>>
  BY DEF EndDeclare, Finish
<1>2. /\ \A n : Decls(n)' = Decls(n)
      /\ \A x : OfSymbol(x)' = OfSymbol(x) /\ DefsOf(x)' = DefsOf(x)
      /\ \A x : SameType(x)' <=> SameType(x)
      /\ DeclaredDefs' = DeclaredDefs /\ Positions' = Positions /\ Calls' = Calls
  BY <1>1 DEF Positions, Decls, OfSymbol, DefsOf, SameType, IsFunc, DeclaredDefs, Calls
<1>3. \A n, q, i : InForce(n, q, i)' <=> InForce(n, q, i)
  BY <1>2 DEF InForce, LastOf, FirstOf, Before
<1>4. Typed' /\ Noted' /\ Shared'
  BY <1>1, <1>2 DEF BindInv, Typed, Noted, Shared, FirstOf, Symbol
<1>5. CASE EndDeclare
  <2>1. pass = "declare" /\ pass' = "walk" /\ pos' = 1 /\ pos = Len(items) + 1
    BY <1>5 DEF EndDeclare, IInv, Shape
  <2>2. \A n : Before(Decls(n), pos) = Decls(n) /\ Before(Decls(n), 1) = {}
    BY <2>1 DEF Before, Decls, Positions, IInv, Shape
  <2>3. /\ \A n : n \in DOMAIN funcs_ <=> Decls(n) # {}
        /\ \A n \in DOMAIN funcs_ :
             \E i \in Decls(n) : /\ InForce(n, 1, i)
                                 /\ funcs_[n] = [fn |-> declToFn_[i], ty |-> items[i].ty]
    BY <2>1, <2>2 DEF BindInv, Named, InForce
  <2>4. Named'
    BY <1>1, <1>2, <1>3, <2>1, <2>3 DEF Named
  <2>5. DOMAIN uses = {} /\ errors = {}
    BY <2>1 DEF BindInv, Called
  <2>6. Called'
    BY <1>1, <2>5 DEF Called, Calls
  <2> QED
    BY <1>4, <2>4, <2>6 DEF BindInv
<1>6. CASE Finish
  <2>1. pass = "walk" /\ pass' = "done" /\ pos' = pos
    BY <1>6 DEF Finish
  <2>2. Named'
    BY <1>1, <1>2, <1>3, <2>1 DEF Named, BindInv
  <2>3. Called'
    BY <1>1, <1>2, <1>3, <2>1 DEF Called, BindInv
  <2> QED
    BY <1>4, <2>2, <2>3 DEF BindInv
<1> QED
  BY <1>5, <1>6

\* Every step keeps the bindings.
LEMMA BindStep == IInv /\ BindInv /\ [Next]_vars => BindInv'
<1> SUFFICES ASSUME IInv, BindInv, [Next]_vars PROVE BindInv'
  OBVIOUS
<1>1. CASE Declare
  <2>1. /\ pass = "declare" /\ pos <= Len(items) /\ pos' = pos + 1
        /\ UNCHANGED <<items, pass, uses, errors>>
        /\ \/ IsFunc(items[pos]) /\ declareFunc(items[pos])
           \/ /\ IsGlobal(items[pos]) \/ IsStmt(items[pos])
              /\ UNCHANGED <<mod_, bodyDeclared_, declToFn_, funcs_>>
    BY <1>1 DEF Declare
  <2>2. CASE IsFunc(items[pos]) /\ declareFunc(items[pos])
    BY <2>1, <2>2, BindDeclare
  <2>3. CASE ~(IsFunc(items[pos]) /\ declareFunc(items[pos]))
    <3>1. /\ ~IsFunc(items[pos]) /\ UNCHANGED <<mod_, bodyDeclared_, declToFn_, funcs_>>
          /\ pos \in Positions
      BY <2>1, <2>3 DEF IsFunc, IsGlobal, IsStmt, IInv, Shape, Positions
    <3>2. (Typed /\ Noted /\ Shared /\ Named)'
      BY <2>1, <3>1, BindKept
    <3>3. DOMAIN uses = {} /\ errors = {}
      BY <2>1 DEF BindInv, Called
    <3>4. Called'
      BY <2>1, <3>3 DEF Called, Calls
    <3> QED
      BY <3>2, <3>4 DEF BindInv
  <2> QED
    BY <2>2, <2>3
<1>2. CASE Walk
  <2>1. /\ pass = "walk" /\ pos <= Len(items) /\ pos' = pos + 1
        /\ UNCHANGED <<items, pass, bodyDeclared_, declToFn_>>
        /\ WalkFunc(items[pos]) \/ WalkCall(items[pos]) \/ WalkUse(items[pos]) \/ WalkGlobal(items[pos])
    BY <1>2 DEF Walk
  <2> QED
    BY <2>1, BindWalkFunc, BindWalkCall, BindWalkOther
<1>3. CASE EndDeclare \/ Finish
  BY <1>3, BindTurn
<1>4. CASE UNCHANGED vars
  <2>1. /\ \A n : Decls(n)' = Decls(n)
        /\ \A x : OfSymbol(x)' = OfSymbol(x) /\ DefsOf(x)' = DefsOf(x)
        /\ \A x : SameType(x)' <=> SameType(x)
        /\ DeclaredDefs' = DeclaredDefs /\ Positions' = Positions /\ Calls' = Calls
    BY <1>4 DEF vars, Positions, Decls, OfSymbol, DefsOf, SameType, IsFunc, DeclaredDefs, Calls
  <2>2. \A n, q, i : InForce(n, q, i)' <=> InForce(n, q, i)
    BY <2>1 DEF InForce, LastOf, FirstOf, Before
  <2>3. Typed' /\ Noted' /\ Shared'
    BY <1>4, <2>1 DEF vars, BindInv, Typed, Noted, Shared, FirstOf, Symbol
  <2>4. Named'
    BY <1>4, <2>1, <2>2 DEF vars, BindInv, Named, FirstOf, Before
  <2>5. Called'
    BY <1>4, <2>1, <2>2 DEF vars, BindInv, Called
  <2> QED
    BY <2>3, <2>4, <2>5 DEF BindInv
<1> QED
  BY <1>1, <1>2, <1>3, <1>4 DEF Next

\* The two invariants hold together in every state.
LEMMA Binding == Spec => [](IInv /\ BindInv)
<1>1. Init => IInv /\ BindInv
  BY InitHolds, BindInit
<1>2. IInv /\ BindInv /\ [Next]_vars => (IInv /\ BindInv)'
  BY StepHolds, BindStep
<1> QED
  BY <1>1, <1>2, PTL DEF Spec

\* What a call is bound to at the end, and the body of a definition.
LEMMA CallBinding ==
  ASSUME IInv, BindInv, pass = "done", NEW p \in Calls
  PROVE  /\ \E i \in Decls(items[p].n) : InForce(items[p].n, p, i) /\ uses[p].fn = declToFn_[i]
         /\ \A i \in Positions : items[i].k = "def" => mod_[declToFn_[i]].bodies = {i}
  BY BodiesAtEnd DEF BindInv, Called, OneBodyEach

\* A duplicate overshadows from its position on: a call runs the newest
\* definition above it when no prototype comes between (the rebinding of the
\* walk and declToFn_), whatever has been declared before and comes after.
THEOREM CallsRunTheNewest == Spec => []NewestDefinitionRuns
<1>1. ASSUME IInv, BindInv PROVE NewestDefinitionRuns
  <2> SUFFICES ASSUME pass = "done", NEW p \in Calls,
                      Before(Decls(items[p].n), p) # {},
                      Last(Before(Decls(items[p].n), p)) \in Defs(items[p].n)
               PROVE  Runs(p) = {Last(Before(Decls(items[p].n), p))}
    BY DEF NewestDefinitionRuns
  <2>1. PICK i \in Decls(items[p].n) : InForce(items[p].n, p, i) /\ uses[p].fn = declToFn_[i]
    BY <1>1, CallBinding
  <2>2. LastOf(Before(Decls(items[p].n), p), i)
    BY <2>1 DEF InForce
  <2>3. i = Last(Before(Decls(items[p].n), p))
    <3>1. Before(Decls(items[p].n), p) \in SUBSET Nat
      BY DEF Before, Decls, Positions
    <3> QED
      BY <2>2, <3>1, FirstLast
  <2>4. i \in Positions /\ items[i].k = "def"
    BY <2>3 DEF Defs
  <2>5. mod_[declToFn_[i]].bodies = {i}
    BY <1>1, <2>4, CallBinding
  <2> QED
    BY <2>1, <2>3, <2>5 DEF Runs
<1> QED
  BY <1>1, Binding, PTL

\* A forward call, through an extern prototype or an alias, runs the first
\* definition of the symbol, or the one the name itself is first declared by:
\* its prototypes share the function that declareFunc made for the symbol.
THEOREM ForwardCallsRunTheFirst == Spec => []ForwardCallRunsFirst
<1>1. ASSUME IInv, BindInv PROVE ForwardCallRunsFirst
  <2> SUFFICES ASSUME pass = "done", NEW p \in Calls, NEW n, n = items[p].n,
                      NEW f, f = First(Decls(n)), NEW s, s = items[f].sym,
                      DefsOf(s) # {}, Before(Defs(n), p) = {},
                      \A j \in Decls(n) : items[j].sym = s, SameType(s)
               PROVE  Runs(p) = {IF items[f].k = "def" THEN f ELSE First(DefsOf(s))}
    BY DEF ForwardCallRunsFirst, SameType, DefsOf
  <2>1. PICK i \in Decls(n) : InForce(n, p, i) /\ uses[p].fn = declToFn_[i]
    BY <1>1, CallBinding
  <2>2. /\ Decls(n) \in SUBSET Nat /\ DefsOf(s) \in SUBSET Nat
        /\ i \in Positions /\ IsFunc(items[i]) /\ items[i].n = n /\ items[i].sym = s
    BY <2>1 DEF Decls, DefsOf, OfSymbol, Positions
  <2>3. DOMAIN declToFn_ = {j \in Positions : IsFunc(items[j])}
    BY <1>1 DEF IInv, Shape
  <2>4. ASSUME items[i].k = "def" PROVE i = f
    <3>1. i \in Defs(n)
      BY <2>2, <2>4 DEF Defs
    <3>2. i \notin Before(Decls(n), p)
      BY <3>1 DEF Before
    <3> QED
      BY <2>1, <2>2, <3>2, FirstLast DEF InForce, LastOf
  <2>5. CASE items[i].k = "def"
    BY <1>1, <2>1, <2>2, <2>4, <2>5, CallBinding DEF Runs
  <2>6. CASE items[i].k # "def"
    <3>1. declToFn_[i] = Symbol(s)
      BY <1>1, <2>2, <2>3, <2>6 DEF BindInv, Shared
    <3>2. PICK d : FirstOf(DefsOf(s), d)
      BY <2>2, LeastNumber DEF FirstOf
    <3>3. d = First(DefsOf(s))
      BY <2>2, <3>2, FirstLast
    <3>4. d \in Positions /\ items[d].k = "def" /\ items[d].sym = s
      BY <3>2 DEF FirstOf, DefsOf, OfSymbol
    <3>5. declToFn_[d] = Symbol(s)
      BY <1>1, <2>3, <3>2, <3>4 DEF BindInv, Shared, IsFunc
    <3>6. Runs(p) = {d}
      BY <1>1, <2>1, <3>1, <3>4, <3>5, CallBinding DEF Runs
    <3>7. items[f].k # "def"
      <4> SUFFICES ASSUME items[f].k = "def" PROVE FALSE
        OBVIOUS
      <4>1. PICK e : FirstOf(Decls(n), e)
        BY <2>1, <2>2, LeastNumber DEF FirstOf
      <4>2. e = f /\ f \in Defs(n) /\ f \in Nat
        BY <2>2, <4>1, FirstLast DEF FirstOf, Defs, Decls
      <4>3. f # i
        BY <2>6
      <4>4. i \in Before(Decls(n), p)
        BY <2>1, <2>2, <4>2, <4>3, FirstLast DEF InForce, LastOf
      <4>5. f <= i /\ i < p /\ p \in Nat
        <5>1. i \in Decls(n) /\ i < p
          BY <4>4 DEF Before
        <5>2. f <= i
          BY <4>1, <4>2, <5>1 DEF FirstOf
        <5>3. p \in Nat
          <6>1. p \in Positions
            BY <1>1 DEF BindInv, Called, Calls
          <6> QED
            BY <6>1 DEF Positions
        <5> QED
          BY <5>1, <5>2, <5>3
      <4>6. f < p
        BY <2>2, <4>2, <4>5
      <4> QED
        BY <4>2, <4>6 DEF Before
    <3> QED
      BY <3>3, <3>6, <3>7
  <2> QED
    BY <2>5, <2>6
<1> QED
  BY <1>1, Binding, PTL

-----------------------------------------------------------------------------
(* What a variable holds *)

GDecls(n) == {i \in Positions : IsGlobal(items[i]) /\ items[i].n = n}

\* The value item i gives a variable that holds ty bits.
Given_(i, ty) == Stored(IF items[i].k = "store" THEN items[i].v ELSE items[i].init.v, ty)

\* The position the pre-pass has come to.
Reached == IF pass = "declare" THEN pos ELSE Len(items) + 1

\* What is known of the items, whatever the pass.
ItemsOK ==
  \A i \in Positions :
    /\ items[i].k = "store" => items[i].v \in Int
    /\ IsGlobal(items[i]) => /\ items[i].n # NoInit /\ items[i].ty \in Nat /\ 2^items[i].ty > 0
                             /\ items[i].init # NoInit => items[i].init.v \in Int

\* A name declared so far has a variable; it is of the type of the first
\* declaration, starts with that one's value if it is a constant, and has storage
\* once a definition has been reached.
Variable(n, i) ==
  /\ FirstOf(GDecls(n), i)
  /\ globals_[n].ty = items[i].ty
  /\ globals_[n].gv \in DOMAIN vars_
  /\ globals_[n].gv.own \in {NoInit, n}
  /\ vars_[globals_[n].gv].init = IF Folds(items[i]) THEN Given_(i, items[i].ty) ELSE 0
  /\ Folds(items[i]) => i \in folded
  /\ \A j \in GDecls(n) : j < Reached /\ items[j].k = "var" => vars_[globals_[n].gv].stored

Globals ==
  /\ \A g \in DOMAIN vars_ : vars_[g] = [stored |-> vars_[g].stored, init |-> vars_[g].init]
  /\ \A n : n \in DOMAIN globals_ <=> \E i \in GDecls(n) : i < Reached
  /\ \A n \in DOMAIN globals_ : \E i \in GDecls(n) : Variable(n, i)
  /\ \A m, n \in DOMAIN globals_ : globals_[m].gv = globals_[n].gv => m = n
  /\ \A i \in folded : i \in GDecls(items[i].n) /\ FirstOf(GDecls(items[i].n), i) /\ Folds(items[i])

\* The items that leave an entry in the startup function, and the entry.
Logged(q) == /\ items[q].n \in DOMAIN globals_
             /\ items[q].k = "read" \/ (Gives(items[q]) /\ q \notin folded)
LogEntry(q) ==
  [gv |-> globals_[items[q].n].gv, at |-> q,
   v  |-> IF Gives(items[q]) THEN Given_(q, globals_[items[q].n].ty) ELSE NoInit]

\* The startup function has the entries of the items passed, in their order.
Log ==
  /\ \E S : startup_ \in Seq(S)
  /\ \A i \in 1..Len(startup_) :
       /\ startup_[i].at \in Positions /\ Logged(startup_[i].at)
       /\ startup_[i] = LogEntry(startup_[i].at)
       /\ pass # "declare" /\ startup_[i].at < pos
  /\ \A i, j \in 1..Len(startup_) : i < j => startup_[i].at < startup_[j].at
  /\ \A q \in Positions :
       pass # "declare" /\ q < pos /\ Logged(q) => \E i \in 1..Len(startup_) : startup_[i].at = q

\* A use of a variable is bound to what its name means.
Used == \A p \in Positions : pass # "declare" /\ p < pos /\ items[p].k = "read"
                               /\ items[p].n \in DOMAIN globals_
                               => p \in DOMAIN uses /\ uses[p] = globals_[items[p].n]

VarInv == ItemsOK /\ Globals /\ Log /\ Used

\* A variable holds a number.
LEMMA StoredIsNumber ==
  ASSUME NEW v \in Int, NEW ty \in Nat, 2^ty > 0
  PROVE  Stored(v, ty) \in Int
<1>1. PICK m \in Int : m = 2^ty
  OBVIOUS
<1>2. \A a \in Int, b \in Int : b > 0 => a % b \in Int
  OBVIOUS
<1> QED
  BY <1>1, <1>2 DEF Stored

\* No variable and no entry at first.
LEMMA VarInit == Init => VarInv
<1> SUFFICES ASSUME Init PROVE VarInv
  OBVIOUS
<1>1. ItemsOK
  BY VariablesAssumption DEF Init, ItemsOK, Positions
<1>2. /\ DOMAIN vars_ = {} /\ DOMAIN globals_ = {} /\ folded = {} /\ startup_ = <<>>
      /\ pass = "declare" /\ pos = 1
  BY DEF Init, Empty
<1>3. \A n : \A i \in GDecls(n) : ~(i < Reached)
  BY <1>2 DEF GDecls, Positions, Reached
<1>4. Globals
  BY <1>2, <1>3 DEF Globals
<1>5. startup_ \in Seq({}) /\ Len(startup_) = 0
  BY <1>2
<1>6. Log /\ Used
  BY <1>2, <1>5 DEF Log, Used
<1> QED
  BY <1>1, <1>4, <1>6 DEF VarInv

\* LLVM's name for a new variable is taken by no other variable of the program.
LEMMA VariableIsNew ==
  ASSUME Globals, NEW it, it.n # NoInit, it.n \notin DOMAIN globals_
  PROVE  /\ \A m \in DOMAIN globals_ : globals_[m].gv # VariableFor(it)
         /\ VariableFor(it).own \in {NoInit, it.n}
<1>1. \A m \in DOMAIN globals_ : globals_[m].gv \in DOMAIN vars_ /\ globals_[m].gv.own \in {NoInit, m}
  BY DEF Globals, Variable
<1>2. CASE \E g \in DOMAIN vars_ : g.sym = it.sym /\ g.own = NoInit
  <2>1. VariableFor(it) = [sym |-> it.sym, own |-> it.n]
    BY <1>2 DEF VariableFor
  <2>2. VariableFor(it).own = it.n
    BY <2>1
  <2> QED
    BY <1>1, <2>2
<1>3. CASE ~ \E g \in DOMAIN vars_ : g.sym = it.sym /\ g.own = NoInit
  <2>1. VariableFor(it) = [sym |-> it.sym, own |-> NoInit]
    BY <1>3 DEF VariableFor
  <2>2. VariableFor(it).own = NoInit /\ VariableFor(it).sym = it.sym
    BY <2>1
  <2> QED
    BY <1>1, <1>3, <2>2
<1> QED
  BY <1>2, <1>3

\* The pre-pass over a declaration or a definition of a variable.
LEMMA VarDeclare ==
  ASSUME IInv, VarInv, pass = "declare", pos <= Len(items), IsGlobal(items[pos]),
         declareGlobal(items[pos]), pos' = pos + 1, UNCHANGED <<items, pass>>
  PROVE  Globals'
<1> DEFINE it == items[pos]
           v0 == VariableFor(it)
           x0 == [stored |-> it.k = "var",
                  init   |-> IF Folds(it) THEN Stored(it.init.v, it.ty) ELSE 0]
<1>1. /\ pos \in Positions /\ pos \in Nat /\ Len(items) \in Nat /\ Positions' = Positions
      /\ \A n : GDecls(n)' = GDecls(n)
      /\ \A i, ty : Given_(i, ty)' = Given_(i, ty)
      /\ Reached = pos /\ Reached' = pos + 1
  BY DEF IInv, Shape, Positions, GDecls, IsGlobal, Given_, Stored, Reached
<1>2. pos \in GDecls(it.n) /\ \A n : n # it.n => pos \notin GDecls(n)
  BY <1>1 DEF GDecls
<1>3. \A n : \A i \in GDecls(n) : i \in Nat /\ (i < pos + 1 <=> i < pos \/ i = pos)
  BY <1>1 DEF GDecls, Positions
<1>4. Globals
  BY DEF VarInv
<1>5. \A i \in folded : i \in GDecls(items[i].n) /\ FirstOf(GDecls(items[i].n), i) /\ Folds(items[i])
  BY <1>4 DEF Globals
<1>6. CASE it.n \notin DOMAIN globals_
  <2>1. /\ globals_' = Set(globals_, it.n, [gv |-> v0, ty |-> it.ty])
        /\ vars_' = Set(vars_, v0, x0)
        /\ folded' = IF Folds(it) THEN folded \cup {pos} ELSE folded
    BY <1>6 DEF declareGlobal
  <2>2. it.n # NoInit
    BY <1>1 DEF VarInv, ItemsOK
  <2>3. (\A m \in DOMAIN globals_ : globals_[m].gv # v0) /\ v0.own \in {NoInit, it.n}
    BY <1>4, <1>6, <2>2, VariableIsNew
  <2>4. x0 = [stored |-> x0.stored, init |-> x0.init]
    OBVIOUS
  <2>5. Folds(it) => Stored(it.init.v, it.ty) = Given_(pos, it.ty)
    BY DEF Folds, Given_
  <2> HIDE DEF v0
  <2>6. /\ DOMAIN globals_' = DOMAIN globals_ \cup {it.n}
        /\ globals_'[it.n] = [gv |-> v0, ty |-> it.ty]
        /\ \A m \in DOMAIN globals_ : m # it.n => globals_'[m] = globals_[m]
    BY <2>1, Zenon DEF Set
  <2>7. x0.init = IF Folds(it) THEN Given_(pos, it.ty) ELSE 0
    BY <2>5
  <2>8. it.k = "var" => x0.stored
    OBVIOUS
  <2> HIDE DEF x0
  <2>9. /\ DOMAIN vars_' = DOMAIN vars_ \cup {v0}
        /\ vars_'[v0] = x0
        /\ \A g \in DOMAIN vars_ : g # v0 => vars_'[g] = vars_[g]
    BY <2>1, Zenon DEF Set
  <2>10. \A i \in GDecls(it.n) : ~(i < pos)
    BY <1>1, <1>4, <1>6 DEF Globals
  <2>11. FirstOf(GDecls(it.n), pos)
    <3>1. \A i \in GDecls(it.n) : pos <= i
      BY <1>1, <1>3, <2>10
    <3> QED
      BY <1>2, <3>1 DEF FirstOf
  <2>12. \A g \in DOMAIN vars_' : vars_'[g] = [stored |-> vars_'[g].stored, init |-> vars_'[g].init]
    <3> SUFFICES ASSUME NEW g \in DOMAIN vars_'
                 PROVE  vars_'[g] = [stored |-> vars_'[g].stored, init |-> vars_'[g].init]
      OBVIOUS
    <3>1. CASE g = v0
      BY <3>1, <2>4, <2>9, Zenon
    <3>2. CASE g # v0
      BY <3>2, <2>9, <1>4 DEF Globals
    <3> QED
      BY <3>1, <3>2
  <2>13. \A n : n \in DOMAIN globals_' <=> \E i \in GDecls(n) : i < pos + 1
    <3>1. \A n : n \in DOMAIN globals_ <=> \E i \in GDecls(n) : i < pos
      BY <1>1, <1>4 DEF Globals
    <3> QED
      BY <3>1, <2>6, <1>2, <1>3
  <2>14. ASSUME NEW n, NEW i, n = it.n, i = pos
         PROVE  Variable(n, i)'
    <3>1. \A j \in GDecls(n) : j < pos + 1 => j = pos
      BY <1>3, <2>10, <2>14
    <3>2. globals_'[n].ty = it.ty /\ globals_'[n].gv = v0
      BY <2>6, <2>14
    <3>3. Folds(it) => i \in folded'
      BY <2>1, <2>14
    <3>4. \A j \in GDecls(n) : j < pos + 1 /\ items[j].k = "var" => vars_'[v0].stored
      BY <2>8, <2>9, <2>14, <3>1
    <3>5. FirstOf(GDecls(n), i) /\ items[i] = it
      BY <2>11, <2>14
    <3>6. vars_'[v0].init = IF Folds(it) THEN Given_(i, it.ty) ELSE 0
      BY <2>7, <2>9, <2>14
    <3> HIDE DEF it
    <3> QED
      BY <1>1, <2>3, <2>9, <2>14, <3>2, <3>3, <3>4, <3>5, <3>6 DEF Variable, FirstOf, Folds
  <2>15. ASSUME NEW n \in DOMAIN globals_, NEW i \in GDecls(n), Variable(n, i)
         PROVE  Variable(n, i)'
    <3>1. n # it.n /\ globals_'[n] = globals_[n] /\ globals_[n].gv # v0
      BY <1>6, <2>3, <2>6
    <3>2. vars_'[globals_[n].gv] = vars_[globals_[n].gv] /\ globals_[n].gv \in DOMAIN vars_'
      BY <2>9, <2>15, <3>1 DEF Variable
    <3>3. \A j \in GDecls(n) : j < pos + 1 => j < pos
      BY <1>2, <1>3, <3>1
    <3>4. folded \subseteq folded'
      BY <2>1
    <3> QED
      BY <1>1, <2>15, <3>1, <3>2, <3>3, <3>4 DEF Variable, FirstOf, Folds
  <2>16. ASSUME NEW n \in DOMAIN globals_'
         PROVE  \E i \in GDecls(n) : Variable(n, i)'
    <3>1. CASE n = it.n
      BY <1>2, <2>14, <3>1
    <3>2. CASE n # it.n
      <4>1. n \in DOMAIN globals_
        BY <2>6, <2>16, <3>2
      <4>2. PICK i \in GDecls(n) : Variable(n, i)
        BY <1>4, <4>1 DEF Globals
      <4> QED
        BY <2>15, <4>1, <4>2
    <3> QED
      BY <3>1, <3>2
  <2>17. ASSUME NEW m \in DOMAIN globals_', NEW n \in DOMAIN globals_',
                globals_'[m].gv = globals_'[n].gv
         PROVE  m = n
    <3>1. globals_'[it.n].gv = v0
      BY <2>6
    <3> QED
      BY <1>4, <2>3, <2>6, <2>17, <3>1 DEF Globals
  <2>18. \A i \in folded' : i \in GDecls(items[i].n) /\ FirstOf(GDecls(items[i].n), i) /\ Folds(items[i])
    BY <1>2, <1>5, <2>1, <2>11
  <2> QED
    BY <1>1, <2>12, <2>13, <2>16, <2>17, <2>18 DEF Globals, FirstOf, Folds
<1>7. CASE it.n \in DOMAIN globals_
  <2> DEFINE g0 == globals_[it.n].gv
  <2>1. /\ vars_' = IF it.k = "var" THEN [vars_ EXCEPT ![g0].stored = TRUE] ELSE vars_
        /\ globals_' = globals_ /\ folded' = folded
    BY <1>7 DEF declareGlobal
  <2>2. g0 \in DOMAIN vars_
    BY <1>4, <1>7 DEF Globals, Variable
  <2> HIDE DEF g0
  <2>3. vars_[g0] = [stored |-> vars_[g0].stored, init |-> vars_[g0].init]
    BY <1>4, <2>2 DEF Globals
  <2>4. /\ DOMAIN vars_' = DOMAIN vars_
        /\ \A g \in DOMAIN vars_ : /\ vars_'[g].init = vars_[g].init
                                   /\ vars_[g].stored => vars_'[g].stored
                                   /\ vars_'[g] = [stored |-> vars_'[g].stored, init |-> vars_'[g].init]
        /\ it.k = "var" => vars_'[g0].stored
    <3>1. CASE it.k = "var"
      <4>1. vars_' = [vars_ EXCEPT ![g0].stored = TRUE]
        BY <2>1, <3>1
      <4>2. DOMAIN vars_' = DOMAIN vars_ /\ \A g \in DOMAIN vars_ : g # g0 => vars_'[g] = vars_[g]
        BY <4>1
      <4>3. vars_'[g0] = [stored |-> TRUE, init |-> vars_[g0].init]
        BY <4>1, <2>2, <2>3
      <4>4. ASSUME NEW g \in DOMAIN vars_
            PROVE  /\ vars_'[g].init = vars_[g].init
                   /\ vars_[g].stored => vars_'[g].stored
                   /\ vars_'[g] = [stored |-> vars_'[g].stored, init |-> vars_'[g].init]
        <5>1. CASE g = g0
          BY <5>1, <4>3
        <5>2. CASE g # g0
          BY <5>2, <4>2, <1>4 DEF Globals
        <5> QED
          BY <5>1, <5>2
      <4> QED
        BY <4>2, <4>3, <4>4
    <3>2. CASE it.k # "var"
      BY <1>4, <2>1, <3>2 DEF Globals
    <3> QED
      BY <3>1, <3>2
  <2>5. \A n : n \in DOMAIN globals_' <=> \E i \in GDecls(n) : i < pos + 1
    <3>1. \A n : n \in DOMAIN globals_ <=> \E i \in GDecls(n) : i < pos
      BY <1>1, <1>4 DEF Globals
    <3> QED
      BY <3>1, <2>1, <1>2, <1>3, <1>7
  <2>6. ASSUME NEW n \in DOMAIN globals_, NEW i \in GDecls(n), Variable(n, i)
        PROVE  Variable(n, i)'
    <3>1. ASSUME NEW j \in GDecls(n), j < pos + 1, items[j].k = "var"
          PROVE  vars_'[globals_[n].gv].stored
      <4>1. CASE j < pos
        BY <1>1, <2>4, <2>6, <3>1, <4>1 DEF Variable
      <4>2. CASE j = pos
        BY <1>2, <2>4, <3>1, <4>2 DEF g0
      <4> QED
        BY <1>3, <3>1, <4>1, <4>2
    <3> QED
      BY <1>1, <2>1, <2>4, <2>6, <3>1 DEF Variable, FirstOf, Folds
  <2>7. \A n \in DOMAIN globals_' : \E i \in GDecls(n) : Variable(n, i)'
    BY <1>4, <2>1, <2>6 DEF Globals
  <2>8. \A m, n \in DOMAIN globals_' : globals_'[m].gv = globals_'[n].gv => m = n
    BY <1>4, <2>1 DEF Globals
  <2> QED
    BY <1>1, <1>5, <2>1, <2>4, <2>5, <2>7, <2>8 DEF Globals, FirstOf, Folds
<1> QED
  BY <1>6, <1>7

\* What is known of the variables depends on these only.
LEMMA VarKept ==
  ASSUME VarInv, UNCHANGED <<items, vars_, globals_, folded>>, Reached' = Reached
  PROVE  /\ ItemsOK' /\ Globals' /\ Positions' = Positions
         /\ \A q : (Logged(q)' <=> Logged(q)) /\ LogEntry(q)' = LogEntry(q)
<1>1. /\ Positions' = Positions /\ \A n : GDecls(n)' = GDecls(n)
      /\ \A i, ty : Given_(i, ty)' = Given_(i, ty)
  BY DEF Positions, GDecls, IsGlobal, Given_, Stored
<1>2. ItemsOK'
  BY <1>1 DEF VarInv, ItemsOK, IsGlobal
<1>3. \A n, i : Variable(n, i)' <=> Variable(n, i)
  BY <1>1 DEF Variable, FirstOf, Folds
<1>4. Globals'
  BY <1>1, <1>3 DEF VarInv, Globals, FirstOf, Folds
<1>5. \A q : (Logged(q)' <=> Logged(q)) /\ LogEntry(q)' = LogEntry(q)
  BY <1>1 DEF Logged, LogEntry, Gives, IsGlobal
<1> QED
  BY <1>1, <1>2, <1>4, <1>5

\* A step of the walk appends the entry of its item, if it leaves one.
LEMMA VarWalk ==
  ASSUME IInv, VarInv, pass = "walk", pos \in Positions, pos' = pos + 1,
         UNCHANGED <<items, pass, vars_, globals_, folded>>,
         Logged(pos) => startup_' = Append(startup_, LogEntry(pos)),
         ~Logged(pos) => startup_' = startup_,
         \A p \in DOMAIN uses : p # pos => p \in DOMAIN uses' /\ uses'[p] = uses[p],
         items[pos].k = "read" /\ items[pos].n \in DOMAIN globals_
           => pos \in DOMAIN uses' /\ uses'[pos] = globals_[items[pos].n]
  PROVE  VarInv'
<1>1. Reached' = Reached /\ pos \in Nat
  BY DEF Reached, Positions
<1>2. /\ ItemsOK' /\ Globals' /\ Positions' = Positions
      /\ \A q : (Logged(q)' <=> Logged(q)) /\ LogEntry(q)' = LogEntry(q)
  BY <1>1, VarKept
<1>3. \A q \in Positions : q \in Nat /\ (q < pos + 1 <=> q < pos \/ q = pos)
  BY <1>1 DEF Positions
<1>4. Used'
  <2>1. \A p \in Positions : p < pos + 1 /\ items[p].k = "read" /\ items[p].n \in DOMAIN globals_
                               => p \in DOMAIN uses' /\ uses'[p] = globals_[items[p].n]
    BY <1>3 DEF VarInv, Used
  <2> QED
    BY <1>2, <2>1 DEF Used
<1> DEFINE N == Len(startup_)
           e == LogEntry(pos)
<1>5. PICK S : startup_ \in Seq(S)
  BY DEF VarInv, Log
<1>6. N \in Nat
  BY <1>5
<1>7. \A i \in 1..N : /\ startup_[i].at \in Positions /\ Logged(startup_[i].at)
                      /\ startup_[i] = LogEntry(startup_[i].at)
                      /\ startup_[i].at < pos
  BY DEF VarInv, Log
<1>8. \A i, j \in 1..N : i < j => startup_[i].at < startup_[j].at
  BY DEF VarInv, Log
<1>9. \A q \in Positions : q < pos /\ Logged(q) => \E i \in 1..N : startup_[i].at = q
  BY DEF VarInv, Log
<1>10. CASE Logged(pos)
  <2>1. startup_' = Append(startup_, e) /\ startup_ \in Seq(S \cup {e}) /\ e \in S \cup {e}
    BY <1>5, <1>10
  <2>2. e.at = pos
    BY DEF LogEntry
  <2> HIDE DEF e
  <2>3. /\ startup_' \in Seq(S \cup {e}) /\ Len(startup_') = N + 1
        /\ startup_'[N + 1] = e /\ \A i \in 1..N : startup_'[i] = startup_[i]
    BY <2>1, AppendFacts
  <2> HIDE DEF N
  <2>4. \A i \in 1..(N + 1) : i \in 1..N \/ i = N + 1
    BY <1>6
  <2>5. \A i \in 1..(N + 1) :
          /\ startup_'[i].at \in Positions /\ Logged(startup_'[i].at)
          /\ startup_'[i] = LogEntry(startup_'[i].at)
          /\ startup_'[i].at < pos + 1
    <3> SUFFICES ASSUME NEW i \in 1..(N + 1)
                 PROVE  /\ startup_'[i].at \in Positions /\ Logged(startup_'[i].at)
                        /\ startup_'[i] = LogEntry(startup_'[i].at)
                        /\ startup_'[i].at < pos + 1
      OBVIOUS
    <3>1. CASE i \in 1..N
      BY <1>3, <1>7, <2>3, <3>1
    <3>2. CASE i = N + 1
      BY <1>1, <1>10, <2>2, <2>3, <3>2 DEF e
    <3> QED
      BY <2>4, <3>1, <3>2
  <2>6. \A i, j \in 1..(N + 1) : i < j => startup_'[i].at < startup_'[j].at
    <3> SUFFICES ASSUME NEW i \in 1..(N + 1), NEW j \in 1..(N + 1), i < j
                 PROVE  startup_'[i].at < startup_'[j].at
      OBVIOUS
    <3>1. i \in 1..N
      BY <1>6
    <3>2. CASE j \in 1..N
      BY <1>8, <2>3, <3>1, <3>2
    <3>3. CASE j = N + 1
      BY <1>7, <2>2, <2>3, <3>1, <3>3
    <3> QED
      BY <2>4, <3>2, <3>3
  <2>7. \A q \in Positions : q < pos + 1 /\ Logged(q) => \E i \in 1..(N + 1) : startup_'[i].at = q
    <3> SUFFICES ASSUME NEW q \in Positions, q < pos + 1, Logged(q)
                 PROVE  \E i \in 1..(N + 1) : startup_'[i].at = q
      OBVIOUS
    <3>1. CASE q < pos
      <4>1. PICK i \in 1..N : startup_[i].at = q
        BY <1>9, <3>1
      <4>2. i \in 1..(N + 1)
        BY <1>6
      <4> QED
        BY <2>3, <4>1, <4>2
    <3>2. CASE q = pos
      <4>1. N + 1 \in 1..(N + 1)
        BY <1>6
      <4> QED
        BY <2>2, <2>3, <3>2, <4>1
    <3> QED
      BY <1>3, <3>1, <3>2
  <2>8. Log'
    BY <1>2, <2>3, <2>5, <2>6, <2>7 DEF Log
  <2> QED
    BY <1>2, <1>4, <2>8 DEF VarInv
<1>11. CASE ~Logged(pos)
  <2>1. startup_' = startup_
    BY <1>11
  <2>2. \A q \in Positions : q < pos + 1 /\ Logged(q) => \E i \in 1..N : startup_[i].at = q
    BY <1>3, <1>9, <1>11
  <2>3. \A i \in 1..N : startup_[i].at < pos + 1
    BY <1>3, <1>7
  <2>4. Log'
    BY <1>2, <1>5, <1>7, <1>8, <2>1, <2>2, <2>3 DEF Log
  <2> QED
    BY <1>2, <1>4, <2>4 DEF VarInv
<1> QED
  BY <1>10, <1>11

\* The items of the walk, one kind at a time.
LEMMA VarStepWalk ==
  ASSUME IInv, VarInv, Walk
  PROVE  VarInv'
<1> DEFINE it == items[pos]
<1>1. /\ pass = "walk" /\ pos \in Positions /\ pos' = pos + 1
      /\ UNCHANGED <<items, pass, vars_, globals_, folded>>
      /\ WalkFunc(it) \/ WalkCall(it) \/ WalkUse(it) \/ WalkGlobal(it)
  BY DEF Walk, IInv, Shape, Positions
<1>2. CASE WalkFunc(it)
  <2>1. it.k \in {"proto", "def"} /\ UNCHANGED <<startup_, uses>>
    BY <1>2 DEF WalkFunc, IsFunc
  <2>2. ~Logged(pos)
    BY <2>1 DEF Logged, Gives, IsGlobal
  <2> QED
    BY <1>1, <2>1, <2>2, VarWalk
<1>3. CASE WalkCall(it)
  <2>1. /\ it.k = "call" /\ startup_' = startup_
        /\ uses' = uses \/ \E x : uses' = Set(uses, pos, x)
    BY <1>3 DEF WalkCall
  <2>2. \A p \in DOMAIN uses : p # pos => p \in DOMAIN uses' /\ uses'[p] = uses[p]
    <3>1. CASE uses' = uses
      BY <3>1
    <3>2. CASE \E x : uses' = Set(uses, pos, x)
      BY <3>2, Zenon DEF Set
    <3> QED
      BY <2>1, <3>1, <3>2
  <2>3. ~Logged(pos)
    BY <2>1 DEF Logged, Gives, IsGlobal
  <2> QED
    BY <1>1, <2>1, <2>2, <2>3, VarWalk
<1>4. CASE WalkUse(it)
  <2>1. CASE it.n \in DOMAIN globals_
    <3> DEFINE g == globals_[it.n]
               v == IF it.k = "store" THEN Stored(it.v, g.ty) ELSE NoInit
    <3>1. /\ it.k \in {"read", "store"}
          /\ startup_' = Append(startup_, [gv |-> g.gv, at |-> pos, v |-> v])
          /\ uses' = Set(uses, pos, g)
      BY <1>4, <2>1 DEF WalkUse
    <3>2. DOMAIN uses' = DOMAIN uses \cup {pos} /\ uses'[pos] = g
          /\ \A p \in DOMAIN uses : p # pos => uses'[p] = uses[p]
      BY <3>1, Zenon DEF Set
    <3>3. (it.k = "store" <=> Gives(it)) /\ (it.k = "store" => v = Given_(pos, g.ty))
          /\ (it.k # "store" => v = NoInit)
      BY <3>1 DEF Gives, IsGlobal, Given_
    <3>4. LogEntry(pos) = [gv |-> g.gv, at |-> pos, v |-> v]
      <4> HIDE DEF v
      <4> QED
        BY <3>3 DEF LogEntry
    <3>5. Logged(pos)
      <4>1. it.k = "store" => pos \notin folded
        BY DEF VarInv, Globals, Folds
      <4> QED
        BY <2>1, <3>1, <3>3, <4>1 DEF Logged
    <3> HIDE DEF v
    <3> QED
      BY <1>1, <3>1, <3>2, <3>4, <3>5, VarWalk
  <2>2. CASE it.n \notin DOMAIN globals_
    <3>1. UNCHANGED <<startup_, uses>> /\ ~Logged(pos)
      BY <1>4, <2>2 DEF WalkUse, Logged
    <3> QED
      BY <1>1, <2>2, <3>1, VarWalk
  <2> QED
    BY <2>1, <2>2
<1>5. CASE WalkGlobal(it)
  <2> DEFINE g == globals_[it.n]
             w == Stored(it.init.v, g.ty)
  <2>1. /\ it.k \in {"extern", "var"} /\ uses' = uses
        /\ Initialises(it) => startup_' = Append(startup_, [gv |-> g.gv, at |-> pos, v |-> w])
        /\ ~Initialises(it) => startup_' = startup_
    BY <1>5 DEF WalkGlobal, IsGlobal
  <2>2. it.n \in DOMAIN globals_
    <3>1. pos \in GDecls(it.n) /\ pos < Reached
      BY <1>1, <2>1 DEF GDecls, IsGlobal, Reached, Positions, IInv, Shape
    <3> QED
      BY <3>1 DEF VarInv, Globals
  <2>3. Logged(pos) <=> Initialises(it)
    BY <2>1, <2>2 DEF Logged, Gives, IsGlobal, Initialises
  <2>4. Initialises(it) => Gives(it) /\ w = Given_(pos, g.ty)
    BY <2>1 DEF Gives, IsGlobal, Initialises, Given_
  <2>5. Initialises(it) => LogEntry(pos) = [gv |-> g.gv, at |-> pos, v |-> w]
    <3> HIDE DEF w
    <3> QED
      BY <2>4 DEF LogEntry
  <2> HIDE DEF w
  <2> QED
    BY <1>1, <2>1, <2>3, <2>5, VarWalk
<1> QED
  BY <1>1, <1>2, <1>3, <1>4, <1>5

\* Every step keeps what is known of the variables.
LEMMA VarStep == IInv /\ VarInv /\ [Next]_vars => VarInv'
<1> SUFFICES ASSUME IInv, VarInv, [Next]_vars PROVE VarInv'
  OBVIOUS
<1>1. CASE Declare
  <2>1. /\ pass = "declare" /\ pos <= Len(items) /\ pos' = pos + 1 /\ pos \in Nat
        /\ UNCHANGED <<items, pass, startup_, uses>>
    BY <1>1 DEF Declare, IInv, Shape
  <2>2. Len(startup_) = 0 \/ 1..Len(startup_) = {}
    BY <2>1 DEF VarInv, Log
  <2>3. (\E S : startup_ \in Seq(S)) /\ ItemsOK
    BY DEF VarInv, Log
  <2>4. Log' /\ Used'
    BY <2>1, <2>2, <2>3 DEF Log, Used
  <2>5. ItemsOK'
    BY <2>1, <2>3 DEF ItemsOK, Positions, IsGlobal
  <2>6. CASE IsGlobal(items[pos]) /\ declareGlobal(items[pos])
    BY <2>1, <2>4, <2>5, <2>6, VarDeclare DEF VarInv
  <2>7. CASE ~(IsGlobal(items[pos]) /\ declareGlobal(items[pos]))
    <3>1. /\ ~IsGlobal(items[pos]) /\ UNCHANGED <<vars_, globals_, folded>>
      BY <1>1, <2>7 DEF Declare, IsFunc, IsGlobal, IsStmt
    <3>2. /\ \A n : GDecls(n)' = GDecls(n)
          /\ \A i, ty : Given_(i, ty)' = Given_(i, ty)
          /\ Reached = pos /\ Reached' = pos + 1
      BY <2>1 DEF Positions, GDecls, IsGlobal, Given_, Stored, Reached
    <3>3. \A n : \A i \in GDecls(n) : i < pos + 1 <=> i < pos
      <4>1. \A n : \A i \in GDecls(n) : i # pos /\ i \in Nat
        BY <3>1 DEF GDecls, Positions
      <4> QED
        BY <2>1, <4>1
    <3>4. \A n, i : Variable(n, i) => Variable(n, i)'
      BY <3>1, <3>2, <3>3, <2>1 DEF Variable, FirstOf, Folds
    <3>5. Globals'
      BY <2>1, <3>1, <3>2, <3>3, <3>4 DEF VarInv, Globals, FirstOf, Folds
    <3> QED
      BY <2>4, <2>5, <3>5 DEF VarInv
  <2> QED
    BY <2>6, <2>7
<1>2. CASE Walk
  BY <1>2, VarStepWalk
<1>3. CASE EndDeclare
  <2>1. /\ pass = "declare" /\ pass' = "walk" /\ pos' = 1 /\ pos = Len(items) + 1
        /\ UNCHANGED <<items, vars_, globals_, folded, startup_, uses>>
    BY <1>3 DEF EndDeclare, IInv, Shape
  <2>2. Reached' = Reached
    BY <2>1 DEF Reached
  <2>3. ItemsOK' /\ Globals' /\ Positions' = Positions
    BY <2>1, <2>2, VarKept
  <2>4. (\E S : startup_ \in Seq(S)) /\ 1..Len(startup_) = {}
    BY <2>1 DEF VarInv, Log
  <2>5. \A q \in Positions : ~(q < 1)
    BY DEF Positions
  <2>6. Log' /\ Used'
    BY <2>1, <2>3, <2>4, <2>5 DEF Log, Used
  <2> QED
    BY <2>3, <2>6 DEF VarInv
<1>4. CASE Finish \/ UNCHANGED vars
  <2>1. /\ UNCHANGED <<items, pos, vars_, globals_, folded, startup_, uses>>
        /\ pass = "declare" <=> pass' = "declare"
    BY <1>4 DEF Finish, vars
  <2>2. Reached' = Reached
    BY <2>1 DEF Reached
  <2>3. /\ ItemsOK' /\ Globals' /\ Positions' = Positions
        /\ \A q : (Logged(q)' <=> Logged(q)) /\ LogEntry(q)' = LogEntry(q)
    BY <2>1, <2>2, VarKept
  <2>4. Log' /\ Used'
    BY <2>1, <2>3 DEF VarInv, Log, Used
  <2> QED
    BY <2>3, <2>4 DEF VarInv
<1> QED
  BY <1>1, <1>2, <1>3, <1>4 DEF Next

LEMMA Variables == Spec => [](IInv /\ VarInv)
<1>1. Init => IInv /\ VarInv
  BY InitHolds, VarInit
<1>2. IInv /\ VarInv /\ [Next]_vars => (IInv /\ VarInv)'
  BY StepHolds, VarStep
<1> QED
  BY <1>1, <1>2, PTL DEF Spec

\* The entries that wrote the variable of entry j before it.
Writes(j) == {i \in 1..(j - 1) : startup_[i].gv = startup_[j].gv /\ startup_[i].v # NoInit}

\* The items that give the variable n a value, and those above position p.
Givers(n) == {i \in Positions : items[i].n = n /\ Gives(items[i])}
GivesAbove(n, p) == Before(Givers(n), p)

\* The entries of the startup function that write a variable are those of the
\* items that give it a value, the folded initialiser aside.
LEMMA WritesAre ==
  ASSUME IInv, VarInv, pass = "done", NEW j \in 1..Len(startup_),
         NEW p \in Positions, startup_[j].at = p, NEW n, n = items[p].n
  PROVE  /\ \A i \in Writes(j) : /\ i \in 1..Len(startup_) /\ i \in Nat
                                 /\ startup_[i].at \in GivesAbove(n, p)
                                 /\ startup_[i].v = Given_(startup_[i].at, globals_[n].ty)
         /\ \A q \in GivesAbove(n, p) : q \in folded \/ \E i \in Writes(j) : startup_[i].at = q
<1>1. PICK S : startup_ \in Seq(S)
  BY DEF VarInv, Log
<1>2. Len(startup_) \in Nat /\ j \in Nat /\ \A i \in 1..(j - 1) : i \in 1..Len(startup_) /\ i < j
  BY <1>1
<1>3. \A i \in 1..Len(startup_) :
        /\ startup_[i].at \in Positions /\ Logged(startup_[i].at)
        /\ startup_[i] = LogEntry(startup_[i].at)
  BY DEF VarInv, Log
<1>4. \A i, k \in 1..Len(startup_) : i < k => startup_[i].at < startup_[k].at
  BY DEF VarInv, Log
<1>0. \A q : /\ LogEntry(q).gv = globals_[items[q].n].gv
             /\ LogEntry(q).v = IF Gives(items[q]) THEN Given_(q, globals_[items[q].n].ty) ELSE NoInit
  BY DEF LogEntry
<1>5. n \in DOMAIN globals_ /\ startup_[j].gv = globals_[n].gv
  <2>1. Logged(p) /\ startup_[j] = LogEntry(p)
    BY <1>3
  <2> QED
    BY <1>0, <2>1 DEF Logged
<1>6. \A m \in DOMAIN globals_ : globals_[m].gv = globals_[n].gv => m = n
  BY <1>5 DEF VarInv, Globals
<1>7. ASSUME NEW i \in Writes(j)
      PROVE  /\ i \in 1..Len(startup_) /\ i \in Nat
             /\ startup_[i].at \in GivesAbove(n, p)
             /\ startup_[i].v = Given_(startup_[i].at, globals_[n].ty)
  <2>1. i \in 1..Len(startup_) /\ i < j
    BY <1>2 DEF Writes
  <2> DEFINE q == startup_[i].at
  <2>2. q \in Positions /\ Logged(q) /\ startup_[i] = LogEntry(q) /\ q < p
    BY <1>3, <1>4, <2>1
  <2>3. items[q].n = n
    <3>1. items[q].n \in DOMAIN globals_ /\ startup_[i].gv = globals_[items[q].n].gv
      BY <2>2 DEF Logged, LogEntry
    <3>2. startup_[i].gv = globals_[n].gv
      BY <1>5 DEF Writes
    <3> QED
      BY <1>6, <3>1, <3>2
  <2>4. startup_[i].v # NoInit
    BY DEF Writes
  <2>5. startup_[i].v = IF Gives(items[q]) THEN Given_(q, globals_[n].ty) ELSE NoInit
    BY <2>2, <2>3 DEF LogEntry
  <2>6. Gives(items[q])
    BY <2>4, <2>5
  <2>7. startup_[i].v = Given_(q, globals_[n].ty)
    BY <2>5, <2>6
  <2> HIDE DEF q
  <2> QED
    BY <2>1, <2>2, <2>3, <2>6, <2>7 DEF GivesAbove, Givers, Before, q
<1>8. ASSUME NEW q \in GivesAbove(n, p), q \notin folded
      PROVE  \E i \in Writes(j) : startup_[i].at = q
  <2>1. q \in Positions /\ items[q].n = n /\ Gives(items[q]) /\ q < p
    BY DEF GivesAbove, Givers, Before
  <2>2. Logged(q)
    BY <1>5, <1>8, <2>1 DEF Logged
  <2>3. q < pos
    BY <2>1 DEF IInv, Shape, Positions
  <2>4. PICK i \in 1..Len(startup_) : startup_[i].at = q
    BY <2>1, <2>2, <2>3 DEF VarInv, Log
  <2>5. i < j
    <3>1. ~(j < i) /\ i # j
      BY <1>4, <2>1, <2>4 DEF Positions
    <3> QED
      BY <1>2, <3>1
  <2>6. startup_[i].gv = globals_[n].gv /\ startup_[i].v = Given_(q, globals_[n].ty)
    <3>1. startup_[i] = LogEntry(q)
      BY <1>3, <2>4
    <3> QED
      BY <1>0, <2>1, <3>1
  <2>7. Given_(q, globals_[n].ty) \in Int
    <3>1. globals_[n].ty \in Nat /\ 2^globals_[n].ty > 0
      <4>1. PICK d \in GDecls(n) : Variable(n, d)
        BY <1>5 DEF VarInv, Globals
      <4> QED
        BY <4>1 DEF Variable, GDecls, VarInv, ItemsOK
    <3>2. /\ items[q].k = "store" => items[q].v \in Int
          /\ items[q].k # "store" => items[q].init.v \in Int
      BY <2>1 DEF Gives, VarInv, ItemsOK
    <3> QED
      BY <3>1, <3>2, StoredIsNumber DEF Given_
  <2>8. startup_[i].v # NoInit
    BY <2>6, <2>7, VariablesAssumption
  <2>9. i \in 1..(j - 1)
    BY <1>2, <2>5
  <2> QED
    BY <1>5, <2>4, <2>6, <2>8, <2>9 DEF Writes
<1> QED
  BY <1>7, <1>8

\* A set of numbers below a bound that is not empty has a last one.
LEMMA GreatestNumber ==
  ASSUME NEW T, T \subseteq Nat, T # {}, NEW b \in Nat, \A t \in T : t <= b
  PROVE  \E x \in T : LastOf(T, x)
<1> DEFINE U == {b - t : t \in T}
<1>1. U \subseteq Nat /\ U # {}
  <2>1. \A t \in T : b - t \in Nat
    <3>1. \A t \in T : t \in Nat /\ t <= b
      OBVIOUS
    <3> QED
      BY <3>1
  <2> QED
    BY <2>1
<1> HIDE DEF U
<1>2. PICK u \in U : \A y \in U : u <= y
  BY <1>1, LeastNumber
<1>3. PICK x \in T : u = b - x
  BY DEF U
<1>4. \A t \in T : b - t \in U
  BY DEF U
<1>5. \A t \in T : t \in Nat /\ b - x <= b - t
  BY <1>2, <1>3, <1>4
<1>6. \A t \in T : t <= x
  BY <1>5
<1> QED
  BY <1>6 DEF LastOf

\* A use of a variable reads what the nearest assignment or initialiser above it
\* gave it, in the type it was first declared with, and else its constant
\* initialiser or zero; a variable that is defined anywhere has storage.
THEOREM UsesReadTheNewest == Spec => []ReadsNewestValue
<1>1. ASSUME IInv, VarInv PROVE ReadsNewestValue
  <2> SUFFICES ASSUME pass = "done", NEW p \in Positions, items[p].k = "read",
                      \E i \in GDecls(items[p].n) : items[i].k = "var",
                      Folds(items[First(GDecls(items[p].n))]) =>
                        \A i \in Givers(items[p].n) : i >= First(GDecls(items[p].n))
               PROVE  /\ p \in DOMAIN uses /\ vars_[uses[p].gv].stored
                      /\ Loaded(p) =
                           IF Before(Givers(items[p].n), p) # {}
                           THEN Given_(Last(Before(Givers(items[p].n), p)),
                                       items[First(GDecls(items[p].n))].ty)
                           ELSE IF Folds(items[First(GDecls(items[p].n))])
                           THEN items[First(GDecls(items[p].n))].init.v
                                  % 2^items[First(GDecls(items[p].n))].ty
                           ELSE 0
    BY DEF ReadsNewestValue, GDecls, Givers, Given_, Stored
  <2> DEFINE n == items[p].n
             D == GDecls(n)
             d == items[First(D)]
             W == Givers(n)
  <2>0. /\ n = items[p].n /\ D = GDecls(n) /\ d = items[First(D)] /\ W = Givers(n)
        /\ \E i \in D : items[i].k = "var"
        /\ Folds(d) => \A i \in W : i >= First(D)
    OBVIOUS
  <2> SUFFICES /\ p \in DOMAIN uses /\ vars_[uses[p].gv].stored
               /\ Loaded(p) = IF Before(W, p) # {} THEN Given_(Last(Before(W, p)), d.ty)
                              ELSE IF Folds(d) THEN d.init.v % 2^d.ty
                              ELSE 0
    OBVIOUS
  <2> HIDE DEF n, D, d, W
  <2> USE <2>0
  <2>1. /\ Positions \subseteq Nat /\ D \subseteq Positions /\ Before(W, p) \subseteq Positions
        /\ p \in Nat /\ p < pos /\ Reached = Len(items) + 1
        /\ \A i \in Positions : i < Reached
    BY <1>1 DEF Positions, GDecls, Givers, Before, IInv, Shape, Reached
  <2>2. n \in DOMAIN globals_
    BY <1>1, <2>1 DEF VarInv, Globals
  <2>3. PICK f \in D : Variable(n, f)
    BY <1>1, <2>2 DEF VarInv, Globals
  <2>4. f = First(D) /\ d = items[f] /\ \A i \in D : f <= i
    <3>1. FirstOf(D, f) /\ D \in SUBSET Nat
      BY <2>1, <2>3 DEF Variable
    <3>2. f = First(D)
      BY <3>1, FirstLast
    <3> QED
      BY <3>1, <3>2 DEF FirstOf
  <2>5. p \in DOMAIN uses /\ uses[p] = globals_[n]
    BY <1>1, <2>1, <2>2 DEF VarInv, Used
  <2>6. vars_[globals_[n].gv].stored
    BY <2>1, <2>3 DEF Variable
  <2>7. PICK j \in 1..Len(startup_) : startup_[j].at = p
    <3>1. Logged(p)
      BY <2>2 DEF Logged
    <3> QED
      BY <1>1, <2>1, <3>1 DEF VarInv, Log
  <2>8. Len(startup_) \in Nat
    <3>1. PICK S : startup_ \in Seq(S)
      BY <1>1 DEF VarInv, Log
    <3> QED
      BY <3>1
  <2>9. \A i, k \in 1..Len(startup_) : i < k => startup_[i].at < startup_[k].at
    BY <1>1 DEF VarInv, Log
  <2>10. j = CHOOSE i \in 1..Len(startup_) : startup_[i].at = p
    <3>1. \A i \in 1..Len(startup_) : startup_[i].at = p => i = j
      <4> SUFFICES ASSUME NEW i \in 1..Len(startup_), startup_[i].at = p PROVE i = j
        OBVIOUS
      <4>1. ~(i < j) /\ ~(j < i)
        BY <2>1, <2>7, <2>9
      <4> QED
        BY <2>8, <4>1
    <3> QED
      BY <2>7, <3>1
  <2>11. Loaded(p) = IF Writes(j) = {} THEN vars_[startup_[j].gv].init ELSE startup_[Last(Writes(j))].v
    BY <2>10 DEF Loaded, Writes
  <2>12. startup_[j].gv = globals_[n].gv
    <3>1. startup_[j] = LogEntry(p)
      BY <1>1, <2>7 DEF VarInv, Log
    <3>2. LogEntry(p).gv = globals_[n].gv
      BY DEF LogEntry
    <3> QED
      BY <3>1, <3>2
  <2>13. Before(W, p) = GivesAbove(n, p)
    BY DEF GivesAbove
  <2>14. /\ \A i \in Writes(j) : /\ i \in 1..Len(startup_) /\ i \in Nat
                                 /\ startup_[i].at \in Before(W, p)
                                 /\ startup_[i].v = Given_(startup_[i].at, d.ty)
         /\ \A q \in Before(W, p) : q \in folded \/ \E i \in Writes(j) : startup_[i].at = q
    <3>1. globals_[n].ty = d.ty
      BY <2>3, <2>4 DEF Variable
    <3>2. /\ \A i \in Writes(j) : /\ i \in 1..Len(startup_) /\ i \in Nat
                                   /\ startup_[i].at \in GivesAbove(n, p)
                                   /\ startup_[i].v = Given_(startup_[i].at, globals_[n].ty)
          /\ \A q \in GivesAbove(n, p) : q \in folded \/ \E i \in Writes(j) : startup_[i].at = q
      BY <1>1, <2>7, WritesAre
    <3> QED
      BY <2>13, <3>1, <3>2
  <2>15. \A q \in Before(W, p) : q \in folded => q = f /\ Folds(d)
    <3> SUFFICES ASSUME NEW q \in Before(W, p), q \in folded PROVE q = f /\ Folds(d)
      OBVIOUS
    <3>1. items[q].n = n
      BY DEF Before, Givers
    <3>2. FirstOf(D, q) /\ Folds(items[q]) /\ q \in D
      BY <1>1, <3>1 DEF VarInv, Globals
    <3>3. q <= f /\ f <= q
      BY <2>3, <2>4, <3>2 DEF FirstOf
    <3>4. q = f
      BY <2>1, <2>3, <3>2, <3>3
    <3> QED
      BY <2>4, <3>2, <3>4
  <2>16. CASE Writes(j) = {}
    <3>1. Loaded(p) = IF Folds(d) THEN Given_(f, d.ty) ELSE 0
      BY <2>3, <2>4, <2>11, <2>12, <2>16 DEF Variable
    <3>2. \A q \in Before(W, p) : q = f /\ Folds(d)
      BY <2>14, <2>15, <2>16
    <3>3. CASE Before(W, p) # {}
      <4>1. Before(W, p) = {f} /\ Folds(d)
        BY <3>2, <3>3
      <4>2. Last(Before(W, p)) = f
        <5>1. LastOf({f}, f) /\ {f} \in SUBSET Nat
          BY <2>1, <2>3 DEF LastOf
        <5> QED
          BY <4>1, <5>1, FirstLast
      <4> QED
        BY <2>5, <2>6, <3>1, <3>3, <4>1, <4>2
    <3>4. CASE Before(W, p) = {}
      <4>1. Folds(d) => Given_(f, d.ty) = d.init.v % 2^d.ty
        BY <2>4 DEF Folds, Given_, Stored
      <4> QED
        BY <2>5, <2>6, <3>1, <3>4, <4>1
    <3> QED
      BY <3>3, <3>4
  <2>17. CASE Writes(j) # {}
    <3>1. PICK l : LastOf(Writes(j), l)
      <4>1. Writes(j) \subseteq Nat /\ \A t \in Writes(j) : t <= Len(startup_)
        BY <2>8, <2>14
      <4> QED
        BY <2>8, <2>17, <4>1, GreatestNumber
    <3>2. l = Last(Writes(j))
      <4>1. Writes(j) \in SUBSET Nat
        BY <2>14
      <4> QED
        BY <3>1, <4>1, FirstLast
    <3> DEFINE q == startup_[l].at
    <3>3. l \in Writes(j) /\ l \in 1..Len(startup_) /\ q \in Before(W, p) /\ q \in Nat
          /\ startup_[l].v = Given_(q, d.ty)
      BY <2>1, <2>14, <3>1 DEF LastOf
    <3>4. ASSUME NEW r \in Before(W, p) PROVE r <= q
      <4>1. CASE r \in folded
        <5>1. r = f /\ Folds(d) /\ q \in W
          BY <2>15, <3>3, <4>1 DEF Before
        <5> QED
          BY <2>4, <3>3, <5>1
      <4>2. CASE r \notin folded
        <5>1. PICK i \in Writes(j) : startup_[i].at = r
          BY <2>14, <4>2
        <5>2. i <= l /\ i \in 1..Len(startup_)
          BY <2>14, <3>1 DEF LastOf
        <5>3. i < l => r < q
          BY <2>9, <3>3, <5>1, <5>2
        <5>4. i = l => r = q
          BY <5>1
        <5>5. i < l \/ i = l
          BY <2>8, <3>3, <5>2
        <5>6. r \in Nat
          BY <2>1
        <5> QED
          BY <3>3, <5>3, <5>4, <5>5, <5>6
      <4> QED
        BY <4>1, <4>2
    <3>5. q = Last(Before(W, p))
      <4>1. LastOf(Before(W, p), q) /\ Before(W, p) \in SUBSET Nat
        BY <2>1, <3>3, <3>4 DEF LastOf
      <4> HIDE DEF q
      <4> QED
        BY <4>1, FirstLast
    <3> QED
      BY <2>5, <2>6, <2>11, <2>17, <3>2, <3>3, <3>5
  <2> QED
    BY <2>16, <2>17
<1> QED
  BY <1>1, Variables, PTL

-----------------------------------------------------------------------------
(* What the parameters of a body are given *)

\* Every signature and every list of arguments of the program is a list.
CallsOK == \A i \in Positions : CallTyped(items[i])

\* The value of parameter k before conversion, prev that of the one before.
ArgAt(ty, args, k, prev) ==
  LET d == ty.ps[k].dflt
  IN IF Given(args, k) THEN args[k].v
     ELSE IF d.k = "lastclass" THEN Text(prev.cls)
     ELSE IF d.k = "none" THEN I64(0) ELSE d

\* genCallTo goes through the parameters in order and looks back one.
LEMMA ArgumentsAre ==
  ASSUME NEW ty, NEW args, Len(ty.ps) \in Nat, Len(args) \in Nat
  PROVE  /\ Arguments(ty, args)[0] = I64(0)
         /\ \A k \in 1..Len(ty.ps) :
              Arguments(ty, args)[k] = ArgAt(ty, args, k, Arguments(ty, args)[k - 1])
<1> DEFINE n  == Len(ty.ps)
           a  == I64(0)
           S0 == {a} \cup {args[k].v : k \in 1..Len(args)} \cup {ty.ps[k].dflt : k \in 1..n}
           T  == {Text(v.cls) : v \in S0} \cup {Text("U8")}
           S  == S0 \cup T
           G(g) == [k \in 0..n |-> IF k = 0 THEN a ELSE ArgAt(ty, args, k, g[k - 1])]
           F  == [k \in Nat |-> [v \in S |-> IF k \in 1..n THEN ArgAt(ty, args, k, v) ELSE v]]
<1>1. n \in Nat /\ \A k \in 1..n : k \in Nat /\ k - 1 \in 0..n /\ k # 0
  OBVIOUS
<1>2. \A v \in S : Text(v.cls) \in T
  <2>1. \A v \in T : v.cls = "U8"
    BY DEF Text
  <2> HIDE DEF S0
  <2> QED
    BY <2>1
<1>3. \A k \in 1..n, v \in S : ArgAt(ty, args, k, v) \in S
  <2> SUFFICES ASSUME NEW k \in 1..n, NEW v \in S PROVE ArgAt(ty, args, k, v) \in S
    OBVIOUS
  <2>1. Given(args, k) => args[k].v \in S0
    BY DEF Given
  <2>2. ty.ps[k].dflt \in S0 /\ a \in S0
    OBVIOUS
  <2>3. Text(v.cls) \in T
    BY <1>2
  <2> HIDE DEF S0, T
  <2> QED
    BY <2>1, <2>2, <2>3 DEF ArgAt
<1>4. Arguments(ty, args) = CHOOSE g : g = G(g)
  BY DEF Arguments, ArgAt
<1>5. a \in S
  OBVIOUS
<1> HIDE DEF n, a, S0, T, S, G
<1>6. F \in [Nat -> [S -> S]] /\ \A k \in 1..n, v \in S : F[k][v] = ArgAt(ty, args, k, v)
  BY <1>1, <1>3
<1> HIDE DEF F
<1>7. PICK g \in [0..n -> S] : Recurs(g, a, F, n)
  BY <1>1, <1>5, <1>6, BoundedRecursion
<1>8. g = G(g)
  <2>1. \A k \in 1..n : g[k] = ArgAt(ty, args, k, g[k - 1])
    BY <1>1, <1>6, <1>7 DEF Recurs
  <2>2. g = [k \in 0..n |-> IF k = 0 THEN a ELSE ArgAt(ty, args, k, g[k - 1])]
    BY <1>1, <1>7, <2>1 DEF Recurs
  <2> QED
    BY <2>2 DEF G
<1>9. PICK R : R = CHOOSE h : h = G(h)
  OBVIOUS
<1>10. R = G(R)
  BY <1>8, <1>9
<1>11. R[0] = a /\ \A k \in 1..n : R[k] = ArgAt(ty, args, k, R[k - 1])
  BY <1>1, <1>10 DEF G
<1>12. R = Arguments(ty, args)
  BY <1>4, <1>9
<1> QED
  BY <1>11, <1>12 DEF n, a

\* A signature and arguments of the program.
Typed_(ty, args) ==
  /\ Len(ty.ps) \in Nat /\ ty.va \in BOOLEAN /\ Len(args) \in Nat
  /\ \A k \in 1..Len(ty.ps) : ty.ps[k].ty \in {"F64", "U8", "I32", "I64"}
  /\ \A k \in 1..Len(ty.ps) : ty.ps[k].dflt.k \in {"none", "lastclass"} \/ IsValue(ty.ps[k].dflt)
  /\ \A k \in 1..Len(args) : args[k].given \in BOOLEAN /\ IsValue(args[k].v)

\* What a call that is accepted passes for a parameter is what it means.
LEMMA ArgumentsMeant ==
  ASSUME NEW ty, NEW args, Typed_(ty, args), Accepts(ty, args), NEW k \in 1..Len(ty.ps)
  PROVE  /\ Arguments(ty, args)[k] = Meant(ty, args, k)
         /\ IsValue(Meant(ty, args, k))
<1> DEFINE A == Arguments(ty, args)
           n == Len(ty.ps)
<1>1. n \in Nat /\ Len(args) \in Nat
  BY DEF Typed_
<1>2. A[0] = I64(0) /\ \A j \in 1..n : A[j] = ArgAt(ty, args, j, A[j - 1])
  BY <1>1, ArgumentsAre
<1> HIDE DEF A
<1>3. \A j \in 1..n : Given(args, j) <=> j <= Len(args) /\ args[j].given
  BY DEF Given
<1>4. \A j \in 1..n : ~Given(args, j) => ty.ps[j].dflt.k # "none"
  <2> SUFFICES ASSUME NEW j \in 1..n, ~Given(args, j) PROVE ty.ps[j].dflt.k # "none"
    OBVIOUS
  <2>1. CASE j <= Len(args)
    <3>1. j \in 1..Len(args) /\ ~(j > n)
      BY <1>1, <2>1
    <3>2. args[j].given \/ ty.ps[j].dflt.k # "none"
      BY <3>1 DEF Accepts
    <3> QED
      BY <1>3, <2>1, <3>2
  <2>2. CASE ~(j <= Len(args))
    <3>1. j > Len(args)
      BY <1>1, <2>2
    <3> QED
      BY <3>1 DEF Accepts
  <2> QED
    BY <2>1, <2>2
<1>5. \A j \in 1..n : Given(args, j) => j \in 1..Len(args) /\ IsValue(args[j].v)
  BY <1>1, <1>3 DEF Typed_
<1>6. \A s : IsValue(Text(s)) /\ Text(s).cls = "U8"
  BY DEF IsValue, Text
<1>7. I64(0).cls = "I64"
  BY DEF I64
<1>8. ASSUME NEW j \in 1..n, ~Given(args, j), ty.ps[j].dflt.k # "lastclass"
      PROVE  A[j] = ty.ps[j].dflt /\ IsValue(A[j])
  BY <1>2, <1>4, <1>8 DEF ArgAt, Typed_
<1>9. CASE Given(args, k)
  <2>1. A[k] = args[k].v
    BY <1>2, <1>9 DEF ArgAt
  <2>2. Meant(ty, args, k) = args[k].v
    BY <1>3, <1>9 DEF Meant
  <2> QED
    BY <1>5, <1>9, <2>1, <2>2 DEF A
<1>10. CASE ~Given(args, k) /\ ty.ps[k].dflt.k # "lastclass"
  <2>1. Meant(ty, args, k) = ty.ps[k].dflt
    BY <1>3, <1>10 DEF Meant
  <2> QED
    BY <1>8, <1>10, <2>1 DEF A
<1>11. CASE ~Given(args, k) /\ ty.ps[k].dflt.k = "lastclass"
  <2>1. A[k] = Text(A[k - 1].cls)
    BY <1>2, <1>11 DEF ArgAt
  <2>2. Meant(ty, args, k) =
          Text(IF k = 1 THEN "I64"
               ELSE IF k - 1 <= Len(args) /\ args[k - 1].given THEN args[k - 1].v.cls
               ELSE IF ty.ps[k - 1].dflt.k = "lastclass" THEN "U8" ELSE ty.ps[k - 1].dflt.cls)
    BY <1>3, <1>11 DEF Meant
  <2>3. CASE k = 1
    BY <1>2, <1>6, <1>7, <2>1, <2>2, <2>3 DEF A
  <2>4. CASE k # 1
    <3>1. k - 1 \in 1..n
      BY <1>1, <2>4
    <3>2. Given(args, k - 1) => A[k - 1] = args[k - 1].v
      BY <1>2, <3>1 DEF ArgAt
    <3>3. ~Given(args, k - 1) /\ ty.ps[k - 1].dflt.k = "lastclass" => A[k - 1].cls = "U8"
      <4>1. ~Given(args, k - 1) /\ ty.ps[k - 1].dflt.k = "lastclass"
              => A[k - 1] = Text(A[k - 1 - 1].cls)
        BY <1>2, <3>1 DEF ArgAt
      <4> QED
        BY <1>6, <4>1
    <3>4. ~Given(args, k - 1) /\ ty.ps[k - 1].dflt.k # "lastclass" => A[k - 1] = ty.ps[k - 1].dflt
      BY <1>8, <3>1
    <3>5. Given(args, k - 1) <=> k - 1 <= Len(args) /\ args[k - 1].given
      BY <1>3, <3>1
    <3>6. Meant(ty, args, k) = Text(A[k - 1].cls)
      <4>1. CASE Given(args, k - 1)
        BY <2>2, <2>4, <3>2, <3>5, <4>1
      <4>2. CASE ~Given(args, k - 1)
        BY <2>2, <2>4, <3>3, <3>4, <3>5, <4>2
      <4> QED
        BY <4>1, <4>2
    <3> QED
      BY <1>6, <2>1, <3>6 DEF A
  <2> QED
    BY <2>3, <2>4
<1> QED
  BY <1>9, <1>10, <1>11

\* A list made of a function on 1..n, and what joining two lists does.
LEMMA ListFacts ==
  ASSUME NEW n \in Nat, NEW f, DOMAIN f = 1..n, f = [k \in 1..n |-> f[k]]
  PROVE  \E S : f \in Seq(S) /\ Len(f) = n
<1> DEFINE S == {f[k] : k \in 1..n}
<1>1. \A k \in 1..n : f[k] \in S
  OBVIOUS
<1> HIDE DEF S
<1>2. f \in [1..n -> S]
  BY <1>1
<1>3. f \in Seq(S)
  BY <1>2
<1> QED
  BY <1>3

LEMMA JoinFacts ==
  ASSUME NEW S, NEW s \in Seq(S), NEW t \in Seq(S)
  PROVE  /\ Len(s \o t) = Len(s) + Len(t)
         /\ \A k \in 1..Len(s) : (s \o t)[k] = s[k]
         /\ \A k \in 1..Len(t) : (s \o t)[Len(s) + k] = t[k]
  OBVIOUS

\* A diagnostic is given exactly for the calls that are not accepted.
LEMMA RefusesTheRest ==
  ASSUME NEW ty, NEW args, Typed_(ty, args)
  PROVE  genCallTo(ty, args).bad <=> ~Accepts(ty, args)
<1> DEFINE n == Len(ty.ps)
           m == Len(args)
           tooMany == m > n /\ ~ty.va
           cut == IF tooMany THEN SubSeq(args, 1, n) ELSE args
           bad == \/ tooMany
                  \/ \E k \in 1..n : ~Given(cut, k) /\ ty.ps[k].dflt.k = "none"
                  \/ \E k \in (n + 1)..Len(cut) : ~Given(cut, k)
<1>1. genCallTo(ty, args).bad <=> bad
  BY Zenon DEF genCallTo
<1>2. n \in Nat /\ m \in Nat
  BY DEF Typed_
<1>3. \A k \in 1..m : args[k].given \in BOOLEAN
  BY DEF Typed_
<1>4. Accepts(ty, args) <=>
        /\ \A k \in 1..m : IF k > n THEN ty.va /\ args[k].given
                           ELSE args[k].given \/ ty.ps[k].dflt.k # "none"
        /\ \A k \in 1..n : k > m => ty.ps[k].dflt.k # "none"
  BY DEF Accepts
<1>5. CASE tooMany
  <2>1. n + 1 \in 1..m /\ n + 1 > n
    BY <1>2, <1>5
  <2>2. ~Accepts(ty, args)
    BY <1>4, <1>5, <2>1
  <2> QED
    BY <1>1, <1>5, <2>2
<1>6. CASE ~tooMany
  <2>1. cut = args
    BY <1>6
  <2>2. ASSUME bad PROVE ~Accepts(ty, args)
    <3>1. CASE \E k \in 1..n : ~Given(args, k) /\ ty.ps[k].dflt.k = "none"
      <4>1. PICK k \in 1..n : ~Given(args, k) /\ ty.ps[k].dflt.k = "none"
        BY <3>1
      <4>2. CASE k > m
        BY <1>4, <4>1, <4>2
      <4>3. CASE ~(k > m)
        <5>1. k \in 1..m /\ ~(k > n) /\ k <= m
          BY <1>2, <4>3
        <5>2. ~args[k].given
          BY <4>1, <5>1 DEF Given
        <5> QED
          BY <1>4, <4>1, <5>1, <5>2
      <4> QED
        BY <4>2, <4>3
    <3>2. CASE \E k \in (n + 1)..m : ~Given(args, k)
      <4>1. PICK k \in (n + 1)..m : ~Given(args, k)
        BY <3>2
      <4>2. k \in 1..m /\ k > n /\ k <= m
        BY <1>2
      <4>3. ~args[k].given
        BY <4>1, <4>2 DEF Given
      <4> QED
        BY <1>4, <4>2, <4>3
    <3> QED
      BY <1>6, <2>1, <2>2, <3>1, <3>2
  <2>3. ASSUME ~Accepts(ty, args) PROVE bad
    <3>1. CASE \E k \in 1..n : k > m /\ ty.ps[k].dflt.k = "none"
      <4>1. PICK k \in 1..n : k > m /\ ty.ps[k].dflt.k = "none"
        BY <3>1
      <4>2. ~Given(args, k)
        BY <1>2, <4>1 DEF Given
      <4> QED
        BY <2>1, <4>1, <4>2
    <3>2. CASE \E k \in 1..m : ~(IF k > n THEN ty.va /\ args[k].given
                                 ELSE args[k].given \/ ty.ps[k].dflt.k # "none")
      <4>1. PICK k \in 1..m : ~(IF k > n THEN ty.va /\ args[k].given
                                ELSE args[k].given \/ ty.ps[k].dflt.k # "none")
        BY <3>2
      <4>2. CASE k > n
        <5>1. ty.va
          BY <1>2, <1>6, <4>2 DEF Typed_
        <5>2. ~Given(args, k) /\ k \in (n + 1)..m
          BY <1>2, <4>1, <4>2, <5>1 DEF Given
        <5> QED
          BY <2>1, <5>2
      <4>3. CASE ~(k > n)
        <5>1. ~Given(args, k) /\ k \in 1..n /\ ty.ps[k].dflt.k = "none"
          BY <1>2, <4>1, <4>3 DEF Given
        <5> QED
          BY <2>1, <5>1
      <4> QED
        BY <4>2, <4>3
    <3> QED
      BY <1>4, <2>3, <3>1, <3>2
  <2> QED
    BY <1>1, <2>2, <2>3
<1> QED
  BY <1>5, <1>6

\* The values v that n parameters and m arguments make: the fixed ones, argc and
\* argv.
Passes(ty, args, n, m, v) ==
  /\ \A k \in 1..n : v[k] = IF ty.ps[k].ty = "F64" THEN ToF64(Arguments(ty, args)[k])
                            ELSE ToI64(Arguments(ty, args)[k])
  /\ m > n => ty.va
  /\ ty.va => /\ v[n + 1].x = IF m > n THEN m - n ELSE 0
              /\ \A k \in 1..(m - n) : v[n + 2].x[k] = ToSlot(args[n + k].v)

\* The values genCallTo passes when it accepts the arguments.
LEMMA Passed ==
  ASSUME NEW ty, NEW args, Typed_(ty, args), Accepts(ty, args),
         NEW n, n = Len(ty.ps), NEW m, m = Len(args),
         NEW v, v = genCallTo(ty, args).vals
  PROVE  Passes(ty, args, n, m, v)
<1> DEFINE A == Arguments(ty, args)
           fixed == [k \in 1..n |-> IF ty.ps[k].ty = "F64" THEN ToF64(A[k]) ELSE ToI64(A[k])]
           extra == IF m > n
                    THEN [j \in 1..(m - n) |->
                            IF Given(args, n + j) THEN ToSlot(args[n + j].v) ELSE I64(0)]
                    ELSE <<>>
           last == <<I64(Len(extra)), [k |-> "argv", x |-> extra, cls |-> "I64"]>>
<1> SUFFICES /\ \A k \in 1..n : v[k] = IF ty.ps[k].ty = "F64" THEN ToF64(Arguments(ty, args)[k])
                                       ELSE ToI64(Arguments(ty, args)[k])
             /\ m > n => ty.va
             /\ ty.va => /\ v[n + 1].x = IF m > n THEN m - n ELSE 0
                         /\ \A k \in 1..(m - n) : v[n + 2].x[k] = ToSlot(args[n + k].v)
  BY DEF Passes
<1>1. n \in Nat /\ m \in Nat /\ ty.va \in BOOLEAN
  BY DEF Typed_
<1>2. \A k \in 1..m : k > n => ty.va /\ args[k].given
  BY DEF Accepts
<1>3. m > n => ty.va
  <2>1. m > n => n + 1 \in 1..m /\ n + 1 > n
    BY <1>1
  <2> QED
    BY <1>2, <2>1
<1>4. v = fixed \o IF ty.va THEN last ELSE <<>>
  BY <1>3 DEF genCallTo
<1>5. Len(extra) = IF m > n THEN m - n ELSE 0
  <2>1. CASE m > n
    <3>1. m - n \in Nat
      BY <1>1, <2>1
    <3>2. PICK f : f = extra
      OBVIOUS
    <3>3. DOMAIN f = 1..(m - n) /\ f = [k \in 1..(m - n) |-> f[k]]
      BY <2>1, <3>2
    <3>4. Len(f) = m - n
      BY <3>1, <3>3, ListFacts
    <3> QED
      BY <2>1, <3>2, <3>4
  <2>2. CASE ~(m > n)
    BY <2>2
  <2> QED
    BY <2>1, <2>2
<1>6. \A k \in 1..(m - n) : extra[k] = ToSlot(args[n + k].v)
  <2> SUFFICES ASSUME NEW k \in 1..(m - n) PROVE extra[k] = ToSlot(args[n + k].v)
    OBVIOUS
  <2>1. m > n /\ n + k \in 1..m /\ n + k > n /\ n + k <= m
    BY <1>1
  <2>2. Given(args, n + k)
    BY <1>2, <2>1 DEF Given
  <2> QED
    BY <2>1, <2>2
<1>7. DOMAIN fixed = 1..n /\ fixed = [k \in 1..n |-> fixed[k]]
  OBVIOUS
<1>8. \A k \in 1..n : fixed[k] = IF ty.ps[k].ty = "F64" THEN ToF64(A[k]) ELSE ToI64(A[k])
  OBVIOUS
<1> HIDE DEF fixed, extra, A
<1>9. PICK S : fixed \in Seq(S) /\ Len(fixed) = n
  BY <1>1, <1>7, ListFacts
<1>10. /\ last[1].x = Len(extra) /\ last[2].x = extra
       /\ last \in Seq({last[1], last[2]}) /\ Len(last) = 2
  BY DEF I64
<1> HIDE DEF last
<1>11. CASE ty.va
  <2> DEFINE U == S \cup {last[1], last[2]}
  <2>1. fixed \in Seq(U) /\ last \in Seq(U) /\ v = fixed \o last
    BY <1>4, <1>9, <1>10, <1>11
  <2> HIDE DEF U
  <2>2. (\A k \in 1..n : v[k] = fixed[k]) /\ \A k \in 1..2 : v[n + k] = last[k]
    <3>1. /\ \A k \in 1..Len(fixed) : (fixed \o last)[k] = fixed[k]
          /\ \A k \in 1..Len(last) : (fixed \o last)[Len(fixed) + k] = last[k]
      BY <2>1, JoinFacts
    <3> QED
      BY <1>9, <1>10, <2>1, <3>1
  <2>3. v[n + 1] = last[1] /\ v[n + 2] = last[2]
    BY <2>2
  <2> QED
    BY <1>3, <1>5, <1>6, <1>8, <1>10, <2>2, <2>3 DEF A
<1>12. CASE ~ty.va
  <2>1. v = fixed
    BY <1>4, <1>9, <1>12
  <2> QED
    BY <1>3, <1>8, <1>12, <2>1 DEF A
<1> QED
  BY <1>11, <1>12

\* The parameters LLVM sees of a signature.
LEMMA SeenOf ==
  ASSUME NEW ty, Len(ty.ps) \in Nat, NEW n, n = Len(ty.ps)
  PROVE  /\ Len(llvmFnType(ty).ps) = IF ty.va THEN n + 2 ELSE n
         /\ \A k \in 1..n : llvmFnType(ty).ps[k] = (ty.ps[k].ty = "F64")
<1> DEFINE f == [k \in 1..n |-> ty.ps[k].ty = "F64"]
           l == <<FALSE, FALSE>>
<1>1. DOMAIN f = 1..n /\ f = [k \in 1..n |-> f[k]] /\ \A k \in 1..n : f[k] = (ty.ps[k].ty = "F64")
  OBVIOUS
<1>2. llvmFnType(ty).ps = f \o IF ty.va THEN l ELSE <<>>
  BY DEF llvmFnType
<1>3. l \in Seq(BOOLEAN) /\ Len(l) = 2
  OBVIOUS
<1>4. f \in [1..n -> BOOLEAN]
  OBVIOUS
<1> HIDE DEF f, l
<1>5. f \in Seq(BOOLEAN) /\ Len(f) = n
  BY <1>4
<1>6. CASE ty.va
  <2>1. Len(f \o l) = Len(f) + Len(l) /\ \A k \in 1..Len(f) : (f \o l)[k] = f[k]
    <3>1. f \in Seq(BOOLEAN) /\ l \in Seq(BOOLEAN)
      BY <1>3, <1>5
    <3> QED
      BY ONLY <3>1, JoinFacts
  <2> QED
    BY <1>1, <1>2, <1>3, <1>5, <1>6, <2>1
<1>7. CASE ~ty.va
  <2>1. llvmFnType(ty).ps = f
    BY <1>2, <1>5, <1>7
  <2> QED
    BY <1>1, <1>5, <1>7, <2>1
<1> QED
  BY <1>6, <1>7

\* Signatures of one LLVM type, both variadic or neither, have as many
\* parameters, and the same ones of type F64.
LEMMA OneLlvmType ==
  ASSUME NEW ty, NEW tz, Len(ty.ps) \in Nat, Len(tz.ps) \in Nat,
         llvmFnType(ty) = llvmFnType(tz), ty.va = tz.va
  PROVE  /\ Len(ty.ps) = Len(tz.ps)
         /\ \A k \in 1..Len(ty.ps) : ty.ps[k].ty = "F64" <=> tz.ps[k].ty = "F64"
<1>1. Len(ty.ps) = Len(tz.ps)
  <2>1. PICK m \in Nat, n \in Nat : m = Len(ty.ps) /\ n = Len(tz.ps)
    OBVIOUS
  <2>2. /\ Len(llvmFnType(ty).ps) = IF ty.va THEN m + 2 ELSE m
        /\ Len(llvmFnType(tz).ps) = IF tz.va THEN n + 2 ELSE n
    BY <2>1, SeenOf
  <2>3. (IF ty.va THEN m + 2 ELSE m) = (IF ty.va THEN n + 2 ELSE n)
    BY <2>2, Zenon
  <2>4. m = n
    BY <2>3
  <2> QED
    BY <2>1, <2>4
<1>2. \A k \in 1..Len(ty.ps) : (ty.ps[k].ty = "F64") = (tz.ps[k].ty = "F64")
  BY <1>1, SeenOf
<1> QED
  BY <1>1, <1>2

\* A value converted for a parameter of a declaration and cut to the slot of the
\* body's parameter is that value in the type of the body's.
LEMMA ArrivesInSlot ==
  ASSUME NEW a, IsValue(a), NEW ty \in {"F64", "U8", "I32", "I64"}, NEW tz,
         ty = "F64" <=> tz = "F64"
  PROVE  InSlot(ty, IF tz = "F64" THEN ToF64(a) ELSE ToI64(a)).x = Arrived(ty, a)
<1>1. a.k \in {"i64", "f64", "str"} /\ a = [k |-> a.k, x |-> a.x, cls |-> a.cls]
  BY DEF IsValue
<1>2. PICK kk, xx, cc : a = [k |-> kk, x |-> xx, cls |-> cc] /\ kk = a.k /\ xx = a.x
  BY <1>1
<1>3. CASE kk = "str"
  <2>1. ToF64(a) = a /\ ToI64(a) = a
    BY <1>2, <1>3 DEF ToF64, ToI64
  <2>2. InSlot(ty, a) = a
    BY <1>2, <1>3 DEF InSlot
  <2> QED
    BY <1>2, <1>3, <2>1, <2>2 DEF Arrived
<1>4. CASE ty = "F64" /\ kk # "str"
  <2>1. ToF64(a).x = IF kk = "i64" THEN 2 * xx ELSE xx
    BY <1>1, <1>2, <1>4 DEF ToF64
  <2>2. InSlot(ty, ToF64(a)) = ToF64(a)
    BY <1>4 DEF InSlot
  <2>3. Arrived(ty, a) = IF kk = "i64" THEN 2 * xx ELSE xx
    BY <1>2, <1>4 DEF Arrived
  <2> QED
    BY <1>4, <2>1, <2>2, <2>3
<1>5. CASE ty # "F64" /\ kk # "str"
  <2> DEFINE y == IF kk = "f64" THEN xx \div 2 ELSE xx
  <2>1. ToI64(a) = [k |-> "i64", x |-> y, cls |-> cc]
    <3>1. CASE kk = "f64"
      BY <1>2, <3>1 DEF ToI64
    <3>2. CASE kk = "i64"
      BY <1>2, <3>2 DEF ToI64
    <3> QED
      BY <1>1, <1>2, <1>5, <3>1, <3>2
  <2>2. Arrived(ty, a) = IF ty = "U8" THEN y % 2^NarrowBits ELSE y
    BY <1>2, <1>5 DEF Arrived
  <2> HIDE DEF y
  <2>3. PICK b : b = [k |-> "i64", x |-> y, cls |-> cc]
    OBVIOUS
  <2>4. InSlot(ty, b).x = IF ty = "U8" THEN y % 2^NarrowBits ELSE y
    <3>1. CASE ty = "U8"
      <4>1. InSlot(ty, b) = [b EXCEPT !.x = @ % 2^NarrowBits]
        BY <2>3, <3>1 DEF InSlot
      <4> QED
        BY <2>3, <3>1, <4>1
    <3>2. CASE ty # "U8"
      BY <2>3, <3>2 DEF InSlot
    <3> QED
      BY <3>1, <3>2
  <2> QED
    BY <1>5, <2>1, <2>2, <2>3, <2>4
<1> QED
  BY <1>3, <1>4, <1>5

\* A value in a slot of argv is that value.
LEMMA SlotHolds ==
  ASSUME NEW a, IsValue(a)
  PROVE  ToSlot(a).x = a.x
<1>1. PICK kk, xx, cc : a = [k |-> kk, x |-> xx, cls |-> cc]
  BY DEF IsValue
<1>2. CASE kk = "f64"
  BY <1>1, <1>2 DEF ToSlot
<1>3. CASE kk # "f64"
  BY <1>1, <1>3 DEF ToSlot
<1> QED
  BY <1>2, <1>3

\* A body of type ty finds in its parameters b what a declaration of type tz and
\* the arguments mean, n the parameters of tz and m the arguments.
Finds(tz, args, ty, n, m, b) ==
  /\ \A k \in 1..n : b.params[k].x = Arrived(ty.ps[k].ty, Meant(tz, args, k))
  /\ b.argc = IF m > n THEN m - n ELSE 0
  /\ \A k \in 1..b.argc : b.argv[k].x = args[n + k].v.x

\* What a body of type ty finds when a call is generated for a declaration of
\* type tz and one LLVM type.
LEMMA BodyFinds ==
  ASSUME NEW tz, NEW args, Typed_(tz, args), Accepts(tz, args),
         NEW ty, Len(ty.ps) \in Nat, \A k \in 1..Len(ty.ps) : ty.ps[k].ty \in {"F64", "U8", "I32", "I64"},
         llvmFnType(ty) = llvmFnType(tz), ty.va = tz.va,
         NEW v, v = genCallTo(tz, args).vals,
         NEW b, b = genFuncBody(ty, v),
         NEW n, n = Len(tz.ps), NEW m, m = Len(args)
  PROVE  Finds(tz, args, ty, n, m, b)
<1>1. n \in Nat /\ m \in Nat /\ tz.va \in BOOLEAN
  BY DEF Typed_
<1>2. Len(ty.ps) = n /\ \A k \in 1..n : ty.ps[k].ty = "F64" <=> tz.ps[k].ty = "F64"
  BY <1>1, OneLlvmType
<1>3. /\ \A k \in 1..n : v[k] = IF tz.ps[k].ty = "F64" THEN ToF64(Arguments(tz, args)[k])
                                ELSE ToI64(Arguments(tz, args)[k])
      /\ m > n => tz.va
      /\ tz.va => /\ v[n + 1].x = IF m > n THEN m - n ELSE 0
                  /\ \A k \in 1..(m - n) : v[n + 2].x[k] = ToSlot(args[n + k].v)
  <2>1. Passes(tz, args, n, m, v)
    BY Passed
  <2> QED
    BY <2>1 DEF Passes
<1>4. /\ b.params = [k \in 1..n |-> InSlot(ty.ps[k].ty, v[k])]
      /\ b.argc = IF tz.va THEN v[n + 1].x ELSE 0
      /\ b.argv = IF tz.va THEN v[n + 2].x ELSE <<>>
  BY <1>2 DEF genFuncBody
<1>5. ASSUME NEW k \in 1..n
      PROVE  b.params[k].x = Arrived(ty.ps[k].ty, Meant(tz, args, k))
  <2>1. Arguments(tz, args)[k] = Meant(tz, args, k) /\ IsValue(Meant(tz, args, k))
    BY ArgumentsMeant
  <2>2. b.params[k] = InSlot(ty.ps[k].ty, IF tz.ps[k].ty = "F64" THEN ToF64(Meant(tz, args, k))
                                          ELSE ToI64(Meant(tz, args, k)))
    BY <1>3, <1>4, <2>1
  <2>3. ty.ps[k].ty \in {"F64", "U8", "I32", "I64"}
    BY <1>2
  <2> QED
    BY <1>2, <2>1, <2>2, <2>3, ArrivesInSlot
<1>6. b.argc = IF m > n THEN m - n ELSE 0
  BY <1>1, <1>3, <1>4
<1>7. ASSUME NEW k \in 1..b.argc
      PROVE  b.argv[k].x = args[n + k].v.x
  <2>1. m > n /\ k \in 1..(m - n) /\ tz.va
    BY <1>1, <1>3, <1>6, <1>7
  <2>2. n + k \in 1..m
    BY <1>1, <2>1
  <2>3. IsValue(args[n + k].v)
    BY <2>2 DEF Typed_
  <2>4. b.argv[k] = ToSlot(args[n + k].v)
    BY <1>3, <1>4, <2>1
  <2> QED
    BY <2>3, <2>4, SlotHolds
<1> QED
  BY <1>5, <1>6, <1>7 DEF Finds

\* The signatures and arguments of the program stay what they are.
LEMMA Signatures == Spec => []CallsOK
<1>1. Init => CallsOK
  BY CallsAssumption DEF Init, CallsOK, Positions
<1>2. CallsOK /\ [Next]_vars => CallsOK'
  <2> SUFFICES ASSUME CallsOK, [Next]_vars PROVE CallsOK'
    OBVIOUS
  <2>1. items' = items
    BY DEF Next, vars, Declare, EndDeclare, Walk, Finish
  <2> QED
    BY <2>1 DEF CallsOK, Positions
<1> QED
  BY <1>1, <1>2, PTL DEF Spec

\* The declaration in force at a call, and what is bound to it at the end.
LEMMA DeclarationOfCall ==
  ASSUME IInv, BindInv, NEW p \in Calls, NEW n, n = items[p].n,
         NEW i, i = IF Before(Decls(n), p) = {} THEN First(Decls(n)) ELSE Last(Before(Decls(n), p))
  PROVE  /\ i \in Decls(n) /\ uses[p].fn = declToFn_[i]
         /\ uses[p].vals = genCallTo(items[i].ty, items[p].args).vals
         /\ p \in errors <=> genCallTo(items[i].ty, items[p].args).bad
<1>1. PICK j \in Decls(n) :
        /\ InForce(n, p, j)
        /\ uses[p].fn = declToFn_[j]
        /\ uses[p].vals = genCallTo(items[j].ty, items[p].args).vals
        /\ p \in errors <=> genCallTo(items[j].ty, items[p].args).bad
  BY DEF BindInv, Called
<1>2. Decls(n) \in SUBSET Nat /\ Before(Decls(n), p) \in SUBSET Nat
  BY DEF Decls, Before, Positions
<1>3. i = j
  BY <1>1, <1>2, FirstLast DEF InForce, LastOf
<1> QED
  BY <1>1, <1>3

\* What ArgumentsArrive says of the call at p, tz the declaration in force.
Arrives(p, tz, args) ==
  /\ p \in errors <=> ~Accepts(tz, args)
  /\ p \notin errors =>
       \A d \in Runs(p) :
         items[d].ty.va = tz.va =>
         Finds(tz, args, items[d].ty, Len(tz.ps), Len(args),
               genFuncBody(items[d].ty, uses[p].vals))

\* What a call passes is what arrives: it is refused exactly when an argument
\* without default is missing or there are too many, and otherwise the body that
\* the walk gave the called function finds in its parameters, argc and argv the
\* arguments and the defaults in force at the call, converted by genCallTo and
\* stored by genFuncBody, whatever brought call and body together.
THEOREM ParametersAreWhatIsMeant == Spec => []ArgumentsArrive
<1>1. ASSUME IInv, BindInv, CallsOK PROVE ArgumentsArrive
  <2>1. ASSUME pass = "done", NEW p \in Calls, NEW n, n = items[p].n, NEW args, args = items[p].args,
               NEW i, i = IF Before(Decls(n), p) = {} THEN First(Decls(n))
                          ELSE Last(Before(Decls(n), p)),
               NEW tz, tz = items[i].ty
        PROVE  Arrives(p, tz, args)
    <3>1. /\ i \in Decls(n) /\ uses[p].fn = declToFn_[i]
          /\ uses[p].vals = genCallTo(tz, args).vals
          /\ p \in errors <=> genCallTo(tz, args).bad
      BY <1>1, <2>1, DeclarationOfCall
    <3>2. i \in Positions /\ IsFunc(items[i])
      BY <3>1 DEF Decls
    <3>3. p \in Positions /\ items[p].k = "call"
      BY <1>1 DEF Calls, BindInv, Called
    <3>4. Typed_(tz, args)
      <4>1. CallTyped(items[i]) /\ CallTyped(items[p])
        BY <1>1, <3>2, <3>3 DEF CallsOK
      <4>2. /\ Len(tz.ps) \in Nat /\ tz.va \in BOOLEAN
            /\ \A k \in 1..Len(tz.ps) : /\ tz.ps[k].ty \in {"F64", "U8", "I32", "I64"}
                                        /\ \/ tz.ps[k].dflt.k \in {"none", "lastclass"}
                                           \/ IsValue(tz.ps[k].dflt)
        <5>1. PICK it : it = items[i]
          OBVIOUS
        <5>2. tz = it.ty /\ CallTyped(it) /\ IsFunc(it)
          BY <2>1, <3>2, <4>1, <5>1
        <5> QED
          BY <5>2 DEF CallTyped
      <4>3. /\ Len(args) \in Nat
            /\ \A k \in 1..Len(args) : args[k].given \in BOOLEAN /\ IsValue(args[k].v)
        BY <2>1, <3>3, <4>1 DEF CallTyped
      <4> QED
        BY <4>2, <4>3 DEF Typed_
    <3>5. p \in errors <=> ~Accepts(tz, args)
      BY <3>1, <3>4, RefusesTheRest
    <3>6. ASSUME p \notin errors, NEW d \in Runs(p), items[d].ty.va = tz.va
          PROVE  Finds(tz, args, items[d].ty, Len(tz.ps), Len(args),
                       genFuncBody(items[d].ty, uses[p].vals))
      <4>1. i \in DOMAIN declToFn_ /\ declToFn_[i] \in DOMAIN mod_
        BY <1>1, <2>1, <3>2 DEF IInv, Shape, Bound
      <4>2. d \in DOMAIN declToFn_ /\ declToFn_[d] = declToFn_[i]
        BY <1>1, <3>1, <3>6, <4>1 DEF Runs, IInv, Bodies, BodiesOf, DeclaredDefs
      <4>3. llvmFnType(items[d].ty) = llvmFnType(tz)
        BY <1>1, <2>1, <3>6, <4>1, <4>2 DEF BindInv, Typed
      <4>4. d \in Positions /\ IsFunc(items[d])
        BY <1>1, <4>2 DEF IInv, Shape
      <4>5. CallTyped(items[d])
        BY <1>1, <4>4 DEF CallsOK
      <4>6. Len(items[d].ty.ps) \in Nat
            /\ \A k \in 1..Len(items[d].ty.ps) : items[d].ty.ps[k].ty \in {"F64", "U8", "I32", "I64"}
        BY <3>6, <4>4, <4>5 DEF CallTyped
      <4>7. Accepts(tz, args) /\ uses[p].vals = genCallTo(tz, args).vals
        BY <3>1, <3>5, <3>6
      <4> QED
        BY <3>4, <3>6, <4>3, <4>6, <4>7, BodyFinds
    <3> QED
      BY <3>5, <3>6 DEF Arrives
  <2>2. pass = "done" => \A p \in Calls :
          Arrives(p, items[IF Before(Decls(items[p].n), p) = {} THEN First(Decls(items[p].n))
                           ELSE Last(Before(Decls(items[p].n), p))].ty, items[p].args)
    BY <2>1
  <2>3. ArgumentsArrive <=> (pass = "done" => \A p \in Calls :
          Arrives(p, items[IF Before(Decls(items[p].n), p) = {} THEN First(Decls(items[p].n))
                           ELSE Last(Before(Decls(items[p].n), p))].ty, items[p].args))
    BY DEF ArgumentsArrive, Arrives, Finds
  <2> QED
    BY <2>2, <2>3
<1> QED
  BY <1>1, Binding, Signatures, PTL

=============================================================================
