---------------------------- MODULE SymbolBinding ----------------------------
(***************************************************************************)
(* CG::run, declareFunc/declareGlobal, genCallTo and genFuncBody           *)
(* (src/src/codegen.cpp): how the names of a HolyC program, where a        *)
(* duplicate overshadows the original, are bound to the functions and      *)
(* variables of one LLVM module, where it may not exist; how a call's      *)
(* arguments and the defaults of the declaration in force become the       *)
(* parameters of the body it runs; and when initialisers take effect.      *)
(*                                                                         *)
(* A program is a sequence of top-level items: a prototype (or an _extern  *)
(* that binds a name to another symbol), a definition or a call of a       *)
(* function; an extern declaration, a definition, an assignment or a use   *)
(* of a variable.  A pre-pass declares everything; a walk over the items   *)
(* then rebinds each name at its position and generates the code, that of  *)
(* the statements and dynamic initialisers into the startup function.      *)
(* The names of functions and of variables are different ones.             *)
(***************************************************************************)
EXTENDS Integers, Sequences, FiniteSets

CONSTANTS
  Families,   \* the programs to consider, a sequence of sets
  NoInit,     \* a variable without initialiser
  NarrowBits  \* the width of U8, scaled

IsFunc(it)   == it.k \in {"proto", "def"}
IsGlobal(it) == it.k \in {"extern", "var"}
IsStmt(it)   == it.k \in {"call", "read", "store"}

ASSUME FamiliesAssumption ==
  \A i \in DOMAIN Families : \A p \in Families[i] : Len(p) \in Nat

\* Signatures and arguments are lists, of parameters of the four types and of
\* values of the three kinds an expression can have.
IsValue(a) == a.k \in {"i64", "f64", "str"} /\ a = [k |-> a.k, x |-> a.x, cls |-> a.cls]

CallTyped(it) ==
  /\ IsFunc(it) =>
       LET ps == it.ty.ps
       IN /\ Len(ps) \in Nat /\ it.ty.va \in BOOLEAN
          /\ \A k \in 1..Len(ps) : /\ ps[k].ty \in {"F64", "U8", "I32", "I64"}
                                   /\ ps[k].dflt.k \in {"none", "lastclass"} \/ IsValue(ps[k].dflt)
  /\ it.k = "call" =>
       /\ Len(it.args) \in Nat
       /\ \A k \in 1..Len(it.args) : it.args[k].given \in BOOLEAN /\ IsValue(it.args[k].v)

ASSUME CallsAssumption ==
  \A i \in DOMAIN Families : \A p \in Families[i] : \A j \in 1..Len(p) : CallTyped(p[j])

\* The values and the widths of variables are numbers; NoInit is neither a value
\* nor a name.  (The provers know nothing of powers: that 2^ty is above zero is
\* arithmetic, stated here for them and evaluated for the programs of a run.)
ASSUME VariablesAssumption ==
  /\ NoInit \notin Int
  /\ \A i \in DOMAIN Families : \A p \in Families[i] : \A j \in 1..Len(p) :
       /\ p[j].k = "store" => p[j].v \in Int
       /\ IsGlobal(p[j]) => /\ p[j].n # NoInit /\ p[j].ty \in Nat /\ 2^p[j].ty > 0
                            /\ p[j].init # NoInit => p[j].init.v \in Int

VARIABLES
  items,         \* prog_.items
  pass,          \* "declare", "walk" or "done"
  pos,           \* the next item of the pass
  mod_,          \* the functions of the module: id -> [ty, bodies]
  vars_,         \* the variables of the module: id -> [stored, init]
  uniq_,         \* suffix of the next renamed function
  bodyDeclared_, \* symbols some definition of which has been declared
  declToFn_,     \* position of a function item -> id
  funcs_,        \* name -> [fn, ty]
  globals_,      \* name -> [gv, ty]
  folded,        \* positions whose initialiser became that of the variable
  startup_,      \* the loads and stores of the startup function
  uses,          \* history: position of a call or use -> what it was bound to
  errors         \* positions a diagnostic was given for (hadError_)

vars == <<items, pass, pos, mod_, vars_, uniq_, bodyDeclared_, declToFn_, funcs_, globals_,
          folded, startup_, uses, errors>>

Set(f, x, y) == [z \in DOMAIN f \cup {x} |-> IF z = x THEN y ELSE f[z]]

\* The id <<s, 0>> is the function whose symbol is s; <<s, k>> is s.<k-1>.
Symbol(s) == <<s, 0>>
Renamed(s) == <<s, uniq_ + 1>>

-----------------------------------------------------------------------------
(* Values and calls.  A value is an I64, an F64 counted in halves, the       *)
(* address of a string, or the bits of an F64 in an I64 slot; cls is the     *)
(* class name of its type (classNameOf).  The default of a parameter is a    *)
(* value, or its k is "none" or "lastclass".  The bits of an address are not  *)
(* modelled: it stays the address of its text when it is cut or converted.   *)

I64(x)     == [k |-> "i64", x |-> x, cls |-> "I64"]
Text(s)    == [k |-> "str", x |-> s, cls |-> "U8"]

ToF64(a) == IF a.k = "i64" THEN [a EXCEPT !.k = "f64", !.x = 2 * @] ELSE a
ToI64(a) == IF a.k = "f64" THEN [a EXCEPT !.k = "i64", !.x = @ \div 2] ELSE a
ToSlot(a) == IF a.k = "f64" THEN [a EXCEPT !.k = "bits"] ELSE a

\* A signature is [ret, ps : sequence of [ty, dflt], va].  Of it LLVM sees how many
\* parameters there are and which of them are F64, a variadic one having two
\* more, and whether an I64, an F64 or nothing is returned.
llvmFnType(ty) ==
  [ret |-> IF ty.ret \in {"F64", "U0"} THEN ty.ret ELSE "I64",
   ps  |-> [k \in 1..Len(ty.ps) |-> ty.ps[k].ty = "F64"] \o IF ty.va THEN <<FALSE, FALSE>> ELSE <<>>]

\* The arguments that are left out are not counted.
Given_Packed(args, k) == Cardinality({j \in 1..Len(args) : args[j].given}) >= k

\* f(,3) leaves arguments out.
Given(args, k) == k <= Len(args) /\ args[k].given

\* The value of each parameter before conversion: the argument, the default of
\* the declaration, or for lastclass the class name of the argument before.
Arguments(ty, args) ==
  LET A[k \in 0..Len(ty.ps)] ==
        IF k = 0 THEN I64(0)
        ELSE LET d == ty.ps[k].dflt
             IN IF Given(args, k) THEN args[k].v
                ELSE IF d.k = "lastclass" THEN Text(A[k - 1].cls)
                ELSE IF d.k = "none" THEN I64(0) ELSE d
  IN A

\* genCallTo: the values passed, and whether a diagnostic was given.
genCallTo(ty, all) ==
  LET n == Len(ty.ps)
      tooMany == Len(all) > n /\ ~ty.va
      args == IF tooMany THEN SubSeq(all, 1, n) ELSE all
      A == Arguments(ty, args)
      fixed == [k \in 1..n |-> IF ty.ps[k].ty = "F64" THEN ToF64(A[k]) ELSE ToI64(A[k])]
      extra == IF Len(args) > n
               THEN [j \in 1..(Len(args) - n) |->
                       IF Given(args, n + j) THEN ToSlot(args[n + j].v) ELSE I64(0)]
               ELSE <<>>
  IN [vals |-> fixed \o IF ty.va
                        THEN <<I64(Len(extra)), [k |-> "argv", x |-> extra, cls |-> "I64"]>>
                        ELSE <<>>,
      bad  |-> \/ tooMany
               \/ \E k \in 1..n : ~Given(args, k) /\ ty.ps[k].dflt.k = "none"
               \/ \E k \in (n + 1)..Len(args) : ~Given(args, k)]

\* regSlotType: an I32 parameter lives in 64 bits, a U8 one in its own width.
InSlot(ty, a) == IF ty = "U8" /\ a.k = "i64" THEN [a EXCEPT !.x = @ % 2^NarrowBits] ELSE a

\* genFuncBody: the parameters, argc and argv of a body that is given vals.
genFuncBody(ty, vals) ==
  [params |-> [k \in 1..Len(ty.ps) |-> InSlot(ty.ps[k].ty, vals[k])],
   argc   |-> IF ty.va THEN vals[Len(ty.ps) + 1].x ELSE 0,
   argv   |-> IF ty.va THEN vals[Len(ty.ps) + 2].x ELSE <<>>]

-----------------------------------------------------------------------------
\* The test that a body was declared before is missing.
Reuses_AnyBody(it) ==
  Symbol(it.sym) \in DOMAIN mod_ /\ mod_[Symbol(it.sym)].ty = llvmFnType(it.ty)

\* The function that already has the symbol serves this declaration too: the
\* types agree, and it is not a second definition.
Reuses(it) ==
  /\ Symbol(it.sym) \in DOMAIN mod_ /\ mod_[Symbol(it.sym)].ty = llvmFnType(it.ty)
  /\ ~(it.k = "def" /\ it.sym \in bodyDeclared_)

\* The name the declaration's function is made under.
FunctionFor(it) ==
  IF Reuses(it) \/ Symbol(it.sym) \notin DOMAIN mod_ THEN Symbol(it.sym) ELSE Renamed(it.sym)

declareFunc(it) ==
  LET f == FunctionFor(it)
  IN /\ mod_' = IF f \in DOMAIN mod_ THEN mod_
                ELSE Set(mod_, f, [ty |-> llvmFnType(it.ty), bodies |-> {}])
     /\ uniq_' = IF f[2] > 0 THEN uniq_ + 1 ELSE uniq_
     /\ bodyDeclared_' = IF it.k = "def" THEN bodyDeclared_ \cup {it.sym} ELSE bodyDeclared_
     /\ declToFn_' = Set(declToFn_, pos, f)
     \* the first occurrence is bound; later ones rebind during the walk
     /\ funcs_' = IF it.n \in DOMAIN funcs_ THEN funcs_
                  ELSE Set(funcs_, it.n, [fn |-> f, ty |-> it.ty])

\* A variable of ty bits holds v.
Stored(v, ty) == v % 2^ty

\* LLVM renames a new variable whose symbol is taken; the new name is the
\* declared name's own, since a name is declared once.
VariableFor(it) ==
  IF \E g \in DOMAIN vars_ : g.sym = it.sym /\ g.own = NoInit
  THEN [sym |-> it.sym, own |-> it.n] ELSE [sym |-> it.sym, own |-> NoInit]

\* tryConstInit: the initialiser is a constant, the variable starts with it.
Folds(it) == it.k = "var" /\ it.init # NoInit /\ it.init.const

\* The first declaration makes the variable; a definition after an extern
\* declaration gives it storage, of the type first declared.
declareGlobal(it) ==
  IF it.n \notin DOMAIN globals_
  THEN /\ globals_' = Set(globals_, it.n, [gv |-> VariableFor(it), ty |-> it.ty])
       /\ vars_' = Set(vars_, VariableFor(it),
                       [stored |-> it.k = "var",
                        init |-> IF Folds(it) THEN Stored(it.init.v, it.ty) ELSE 0])
       /\ folded' = IF Folds(it) THEN folded \cup {pos} ELSE folded
  ELSE /\ vars_' = IF it.k = "var" THEN [vars_ EXCEPT ![globals_[it.n].gv].stored = TRUE] ELSE vars_
       /\ UNCHANGED <<globals_, folded>>

Declare ==
  /\ pass = "declare" /\ pos <= Len(items)
  /\ LET it == items[pos]
     IN \/ IsFunc(it) /\ declareFunc(it) /\ UNCHANGED <<globals_, vars_, folded>>
        \/ IsGlobal(it) /\ declareGlobal(it)
           /\ UNCHANGED <<mod_, uniq_, bodyDeclared_, declToFn_, funcs_>>
        \/ IsStmt(it) /\ UNCHANGED <<mod_, uniq_, bodyDeclared_, declToFn_, funcs_,
                                     globals_, vars_, folded>>
  /\ pos' = pos + 1
  /\ UNCHANGED <<items, pass, startup_, uses, errors>>

EndDeclare ==
  /\ pass = "declare" /\ pos > Len(items)
  /\ pass' = "walk" /\ pos' = 1
  /\ UNCHANGED <<items, mod_, vars_, uniq_, bodyDeclared_, declToFn_, funcs_, globals_, folded,
                 startup_, uses, errors>>

\* The walk does not rebind the name.
Rebind_Never(it) == UNCHANGED funcs_

\* The name is bound to the function and the type of this item from here on.
Rebind(it) == funcs_' = Set(funcs_, it.n, [fn |-> declToFn_[pos], ty |-> it.ty])

\* An item that declares a function; a body is added to the function of the
\* item, whatever it has already.
WalkFunc(it) ==
  /\ IsFunc(it)
  /\ Rebind(it)
  /\ mod_' = IF it.k = "def" THEN [mod_ EXCEPT ![declToFn_[pos]].bodies = @ \cup {pos}] ELSE mod_
  /\ UNCHANGED <<startup_, uses, errors>>

\* genCall of a name: "undefined function", or a call of what the name is bound to.
WalkCall(it) ==
  /\ it.k = "call"
  /\ IF it.n \in DOMAIN funcs_
     THEN LET c == genCallTo(funcs_[it.n].ty, it.args)
          IN /\ uses' = Set(uses, pos, [fn |-> funcs_[it.n].fn, vals |-> c.vals])
             /\ errors' = IF c.bad THEN errors \cup {pos} ELSE errors
     ELSE errors' = errors \cup {pos} /\ UNCHANGED uses
  /\ UNCHANGED <<funcs_, mod_, startup_>>

\* A use of, or an assignment to, a variable; "undefined symbol".
WalkUse(it) ==
  /\ it.k \in {"read", "store"}
  /\ IF it.n \in DOMAIN globals_
     THEN LET g == globals_[it.n]
          IN /\ startup_' = Append(startup_,
                   [gv |-> g.gv, at |-> pos, v |-> IF it.k = "store" THEN Stored(it.v, g.ty) ELSE NoInit])
             /\ uses' = Set(uses, pos, g)
             /\ UNCHANGED errors
     ELSE errors' = errors \cup {pos} /\ UNCHANGED <<startup_, uses>>
  /\ UNCHANGED <<funcs_, mod_>>

\* A later duplicate does not initialise the variable again.
Initialises_First(it) == it.init # NoInit /\ pos \notin folded
                           /\ \A i \in 1..(pos - 1) : items[i].n # it.n

\* The initialiser is still there: it was not folded in the pre-pass.
Initialises(it) == it.init # NoInit /\ pos \notin folded

\* A dynamic initialiser runs at its position, with the type of the variable.
WalkGlobal(it) ==
  /\ IsGlobal(it)
  /\ startup_' = IF Initialises(it)
                 THEN LET g == globals_[it.n]
                      IN Append(startup_, [gv |-> g.gv, at |-> pos, v |-> Stored(it.init.v, g.ty)])
                 ELSE startup_
  /\ UNCHANGED <<funcs_, mod_, uses, errors>>

Walk ==
  /\ pass = "walk" /\ pos <= Len(items)
  /\ LET it == items[pos]
     IN WalkFunc(it) \/ WalkCall(it) \/ WalkUse(it) \/ WalkGlobal(it)
  /\ pos' = pos + 1
  /\ UNCHANGED <<items, pass, vars_, uniq_, bodyDeclared_, declToFn_, globals_, folded>>

\* The startup function is complete.
Finish ==
  /\ pass = "walk" /\ pos > Len(items)
  /\ pass' = "done"
  /\ UNCHANGED <<items, pos, mod_, vars_, uniq_, bodyDeclared_, declToFn_, funcs_, globals_,
                 folded, startup_, uses, errors>>

Empty == [x \in {} |-> 0]

Init ==
  /\ (\E i \in DOMAIN Families : items \in Families[i]) /\ pass = "declare" /\ pos = 1
  /\ mod_ = Empty /\ vars_ = Empty /\ uniq_ = 0 /\ bodyDeclared_ = {}
  /\ declToFn_ = Empty /\ funcs_ = Empty /\ globals_ = Empty /\ folded = {}
  /\ startup_ = <<>> /\ uses = Empty /\ errors = {}

Next == \/ Declare \/ EndDeclare \/ Walk \/ Finish
        \/ pass = "done" /\ UNCHANGED vars

Spec == Init /\ [][Next]_vars

-----------------------------------------------------------------------------
(* Properties *)

Positions    == 1..Len(items)
Defs(n)      == {i \in Positions : items[i].k = "def" /\ items[i].n = n}
Decls(n)     == {i \in Positions : IsFunc(items[i]) /\ items[i].n = n}
OfSymbol(s)  == {i \in Positions : IsFunc(items[i]) /\ items[i].sym = s}
Before(S, p) == {i \in S : i < p}
Last(S)      == CHOOSE i \in S : \A j \in S : j <= i
First(S)     == CHOOSE i \in S : \A j \in S : i <= j

\* The definitions whose bodies the function called at p has been given.
Runs(p) == mod_[uses[p].fn].bodies

Calls == {p \in DOMAIN uses : items[p].k = "call"}

\* Whatever is declared again, every definition gets a function of its own and
\* every function at most one body (genFuncBody on declToFn_).
OneBodyEach ==
  pass = "done" =>
    \A i \in Positions : items[i].k = "def" => mod_[declToFn_[i]].bodies = {i}

\* A call runs the newest definition above it, when that is the last thing said
\* of the name above it: a duplicate overshadows from its position on.
NewestDefinitionRuns ==
  pass = "done" =>
    \A p \in Calls : LET B == Before(Decls(items[p].n), p)
                     IN B # {} /\ Last(B) \in Defs(items[p].n) => Runs(p) = {Last(B)}

\* A call with no definition of its name above it runs, when the first that is
\* said of the name is its definition, that one, and else the first definition of
\* the symbol the name was declared for, as long as that symbol has one type:
\* extern is the forward reference, _extern binds another name.
ForwardCallRunsFirst ==
  pass = "done" =>
    \A p \in Calls :
      LET n == items[p].n
          i == First(Decls(n))
          s == items[i].sym
          D == {j \in OfSymbol(s) : items[j].k = "def"}
      IN /\ D # {} /\ Before(Defs(n), p) = {}
         /\ \A j \in Decls(n) : items[j].sym = s
         /\ \A j, k \in OfSymbol(s) : llvmFnType(items[j].ty) = llvmFnType(items[k].ty)
         => Runs(p) = {IF items[i].k = "def" THEN i ELSE First(D)}

\* What the program says of the arguments of a call, ty the declaration in force.
Meant(ty, args, k) ==
  IF k <= Len(args) /\ args[k].given THEN args[k].v
  ELSE IF ty.ps[k].dflt.k # "lastclass" THEN ty.ps[k].dflt
  ELSE Text(IF k = 1 THEN "I64"
            ELSE IF k - 1 <= Len(args) /\ args[k - 1].given THEN args[k - 1].v.cls
            ELSE IF ty.ps[k - 1].dflt.k = "lastclass" THEN "U8" ELSE ty.ps[k - 1].dflt.cls)

Accepts(ty, args) ==
  /\ \A k \in 1..Len(args) : IF k > Len(ty.ps) THEN ty.va /\ args[k].given
                             ELSE args[k].given \/ ty.ps[k].dflt.k # "none"
  /\ \A k \in 1..Len(ty.ps) : k > Len(args) => ty.ps[k].dflt.k # "none"

\* v as the parameter of a body declared with type ty.
Arrived(ty, a) ==
  LET i == IF a.k = "f64" THEN a.x \div 2 ELSE a.x
  IN IF a.k = "str" THEN a.x
     ELSE IF ty = "F64" THEN IF a.k = "i64" THEN 2 * a.x ELSE a.x
     ELSE IF ty = "U8" THEN i % 2^NarrowBits
     ELSE i

\* A call is refused exactly when an argument is missing that has no default or
\* there are too many.  Otherwise the body that runs finds in each parameter the
\* argument written at its place or the default of the declaration in force at
\* the call, in the type the body declared, and in argc and argv the others,
\* whichever prototypes, aliases and definitions brought call and body together.
\* (A declaration with ... and a body with two more parameters have one LLVM
\* type: such a body is given argc and argv.)
ArgumentsArrive ==
  pass = "done" =>
    \A p \in Calls :
      LET n    == items[p].n
          B    == Before(Decls(n), p)
          ty   == items[IF B = {} THEN First(Decls(n)) ELSE Last(B)].ty
          args == items[p].args
          m    == Len(ty.ps)
      IN /\ p \in errors <=> ~Accepts(ty, args)
         /\ p \notin errors =>
              \A d \in Runs(p) :
                items[d].ty.va = ty.va =>
                LET b == genFuncBody(items[d].ty, uses[p].vals)
                IN /\ \A k \in 1..m : b.params[k].x = Arrived(items[d].ty.ps[k].ty, Meant(ty, args, k))
                   /\ b.argc = (IF Len(args) > m THEN Len(args) - m ELSE 0)
                   /\ \A k \in 1..b.argc : b.argv[k].x = args[m + k].v.x

\* The items that give a variable a value.
Gives(it) == it.k = "store" \/ (IsGlobal(it) /\ it.init # NoInit)

\* What the load at p yields when the startup function runs.
Loaded(p) ==
  LET j == CHOOSE i \in 1..Len(startup_) : startup_[i].at = p
      W == {i \in 1..(j - 1) : startup_[i].gv = startup_[j].gv /\ startup_[i].v # NoInit}
  IN IF W = {} THEN vars_[startup_[j].gv].init ELSE startup_[Last(W)].v

\* A variable that is defined anywhere has storage, whichever of its extern
\* declarations and definitions comes first, and a use of it reads what the
\* nearest assignment or initialiser above it gave it, in the type declared
\* first: a constant initialiser holds from the start, every other one, those of
\* later duplicates included, from its position on.  (A variable that is
\* assigned to above its first declaration is left out: its constant
\* initialiser is not repeated.)
ReadsNewestValue ==
  pass = "done" =>
    \A p \in Positions :
      LET n == items[p].n
          D == {i \in Positions : IsGlobal(items[i]) /\ items[i].n = n}
          d == items[First(D)]
          W == {i \in Positions : items[i].n = n /\ Gives(items[i])}
          V(i) == (IF items[i].k = "store" THEN items[i].v ELSE items[i].init.v) % 2^d.ty
      IN /\ items[p].k = "read"
         /\ \E i \in D : items[i].k = "var"
         /\ Folds(d) => \A i \in W : i >= First(D)
         => /\ p \in DOMAIN uses /\ vars_[uses[p].gv].stored
            /\ Loaded(p) = IF Before(W, p) # {} THEN V(Last(Before(W, p)))
                           ELSE IF Folds(d) THEN d.init.v % 2^d.ty
                           ELSE 0
=============================================================================
