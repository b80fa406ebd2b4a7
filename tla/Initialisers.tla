---------------------------- MODULE Initialisers ----------------------------
(***************************************************************************)
(* Initialisers of variables (src/src/codegen.cpp), on the layouts the     *)
(* class table gives.  A constant one becomes the bytes of a global or     *)
(* static variable while the module is made (tryConstInit, constBytes);    *)
(* any other is stored part by part by the emitted code (genInit,          *)
(* genInitList).  The two go through a type each in its own way.           *)
(*                                                                         *)
(* A type is [len, sz, cls]: an array of len, or none when len is 0, of a  *)
(* class or of integers of sz bytes.  An initialiser is an integer         *)
(* constant "int", an expression only the running program can evaluate     *)
(* "dyn", a string literal "str" or a list "list" of initialisers.  Memory *)
(* is a function from addresses to bytes, of Radix values each; a store    *)
(* outside the variable adds to its domain.  Floating point is left out.   *)
(***************************************************************************)
EXTENDS ClassTable, Integers

CONSTANTS
  Inits,         \* the initialisers to consider
  Radix,         \* the number of values of a byte, scaled
  WordSize,      \* sizeof(int64_t), scaled
  HalfWord,      \* the size of I32 and U32, scaled
  StrAddr,       \* the address of a string literal
  Unset,         \* what a local holds before anything is stored in it
  MaxInitDecls   \* bound on the declarations after which variables are made

Size(t) == (IF t.len = 0 THEN 1 ELSE t.len) * (IF t.cls = NoBase THEN t.sz ELSE info[t.cls].size)
Elem(t) == [t EXCEPT !.len = 0]

isAggregate(t) == t.len > 0 \/ t.cls # NoBase
IsText(t) == t.len > 0 /\ t.cls = NoBase /\ t.sz = 1

\* The members of the derived class come first.
Flat_DerivedFirst(i) ==
  LET F[j \in 0..Len(info)] == IF j = NoBase THEN <<>> ELSE info[j].members \o F[info[j].base]
  IN F[i]

\* collect: the members of a class, those of its bases before its own.
Flat(i) ==
  LET F[j \in 0..Len(info)] == IF j = NoBase THEN <<>> ELSE F[info[j].base] \o info[j].members
  IN F[i]

\* What the elements of an initialiser list go to, one after the other.
Parts(t) ==
  IF t.len > 0 THEN [k \in 1..t.len |-> [off |-> (k - 1) * Size(Elem(t)), ty |-> Elem(t)]]
  ELSE LET ms == Flat(t.cls) IN [k \in 1..Len(ms) |-> [off |-> ms[k].off, ty |-> ms[k].ty]]

Bytes(v, n) == [j \in 1..n |-> (v \div Radix^(j - 1)) % Radix]
Put(mem, off, bs) ==
  [a \in DOMAIN mem \cup {off + j - 1 : j \in DOMAIN bs} |->
     IF off <= a /\ a < off + Len(bs) THEN bs[a - off + 1] ELSE mem[a]]
Least(a, b) == IF a < b THEN a ELSE b

Filled(t, b) == [a \in 0..(Size(t) - 1) |-> b]

-----------------------------------------------------------------------------
Failed == [ok |-> FALSE]
Made(mem) == [ok |-> TRUE, mem |-> mem]

RECURSIVE constBytes(_, _, _, _)
constBytes(e, t, out, off) ==
  IF e.k # "list"
  THEN IF e.k = "int" THEN Made(Put(out, off, Bytes(e.v, Least(Size(t), WordSize)))) ELSE Failed
  ELSE IF ~isAggregate(t) \/ Len(e.kids) > Len(Parts(t)) THEN Failed
  ELSE LET parts == Parts(t)
           R[k \in 0..Len(e.kids)] ==
             IF k = 0 THEN Made(out)
             ELSE IF ~R[k - 1].ok THEN Failed
             ELSE constBytes(e.kids[k], parts[k].ty, R[k - 1].mem, off + parts[k].off)
       IN R[Len(e.kids)]

\* The constant a global or static variable starts with, if there is one.
tryConstInit(e, t) ==
  IF ~isAggregate(t)
  THEN CASE e.k = "str" -> Made(Put(Filled(t, 0), 0, Bytes(StrAddr, Size(t))))
         [] e.k = "int" -> Made(Put(Filled(t, 0), 0, Bytes(e.v, Size(t))))
         [] OTHER       -> Failed
  ELSE IF IsText(t) /\ e.k = "str"
  THEN Made([a \in 0..(Size(t) - 1) |-> IF a < Len(e.s) THEN e.s[a + 1] ELSE 0])
  ELSE IF e.k = "list" THEN constBytes(e, t, Filled(t, 0), 0) ELSE Failed

-----------------------------------------------------------------------------
\* The emitted stores: what is in memory after them, whether a diagnostic was
\* given, and whether bytes are copied from an address that is none.
Stores(mem) == [mem |-> mem, err |-> FALSE, wild |-> FALSE]

RECURSIVE genInit(_, _, _, _), genInitList(_, _, _, _)

genInit(e, t, s, off) ==
  IF e.k = "list"
  THEN genInitList(e, t, [s EXCEPT !.mem = Put(@, off, [j \in 1..Size(t) |-> 0])], off)
  ELSE IF IsText(t) /\ e.k = "str"
  THEN [s EXCEPT !.mem = Put(@, off, SubSeq(e.s \o <<0>>, 1, Least(Len(e.s) + 1, Size(t))))]
  ELSE IF isAggregate(t) THEN [s EXCEPT !.wild = TRUE]
  ELSE [s EXCEPT !.mem = Put(@, off, Bytes(IF e.k = "str" THEN StrAddr ELSE e.v, Size(t)))]

\* A list that is an element of a list is not preceded by a memset of its own.
genInitList(e, t, s, off) ==
  IF ~isAggregate(t) THEN [s EXCEPT !.err = TRUE]
  ELSE LET parts == Parts(t)
           n == Least(Len(e.kids), Len(parts))
           R[k \in 0..n] ==
             IF k = 0 THEN [s EXCEPT !.err = @ \/ Len(e.kids) > Len(parts)]
             ELSE LET kid == e.kids[k] IN
                  IF kid.k = "list"
                  THEN genInitList(kid, parts[k].ty, R[k - 1], off + parts[k].off)
                  ELSE genInit(kid, parts[k].ty, R[k - 1], off + parts[k].off)
       IN R[n]

-----------------------------------------------------------------------------
\* declareGlobal and the walk of CG::run: the constant, or stores into zeroes.
Global(e, t) ==
  LET c == tryConstInit(e, t)
  IN IF c.ok THEN Stores(c.mem) ELSE genInit(e, t, Stores(Filled(t, 0)), 0)

\* A 32-bit local has a slot of 64 bits; members and elements keep their size.
regSlotType(t) ==
  IF ~isAggregate(t) /\ t.sz = HalfWord THEN [t EXCEPT !.sz = WordSize] ELSE t

\* genVarDecl: stores into a fresh alloca.
Local(e, t) ==
  LET vt == regSlotType(t) IN genInit(e, vt, Stores(Filled(vt, Unset)), 0)

-----------------------------------------------------------------------------
(* Properties *)

\* An initialiser a type has room for: lists for aggregates, of no more elements
\* than there are parts, strings also for arrays of bytes, and an expression for
\* anything else.
RECURSIVE Suits(_, _)
Suits(e, t) ==
  IF e.k = "list"
  THEN /\ isAggregate(t) /\ Len(e.kids) <= Len(Parts(t))
       /\ \A k \in 1..Len(e.kids) : Suits(e.kids[k], Parts(t)[k].ty)
  ELSE ~isAggregate(t) \/ (IsText(t) /\ e.k = "str")

\* Nothing but complete types, and no union, went into the layout of t.
RECURSIVE Settled(_)
Settled(t) ==
  t.cls # NoBase =>
    /\ Sound(t.cls)
    /\ \A j \in Ancestors(t.cls) \cup {t.cls} :
         j \notin unions /\ \A k \in 1..Len(info[j].members) : Settled(info[j].members[k].ty)

\* What a variable of type t at off is meant to hold: the parts in the
\* order they lie in memory, each its own initialiser, and zeroes where there is
\* none.
RECURSIVE Holds(_, _, _, _)
Holds(e, t, mem, off) ==
  IF e.k = "list"
  THEN LET parts == Parts(t)
       IN \A k \in 1..Len(parts) :
            /\ k > 1 => parts[k - 1].off <= parts[k].off
            /\ IF k <= Len(e.kids) THEN Holds(e.kids[k], parts[k].ty, mem, off + parts[k].off)
               ELSE \A j \in 1..Size(parts[k].ty) : mem[off + parts[k].off + j - 1] = 0
  ELSE IF isAggregate(t)
  THEN \A j \in 1..Size(t) : mem[off + j - 1] = IF j <= Len(e.s) THEN e.s[j] ELSE 0
  ELSE \A j \in 1..Size(t) :
         mem[off + j - 1] = Bytes(IF e.k = "str" THEN StrAddr ELSE e.v, Size(t))[j]

Integer(n) == [len |-> 0, sz |-> n, cls |-> NoBase]

\* The types of the variables: each class, arrays of two of it, integers, an array
\* of them, text.
VarTypes == {[len |-> l, sz |-> 0, cls |-> i] : l \in {0, 2}, i \in {j \in Ids : info[j].complete}}
              \cup {Integer(n) : n \in {1, HalfWord, WordSize}}
              \cup {[Integer(HalfWord) EXCEPT !.len = 2], [Integer(1) EXCEPT !.len = 3]}

\* A variable that is given an initialiser it has room for holds in every part,
\* inherited ones included, what the initialiser says, whether the bytes were
\* made at compile time or stored by the program; no byte outside it is written;
\* and a local agrees with a global in every byte of the type, except that a string
\* literal leaves the rest of a local array unset.  A 32-bit local alone is a whole
\* word, and holds the initialiser untruncated.  An initialiser the type has no
\* room for is refused, or copies bytes from an address that is none.
InitialisersAgree ==
  ~hadError /\ decls <= MaxInitDecls =>
    \A t \in VarTypes : Settled(t) =>
      \A e \in Inits :
        LET g == Global(e, t)
            v == Local(e, t)
            slot == IF t = Integer(HalfWord) THEN WordSize ELSE Size(t)
        IN IF Suits(e, t)
           THEN /\ ~g.err /\ ~g.wild /\ ~v.err /\ ~v.wild
                /\ DOMAIN g.mem = 0..(Size(t) - 1) /\ DOMAIN v.mem = 0..(slot - 1)
                /\ Holds(e, t, g.mem, 0)
                /\ \A a \in DOMAIN g.mem :
                     v.mem[a] = IF e.k = "str" /\ isAggregate(t) /\ a > Len(e.s)
                                THEN Unset ELSE g.mem[a]
                /\ t = Integer(HalfWord) => Holds(e, Integer(WordSize), v.mem, 0)
           ELSE v.err \/ v.wild
=============================================================================
