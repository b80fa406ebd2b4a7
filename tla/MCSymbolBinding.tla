--------------------------- MODULE MCSymbolBinding ---------------------------
(* Three families of programs: every sequence of declarations, definitions and *)
(* calls of a function and of an alias of it, with two signatures; every       *)
(* sequence of declarations, initialisers, assignments and uses of a variable  *)
(* and of an alias of it, with two widths; and a call of a function with       *)
(* every signature of Sigs and every list of arguments, below or above a       *)
(* definition and a prototype whose defaults and narrow types may differ.      *)
EXTENDS SymbolBinding

CONSTANTS MaxFunLen, MaxVarLen, MaxArgs

Seqs(S, m) == [l \in 1..m |-> [1..l -> S]]

P(ty, dflt) == [ty |-> ty, dflt |-> dflt]
Half(x)     == [k |-> "f64", x |-> x, cls |-> "F64"]
None        == [k |-> "none"]
LastClass   == [k |-> "lastclass"]
Sig(ps, va) == [ret |-> "U8", ps |-> ps, va |-> va]
Returns(r)  == [ret |-> r, ps |-> <<>>, va |-> FALSE]

Arg(v)  == [given |-> TRUE, v |-> v]
Absent  == [given |-> FALSE, v |-> I64(0)]
ArgVals == {Absent, Arg(I64(5)), Arg(Half(5)),
            Arg([k |-> "i64", x |-> 2, cls |-> "CTask"])}

Fun(k, n, sym, ty) == [k |-> k, n |-> n, sym |-> sym, ty |-> ty]
Call(n, args)      == [k |-> "call", n |-> n, args |-> args]

Plain    == {Returns("I64"), Returns("F64")}
FunItems == {Fun(k, "F", "F", ty) : k \in {"proto", "def"}, ty \in Plain}
              \cup {Fun(k, "G", "F", Returns("I64")) : k \in {"proto", "def"}}
              \cup {Call("F", <<>>), Call("G", <<>>)}

Var(k, n, sym, ty, init) == [k |-> k, n |-> n, sym |-> sym, ty |-> ty, init |-> init]
Inits    == {NoInit, [v |-> 1, const |-> TRUE], [v |-> 3, const |-> FALSE]}
VarItems == {Var("extern", "v", "v", ty, NoInit) : ty \in {1, 2}}
              \cup {Var("extern", "v", "v", 1, [v |-> 3, const |-> TRUE])}
              \cup {Var("var", "v", "v", ty, i) : ty \in {1, 2}, i \in Inits}
              \cup {Var("extern", "w", "v", 2, NoInit), [k |-> "store", n |-> "v", v |-> 2],
                    [k |-> "store", n |-> "w", v |-> 1], [k |-> "read", n |-> "v"]}

Sigs == {Sig(<<P("I64", None)>>, FALSE), Sig(<<P("F64", I64(1))>>, FALSE),
         Sig(<<P("U8", None), P("I64", I64(3))>>, FALSE), Sig(<<P("I64", I64(7)), P("U8", None)>>, FALSE),
         Sig(<<P("I32", None), P("I64", LastClass)>>, FALSE),
         Sig(<<P("I64", LastClass), P("I64", LastClass)>>, FALSE),
         Sig(<<P("F64", Half(3)), P("I64", LastClass)>>, TRUE), Sig(<<P("U8", I64(6))>>, TRUE),
         Sig(<<>>, TRUE)}
Lists == UNION {[1..l -> ArgVals] : l \in 0..MaxArgs}
CallPrograms ==
  LET Proto(s) == Fun("proto", "F", "F", s)
      Def(s)   == Fun("def", "F", "F", s)
  IN << {<<Proto(s), Def(t), Call("F", a)>> : s \in Sigs, t \in Sigs, a \in Lists},
        {<<Proto(s), Call("F", a), Def(t)>> : s \in Sigs, t \in Sigs, a \in Lists},
        {<<Def(s), Proto(t), Call("F", a)>> : s \in Sigs, t \in Sigs, a \in Lists} >>

AllPrograms == Seqs(FunItems, MaxFunLen) \o Seqs(VarItems, MaxVarLen) \o CallPrograms
=============================================================================
