---------------------------- MODULE Expressions ----------------------------
(***************************************************************************)
(* One expression language, parsed twice and evaluated four times:         *)
(*   - CondEval (src/src/lexer.cpp) reads and evaluates the tokens of an   *)
(*     #if line at once;                                                   *)
(*   - parseLor..parsePrimary (src/src/parser.cpp) make a tree of them;    *)
(*   - evalConstI64 (parser.cpp) evaluates the tree of an array dimension; *)
(*   - evalConst (src/src/codegen.cpp) that of a case value or of the      *)
(*     initialiser of a global;                                            *)
(*   - genExpr, arith, cmp and the rest (codegen.cpp) emit the code that   *)
(*     evaluates it when the program runs.                                 *)
(*                                                                         *)
(* The state is the line typed so far.  A token is a string; "(U64)" is a  *)
(* postfix cast, "pow" the backtick, Macro the name of a macro whose body  *)
(* is Body.  I64 is scaled to Width bits, I32 to half of them, and keep    *)
(* their wrap-around: the C++ arithmetic of the evaluators wraps where the *)
(* standard leaves it open.                                                *)
(* Left out: floating point, pointers, variables, calls, ++, --, defined().*)
(***************************************************************************)
EXTENDS Integers, SequencesExt, Bitwise

CONSTANTS
  Width,     \* 64: the bits of an I64
  Literals,  \* token of an integer literal -> its value
  Macro,     \* the token of a macro name
  Body,      \* the tokens #define gave it
  UnaryToks, \* the prefix operators typed
  BinaryToks,\* the binary operators typed
  CastToks,  \* the casts typed
  MaxToks    \* bound: the tokens of a line

ASSUME WidthAssumption == Width \in {2^k : k \in 1..6}
ASSUME BodyAssumption == Body # <<>>

VARIABLE toks

Rel       == {"<", ">", "<=", ">="}
PrefixOps == {"!", "~", "-", "+", "*", "&"}
Casts     == {"(U64)", "(I32)", "(U32)"}

Wrap(n)     == ((n + 2^(Width - 1)) % 2^Width) - 2^(Width - 1)
Unsigned(v) == v % 2^Width
Bool(b)     == IF b THEN 1 ELSE 0

-----------------------------------------------------------------------------
(* The operators of int64_t as the host computes them.                      *)

MagnitudeOf(n) == IF n < 0 THEN -n ELSE n
Quot(a, b) == LET q == MagnitudeOf(a) \div MagnitudeOf(b) IN IF (a < 0) = (b < 0) THEN q ELSE -q
Remainder(a, b) == a - b * Quot(a, b)

\* while (b-- > 0) r *= a;
RECURSIVE Power(_, _)
Power(a, b) == IF b <= 0 THEN 1 ELSE Wrap(a * Power(a, b - 1))

HostUnary(op, v) ==
  CASE op = "-" -> Wrap(-v)
    [] op = "+" -> v
    [] op = "~" -> -v - 1
    [] op = "!" -> Bool(v = 0)

HostBinary(op, a, b) ==
  CASE op = "+"  -> Wrap(a + b)
    [] op = "-"  -> Wrap(a - b)
    [] op = "*"  -> Wrap(a * b)
    [] op = "/"  -> Quot(a, b)
    [] op = "%"  -> Remainder(a, b)
    [] op = "&"  -> Wrap(Unsigned(a) & Unsigned(b))
    [] op = "|"  -> Wrap(Unsigned(a) | Unsigned(b))
    [] op = "^"  -> Wrap(Unsigned(a) ^^ Unsigned(b))
    [] op = "<<" -> Wrap(a * 2^b)
    [] op = ">>" -> a \div 2^b
    [] op = "pow"  -> Power(a, b)
    [] op = "==" -> Bool(a = b)
    [] op = "!=" -> Bool(a # b)
    [] op = "<"  -> Bool(a < b)
    [] op = ">"  -> Bool(a > b)
    [] op = "<=" -> Bool(a <= b)
    [] op = ">=" -> Bool(a >= b)
    [] op = "&&" -> Bool(a # 0 /\ b # 0)
    [] op = "||" -> Bool(a # 0 \/ b # 0)
    [] op = "^^" -> Bool((a # 0) # (b # 0))

Divides(op) == op \in {"/", "%"}
Shifts(op)  == op \in {"<<", ">>"}

\* INT64_MIN / -1, which the host cannot compute.
Overflows(op, a, b) == Divides(op) /\ b = -1 /\ a = Wrap(2^(Width - 1))

-----------------------------------------------------------------------------
(* CondEval: a reading of t up to before position i has the value v, err is *)
(* set or not; ub: the host's result is undefined.                          *)

\* The tiers of C, where & ^ and | bind less than + and -.
CondTiers_OfC ==
  << {"||"}, {"^^"}, {"&&"}, {"|"}, {"^"}, {"&"}, {"==", "!="}, Rel, {"+", "-"},
     {"*", "/", "%"}, {"<<", ">>", "pow"} >>

\* expr, tierLXor, ..., tier1: the operators each one loops on.
CondTiers ==
  << {"||"}, {"^^"}, {"&&"}, {"==", "!="}, Rel, {"+", "-"}, {"|"}, {"^"}, {"&"},
     {"*", "/", "%"}, {"<<", ">>", "pow"} >>

Reading(v, i, err, ub) == [v |-> v, i |-> i, err |-> err, ub |-> ub]

IsAt(t, i, S) == i <= Len(t) /\ t[i] \in S

\* A count outside 0..Width-1 is undefined; a zero divisor is an error.
CondApply(op, a, b) ==
  LET ub == \/ Shifts(op) /\ b.v \notin 0..(Width - 1)
            \/ Overflows(op, a.v, b.v)
      zero == Divides(op) /\ b.v = 0
  IN Reading(IF ub \/ zero THEN 0 ELSE HostBinary(op, a.v, b.v), b.i,
             a.err \/ b.err \/ zero, a.ub \/ b.ub \/ ub)

RECURSIVE CondTier(_, _, _), CondLoop(_, _, _), CondUnary(_, _), CondPrimary(_, _)

\* The errors of a macro's body are dropped with its evaluator, sub.
CondPrimary(t, i) ==
  CASE IsAt(t, i, DOMAIN Literals) -> Reading(Literals[t[i]], i + 1, FALSE, FALSE)
    [] IsAt(t, i, {Macro}) ->
         LET sub == CondTier(Body, 1, 1) IN Reading(sub.v, i + 1, FALSE, sub.ub)
    [] IsAt(t, i, {"("}) ->
         LET r == CondTier(t, 1, i + 1)
         IN IF IsAt(t, r.i, {")"}) THEN [r EXCEPT !.i = @ + 1] ELSE [r EXCEPT !.err = TRUE]
    [] OTHER -> Reading(0, i, TRUE, FALSE)

CondUnary(t, i) ==
  IF IsAt(t, i, {"-", "+", "!", "~"})
  THEN LET r == CondUnary(t, i + 1) IN [r EXCEPT !.v = HostUnary(t[i], @)]
  ELSE CondPrimary(t, i)

CondLoop(t, n, r) ==
  IF IsAt(t, r.i, CondTiers[n])
  THEN CondLoop(t, n, CondApply(t[r.i], r, CondTier(t, n + 1, r.i + 1)))
  ELSE r

CondTier(t, n, i) ==
  IF n > Len(CondTiers) THEN CondUnary(t, i) ELSE CondLoop(t, n, CondTier(t, n + 1, i))

\* bad: a diagnostic is given.
evalCondExpr(t) ==
  IF t = <<>> THEN [v |-> 0, bad |-> TRUE, ub |-> FALSE]
  ELSE LET r == CondTier(t, 1, 1)
       IN [v |-> r.v, bad |-> r.err \/ r.i # Len(t) + 1, ub |-> r.ub]

-----------------------------------------------------------------------------
(* The parser.  A tree has a kind, what is written at its root, and kids; a *)
(* parse ends before position i.                                            *)

Node(k, x, kids)   == [k |-> k, x |-> x, kids |-> kids]
Parsed(e, i, err)  == [e |-> e, i |-> i, err |-> err]

\* + and - bind more than | and ^ and &, as in C.
Tiers_OfC ==
  << {"||"}, {"^^"}, {"&&"}, {"==", "!="}, Rel, {"|"}, {"^"}, {"&"}, {"+", "-"},
     {"*", "/", "%"}, {"pow", "<<", ">>"} >>

\* parseLor, parseLxor, ..., parsePow: the operators each one loops on.
Tiers ==
  << {"||"}, {"^^"}, {"&&"}, {"==", "!="}, Rel, {"+", "-"}, {"|"}, {"^"}, {"&"},
     {"*", "/", "%"}, {"pow", "<<", ">>"} >>

RECURSIVE parseTier(_, _, _), binaryLoop(_, _, _), parseRel(_, _, _), parseUnary(_, _),
          parsePostfix(_, _)

parsePrimary(t, i) ==
  CASE IsAt(t, i, DOMAIN Literals) -> Parsed(Node("lit", <<t[i]>>, <<>>), i + 1, FALSE)
    [] IsAt(t, i, {"("}) ->
         LET r == parseTier(t, 1, i + 1)
         IN IF IsAt(t, r.i, {")"}) THEN [r EXCEPT !.i = @ + 1] ELSE [r EXCEPT !.err = TRUE]
    [] OTHER -> Parsed(Node("lit", <<"0">>, <<>>), IF i <= Len(t) THEN i + 1 ELSE i, TRUE)

parsePostfix(t, r) ==
  IF IsAt(t, r.i, Casts)
  THEN parsePostfix(t, [r EXCEPT !.e = Node("cast", <<t[r.i]>>, <<@>>), !.i = @ + 1])
  ELSE r

parseUnary(t, i) ==
  IF IsAt(t, i, PrefixOps)
  THEN LET r == parseUnary(t, i + 1) IN [r EXCEPT !.e = Node("unary", <<t[i]>>, <<@>>)]
  ELSE parsePostfix(t, parsePrimary(t, i))

binaryLoop(t, n, r) ==
  IF IsAt(t, r.i, Tiers[n])
  THEN LET s == parseTier(t, n + 1, r.i + 1)
       IN binaryLoop(t, n, Parsed(Node("binary", <<t[r.i]>>, <<r.e, s.e>>), s.i, r.err \/ s.err))
  ELSE r

\* The operands of a chain become the kids of one node.
parseRel(t, n, r) ==
  IF IsAt(t, r.i, Rel)
  THEN LET s == parseTier(t, n + 1, r.i + 1)
       IN parseRel(t, n, Parsed(Node("chain", Append(r.e.x, t[r.i]), Append(r.e.kids, s.e)),
                                s.i, r.err \/ s.err))
  ELSE r

parseTier(t, n, i) ==
  IF n > Len(Tiers) THEN parseUnary(t, i)
  ELSE LET first == parseTier(t, n + 1, i)
       IN IF Tiers[n] # Rel THEN binaryLoop(t, n, first)
          ELSE IF IsAt(t, first.i, Rel)
               THEN parseRel(t, n, [first EXCEPT !.e = Node("chain", <<>>, <<@>>)])
               ELSE first

\* What the parser reads: the lexer has expanded the macro.
Expanded(t) == FlattenSeq([i \in DOMAIN t |-> IF t[i] = Macro THEN Body ELSE <<t[i]>>])

\* ok: no diagnostic, and the caller finds the end of the expression.
Parse(t) == LET r == parseTier(t, 1, 1) IN [e |-> r.e, ok |-> ~r.err /\ r.i = Len(t) + 1]

-----------------------------------------------------------------------------
(* The constant evaluators.                                                 *)

Value(v) == [ok |-> TRUE, v |-> v]
NoValue  == [ok |-> FALSE, v |-> 0]

DimOps == {"+", "-", "*", "/", "%", "<<", ">>", "&", "|", "^", "pow"}

\* The mask is that of half the width.
ShiftCount_Half(n) == n % (Width \div 2)

\* c & 63
ShiftCount(n) == n % Width

\* A binary operator on the values of its operands.
Fold(op, a, b) ==
  IF ~a.ok \/ ~b.ok \/ (Divides(op) /\ b.v = 0) \/ Overflows(op, a.v, b.v) THEN NoValue
  ELSE Value(HostBinary(op, a.v, IF Shifts(op) THEN ShiftCount(b.v) ELSE b.v))

\* The bits of the type are kept, and the sign copied into the others.
FoldCast(ty, a) ==
  LET half == 2^(Width \div 2)
      v    == a.v % half
  IN IF ~a.ok \/ ty = "(U64)" THEN a
     ELSE Value(IF ty = "(I32)" /\ v >= half \div 2 THEN Wrap(v + (2^Width - half)) ELSE v)

FoldUnary(op, a) ==
  IF a.ok /\ op \in {"-", "+", "~", "!"} THEN Value(HostUnary(op, a.v)) ELSE NoValue

RECURSIVE evalConst(_), evalConstI64(_), genExpr(_)

evalConst(e) ==
  CASE e.k = "lit"    -> Value(Literals[e.x[1]])
    [] e.k = "cast"   -> FoldCast(e.x[1], evalConst(e.kids[1]))
    [] e.k = "unary"  -> FoldUnary(e.x[1], evalConst(e.kids[1]))
    [] e.k = "binary" -> Fold(e.x[1], evalConst(e.kids[1]), evalConst(e.kids[2]))
    [] OTHER          -> NoValue

evalConstI64(e) ==
  CASE e.k = "lit"    -> Value(Literals[e.x[1]])
    [] e.k = "unary"  -> FoldUnary(e.x[1], evalConstI64(e.kids[1]))
    [] e.k = "binary" /\ e.x[1] \in DimOps ->
         Fold(e.x[1], evalConstI64(e.kids[1]), evalConstI64(e.kids[2]))
    [] OTHER          -> NoValue

-----------------------------------------------------------------------------
(* The code.  An rvalue has a value, and u: its type is U64.  ok is false   *)
(* when running it traps, or reads memory.                                  *)

RV(v, u) == [ok |-> TRUE, v |-> v, u |-> u]
Trap     == [ok |-> FALSE, v |-> 0, u |-> FALSE]

\* Square and multiply.
RECURSIVE PowLoop(_, _, _)
PowLoop(r, base, e) ==
  IF e = 0 THEN r
  ELSE PowLoop(IF e % 2 = 1 THEN Wrap(r * base) ELSE r, Wrap(base * base), e \div 2)

HC_PowI64(base, e) == IF e < 0 THEN 0 ELSE PowLoop(1, base, e)

truthy(a) == a.v # 0

\* A narrow type: trunc, then zext or sext.
convert(a, ty) ==
  LET half == 2^(Width \div 2)
  IN CASE ty = "(U64)" -> RV(a.v, TRUE)
       [] ty = "(U32)" -> RV(a.v % half, FALSE)
       [] ty = "(I32)" -> RV(((a.v + half \div 2) % half) - half \div 2, FALSE)

genUnary(op, a) ==
  CASE ~a.ok \/ op \in {"*", "&"} -> Trap
    [] op = "!" -> RV(Bool(~truthy(a)), FALSE)
    [] op = "~" -> RV(Wrap(Unsigned(a.v) ^^ (2^Width - 1)), FALSE)
    [] op = "-" -> RV(Wrap(-a.v), a.u)
    [] op = "+" -> a

arith(op, a, b) ==
  LET uns == a.u \/ b.u
      Count == Unsigned(b.v) & (Width - 1)
  IN CASE op \in {"+", "-", "*", "&", "|", "^"} -> RV(HostBinary(op, a.v, b.v), uns)
       [] Divides(op) /\ b.v = 0 -> Trap
       [] op = "/" /\ uns -> RV(Wrap(Unsigned(a.v) \div Unsigned(b.v)), TRUE)
       [] op = "%" /\ uns -> RV(Wrap(Unsigned(a.v) % Unsigned(b.v)), TRUE)
       [] Overflows(op, a.v, b.v) -> Trap
       [] Divides(op) -> RV(HostBinary(op, a.v, b.v), FALSE)
       [] op = "<<" -> RV(Wrap(a.v * 2^Count), uns)
       [] op = ">>" -> RV(IF a.u THEN Wrap(Unsigned(a.v) \div 2^Count) ELSE a.v \div 2^Count, uns)
       [] op = "pow"  -> RV(HC_PowI64(a.v, b.v), FALSE)

cmp(op, a, b) ==
  IF a.u \/ b.u THEN HostBinary(op, Unsigned(a.v), Unsigned(b.v)) = 1
  ELSE HostBinary(op, a.v, b.v) = 1

\* prev is compared with the next operand; the first comparison that fails is
\* the last one made.
RECURSIVE genChainCmp(_, _, _)
genChainCmp(e, i, prev) ==
  LET cur == genExpr(e.kids[i + 1])
      c   == cmp(e.x[i], prev, cur)
  IN CASE ~cur.ok -> Trap
       [] i = Len(e.x) -> RV(Bool(c), FALSE)
       [] i < Len(e.x) /\ ~c -> RV(0, FALSE)
       [] OTHER -> genChainCmp(e, i + 1, cur)

\* The right operand is evaluated only if the left one does not decide.
genShortCircuit(op, a, right) ==
  IF truthy(a) = (op = "||") THEN RV(Bool(op = "||"), FALSE)
  ELSE LET c == genExpr(right) IN IF c.ok THEN RV(Bool(truthy(c)), FALSE) ELSE Trap

genBinary(op, a, right) ==
  IF op \in {"&&", "||"} THEN genShortCircuit(op, a, right)
  ELSE LET c == genExpr(right)
       IN CASE ~c.ok -> Trap
            [] op = "^^" -> RV(Bool(truthy(a) # truthy(c)), FALSE)
            [] op \in {"==", "!="} -> RV(Bool(cmp(op, a, c)), FALSE)
            [] OTHER -> arith(op, a, c)

genExpr(e) ==
  IF e.k = "lit" THEN RV(Literals[e.x[1]], FALSE)
  ELSE LET a == genExpr(e.kids[1])
       IN CASE e.k = "unary" -> genUnary(e.x[1], a)
            [] ~a.ok -> Trap
            [] e.k = "cast" -> convert(a, e.x[1])
            [] e.k = "chain" -> genChainCmp(e, 1, a)
            [] OTHER -> genBinary(e.x[1], a, e.kids[2])

-----------------------------------------------------------------------------
(* The lines: an operand is expected, or the rest of an expression.          *)

Operands == DOMAIN Literals \cup {Macro}
Opened(t)  == Len(SelectSeq(t, LAMBDA x : x = "("))
Closed(t)  == Len(SelectSeq(t, LAMBDA x : x = ")"))
EndsOperand(t) == t # <<>> /\ Last(t) \in Operands \cup Casts \cup {")"}

Room == Len(toks) < MaxToks /\ Closed(toks) <= Opened(toks)

TypeOperand ==
  /\ Room /\ ~EndsOperand(toks)
  /\ \E x \in Operands \cup UnaryToks \cup {"("} : toks' = Append(toks, x)

\* Also a ) that nothing opened, after which the line ends.
TypeRest ==
  /\ Room /\ EndsOperand(toks)
  /\ \E x \in BinaryToks \cup CastToks \cup {")"} : toks' = Append(toks, x)

Init == toks = <<>>

Next == TypeOperand \/ TypeRest

Spec == Init /\ [][Next]_toks

-----------------------------------------------------------------------------
(* Properties *)

\* The precedences of the language, tightest first (README.md:89-91).
Table ==
  << {"pow", ">>", "<<"}, {"*", "/", "%"}, {"&"}, {"^"}, {"|"}, {"+", "-"}, Rel,
     {"==", "!="}, {"&&"}, {"^^"}, {"||"} >>

Level(x) == CHOOSE n \in DOMAIN Table : x \in Table[n]
BinOps   == UNION Range(Table)

\* The operators of t outside parentheses that stand after an operand.
TopOps(t) ==
  {i \in 2..Len(t) : /\ t[i] \in BinOps /\ EndsOperand(SubSeq(t, 1, i - 1))
                     /\ Opened(SubSeq(t, 1, i)) = Closed(SubSeq(t, 1, i))}

\* The tree the table gives a well-formed line: it is split at the last of its
\* loosest operators, and at all of them when they are relational.
RECURSIVE TreeOf(_)
TreeOf(t) ==
  LET ops  == TopOps(t)
      top  == {i \in ops : \A j \in ops : Level(t[j]) <= Level(t[i])}
      last == CHOOSE i \in top : \A j \in top : j <= i
      cuts == <<0>> \o SetToSortSeq(top, <) \o <<Len(t) + 1>>
  IN CASE ops = {} /\ Len(t) = 1 -> Node("lit", t, <<>>)
       [] ops = {} /\ t[1] \in PrefixOps -> Node("unary", <<t[1]>>, <<TreeOf(Tail(t))>>)
       [] ops = {} /\ Last(t) \in Casts -> Node("cast", <<Last(t)>>, <<TreeOf(Front(t))>>)
       [] ops = {} /\ t[1] = "(" /\ Len(t) > 1 -> TreeOf(Tail(Front(t)))
       [] ops # {} /\ t[last] \in Rel ->
            Node("chain", [k \in 1..(Len(cuts) - 2) |-> t[cuts[k + 1]]],
                 [k \in 1..(Len(cuts) - 1) |-> TreeOf(SubSeq(t, cuts[k] + 1, cuts[k + 1] - 1))])
       [] OTHER -> Node("binary", <<t[last]>>,
                        <<TreeOf(SubSeq(t, 1, last - 1)), TreeOf(SubSeq(t, last + 1, Len(t)))>>)

\* The tiers of the parser accept exactly the lines that end in an operand with
\* every parenthesis matched, and give each the tree that the documented
\* precedences and the chaining of comparisons give it.
PrecedenceTable ==
  LET t == Expanded(toks)
      p == Parse(t)
  IN /\ p.ok <=> EndsOperand(t) /\ Opened(t) = Closed(t)
     /\ p.ok => p.e = TreeOf(t)

RECURSIVE Subtrees(_)
Subtrees(e) == {e} \cup UNION {Subtrees(e.kids[i]) : i \in DOMAIN e.kids}

\* A U64 and a value with the sign bit meet where the sign decides.
SignDecides(e) ==
  \E s \in Subtrees(e) :
    /\ s.k = "binary" /\ s.x[1] \in {"/", "%", ">>"}
    /\ \E k \in Range(s.kids) : genExpr(k).u
    /\ \E k \in Range(s.kids) : genExpr(k).v < 0
NegativePower(e) ==
  \E s \in Subtrees(e) : s.k = "binary" /\ s.x = <<"pow">> /\ genExpr(s.kids[2]).v < 0

\* An expression has one value: what evalConst makes of a case value or of an
\* initialiser is what the emitted code would compute, and an array dimension
\* that evalConstI64 accepts has the value evalConst gives it.  Apart: a U64 with
\* the sign bit divided or shifted, for evalConst sees through the cast, and a
\* power with a negative exponent.
FoldsAgree ==
  LET p == Parse(Expanded(toks))
      c == evalConst(p.e)
      d == evalConstI64(p.e)
  IN p.ok /\ ~SignDecides(p.e) /\ ~NegativePower(p.e) =>
       /\ c.ok => genExpr(p.e).ok /\ genExpr(p.e).v = c.v
       /\ d.ok => c = d

\* The #if evaluator, which has a parser of its own, is the parser and the code
\* in one: it finds fault with a line exactly if the parser does, or it has a
\* cast or an address operator, or some division in it is by zero; and the value
\* of any other line is the one the code computes.  Apart: chains, which it does
\* not know, shifts out of range and powers with a negative exponent.
CondAgrees ==
  LET p == Parse(Expanded(toks))
      r == evalCondExpr(toks)
      Foreign == \E s \in Subtrees(p.e) : s.k = "cast" \/ (s.k = "unary" /\ s.x[1] \in {"*", "&"})
      ByZero  == \E s \in Subtrees(p.e) : s.k = "binary" /\ Divides(s.x[1]) /\ genExpr(s.kids[2]) = RV(0, FALSE)
      Chained == \E s \in Subtrees(p.e) : s.k = "chain" /\ Len(s.x) > 1
  IN /\ ~p.ok => r.bad
     /\ p.ok /\ ~Chained /\ ~r.ub /\ ~NegativePower(p.e) =>
          /\ r.bad <=> Foreign \/ ByZero
          /\ ~r.bad => r.v = genExpr(p.e).v
=============================================================================
