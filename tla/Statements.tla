----------------------------- MODULE Statements -----------------------------
(***************************************************************************)
(* genStmt, genIf, genWhile, genDoWhile, genFor, genReturn and finishFn    *)
(* (src/src/codegen.cpp): the basic blocks made for the body of a function *)
(* with loops, break, labels and goto.                                     *)
(*                                                                         *)
(* The body is read from left to right as the recursion of genStmt walks   *)
(* it; a construct is an item that opens it and one that closes it, and    *)
(* nest holds the local variables of the calls that are open.  An event is *)
(* a piece of code that runs: the part "run", "init", "cond" or "post" of  *)
(* the item at a position.  switch and try have modules of their own.      *)
(***************************************************************************)
EXTENDS Naturals, Sequences, FiniteSets

CONSTANTS
  Labels,   \* names of labels
  MaxItems  \* bound: the items of a body, else not counted

VARIABLES
  src,           \* history: the items read so far
  nest,          \* the constructs open: [k, p, back, end, other]
  bbs,           \* the basic blocks: [code, term]
  cur,           \* the insert point
  breaks,        \* the blocks that break leads to, one per open loop
  labels,        \* label -> its block
  labelsDefined, \* the labels met
  hadError_,     \* a diagnostic was given
  phase          \* "gen" or "done"

vars == <<src, nest, bbs, cur, breaks, labels, labelsDefined, hadError_, phase>>

Loops == {"while", "do", "for", "forever"}

None          == [k |-> "none", to |-> <<>>, p |-> 0]
To(b)         == [k |-> "br", to |-> <<b>>, p |-> 0]
Cond(p, b, c) == [k |-> "cond", to |-> <<b, c>>, p |-> p]
Ret           == [k |-> "ret", to |-> <<>>, p |-> 0]
EmptyBlock    == [code |-> <<>>, term |-> None]
Event(p, part) == [p |-> p, part |-> part]

Here == Len(src) + 1
N    == Len(bbs)

Br(bs, b, to) == [bs EXCEPT ![b].term = To(to)]

\* if (!GetInsertBlock()->getTerminator()) CreateBr(to)
BrIfOpen(bs, b, to) == IF bs[b].term = None THEN Br(bs, b, to) ELSE bs

Emit(bs, b, e) == [bs EXCEPT ![b].code = Append(@, e)]
Branch(bs, b, p, yes, no) == [bs EXCEPT ![b].term = Cond(p, yes, no)]

\* BasicBlock::Create, n times
Fresh(bs, n) == bs \o [i \in 1..n |-> EmptyBlock]

Read(x) == src' = Append(src, x)
Word(k) == [k |-> k, l |-> ""]

\* Under the bound, an item fits and so do those that close what is open after it.
Room(opened) ==
  /\ phase = "gen"
  /\ Len(SelectSeq(src, LAMBDA x : x.k # "else")) + 1 + Len(nest) + opened <= MaxItems

Open(k, back, end, other) ==
  nest' = Append(nest, [k |-> k, p |-> Here, back |-> back, end |-> end, other |-> other])

Top  == nest[Len(nest)]
Pop  == nest' = SubSeq(nest, 1, Len(nest) - 1)
PopBreak == breaks' = SubSeq(breaks, 1, Len(breaks) - 1)
Inside(k) == phase = "gen" /\ nest # <<>> /\ Top.k = k

-----------------------------------------------------------------------------
\* case St::Expr
Simple ==
  /\ Room(0) /\ Read(Word("stmt"))
  /\ bbs' = Emit(bbs, cur, Event(Here, "run"))
  /\ UNCHANGED <<nest, cur, breaks, labels, labelsDefined, hadError_, phase>>

\* Blocks: then, end and, if there is an else, else.
OpenIf(k) ==
  LET else == IF k = "ifelse" THEN N + 3 ELSE N + 2
  IN /\ Room(1) /\ Read(Word(k))
     /\ bbs' = Branch(Fresh(bbs, else - N), cur, Here, N + 1, else)
     /\ cur' = N + 1
     /\ Open(k, 0, N + 2, else)
     /\ UNCHANGED <<breaks, labels, labelsDefined, hadError_, phase>>

Else ==
  /\ Inside("ifelse") /\ Read(Word("else"))
  /\ bbs' = BrIfOpen(bbs, cur, Top.end)
  /\ cur' = Top.other
  /\ nest' = [nest EXCEPT ![Len(nest)].k = "if"]
  /\ UNCHANGED <<breaks, labels, labelsDefined, hadError_, phase>>

EndIf ==
  /\ Inside("if") /\ Read(Word("endif"))
  /\ bbs' = BrIfOpen(bbs, cur, Top.end)
  /\ cur' = Top.end /\ Pop
  /\ UNCHANGED <<breaks, labels, labelsDefined, hadError_, phase>>

\* Blocks: cond, body, end.
OpenWhile ==
  /\ Room(1) /\ Read(Word("while"))
  /\ bbs' = Branch(Br(Fresh(bbs, 3), cur, N + 1), N + 1, Here, N + 2, N + 3)
  /\ cur' = N + 2
  /\ Open("while", N + 1, N + 3, 0) /\ breaks' = Append(breaks, N + 3)
  /\ UNCHANGED <<labels, labelsDefined, hadError_, phase>>

EndWhile ==
  /\ Inside("while") /\ Read(Word("endwhile"))
  /\ bbs' = BrIfOpen(bbs, cur, Top.back)
  /\ cur' = Top.end /\ Pop /\ PopBreak
  /\ UNCHANGED <<labels, labelsDefined, hadError_, phase>>

\* Blocks: body, cond, end.
OpenDo ==
  /\ Room(1) /\ Read(Word("do"))
  /\ bbs' = Br(Fresh(bbs, 3), cur, N + 1)
  /\ cur' = N + 1
  /\ Open("do", N + 1, N + 3, N + 2) /\ breaks' = Append(breaks, N + 3)
  /\ UNCHANGED <<labels, labelsDefined, hadError_, phase>>

EndDo ==
  /\ Inside("do") /\ Read(Word("enddo"))
  /\ bbs' = Branch(BrIfOpen(bbs, cur, Top.other), Top.other, Here, Top.back, Top.end)
  /\ cur' = Top.end /\ Pop /\ PopBreak
  /\ UNCHANGED <<labels, labelsDefined, hadError_, phase>>

\* Blocks: cond, body, end; forever is a for without a condition.
OpenFor(k) ==
  /\ Room(1) /\ Read(Word(k))
  /\ LET bs == Br(Fresh(Emit(bbs, cur, Event(Here, "init")), 3), cur, N + 1)
     IN bbs' = IF k = "for" THEN Branch(bs, N + 1, Here, N + 2, N + 3) ELSE Br(bs, N + 1, N + 2)
  /\ cur' = N + 2
  /\ Open(k, N + 1, N + 3, 0) /\ breaks' = Append(breaks, N + 3)
  /\ UNCHANGED <<labels, labelsDefined, hadError_, phase>>

EndFor ==
  /\ Inside("for") \/ Inside("forever")
  /\ Read(Word("endfor"))
  /\ bbs' = IF bbs[cur].term = None THEN Br(Emit(bbs, cur, Event(Top.p, "post")), cur, Top.back) ELSE bbs
  /\ cur' = Top.end /\ Pop /\ PopBreak
  /\ UNCHANGED <<labels, labelsDefined, hadError_, phase>>

\* breaks.front() in place of breaks.back()
BreakTarget_Outermost == breaks[1]

BreakTarget == breaks[Len(breaks)]

\* The code after a jump goes to a block of its own, which nothing leads to.
Break ==
  /\ Room(0) /\ Read(Word("break"))
  /\ IF breaks = <<>> THEN hadError_' = TRUE /\ UNCHANGED <<bbs, cur>>
     ELSE /\ bbs' = Fresh(Br(bbs, cur, BreakTarget), 1)
          /\ cur' = N + 1
          /\ UNCHANGED hadError_
  /\ UNCHANGED <<nest, breaks, labels, labelsDefined, phase>>

\* getLabelBlock: the block of l, made now if nobody spoke of l before.
LabelBlock(l) == IF l \in DOMAIN labels THEN labels[l] ELSE N + 1
getLabelBlock(l) == labels' = [x \in DOMAIN labels \cup {l} |-> IF x = l THEN LabelBlock(l) ELSE labels[x]]

WithBlock(l) == IF l \in DOMAIN labels THEN bbs ELSE Fresh(bbs, 1)

Goto(l) ==
  /\ Room(0) /\ Read([k |-> "goto", l |-> l])
  /\ getLabelBlock(l)
  /\ bbs' = Fresh(Br(WithBlock(l), cur, LabelBlock(l)), 1)
  /\ cur' = Len(WithBlock(l)) + 1
  /\ UNCHANGED <<nest, breaks, labelsDefined, hadError_, phase>>

\* The test for a second definition is missing.
Duplicate_Never(l) == FALSE

Duplicate(l) == l \in labelsDefined

Label(l) ==
  /\ Room(0) /\ Read([k |-> "label", l |-> l])
  /\ IF Duplicate(l) THEN hadError_' = TRUE /\ UNCHANGED <<bbs, cur, labels, labelsDefined>>
     ELSE /\ getLabelBlock(l)
          /\ labelsDefined' = labelsDefined \cup {l}
          /\ bbs' = BrIfOpen(WithBlock(l), cur, LabelBlock(l))
          /\ cur' = LabelBlock(l)
          /\ UNCHANGED hadError_
  /\ UNCHANGED <<nest, breaks, phase>>

Return ==
  /\ Room(0) /\ Read(Word("return"))
  /\ bbs' = Fresh([bbs EXCEPT ![cur].term = Ret], 1)
  /\ cur' = N + 1
  /\ UNCHANGED <<nest, breaks, labels, labelsDefined, hadError_, phase>>

\* A label that was never met is an error, and its block returns.
finishFn ==
  /\ phase = "gen" /\ nest = <<>>
  /\ LET missing == {labels[l] : l \in DOMAIN labels \ labelsDefined}
     IN /\ bbs' = [b \in DOMAIN bbs |->
                     IF bbs[b].term = None /\ b \in missing \cup {cur}
                     THEN [bbs[b] EXCEPT !.term = Ret] ELSE bbs[b]]
        /\ hadError_' = (hadError_ \/ missing # {})
  /\ phase' = "done"
  /\ UNCHANGED <<src, nest, cur, breaks, labels, labelsDefined>>

Init ==
  /\ src = <<>> /\ nest = <<>> /\ bbs = <<EmptyBlock>> /\ cur = 1 /\ breaks = <<>>
  /\ labels = [l \in {} |-> 0] /\ labelsDefined = {} /\ hadError_ = FALSE /\ phase = "gen"

Next ==
  \/ Simple \/ Break \/ Return
  \/ \E l \in Labels : Goto(l) \/ Label(l)
  \/ \E k \in {"if", "ifelse"} : OpenIf(k)
  \/ Else \/ EndIf
  \/ OpenWhile \/ EndWhile \/ OpenDo \/ EndDo
  \/ \E k \in {"for", "forever"} : OpenFor(k)
  \/ EndFor
  \/ finishFn
  \/ phase = "done" /\ UNCHANGED vars

Spec == Init /\ [][Next]_vars

-----------------------------------------------------------------------------
(* Properties *)

TypeOK ==
  /\ phase \in {"gen", "done"} /\ hadError_ \in BOOLEAN
  /\ cur \in DOMAIN bbs /\ \A i \in DOMAIN breaks : breaks[i] \in DOMAIN bbs
  /\ labelsDefined \subseteq DOMAIN labels /\ DOMAIN labels \subseteq Labels
  /\ \A l \in DOMAIN labels : labels[l] \in DOMAIN bbs
  /\ \A b \in DOMAIN bbs : /\ bbs[b].term.k \in {"none", "br", "cond", "ret"}
                           /\ \A i \in DOMAIN bbs[b].term.to : bbs[b].term.to[i] \in DOMAIN bbs

\* The blocks that were made and will be moved to: the ends of what is open, the
\* else and the condition of a do, and the labels that a goto asked for.
Awaited ==
  {nest[i].end : i \in DOMAIN nest}
    \cup {nest[i].other : i \in {j \in DOMAIN nest : nest[j].k \in {"ifelse", "do"}}}
    \cup {labels[l] : l \in DOMAIN labels \ labelsDefined}

\* While code is generated, the blocks without a terminator are the insert point
\* and those that will be moved to, and the insert point is not one of these;
\* in the end every block has one, whatever was wrong with the program.
BlocksTerminated ==
  LET open == {b \in DOMAIN bbs : bbs[b].term = None}
  IN IF phase = "gen" THEN open = Awaited \cup {cur} /\ cur \notin Awaited ELSE open = {}

\* What the body means: from a place of the source, which is a part of an item,
\* to the next.  "go" is the moment an item is met.
Place(p, part) == [p |-> p, part |-> part]
Places == [p : 1..(Len(src) + 1), part : {"go", "run", "init", "cond", "post"}]

Opens(x)  == x.k \in Loops \cup {"if", "ifelse"}
Closes(x) == x.k \in {"endif", "endwhile", "enddo", "endfor"}
Depth(p)  == Cardinality({q \in 1..p : q <= Len(src) /\ Opens(src[q])})
               - Cardinality({q \in 1..(p - 1) : Closes(src[q])})
FirstOf(S) == CHOOSE p \in S : \A q \in S : p <= q
LastOf(S)  == CHOOSE p \in S : \A q \in S : p >= q

\* The item that closes the construct opened at p; the one that opens what p
\* closes; the else between.
CloserOf(p) == FirstOf({q \in (p + 1)..Len(src) : Closes(src[q]) /\ Depth(q) = Depth(p)})
OpenerOf(q) == LastOf({p \in 1..(q - 1) : Opens(src[p]) /\ Depth(p) = Depth(q)})
ElseOf(p)   == FirstOf({q \in (p + 1)..Len(src) : src[q].k = "else" /\ Depth(q) = Depth(p)})
LoopAround(p) == LastOf({q \in 1..(p - 1) : src[q].k \in Loops /\ CloserOf(q) > p})
LabelAt(l)  == FirstOf({q \in 1..Len(src) : src[q] = [k |-> "label", l |-> l]})

\* Places where nothing runs, and where they lead.
IsSilent(c) ==
  /\ c.p <= Len(src)
  /\ \/ c.part = "go" /\ src[c.p].k # "return"
     \/ c.part = "cond" /\ src[c.p].k = "forever"

Lead(c) ==
  LET p == c.p
      x == src[p]
  IN IF c.part = "cond" THEN Place(p + 1, "go")
     ELSE CASE x.k = "stmt" -> Place(p, "run")
            [] x.k \in {"if", "ifelse", "while", "enddo"} -> Place(p, "cond")
            [] x.k \in {"for", "forever"} -> Place(p, "init")
            [] x.k \in {"do", "label", "endif"} -> Place(p + 1, "go")
            [] x.k = "else" -> Place(CloserOf(p), "go")
            [] x.k = "endwhile" -> Place(OpenerOf(p), "go")
            [] x.k = "endfor" -> Place(OpenerOf(p), "post")
            [] x.k = "goto" -> Place(LabelAt(x.l), "go")
            [] x.k = "break" -> Place(CloserOf(LoopAround(p)) + 1, "go")

End  == Event(0, "end")
Spin == Event(0, "spin")

\* The event that happens next at place c; Spin if none ever does.
Steps == 3 * (Len(src) + 1)
Settled(c) ==
  LET f[n \in 0..Steps] ==
        [d \in Places |-> IF ~IsSilent(d) THEN (IF d.part = "go" THEN End ELSE d)
                          ELSE IF n = 0 THEN Spin ELSE f[n - 1][Lead(d)]]
  IN f[Steps][c]

\* After the event e, of which yes tells the outcome if it is a condition.
Then(e, yes) ==
  LET p == e.p
      x == src[p]
  IN CASE e.part = "run" -> Place(p + 1, "go")
       [] e.part \in {"init", "post"} -> Place(p, "cond")
       [] e.part = "cond" /\ yes -> Place(IF x.k = "enddo" THEN OpenerOf(p) + 1 ELSE p + 1, "go")
       [] e.part = "cond" /\ ~yes /\ x.k = "ifelse" -> Place(ElseOf(p) + 1, "go")
       [] e.part = "cond" /\ ~yes /\ x.k = "enddo" -> Place(p + 1, "go")
       [] OTHER -> Place(CloserOf(p) + 1, "go")

\* What the blocks do: the first event from block b on, and after an event.
Runs(b) ==
  LET f[n \in 0..Len(bbs)] ==
        [d \in DOMAIN bbs |->
           LET t == bbs[d].term
           IN CASE bbs[d].code # <<>> -> bbs[d].code[1]
                [] bbs[d].code = <<>> /\ t.k = "cond" -> Event(t.p, "cond")
                [] bbs[d].code = <<>> /\ t.k = "ret" -> End
                [] OTHER -> IF n = 0 THEN Spin ELSE f[n - 1][t.to[1]]]
  IN f[Len(bbs)][b]

RunsAfter(b, i) ==
  LET t == bbs[b].term
  IN CASE i < Len(bbs[b].code) -> bbs[b].code[i + 1]
       [] i = Len(bbs[b].code) /\ t.k = "cond" -> Event(t.p, "cond")
       [] i = Len(bbs[b].code) /\ t.k = "ret" -> End
       [] OTHER -> Runs(t.to[1])

\* In a body without errors the blocks do what the source says: the first thing
\* that runs, and the next after every piece of code and after both outcomes of
\* every condition, also in code that nothing leads to (genStmt and the rest).
LoweringFollows ==
  phase = "done" /\ ~hadError_ =>
    /\ Runs(1) = Settled(Place(1, "go"))
    /\ \A b \in DOMAIN bbs :
         /\ \A i \in DOMAIN bbs[b].code : RunsAfter(b, i) = Settled(Then(bbs[b].code[i], TRUE))
         /\ bbs[b].term.k = "cond" =>
              \A o \in {1, 2} :
                Runs(bbs[b].term.to[o]) = Settled(Then(Event(bbs[b].term.p, "cond"), o = 1))

\* An error is given exactly for a break outside a loop, a label defined twice
\* and a goto without a label (genStmt, finishFn).
ErrorsAreReal ==
  phase = "done" =>
    (hadError_ <=>
       \/ \E p \in DOMAIN src : src[p].k = "break" /\ ~\E q \in 1..(p - 1) : src[q].k \in Loops /\ CloserOf(q) > p
       \/ \E p, q \in DOMAIN src : p # q /\ src[p].k = "label" /\ src[p] = src[q]
       \/ \E p \in DOMAIN src : src[p].k = "goto"
                                /\ ~\E q \in DOMAIN src : src[q] = [k |-> "label", l |-> src[p].l])
=============================================================================
