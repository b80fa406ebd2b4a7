--------------------------- MODULE SwitchLowering ---------------------------
(***************************************************************************)
(* genSwitch, genCaseLabel, genSubStart and genSubEnd                      *)
(* (src/src/codegen.cpp): the basic blocks made for a switch with ranges,  *)
(* null cases and sub_switch groups (start: porch, cases, end: porch).     *)
(*                                                                         *)
(* The body of the switch is a sequence of labels, statements and breaks;  *)
(* a statement is the position it stands at.  I64 is scaled to MinI..MaxI  *)
(* and keeps its wrap-around.                                              *)
(***************************************************************************)
EXTENDS Integers, Sequences

CONSTANTS
  Bodies,    \* the switch bodies to consider
  MaxI,      \* I64_MAX
  MaxRange,  \* 100000: the widest case range accepted
  Null       \* the value of a case without a number

ASSUME IntAssumption == MaxI \in Nat

MinI == -MaxI - 1

ASSUME NullAssumption == Null \notin MinI..MaxI

\* What a body is made of; a case with a first value has a last one.
Item == [k : {"case", "badcase", "default", "start", "end", "break", "stmt"},
         lo : MinI..MaxI \cup {Null}, hi : MinI..MaxI \cup {Null}]

ASSUME BodiesAssumption ==
  /\ Bodies \subseteq Seq(Item)
  /\ \A body \in Bodies : \A i \in DOMAIN body : body[i].hi = Null => body[i].lo = Null

VARIABLES
  items,    \* the statements of the body
  pos,      \* the next one
  phase,    \* "gen", "done" or "endless" (the range loop never ends)
  bbs,      \* the basic blocks: [code, sel, term]
  cur,      \* the insert point
  swc,      \* the SwitchCtx
  hadError_ \* a diagnostic was given

vars == <<items, pos, phase, bbs, cur, swc, hadError_>>

Wrap(n) == ((n - MinI) % (MaxI - MinI + 1)) + MinI

\* A block has the statements of the program in it and the case id it stores in
\* groupSel, which no block reads before its end.
None       == [k |-> "none"]
NoSel      == -1
Goto(to)   == [k |-> "br", to |-> to]
EmptyBlock == [code |-> <<>>, sel |-> NoSel, term |-> None]
Dispatch   == 1
ExitBB     == 2
NoBlock    == 0

\* The block i gets a branch, unless it ends in a jump already.
Br(bs, i, to) == IF bs[i].term = None THEN [bs EXCEPT ![i].term = Goto(to)] ELSE bs

Emit(bs, i, p) == [bs EXCEPT ![i].code = Append(@, p)]
Remember(bs, i, id) == [bs EXCEPT ![i].sel = id]

-----------------------------------------------------------------------------
NextCase(hi) == Wrap(hi + 1)

TooLarge(lo, hi) == hi < lo \/ Wrap(hi - lo) > MaxRange

\* The case's dispatch stub does not remember the case.
Stub_Forgets(id, porch) == [code |-> <<>>, sel |-> NoSel, term |-> Goto(porch)]

Stub(id, porch) == [code |-> <<>>, sel |-> id, term |-> Goto(porch)]

\* The first case of a group ends the porch with the dispatch on groupSel; a
\* later one is fallen into.  The values of the case lead to a stub, which
\* stores the id and runs the porch.
GroupCase(lo, hi, next) ==
  LET bb   == Len(bbs) + 1
      stub == Len(bbs) + 2
      id   == swc.nextGroupId
      opens == swc.groupSw = NoBlock /\ bbs[cur].term = None
      sw   == IF opens THEN cur ELSE swc.groupSw
      from == IF opens THEN [bbs EXCEPT ![cur].term = [k |-> "sw", cases |-> <<>>, dflt |-> bb]]
              ELSE IF swc.groupSw # NoBlock THEN Br(bbs, cur, bb) ELSE bbs
      made == from \o <<EmptyBlock, Stub(id, swc.groupStartBB)>>
  IN /\ bbs' = IF sw = NoBlock THEN made
               ELSE [made EXCEPT ![sw].term.cases = Append(@, <<id, bb>>)]
     /\ swc' = [swc EXCEPT !.cases = @ \o [v \in 1..(hi - lo + 1) |-> <<lo + v - 1, stub>>],
                           !.groupSw = sw, !.nextGroupId = @ + 1,
                           !.nextCaseVal = next]
     /\ cur' = bb

PlainCase(lo, hi, next) ==
  LET bb == Len(bbs) + 1
  IN /\ bbs' = Append(Br(bbs, cur, bb), EmptyBlock)
     /\ swc' = [swc EXCEPT !.cases = @ \o [v \in 1..(hi - lo + 1) |-> <<lo + v - 1, bb>>],
                           !.nextCaseVal = next]
     /\ cur' = bb

\* case lo...hi:, case lo:, case:, and a case whose value is no constant.  The
\* loop over the range counts past hi: at MaxI that is undefined, and it ends
\* after MaxI or never.
genCaseLabel(it) ==
  LET lo  == IF it.lo = Null THEN swc.nextCaseVal ELSE it.lo
      hi  == IF it.lo = Null THEN lo ELSE it.hi
      bad == TooLarge(lo, hi)
      top == IF bad THEN lo ELSE hi
  IN /\ it.k \in {"case", "badcase"}
     /\ hadError_' = (hadError_ \/ bad \/ it.k = "badcase")
     /\ IF swc.inGroup THEN GroupCase(lo, top, NextCase(hi)) ELSE PlainCase(lo, top, NextCase(hi))
     /\ phase' \in IF top = MaxI THEN {"gen", "endless"} ELSE {"gen"}

DefaultLabel(it) ==
  LET bb == Len(bbs) + 1
  IN /\ it.k = "default"
     /\ bbs' = Append(Br(bbs, cur, bb), EmptyBlock)
     /\ cur' = bb
     /\ hadError_' = (hadError_ \/ swc.inGroup)
     /\ swc' = IF swc.inGroup THEN swc ELSE [swc EXCEPT !.dflt = bb]
     /\ UNCHANGED phase

\* Falling into the porch from above goes on to the first case of the group.
genSubStart(it) ==
  LET porch == Len(bbs) + 1
      endBB == Len(bbs) + 2
  IN /\ it.k = "start"
     /\ \/ /\ swc.inGroup
           /\ hadError_' = TRUE /\ UNCHANGED <<bbs, cur, swc>>
        \/ /\ ~swc.inGroup
           /\ bbs' = Br(Remember(bbs, cur, 0), cur, porch) \o <<EmptyBlock, EmptyBlock>>
           /\ cur' = porch
           /\ swc' = [swc EXCEPT !.inGroup = TRUE, !.groupStartBB = porch, !.groupEndBB = endBB,
                                 !.groupSw = NoBlock, !.nextGroupId = 0]
           /\ UNCHANGED hadError_
     /\ UNCHANGED phase

\* The last case of the group does not lead to the end porch.
LeaveGroup_NoBranch == bbs

LeaveGroup == Br(bbs, cur, swc.groupEndBB)

genSubEnd(it) ==
  /\ it.k = "end"
  /\ \/ /\ ~swc.inGroup
        /\ hadError_' = TRUE /\ UNCHANGED <<bbs, cur, swc>>
     \/ /\ swc.inGroup
        /\ bbs' = LeaveGroup
        /\ cur' = swc.groupEndBB
        /\ swc' = [swc EXCEPT !.inGroup = FALSE]
        /\ UNCHANGED hadError_
  /\ UNCHANGED phase

\* genStmt of a break: inside a group it leads to the end porch.
Break(it) ==
  /\ it.k = "break"
  /\ bbs' = Append([bbs EXCEPT ![cur].term = Goto(IF swc.inGroup THEN swc.groupEndBB ELSE ExitBB)],
                   EmptyBlock)
  /\ cur' = Len(bbs) + 1
  /\ UNCHANGED <<swc, hadError_, phase>>

\* genStmt of a statement that does not jump.
Statement(it) ==
  /\ it.k = "stmt"
  /\ bbs' = Emit(bbs, cur, pos)
  /\ UNCHANGED <<cur, swc, hadError_, phase>>

\* The statements before the first case go to a dead block.
Init ==
  /\ items \in Bodies /\ pos = 1 /\ phase = "gen" /\ hadError_ = FALSE
  /\ bbs = <<[EmptyBlock EXCEPT !.term = [k |-> "switch"]], EmptyBlock, EmptyBlock>> /\ cur = 3
  /\ swc = [cases |-> <<>>, dflt |-> ExitBB, inGroup |-> FALSE, groupStartBB |-> NoBlock,
            groupEndBB |-> NoBlock, groupSw |-> NoBlock, nextGroupId |-> 0, nextCaseVal |-> 0]

genItem ==
  /\ phase = "gen" /\ pos <= Len(items)
  /\ LET it == items[pos]
     IN \/ genCaseLabel(it) \/ DefaultLabel(it) \/ genSubStart(it) \/ genSubEnd(it)
        \/ Break(it) \/ Statement(it)
  /\ pos' = pos + 1 /\ UNCHANGED items

Finish ==
  /\ phase = "gen" /\ pos > Len(items)
  /\ hadError_' = (hadError_ \/ swc.inGroup)
  /\ bbs' = Br(bbs, cur, ExitBB)
  /\ cur' = ExitBB /\ phase' = "done"
  /\ UNCHANGED <<items, pos, swc>>

Next == \/ genItem \/ Finish
        \/ phase # "gen" /\ UNCHANGED vars

Spec == Init /\ [][Next]_vars

-----------------------------------------------------------------------------
(* What the blocks do: the statements run when the switch is given v. *)

Lookup(cases, v, dflt) ==
  IF \E c \in 1..Len(cases) : cases[c][1] = v
  THEN cases[CHOOSE c \in 1..Len(cases) : cases[c][1] = v][2] ELSE dflt

\* The block b is run with groupSel = sel.
RunBlock(r) ==
  LET block == bbs[r.b]
      sel   == IF block.sel = NoSel THEN r.sel ELSE block.sel
      term  == block.term
  IN [b   |-> IF term.k = "br" THEN term.to ELSE Lookup(term.cases, sel, term.dflt),
      sel |-> sel,
      out |-> r.out \o block.code]

Exec(v) ==
  LET R[k \in 0..(Len(bbs) + 2)] ==
        IF k = 0 THEN [b |-> Lookup(swc.cases, v, swc.dflt), sel |-> NoSel, out |-> <<>>]
        ELSE LET r == R[k - 1] IN IF r.b = ExitBB THEN r ELSE RunBlock(r)
  IN R[Len(bbs) + 2].out

-----------------------------------------------------------------------------
(* What the switch means. *)

At(k)   == {i \in 1..Len(items) : items[i].k = k}
Group(i) == {s \in At("start") : s < i /\ \A e \in At("end") : ~(s < e /\ e < i)}
EndOf(s) == CHOOSE e \in At("end") : e > s /\ \A f \in At("end") : f > s => e <= f

\* The greatest value of the cases up to i; a case without a number is one more, in I64.
HiOf == LET H[i \in 0..Len(items)] ==
              IF i = 0 THEN -1
              ELSE IF items[i].k # "case" THEN H[i - 1]
              ELSE IF items[i].lo = Null THEN Wrap(H[i - 1] + 1) ELSE items[i].hi
        IN H
Values(i) == IF items[i].lo = Null THEN {HiOf[i]} ELSE items[i].lo..items[i].hi

\* The statements run from item p on: a break leads behind the end: of its
\* group, or out of the switch.
From == LET F[p \in 1..(Len(items) + 1)] ==
              IF p > Len(items) THEN <<>>
              ELSE CASE items[p].k = "stmt" -> <<p>> \o F[p + 1]
                     [] items[p].k = "break" ->
                          IF Group(p) = {} THEN <<>>
                          ELSE F[EndOf(CHOOSE s \in Group(p) : TRUE) + 1]
                     [] OTHER -> F[p + 1]
        IN F

\* The statements of the items s + 1..n.
StmtsIn(s, n) ==
  LET P[p \in s..n] ==
        IF p = s THEN <<>> ELSE IF items[p].k = "stmt" THEN Append(P[p - 1], p) ELSE P[p - 1]
  IN P[n]

\* The porch of the group that starts at s, up to its first break or else to the
\* first case, and then the case at i of the group.
Porch(s, i) ==
  LET first == CHOOSE c \in At("case") : c > s /\ \A d \in At("case") : d > s => c <= d
      jumps == {p \in (s + 1)..(first - 1) : items[p].k = "break"}
  IN IF jumps = {} THEN StmtsIn(s, first - 1) \o From[i]
     ELSE LET j == CHOOSE p \in jumps : \A q \in jumps : p <= q
          IN StmtsIn(s, j) \o From[EndOf(s) + 1]

Meaning(v) ==
  IF \E i \in At("case") : v \in Values(i)
  THEN LET i == CHOOSE i \in At("case") : v \in Values(i)
       IN IF Group(i) = {} THEN From[i] ELSE Porch(CHOOSE s \in Group(i) : TRUE, i)
  ELSE IF At("default") # {} THEN From[CHOOSE d \in At("default") : \A e \in At("default") : e <= d]
  ELSE <<>>

-----------------------------------------------------------------------------
(* Properties *)

Accepted == phase = "done" /\ ~hadError_
Distinct == \A i, j \in At("case") : i # j => Values(i) \cap Values(j) = {}
Unique == \A c, d \in 1..Len(swc.cases) : swc.cases[c][1] = swc.cases[d][1] => c = d

\* Whatever value the switch is given, the blocks run the statements it means:
\* the right case, its fallthrough, the porch of its group before it, the end
\* porch after a break (genCaseLabel, genSubStart, genSubEnd).  Cases that are
\* distinct in the source, null cases and ranges counted out, stay distinct.
LoweringCorrect ==
  Accepted /\ Distinct => Unique /\ \A v \in MinI..MaxI : Exec(v) = Meaning(v)

\* verifyModule: every block but the one that follows the switch ends in a jump,
\* also the dead ones behind a break and the ones of an empty group.
BlocksTerminated == Accepted => \A b \in 1..Len(bbs) : b # ExitBB => bbs[b].term # None
=============================================================================
