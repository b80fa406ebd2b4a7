-------------------------- MODULE StatementsProofs --------------------------
(* For every body and every bound: the blocks, tables and stacks of genStmt  *)
(* refer to blocks that exist, finishFn leaves no block without a            *)
(* terminator, the errors reported are exactly the errors of the body, and   *)
(* a body without an error becomes blocks that run it in the order of its    *)
(* source, every loop, branch, break and goto included.                      *)
EXTENDS Statements, SeqLemmas, FiniteSetTheorems

Words == Loops \cup {"stmt", "break", "return", "if", "ifelse", "else"}
           \cup {"endif", "endwhile", "enddo", "endfor"}
Parts == {"run", "init", "cond", "post"}
Item  == {Word(x) : x \in Words} \cup {[k |-> "goto", l |-> x] : x \in Labels}
           \cup {[k |-> "label", l |-> x] : x \in Labels}
Code  == [p : Nat, part : Parts]
Term  == [k : {"none", "br", "cond", "ret"}, to : Seq(Nat), p : Nat]
Block == [code : Seq(Code), term : Term]
Frame == [k : Loops \cup {"if", "ifelse"}, p : Nat, back : Nat, end : Nat, other : Nat]

\* The blocks of bs that have no terminator yet.
OpenOf(bs) == {b \in DOMAIN bs : bs[b].term = None}

\* Every jump of bs leads to one of n blocks.
Targets(bs, n) == \A b \in DOMAIN bs : \A i \in DOMAIN bs[b].term.to : bs[b].term.to[i] \in 1..n

Within(t, n) == \A i \in DOMAIN t.to : t.to[i] \in 1..n

-----------------------------------------------------------------------------
(* What the builder's calls do to the blocks.                               *)

\* A terminator closes its block and no other.
LEMMA TermFacts ==
  ASSUME NEW bs \in Seq(Block), NEW b \in 1..Len(bs), NEW t \in Term, t.k # "none"
  PROVE  LET cs == [bs EXCEPT ![b].term = t]
         IN /\ cs \in Seq(Block) /\ Len(cs) = Len(bs)
            /\ OpenOf(cs) = OpenOf(bs) \ {b}
            /\ \A n \in Nat : Targets(bs, n) /\ Within(t, n) => Targets(cs, n)
<1> DEFINE cs == [bs EXCEPT ![b].term = t]
<1>0. bs[b] \in Block
  OBVIOUS
<1>1. cs \in Seq(Block) /\ Len(cs) = Len(bs) /\ DOMAIN cs = DOMAIN bs /\ DOMAIN bs = 1..Len(bs)
  <2>1. [bs[b] EXCEPT !.term = t] \in Block
    BY <1>0 DEF Block
  <2>2. cs = [bs EXCEPT ![b] = [bs[b] EXCEPT !.term = t]]
    OBVIOUS
  <2> QED BY <2>1, <2>2, UpdateFacts
<1>2. \A c \in DOMAIN bs : cs[c].term = IF c = b THEN t ELSE bs[c].term
  BY DEF Block
<1>3. t # None
  BY DEF None
<1>4. OpenOf(cs) = OpenOf(bs) \ {b}
  BY <1>1, <1>2, <1>3 DEF OpenOf
<1>5. ASSUME NEW n \in Nat, Targets(bs, n), Within(t, n) PROVE Targets(cs, n)
  BY <1>1, <1>2, <1>5 DEF Targets, Within
<1> QED BY <1>1, <1>4, <1>5

\* Code changes no terminator.
LEMMA EmitFacts ==
  ASSUME NEW bs \in Seq(Block), NEW b \in 1..Len(bs), NEW e \in Code
  PROVE  /\ Emit(bs, b, e) \in Seq(Block) /\ Len(Emit(bs, b, e)) = Len(bs)
         /\ OpenOf(Emit(bs, b, e)) = OpenOf(bs)
         /\ \A n \in Nat : Targets(bs, n) => Targets(Emit(bs, b, e), n)
<1> DEFINE cs == [bs EXCEPT ![b].code = Append(@, e)]
<1>0. bs[b] \in Block
  OBVIOUS
<1>1. cs \in Seq(Block) /\ Len(cs) = Len(bs) /\ DOMAIN cs = DOMAIN bs /\ DOMAIN bs = 1..Len(bs)
  <2>0. Append(bs[b].code, e) \in Seq(Code)
    <3>1. bs[b].code \in Seq(Code)
      BY <1>0 DEF Block
    <3> QED BY <3>1, AppendFacts
  <2>1. [bs[b] EXCEPT !.code = Append(@, e)] \in Block
    BY <1>0, <2>0 DEF Block
  <2>2. cs = [bs EXCEPT ![b] = [bs[b] EXCEPT !.code = Append(@, e)]]
    OBVIOUS
  <2> QED BY <2>1, <2>2, UpdateFacts
<1>2. \A c \in DOMAIN bs : cs[c].term = bs[c].term
  BY <1>0 DEF Block
<1>3. OpenOf(cs) = OpenOf(bs)
  BY <1>1, <1>2 DEF OpenOf
<1>4. \A n \in Nat : Targets(bs, n) => Targets(cs, n)
  BY <1>1, <1>2 DEF Targets
<1> QED BY <1>1, <1>3, <1>4 DEF Emit

\* New blocks are open and lead nowhere.
LEMMA FreshFacts ==
  ASSUME NEW bs \in Seq(Block), NEW n \in Nat
  PROVE  /\ Fresh(bs, n) \in Seq(Block) /\ Len(Fresh(bs, n)) = Len(bs) + n
         /\ OpenOf(Fresh(bs, n)) = OpenOf(bs) \cup (Len(bs) + 1)..(Len(bs) + n)
         /\ \A m \in Nat : Targets(bs, m) => Targets(Fresh(bs, n), m)
<1> DEFINE new == [i \in 1..n |-> EmptyBlock]
           cs == bs \o new
<1>1. EmptyBlock \in Block /\ EmptyBlock.term = None /\ None.to = <<>>
  BY DEF EmptyBlock, Block, Term, None
<1>2. new \in Seq(Block) /\ Len(new) = n
  BY <1>1
<1>3. cs \in Seq(Block) /\ Len(cs) = Len(bs) + n
  BY <1>2
<1>4. DOMAIN cs = 1..(Len(bs) + n) /\ DOMAIN bs = 1..Len(bs)
  BY <1>3
<1>5. \A c \in DOMAIN cs : cs[c] = IF c <= Len(bs) THEN bs[c] ELSE EmptyBlock
  BY <1>2, <1>4
<1>6. OpenOf(cs) = OpenOf(bs) \cup (Len(bs) + 1)..(Len(bs) + n)
  BY <1>1, <1>4, <1>5 DEF OpenOf
<1>7. \A m \in Nat : Targets(bs, m) => Targets(cs, m)
  BY <1>1, <1>4, <1>5 DEF Targets
<1> QED BY <1>3, <1>6, <1>7 DEF Fresh

\* More blocks make no target invalid.
LEMMA TargetsGrow ==
  ASSUME NEW bs \in Seq(Block), NEW n \in Nat, NEW m \in Nat, n <= m, Targets(bs, n)
  PROVE  Targets(bs, m)
BY DEF Targets

\* The terminators are what they are called.
LEMMA Terms ==
  ASSUME NEW p \in Nat, NEW b \in Nat, NEW c \in Nat
  PROVE  /\ To(b) \in Term /\ To(b).k # "none"
         /\ Cond(p, b, c) \in Term /\ Cond(p, b, c).k # "none"
         /\ Ret \in Term /\ Ret.k # "none"
         /\ \A n \in Nat : /\ b \in 1..n => Within(To(b), n)
                           /\ b \in 1..n /\ c \in 1..n => Within(Cond(p, b, c), n)
                           /\ Within(Ret, n)
BY DEF To, Cond, Ret, Term, Within

\* A branch from b to an existing block, made only if b is open.
LEMMA BrFacts ==
  ASSUME NEW bs \in Seq(Block), NEW b \in 1..Len(bs), NEW to \in 1..Len(bs)
  PROVE  /\ Br(bs, b, to) \in Seq(Block) /\ Len(Br(bs, b, to)) = Len(bs)
         /\ OpenOf(Br(bs, b, to)) = OpenOf(bs) \ {b}
         /\ Targets(bs, Len(bs)) => Targets(Br(bs, b, to), Len(bs))
         /\ b \in OpenOf(bs) => BrIfOpen(bs, b, to) = Br(bs, b, to)
<1>1. Len(bs) \in Nat /\ To(to) \in Term /\ To(to).k # "none" /\ Within(To(to), Len(bs))
  BY Terms
<1>2. b \in OpenOf(bs) => bs[b].term = None
  BY DEF OpenOf
<1> QED BY <1>1, <1>2, TermFacts DEF Br, BrIfOpen

\* A conditional branch from b.
LEMMA BranchFacts ==
  ASSUME NEW bs \in Seq(Block), NEW b \in 1..Len(bs), NEW p \in Nat,
         NEW yes \in 1..Len(bs), NEW no \in 1..Len(bs)
  PROVE  /\ Branch(bs, b, p, yes, no) \in Seq(Block) /\ Len(Branch(bs, b, p, yes, no)) = Len(bs)
         /\ OpenOf(Branch(bs, b, p, yes, no)) = OpenOf(bs) \ {b}
         /\ Targets(bs, Len(bs)) => Targets(Branch(bs, b, p, yes, no), Len(bs))
<1>1. /\ Len(bs) \in Nat /\ Cond(p, yes, no) \in Term /\ Cond(p, yes, no).k # "none"
      /\ Within(Cond(p, yes, no), Len(bs))
  BY Terms, SMTT(30)
<1> QED BY <1>1, TermFacts DEF Branch

\* n new blocks, with the targets valid for all of them.
LEMMA GrowFacts ==
  ASSUME NEW bs \in Seq(Block), NEW n \in Nat, Targets(bs, Len(bs))
  PROVE  /\ Fresh(bs, n) \in Seq(Block) /\ Len(Fresh(bs, n)) = Len(bs) + n
         /\ OpenOf(Fresh(bs, n)) = OpenOf(bs) \cup (Len(bs) + 1)..(Len(bs) + n)
         /\ Targets(Fresh(bs, n), Len(bs) + n)
<1>1. Len(bs) \in Nat /\ Len(bs) + n \in Nat /\ Len(bs) <= Len(bs) + n
  OBVIOUS
<1>2. Targets(bs, Len(bs) + n)
  BY <1>1, TargetsGrow
<1> QED BY <1>1, <1>2, FreshFacts

-----------------------------------------------------------------------------
(* The constructs that are open.                                            *)

HasOther(f) == f.k \in {"ifelse", "do"}

\* The blocks a frame will move to.
Own(f) == {f.end} \cup {b \in {f.other} : HasOther(f)}

\* The blocks that the frames of ns will move to.
Ahead(ns) ==
  {ns[i].end : i \in DOMAIN ns}
    \cup {ns[i].other : i \in {j \in DOMAIN ns : ns[j].k \in {"ifelse", "do"}}}

\* No two of them are the same.
Apart(ns) ==
  /\ \A i, j \in DOMAIN ns : i # j => Own(ns[i]) \cap Own(ns[j]) = {}
  /\ \A i \in DOMAIN ns : HasOther(ns[i]) => ns[i].other # ns[i].end

\* They, and what a loop returns to, are among n blocks.
FrameIn(f, n) ==
  /\ f.end \in 1..n
  /\ f.k \in Loops => f.back \in 1..n
  /\ HasOther(f) => f.other \in 1..n

FramesIn(ns, n) == \A i \in DOMAIN ns : FrameIn(ns[i], n)

\* What lies ahead, frame by frame.
LEMMA AheadIsOwn ==
  ASSUME NEW ns \in Seq(Frame)
  PROVE  \A b : b \in Ahead(ns) <=> \E i \in DOMAIN ns : b \in Own(ns[i])
BY DEF Ahead, Own, HasOther

\* A new construct adds its own blocks.
LEMMA PushFacts ==
  ASSUME NEW ns \in Seq(Frame), NEW f \in Frame, Apart(ns), Own(f) \cap Ahead(ns) = {},
         HasOther(f) => f.other # f.end
  PROVE  /\ Append(ns, f) \in Seq(Frame)
         /\ Apart(Append(ns, f))
         /\ Ahead(Append(ns, f)) = Ahead(ns) \cup Own(f)
         /\ \A n \in Nat : FramesIn(ns, n) /\ FrameIn(f, n) => FramesIn(Append(ns, f), n)
<1> DEFINE ms == Append(ns, f)
<1>1. /\ ms \in Seq(Frame) /\ DOMAIN ms = 1..(Len(ns) + 1) /\ DOMAIN ns = 1..Len(ns)
      /\ ms[Len(ns) + 1] = f /\ \A i \in 1..Len(ns) : ms[i] = ns[i]
  BY AppendFacts
<1>2. \A b : b \in Ahead(ms) <=> b \in Ahead(ns) \/ b \in Own(f)
  <2>1. ASSUME NEW b, b \in Ahead(ms) PROVE b \in Ahead(ns) \/ b \in Own(f)
    <3>1. PICK i \in DOMAIN ms : b \in Own(ms[i])
      BY <1>1, <2>1, AheadIsOwn
    <3>2. CASE i = Len(ns) + 1
      BY <1>1, <3>1, <3>2
    <3>3. CASE i \in DOMAIN ns
      BY <1>1, <3>1, <3>3, AheadIsOwn
    <3> QED BY <1>1, <3>2, <3>3
  <2>2. ASSUME NEW b, b \in Ahead(ns) PROVE b \in Ahead(ms)
    <3>1. PICK i \in DOMAIN ns : b \in Own(ns[i])
      BY <2>2, AheadIsOwn
    <3>2. i \in DOMAIN ms /\ b \in Own(ms[i])
      BY <1>1, <3>1
    <3> QED BY <1>1, <3>2, AheadIsOwn
  <2>3. ASSUME NEW b, b \in Own(f) PROVE b \in Ahead(ms)
    <3>1. Len(ns) + 1 \in DOMAIN ms /\ b \in Own(ms[Len(ns) + 1])
      BY <1>1, <2>3
    <3> QED BY <1>1, <3>1, AheadIsOwn
  <2> QED BY <2>1, <2>2, <2>3
<1>3. Apart(ms)
  <2>1. \A i \in DOMAIN ns : Own(ns[i]) \cap Own(f) = {}
    BY AheadIsOwn
  <2>2. ASSUME NEW i \in DOMAIN ms, NEW j \in DOMAIN ms, i # j
        PROVE  Own(ms[i]) \cap Own(ms[j]) = {}
    BY <1>1, <2>1, <2>2 DEF Apart
  <2>3. ASSUME NEW i \in DOMAIN ms, HasOther(ms[i]) PROVE ms[i].other # ms[i].end
    BY <1>1, <2>3 DEF Apart
  <2> QED BY <2>2, <2>3 DEF Apart
<1>4. \A n \in Nat : FramesIn(ns, n) /\ FrameIn(f, n) => FramesIn(ms, n)
  BY <1>1 DEF FramesIn
<1> QED BY <1>1, <1>2, <1>3, <1>4

\* The construct that ends takes its own blocks with it.
LEMMA PopFacts ==
  ASSUME NEW ns \in Seq(Frame), ns # <<>>, Apart(ns)
  PROVE  LET ms == SubSeq(ns, 1, Len(ns) - 1)
         IN /\ ms \in Seq(Frame)
            /\ Apart(ms)
            /\ Ahead(ms) = Ahead(ns) \ Own(ns[Len(ns)])
            /\ \A n \in Nat : FramesIn(ns, n) => FramesIn(ms, n)
<1> DEFINE ms == SubSeq(ns, 1, Len(ns) - 1)
<1>1. /\ Len(ns) \in Nat /\ Len(ns) > 0 /\ ms \in Seq(Frame)
      /\ DOMAIN ms = 1..(Len(ns) - 1) /\ DOMAIN ns = 1..Len(ns)
      /\ \A i \in 1..(Len(ns) - 1) : ms[i] = ns[i]
  BY PrefixFacts
<1>2. \A i \in DOMAIN ms : i \in DOMAIN ns /\ i # Len(ns) /\ ms[i] = ns[i]
  BY <1>1
<1>3. \A b : b \in Ahead(ms) <=> b \in Ahead(ns) /\ b \notin Own(ns[Len(ns)])
  <2>1. ASSUME NEW b, b \in Ahead(ms) PROVE b \in Ahead(ns) /\ b \notin Own(ns[Len(ns)])
    <3>1. PICK i \in DOMAIN ms : b \in Own(ns[i])
      BY <1>1, <1>2, <2>1, AheadIsOwn
    <3> QED BY <1>1, <1>2, <3>1, AheadIsOwn DEF Apart
  <2>2. ASSUME NEW b, b \in Ahead(ns), b \notin Own(ns[Len(ns)]) PROVE b \in Ahead(ms)
    <3>1. PICK i \in DOMAIN ns : b \in Own(ns[i])
      BY <2>2, AheadIsOwn
    <3>2. i \in DOMAIN ms /\ ms[i] = ns[i]
      BY <1>1, <2>2, <3>1
    <3> QED BY <1>1, <3>1, <3>2, AheadIsOwn
  <2> QED BY <2>1, <2>2
<1>4. Apart(ms)
  BY <1>2 DEF Apart
<1>5. \A n \in Nat : FramesIn(ns, n) => FramesIn(ms, n)
  BY <1>2 DEF FramesIn
<1> QED BY <1>1, <1>3, <1>4, <1>5

\* At its else, an if has only its end before it.
LEMMA ElseFacts ==
  ASSUME NEW ns \in Seq(Frame), ns # <<>>, ns[Len(ns)].k = "ifelse", Apart(ns)
  PROVE  LET ms == [ns EXCEPT ![Len(ns)].k = "if"]
         IN /\ ms \in Seq(Frame)
            /\ Apart(ms)
            /\ Ahead(ms) = Ahead(ns) \ {ns[Len(ns)].other}
            /\ \A n \in Nat : FramesIn(ns, n) => FramesIn(ms, n)
<1> DEFINE t  == Len(ns)
           g  == [ns[t] EXCEPT !.k = "if"]
           ms == [ns EXCEPT ![t].k = "if"]
<1>1. t \in 1..Len(ns) /\ DOMAIN ns = 1..Len(ns) /\ ns[t] \in Frame
  OBVIOUS
<1>2. /\ g \in Frame /\ g.k = "if" /\ g.end = ns[t].end /\ ~HasOther(g)
      /\ HasOther(ns[t])
  BY <1>1 DEF Frame, HasOther
<1>3. ms = [ns EXCEPT ![t] = g]
  OBVIOUS
<1>4. /\ ms \in Seq(Frame) /\ DOMAIN ms = DOMAIN ns /\ ms[t] = g
      /\ \A i \in DOMAIN ns : i # t => ms[i] = ns[i]
  BY <1>1, <1>2, <1>3, UpdateFacts
<1>5. Own(g) = {ns[t].end} /\ Own(ns[t]) = {ns[t].end, ns[t].other} /\ ns[t].other # ns[t].end
  BY <1>1, <1>2 DEF Own, Apart
<1>6. \A i \in DOMAIN ns : Own(ms[i]) \subseteq Own(ns[i]) /\ ns[t].other \notin Own(ms[i])
  BY <1>1, <1>4, <1>5 DEF Apart
<1>7. \A b : b \in Ahead(ms) <=> b \in Ahead(ns) /\ b # ns[t].other
  <2>1. ASSUME NEW b, b \in Ahead(ms) PROVE b \in Ahead(ns) /\ b # ns[t].other
    BY <1>4, <1>6, <2>1, AheadIsOwn
  <2>2. ASSUME NEW b, b \in Ahead(ns), b # ns[t].other PROVE b \in Ahead(ms)
    <3>1. PICK i \in DOMAIN ns : b \in Own(ns[i])
      BY <2>2, AheadIsOwn
    <3>2. b \in Own(ms[i])
      BY <1>4, <1>5, <2>2, <3>1
    <3> QED BY <1>4, <3>2, AheadIsOwn
  <2> QED BY <2>1, <2>2
<1>8. Apart(ms)
  <2>1. ASSUME NEW i \in DOMAIN ns, NEW j \in DOMAIN ns, i # j
        PROVE  Own(ms[i]) \cap Own(ms[j]) = {}
    BY <1>6, <2>1 DEF Apart
  <2>2. ASSUME NEW i \in DOMAIN ns, HasOther(ms[i]) PROVE ms[i].other # ms[i].end
    BY <1>2, <1>4, <2>2 DEF Apart
  <2> QED BY <1>4, <2>1, <2>2 DEF Apart
<1>9. ASSUME NEW n \in Nat, FramesIn(ns, n) PROVE FramesIn(ms, n)
  <2>1. FrameIn(g, n)
    BY <1>1, <1>2, <1>9 DEF FramesIn, FrameIn, Loops
  <2> QED BY <1>4, <1>9, <2>1 DEF FramesIn
<1> QED BY <1>4, <1>7, <1>8, <1>9

-----------------------------------------------------------------------------
(* The inductive invariant.                                                 *)

\* The blocks of the labels that a goto asked for and that were not met.
Pending == {labels[l] : l \in DOMAIN labels \ labelsDefined}

Flags  == src \in Seq(Item) /\ phase \in {"gen", "done"} /\ hadError_ \in BOOLEAN
Blocks == bbs \in Seq(Block) /\ Targets(bbs, Len(bbs)) /\ cur \in 1..Len(bbs)

StackIn(br, n) == br \in Seq(Nat) /\ \A i \in DOMAIN br : br[i] \in 1..n
NestIn(ns, n)  == ns \in Seq(Frame) /\ FramesIn(ns, n)
LabelsIn(n)    == /\ labelsDefined \subseteq DOMAIN labels /\ DOMAIN labels \subseteq Labels
                  /\ \A l \in DOMAIN labels : labels[l] \in 1..n

Typed ==
  Flags /\ Blocks /\ StackIn(breaks, Len(bbs)) /\ NestIn(nest, Len(bbs)) /\ LabelsIn(Len(bbs))

LabelsApart == \A l, m \in DOMAIN labels \ labelsDefined : l # m => labels[l] # labels[m]

\* The open blocks are the insert point, the ones ahead and the pending ones,
\* and each of these is only one of these.
Separate ==
  /\ OpenOf(bbs) = Ahead(nest) \cup Pending \cup {cur}
  /\ cur \notin Ahead(nest) \cup Pending
  /\ Ahead(nest) \cap Pending = {}
  /\ Apart(nest)
  /\ LabelsApart

IInv ==
  /\ Typed
  /\ phase = "gen" => Separate
  /\ phase = "done" => OpenOf(bbs) = {}

\* It holds at the beginning.
LEMMA InitIInv == Init => IInv
<1> SUFFICES ASSUME Init PROVE IInv
  OBVIOUS
<1>1. EmptyBlock \in Block /\ EmptyBlock.term = None /\ None.to = <<>>
  BY DEF EmptyBlock, Block, Term, None
<1>2. bbs \in Seq(Block) /\ Len(bbs) = 1 /\ DOMAIN bbs = {1} /\ bbs[1] = EmptyBlock
  BY <1>1 DEF Init
<1>3. Typed
  <2>1. NestIn(nest, Len(bbs)) /\ StackIn(breaks, Len(bbs)) /\ src \in Seq(Item)
    BY DEF Init, NestIn, FramesIn, StackIn
  <2>2. LabelsIn(Len(bbs))
    BY DEF Init, LabelsIn
  <2>3. hadError_ \in BOOLEAN /\ phase \in {"gen", "done"}
    BY DEF Init
  <2>4. Blocks
    BY <1>1, <1>2 DEF Init, Blocks, Targets
  <2> QED BY <2>1, <2>2, <2>3, <2>4, Zenon DEF Typed, Flags
<1>4. OpenOf(bbs) = {1}
  BY <1>1, <1>2 DEF OpenOf
<1>5. Pending = {} /\ Ahead(nest) = {} /\ Apart(nest) /\ LabelsApart
  BY DEF Init, Pending, Ahead, Apart, LabelsApart
<1>6. Separate
  BY <1>4, <1>5 DEF Init, Separate
<1> QED BY <1>3, <1>6 DEF IInv, Init

\* An item read is an item.
LEMMA ReadFacts ==
  ASSUME Typed
  PROVE  /\ \A x \in Words : Append(src, Word(x)) \in Seq(Item)
         /\ \A x \in Labels : Append(src, [k |-> "goto", l |-> x]) \in Seq(Item)
         /\ \A x \in Labels : Append(src, [k |-> "label", l |-> x]) \in Seq(Item)
         /\ Here \in Nat
         /\ \A part \in Parts : Event(Here, part) \in Code
<1>0. src \in Seq(Item)
  BY DEF Typed, Flags
<1>1. ASSUME NEW x \in Words PROVE Word(x) \in Item
  BY DEF Item
<1>2. ASSUME NEW x \in Labels
      PROVE  [k |-> "goto", l |-> x] \in Item /\ [k |-> "label", l |-> x] \in Item
  BY DEF Item
<1>3. Here \in Nat
  BY <1>0 DEF Here
<1> QED BY <1>0, <1>1, <1>2, <1>3, AppendFacts DEF Event, Code

\* A step that gives no diagnostic and does not end the function.
LEMMA KeepsFlags ==
  ASSUME Typed, src' \in Seq(Item), UNCHANGED <<hadError_, phase>>
  PROVE  Flags'
BY Zenon DEF Typed, Flags

\* The bounds of the tables hold for more blocks as well.
LEMMA Grow ==
  ASSUME Typed, NEW n \in Nat, Len(bbs) <= n
  PROVE  StackIn(breaks, n) /\ NestIn(nest, n) /\ LabelsIn(n)
<1>1. Len(bbs) \in Nat
  BY DEF Typed, Blocks
<1>2. \A b \in 1..Len(bbs) : b \in 1..n
  BY <1>1
<1>3. FramesIn(nest, n)
  BY <1>2 DEF Typed, NestIn, FramesIn, FrameIn
<1> QED BY <1>2, <1>3 DEF Typed, StackIn, NestIn, LabelsIn

\* What is ahead and what is pending are blocks of the function.
LEMMA AheadIn ==
  ASSUME Typed, Separate
  PROVE  /\ Ahead(nest) \subseteq 1..Len(bbs) /\ Pending \subseteq 1..Len(bbs)
         /\ N = Len(bbs) /\ N \in Nat /\ cur \in 1..N /\ cur \in OpenOf(bbs)
         /\ OpenOf(bbs) \subseteq 1..N
<1>1. OpenOf(bbs) \subseteq 1..Len(bbs) /\ Len(bbs) \in Nat /\ cur \in 1..Len(bbs)
  BY DEF Typed, Blocks, OpenOf
<1> QED BY <1>1 DEF Separate, N

\* The construct on top and its blocks.
LEMMA TopFacts ==
  ASSUME Typed, Separate, nest # <<>>
  PROVE  /\ Top = nest[Len(nest)] /\ Top \in Frame
         /\ Top.end \in 1..N /\ Top.end \in Own(Top)
         /\ (Top.k \in Loops => Top.back \in 1..N)
         /\ (HasOther(Top) => Top.other \in 1..N /\ Top.other \in Own(Top) /\ Top.other # Top.end)
         /\ Own(Top) \subseteq Ahead(nest)
<1>1. nest \in Seq(Frame) /\ Len(nest) \in DOMAIN nest /\ Top = nest[Len(nest)]
  BY DEF Typed, NestIn, Top
<1>2. FrameIn(Top, N) /\ Top \in Frame
  BY <1>1 DEF Typed, NestIn, FramesIn, N
<1>3. Own(Top) \subseteq Ahead(nest)
  BY <1>1, AheadIsOwn
<1>4. HasOther(Top) => Top.other # Top.end
  BY <1>1 DEF Separate, Apart
<1> QED BY <1>1, <1>2, <1>3, <1>4 DEF FrameIn, Own

\* What a step that leaves the labels alone has to show.
LEMMA Assemble ==
  ASSUME Typed, Separate, UNCHANGED <<labels, labelsDefined>>, phase' = "gen",
         Flags', Blocks', Len(bbs) <= Len(bbs'),
         StackIn(breaks', Len(bbs')), NestIn(nest', Len(bbs')), Apart(nest'),
         OpenOf(bbs') = Ahead(nest') \cup Pending \cup {cur'},
         cur' \notin Ahead(nest') \cup Pending,
         Ahead(nest') \cap Pending = {}
  PROVE  IInv'
<1>1. Len(bbs') \in Nat
  BY DEF Blocks
<1>2. LabelsIn(Len(bbs'))
  BY <1>1, Grow
<1>3. LabelsIn(Len(bbs))' /\ LabelsApart'
  BY <1>2 DEF LabelsIn, Separate, LabelsApart
<1>4. Pending' = Pending
  BY DEF Pending
<1>5. Typed'
  BY <1>3 DEF Typed
<1>6. Separate'
  BY <1>3, <1>4 DEF Separate
<1> QED BY <1>5, <1>6 DEF IInv

\* break's targets, when a loop begins and when it ends.
LEMMA PushBreak ==
  ASSUME NEW br, NEW n \in Nat, NEW b \in 1..n, StackIn(br, n)
  PROVE  StackIn(Append(br, b), n)
BY AppendFacts DEF StackIn

\* A cut of the stack.
LEMMA CutBreak ==
  ASSUME NEW br, NEW n \in Nat, StackIn(br, n)
  PROVE  StackIn(SubSeq(br, 1, Len(br) - 1), n)
<1>1. br \in Seq(Nat) /\ Len(br) \in Nat
  BY DEF StackIn
<1>2. CASE Len(br) = 0
  <2>1. SubSeq(br, 1, Len(br) - 1) = <<>>
    BY <1>1, <1>2
  <2> QED BY <2>1 DEF StackIn
<1>3. CASE Len(br) # 0
  <2>1. Len(br) - 1 \in 0..Len(br)
    BY <1>1, <1>3
  <2>2. DOMAIN br = 1..Len(br)
    BY <1>1
  <2> QED BY <1>1, <2>1, <2>2, PrefixFacts DEF StackIn
<1> QED BY <1>2, <1>3

\* A step that opens the construct f with blocks that are new, and goes on in
\* another new block.
LEMMA OpenStep ==
  ASSUME Typed, Separate, UNCHANGED <<labels, labelsDefined>>, phase' = "gen", Flags',
         NEW f \in Frame, NEW n \in Nat, N < n,
         bbs' \in Seq(Block), Len(bbs') = n, Targets(bbs', n), StackIn(breaks', n),
         nest' = Append(nest, f), FrameIn(f, n), HasOther(f) => f.other # f.end,
         Own(f) \subseteq (N + 1)..n, cur' \in (N + 1)..n, cur' \notin Own(f),
         OpenOf(bbs') = (OpenOf(bbs) \ {cur}) \cup Own(f) \cup {cur'}
  PROVE  IInv'
<1>1. N \in Nat /\ N = Len(bbs) /\ Ahead(nest) \subseteq 1..N /\ Pending \subseteq 1..N
  BY AheadIn
<1>2. \A b \in (N + 1)..n : b \in 1..n /\ b \notin 1..N
  BY <1>1
<1>3. Own(f) \cap Ahead(nest) = {} /\ Own(f) \cap Pending = {} /\ cur' \notin Ahead(nest) \cup Pending
  BY <1>1, <1>2
<1>4. NestIn(nest, n)
  BY <1>1, Grow
<1>5. NestIn(nest', n) /\ Apart(nest') /\ Ahead(nest') = Ahead(nest) \cup Own(f)
  BY <1>3, <1>4, PushFacts DEF NestIn, Separate
<1>6. Blocks' /\ Len(bbs) <= Len(bbs')
  BY <1>1, <1>2 DEF Blocks
<1>7. OpenOf(bbs) \ {cur} = Ahead(nest) \cup Pending
  BY DEF Separate
<1>8. /\ OpenOf(bbs') = Ahead(nest') \cup Pending \cup {cur'}
      /\ cur' \notin Ahead(nest') \cup Pending
      /\ Ahead(nest') \cap Pending = {}
  BY <1>3, <1>5, <1>7 DEF Separate
<1> QED BY <1>5, <1>6, <1>8, Assemble

\* A step that closes the construct on top and goes on at its end.
LEMMA CloseStep ==
  ASSUME Typed, Separate, UNCHANGED <<labels, labelsDefined>>, phase' = "gen", Flags',
         nest # <<>>, Pop, cur' = Top.end, StackIn(breaks', N),
         bbs' \in Seq(Block), Len(bbs') = N, Targets(bbs', N),
         OpenOf(bbs') = (OpenOf(bbs) \ {cur}) \ (Own(Top) \ {Top.end})
  PROVE  IInv'
<1>1. N \in Nat /\ N = Len(bbs)
  BY AheadIn
<1>2. /\ Top = nest[Len(nest)] /\ Top.end \in 1..N /\ Top.end \in Own(Top)
      /\ Own(Top) \subseteq Ahead(nest)
  BY TopFacts
<1>3. nest \in Seq(Frame) /\ FramesIn(nest, N) /\ Apart(nest)
  BY <1>1 DEF Typed, NestIn, Separate
<1>4. NestIn(nest', N) /\ Apart(nest') /\ Ahead(nest') = Ahead(nest) \ Own(Top)
  BY <1>1, <1>2, <1>3, PopFacts DEF Pop, NestIn
<1>5. Blocks' /\ Len(bbs) <= Len(bbs')
  BY <1>1, <1>2 DEF Blocks
<1>6. OpenOf(bbs) \ {cur} = Ahead(nest) \cup Pending
  BY DEF Separate
<1>7. /\ OpenOf(bbs') = Ahead(nest') \cup Pending \cup {cur'}
      /\ cur' \notin Ahead(nest') \cup Pending
      /\ Ahead(nest') \cap Pending = {}
  BY <1>2, <1>4, <1>6 DEF Separate
<1> QED BY <1>1, <1>4, <1>5, <1>7, Assemble

\* A step that leaves the constructs alone and goes on in a block of its own,
\* which is the same or a new one.
LEMMA StayStep ==
  ASSUME Typed, Separate, UNCHANGED <<nest, breaks, labels, labelsDefined>>, phase' = "gen", Flags',
         NEW n \in Nat, N <= n, bbs' \in Seq(Block), Len(bbs') = n, Targets(bbs', n),
         cur' = cur \/ cur' \in (N + 1)..n,
         OpenOf(bbs') = (OpenOf(bbs) \ {cur}) \cup {cur'}
  PROVE  IInv'
<1>1. /\ N \in Nat /\ N = Len(bbs) /\ Ahead(nest) \subseteq 1..N /\ Pending \subseteq 1..N
      /\ cur \in 1..N
  BY AheadIn
<1>2. cur' \notin Ahead(nest) \cup Pending /\ cur' \in 1..n
  BY <1>1 DEF Separate
<1>3. StackIn(breaks', n) /\ NestIn(nest', n)
  BY <1>1, Grow
<1>4. OpenOf(bbs) \ {cur} = Ahead(nest) \cup Pending
  BY DEF Separate
<1>5. Blocks' /\ Len(bbs) <= Len(bbs')
  BY <1>1, <1>2 DEF Blocks
<1>6. /\ OpenOf(bbs') = Ahead(nest') \cup Pending \cup {cur'}
      /\ cur' \notin Ahead(nest') \cup Pending
      /\ Ahead(nest') \cap Pending = {} /\ Apart(nest')
  BY <1>2, <1>4 DEF Separate
<1> QED BY <1>3, <1>5, <1>6, Assemble

-----------------------------------------------------------------------------
(* One lemma per action.                                                    *)

\* An expression adds code only.
LEMMA SimpleStep == IInv /\ Simple => IInv'
<1> SUFFICES ASSUME IInv, Simple PROVE IInv'
  OBVIOUS
<1>1. phase = "gen" /\ phase' = "gen" /\ Typed /\ Separate
  BY DEF IInv, Simple, Room
<1>2. Event(Here, "run") \in Code /\ Flags'
  <2>1. src' = Append(src, Word("stmt"))
    BY DEF Simple, Read
  <2>2. UNCHANGED <<hadError_, phase>>
    BY DEF Simple
  <2>3. "stmt" \in Words
    BY DEF Words, Loops
  <2>4. "run" \in Parts
    BY DEF Parts
  <2> QED BY <1>1, <2>1, <2>2, <2>3, <2>4, ReadFacts, KeepsFlags
<1>3. N \in Nat /\ N = Len(bbs) /\ cur \in 1..N /\ cur \in OpenOf(bbs)
  BY <1>1, AheadIn
<1>4. /\ bbs' \in Seq(Block) /\ Len(bbs') = N /\ Targets(bbs', N)
      /\ OpenOf(bbs') = OpenOf(bbs)
  BY <1>1, <1>2, <1>3, EmitFacts DEF Simple, Typed, Blocks
<1> QED BY <1>1, <1>2, <1>3, <1>4, StayStep DEF Simple

\* An if opens its branches and its end.
LEMMA OpenIfStep == ASSUME NEW k \in {"if", "ifelse"} PROVE IInv /\ OpenIf(k) => IInv'
<1> SUFFICES ASSUME IInv, OpenIf(k) PROVE IInv'
  OBVIOUS
<1> DEFINE m  == IF k = "ifelse" THEN 3 ELSE 2
           f  == [k |-> k, p |-> Here, back |-> 0, end |-> N + 2, other |-> N + m]
           bs == Fresh(bbs, m)
<1>1. phase = "gen" /\ phase' = "gen" /\ Typed /\ Separate
  BY DEF IInv, OpenIf, Room
<1>2. Here \in Nat /\ Flags'
  <2>1. src' = Append(src, Word(k))
    BY DEF OpenIf, Read
  <2>2. UNCHANGED <<hadError_, phase>>
    BY DEF OpenIf
  <2>3. k \in Words
    BY DEF Words, Loops
  <2> QED BY <1>1, <2>1, <2>2, <2>3, ReadFacts, KeepsFlags
<1>3. N \in Nat /\ N = Len(bbs) /\ cur \in 1..N
  BY <1>1, AheadIn
<1>4. /\ bbs' = Branch(bs, cur, Here, N + 1, N + m)
      /\ nest' = Append(nest, f) /\ cur' = N + 1
  BY <1>3 DEF OpenIf, Open
<1>5. bs \in Seq(Block) /\ Len(bs) = N + m /\ OpenOf(bs) = OpenOf(bbs) \cup (N + 1)..(N + m)
      /\ Targets(bs, N + m)
  BY <1>1, <1>3, GrowFacts DEF Typed, Blocks
<1>6. /\ bbs' \in Seq(Block) /\ Len(bbs') = N + m /\ Targets(bbs', N + m)
      /\ OpenOf(bbs') = (OpenOf(bbs) \cup (N + 1)..(N + m)) \ {cur}
  <2>1. cur \in 1..Len(bs) /\ N + 1 \in 1..Len(bs) /\ N + m \in 1..Len(bs)
    BY <1>3, <1>5
  <2> QED BY <1>2, <1>4, <1>5, <2>1, BranchFacts
<1>7. f \in Frame /\ FrameIn(f, N + m) /\ Own(f) = (N + 2)..(N + m) /\ (HasOther(f) => f.other # f.end)
  BY <1>2, <1>3 DEF Frame, FrameIn, Own, HasOther, Loops
<1>8. StackIn(breaks', N + m)
  <2>1. StackIn(breaks, N + m)
    BY <1>1, <1>3, Grow
  <2> QED BY <2>1 DEF OpenIf
<1>9. /\ (N + 1)..(N + m) = Own(f) \cup {cur'} /\ cur' \in (N + 1)..(N + m) /\ cur' \notin Own(f)
      /\ \A b \in (N + 1)..(N + m) : b # cur
  BY <1>3, <1>4, <1>7
<1>10. OpenOf(bbs') = (OpenOf(bbs) \ {cur}) \cup Own(f) \cup {cur'}
  BY <1>6, <1>9
<1>11. N + m \in Nat /\ N < N + m /\ Own(f) \subseteq (N + 1)..(N + m) /\ UNCHANGED <<labels, labelsDefined>>
  BY <1>3, <1>9 DEF OpenIf
<1> HIDE DEF m, f, bs
<1> QED BY <1>1, <1>2, <1>4, <1>6, <1>7, <1>8, <1>9, <1>10, <1>11, OpenStep

\* An else moves on to the other branch.
LEMMA ElseStep == IInv /\ Else => IInv'
<1> SUFFICES ASSUME IInv, Else PROVE IInv'
  OBVIOUS
<1>1. phase = "gen" /\ phase' = "gen" /\ Typed /\ Separate /\ nest # <<>> /\ Top.k = "ifelse"
  BY DEF IInv, Else, Inside
<1>2. Flags'
  <2>1. src' = Append(src, Word("else"))
    BY DEF Else, Read
  <2>2. UNCHANGED <<hadError_, phase>>
    BY DEF Else
  <2>3. "else" \in Words
    BY DEF Words, Loops
  <2> QED BY <1>1, <2>1, <2>2, <2>3, ReadFacts, KeepsFlags
<1>3. /\ N = Len(bbs) /\ N \in Nat /\ cur \in 1..N /\ cur \in OpenOf(bbs)
      /\ Top.end \in 1..N /\ Top.other \in 1..N /\ Top.other \in Ahead(nest)
      /\ bbs' = BrIfOpen(bbs, cur, Top.end) /\ cur' = Top.other
  <2>1. HasOther(Top)
    BY <1>1 DEF HasOther
  <2> QED BY <1>1, <2>1, AheadIn, TopFacts DEF Else
<1>4. /\ bbs' \in Seq(Block) /\ Len(bbs') = N /\ OpenOf(bbs') = OpenOf(bbs) \ {cur}
      /\ Targets(bbs', N)
  <2>1. bbs \in Seq(Block) /\ Targets(bbs, N)
    BY <1>1, <1>3 DEF Typed, Blocks
  <2> QED BY <1>3, <2>1, BrFacts
<1>5. Blocks' /\ Len(bbs) <= Len(bbs')
  BY <1>3, <1>4 DEF Blocks
<1>6. NestIn(nest', Len(bbs')) /\ Apart(nest') /\ Ahead(nest') = Ahead(nest) \ {Top.other}
  BY <1>1, <1>3, <1>4, ElseFacts DEF Else, Separate, Typed, NestIn, Top
<1>7. StackIn(breaks', Len(bbs'))
  BY <1>1, <1>3, <1>4 DEF Else, Typed
<1>8. /\ OpenOf(bbs') = Ahead(nest') \cup Pending \cup {cur'}
      /\ cur' \notin Ahead(nest') \cup Pending
      /\ Ahead(nest') \cap Pending = {}
  BY <1>1, <1>3, <1>4, <1>6 DEF Separate
<1> QED BY <1>1, <1>2, <1>5, <1>6, <1>7, <1>8, Assemble DEF Else

\* An if ends.
LEMMA EndIfStep == IInv /\ EndIf => IInv'
<1> SUFFICES ASSUME IInv, EndIf PROVE IInv'
  OBVIOUS
<1>1. phase = "gen" /\ phase' = "gen" /\ Typed /\ Separate /\ nest # <<>> /\ Top.k = "if"
  BY DEF IInv, EndIf, Inside
<1>2. Flags'
  <2>1. src' = Append(src, Word("endif"))
    BY DEF EndIf, Read
  <2>2. UNCHANGED <<hadError_, phase>>
    BY DEF EndIf
  <2>3. "endif" \in Words
    BY DEF Words, Loops
  <2> QED BY <1>1, <2>1, <2>2, <2>3, ReadFacts, KeepsFlags
<1>3. /\ N = Len(bbs) /\ N \in Nat /\ cur \in 1..N /\ cur \in OpenOf(bbs) /\ Top.end \in 1..N
      /\ bbs \in Seq(Block) /\ Targets(bbs, N) /\ StackIn(breaks, N)
  BY <1>1, AheadIn, TopFacts DEF Typed, Blocks
<1>4. /\ bbs' \in Seq(Block) /\ Len(bbs') = N /\ OpenOf(bbs') = OpenOf(bbs) \ {cur}
      /\ Targets(bbs', N)
  <2>1. bbs' = BrIfOpen(bbs, cur, Top.end)
    BY DEF EndIf
  <2> QED BY <1>3, <2>1, BrFacts
<1>5. Own(Top) \ {Top.end} = {}
  BY <1>1 DEF Own, HasOther
<1>6. OpenOf(bbs') = (OpenOf(bbs) \ {cur}) \ (Own(Top) \ {Top.end})
  BY <1>4, <1>5
<1>7. StackIn(breaks', N) /\ Pop /\ cur' = Top.end /\ UNCHANGED <<labels, labelsDefined>>
  BY <1>3 DEF EndIf
<1> QED BY <1>1, <1>2, <1>4, <1>6, <1>7, CloseStep

\* A while ends.
LEMMA EndWhileStep == IInv /\ EndWhile => IInv'
<1> SUFFICES ASSUME IInv, EndWhile PROVE IInv'
  OBVIOUS
<1>1. phase = "gen" /\ phase' = "gen" /\ Typed /\ Separate /\ nest # <<>> /\ Top.k = "while"
  BY DEF IInv, EndWhile, Inside
<1>2. Flags'
  <2>1. src' = Append(src, Word("endwhile"))
    BY DEF EndWhile, Read
  <2>2. UNCHANGED <<hadError_, phase>>
    BY DEF EndWhile
  <2>3. "endwhile" \in Words
    BY DEF Words, Loops
  <2> QED BY <1>1, <2>1, <2>2, <2>3, ReadFacts, KeepsFlags
<1>3. /\ N = Len(bbs) /\ N \in Nat /\ cur \in 1..N /\ cur \in OpenOf(bbs) /\ Top.back \in 1..N
      /\ bbs \in Seq(Block) /\ Targets(bbs, N) /\ StackIn(breaks, N)
  BY <1>1, AheadIn, TopFacts DEF Typed, Blocks, Loops
<1>4. /\ bbs' \in Seq(Block) /\ Len(bbs') = N /\ OpenOf(bbs') = OpenOf(bbs) \ {cur}
      /\ Targets(bbs', N)
  <2>1. bbs' = BrIfOpen(bbs, cur, Top.back)
    BY DEF EndWhile
  <2> QED BY <1>3, <2>1, BrFacts
<1>5. Own(Top) \ {Top.end} = {}
  BY <1>1 DEF Own, HasOther
<1>6. OpenOf(bbs') = (OpenOf(bbs) \ {cur}) \ (Own(Top) \ {Top.end})
  BY <1>4, <1>5
<1>7. StackIn(breaks', N) /\ Pop /\ cur' = Top.end /\ UNCHANGED <<labels, labelsDefined>>
  BY <1>3, CutBreak DEF EndWhile, PopBreak
<1> QED BY <1>1, <1>2, <1>4, <1>6, <1>7, CloseStep

\* A do ends, and its condition is made.
LEMMA EndDoStep == IInv /\ EndDo => IInv'
<1> SUFFICES ASSUME IInv, EndDo PROVE IInv'
  OBVIOUS
<1> DEFINE bs == BrIfOpen(bbs, cur, Top.other)
<1>1. phase = "gen" /\ phase' = "gen" /\ Typed /\ Separate /\ nest # <<>> /\ Top.k = "do"
  BY DEF IInv, EndDo, Inside
<1>2. Flags'
  <2>1. src' = Append(src, Word("enddo"))
    BY DEF EndDo, Read
  <2>2. UNCHANGED <<hadError_, phase>>
    BY DEF EndDo
  <2>3. "enddo" \in Words
    BY DEF Words, Loops
  <2> QED BY <1>1, <2>1, <2>2, <2>3, ReadFacts, KeepsFlags
<1>3. /\ N = Len(bbs) /\ N \in Nat /\ cur \in 1..N /\ cur \in OpenOf(bbs) /\ Here \in Nat
      /\ bbs \in Seq(Block) /\ Targets(bbs, N) /\ StackIn(breaks, N)
  BY <1>1, AheadIn, ReadFacts DEF Typed, Blocks
<1>4. /\ HasOther(Top) /\ Top.back \in 1..N /\ Top.end \in 1..N /\ Top.other \in 1..N
      /\ Top.other # Top.end
  BY <1>1, TopFacts DEF Loops, HasOther
<1>5. /\ bs \in Seq(Block) /\ Len(bs) = N /\ OpenOf(bs) = OpenOf(bbs) \ {cur}
      /\ Targets(bs, N)
  BY <1>3, <1>4, BrFacts
<1>6. /\ bbs' \in Seq(Block) /\ Len(bbs') = N /\ OpenOf(bbs') = (OpenOf(bbs) \ {cur}) \ {Top.other}
      /\ Targets(bbs', N)
  <2>1. bbs' = Branch(bs, Top.other, Here, Top.back, Top.end)
    BY DEF EndDo
  <2> HIDE DEF bs
  <2> QED BY <1>3, <1>4, <1>5, <2>1, BranchFacts
<1>7. Own(Top) \ {Top.end} = {Top.other}
  BY <1>4 DEF Own
<1>8. StackIn(breaks', N) /\ Pop /\ cur' = Top.end /\ UNCHANGED <<labels, labelsDefined>>
  BY <1>3, CutBreak DEF EndDo, PopBreak
<1> QED BY <1>1, <1>2, <1>6, <1>7, <1>8, CloseStep

\* A for ends.
LEMMA EndForStep == IInv /\ EndFor => IInv'
<1> SUFFICES ASSUME IInv, EndFor PROVE IInv'
  OBVIOUS
<1> DEFINE bs == Emit(bbs, cur, Event(Top.p, "post"))
<1>1. phase = "gen" /\ phase' = "gen" /\ Typed /\ Separate /\ nest # <<>> /\ Top.k \in {"for", "forever"}
  BY DEF IInv, EndFor, Inside
<1>2. Flags'
  <2>1. src' = Append(src, Word("endfor"))
    BY DEF EndFor, Read
  <2>2. UNCHANGED <<hadError_, phase>>
    BY DEF EndFor
  <2>3. "endfor" \in Words
    BY DEF Words, Loops
  <2> QED BY <1>1, <2>1, <2>2, <2>3, ReadFacts, KeepsFlags
<1>3. /\ N = Len(bbs) /\ N \in Nat /\ cur \in 1..N /\ cur \in OpenOf(bbs) /\ Top.back \in 1..N
      /\ bbs \in Seq(Block) /\ Targets(bbs, N) /\ StackIn(breaks, N)
  BY <1>1, AheadIn, TopFacts DEF Typed, Blocks, Loops
<1>4. Event(Top.p, "post") \in Code
  BY <1>1, TopFacts DEF Frame, Event, Code, Parts
<1>5. bs \in Seq(Block) /\ Len(bs) = N /\ OpenOf(bs) = OpenOf(bbs) /\ Targets(bs, N)
  BY <1>3, <1>4, EmitFacts
<1>6. bbs' = Br(bs, cur, Top.back)
  <2>1. bbs[cur].term = None
    BY <1>3 DEF OpenOf
  <2> QED BY <2>1 DEF EndFor
<1>7. /\ bbs' \in Seq(Block) /\ Len(bbs') = N /\ OpenOf(bbs') = OpenOf(bbs) \ {cur}
      /\ Targets(bbs', N)
  <2> HIDE DEF bs
  <2> QED BY <1>3, <1>5, <1>6, BrFacts
<1>8. Own(Top) \ {Top.end} = {}
  BY <1>1 DEF Own, HasOther
<1>9. OpenOf(bbs') = (OpenOf(bbs) \ {cur}) \ (Own(Top) \ {Top.end})
  BY <1>7, <1>8
<1>10. StackIn(breaks', N) /\ Pop /\ cur' = Top.end /\ UNCHANGED <<labels, labelsDefined>>
  BY <1>3, CutBreak DEF EndFor, PopBreak
<1> QED BY <1>1, <1>2, <1>7, <1>9, <1>10, CloseStep

\* A while begins.
LEMMA OpenWhileStep == IInv /\ OpenWhile => IInv'
<1> SUFFICES ASSUME IInv, OpenWhile PROVE IInv'
  OBVIOUS
<1> DEFINE f  == [k |-> "while", p |-> Here, back |-> N + 1, end |-> N + 3, other |-> 0]
           bs == Fresh(bbs, 3)
           cs == Br(bs, cur, N + 1)
<1>1. phase = "gen" /\ phase' = "gen" /\ Typed /\ Separate
  BY DEF IInv, OpenWhile, Room
<1>2. Flags'
  <2>1. src' = Append(src, Word("while"))
    BY DEF OpenWhile, Read
  <2>2. UNCHANGED <<hadError_, phase>>
    BY DEF OpenWhile
  <2>3. "while" \in Words
    BY DEF Words, Loops
  <2> QED BY <1>1, <2>1, <2>2, <2>3, ReadFacts, KeepsFlags
<1>3. /\ N \in Nat /\ N = Len(bbs) /\ cur \in 1..N /\ Here \in Nat /\ cur \in OpenOf(bbs)
      /\ bbs \in Seq(Block) /\ Targets(bbs, N) /\ OpenOf(bbs) \subseteq 1..N
  BY <1>1, AheadIn, ReadFacts DEF Typed, Blocks
<1>4. /\ nest' = Append(nest, f) /\ cur' = N + 2 /\ UNCHANGED <<labels, labelsDefined>>
      /\ breaks' = Append(breaks, N + 3)
  BY DEF OpenWhile, Open
<1>5. /\ bs \in Seq(Block) /\ Len(bs) = N + 3 /\ Targets(bs, N + 3)
      /\ OpenOf(bs) = OpenOf(bbs) \cup {N + 1, N + 2, N + 3}
  <2>1. (N + 1)..(N + 3) = {N + 1, N + 2, N + 3}
    BY <1>3
  <2> QED BY <1>3, <2>1, GrowFacts
<1>6. /\ cs \in Seq(Block) /\ Len(cs) = N + 3 /\ Targets(cs, N + 3)
      /\ OpenOf(cs) = (OpenOf(bbs) \cup {N + 1, N + 2, N + 3}) \ {cur}
  <2>1. cur \in 1..(N + 3) /\ N + 1 \in 1..(N + 3)
    BY <1>3
  <2> HIDE DEF bs
  <2> QED BY <1>5, <2>1, BrFacts
<1>7. /\ bbs' \in Seq(Block) /\ Len(bbs') = N + 3 /\ Targets(bbs', N + 3)
      /\ OpenOf(bbs') = (OpenOf(bbs) \ {cur}) \cup {N + 3} \cup {N + 2}
  <2>1. bbs' = Branch(cs, N + 1, Here, N + 2, N + 3)
    BY DEF OpenWhile
  <2>2. N + 1 \in 1..(N + 3) /\ N + 2 \in 1..(N + 3) /\ N + 3 \in 1..(N + 3)
    BY <1>3
  <2>3. N + 1 # N + 2 /\ N + 1 # N + 3 /\ N + 1 \notin OpenOf(bbs) /\ cur \notin {N + 1, N + 2, N + 3}
    BY <1>3
  <2> HIDE DEF cs
  <2>4. /\ bbs' \in Seq(Block) /\ Len(bbs') = N + 3 /\ Targets(bbs', N + 3)
        /\ OpenOf(bbs') = OpenOf(cs) \ {N + 1}
    <3>1. cs \in Seq(Block) /\ Len(cs) = N + 3 /\ Targets(cs, N + 3)
      BY <1>6
    <3> QED BY <1>3, <2>1, <2>2, <3>1, BranchFacts
  <2> QED BY <1>6, <2>3, <2>4
<1>8. f \in Frame /\ FrameIn(f, N + 3) /\ Own(f) = {N + 3} /\ (HasOther(f) => f.other # f.end)
  BY <1>3 DEF Frame, FrameIn, Own, HasOther, Loops
<1>9. StackIn(breaks', N + 3)
  <2>1. StackIn(breaks, N + 3)
    BY <1>1, <1>3, Grow
  <2> QED BY <1>3, <1>4, <2>1, PushBreak
<1>10. /\ N + 3 \in Nat /\ N < N + 3 /\ Own(f) \subseteq (N + 1)..(N + 3)
       /\ cur' \in (N + 1)..(N + 3) /\ cur' \notin Own(f)
  <2> HIDE DEF f
  <2> QED BY <1>3, <1>4, <1>8
<1>11. OpenOf(bbs') = (OpenOf(bbs) \ {cur}) \cup Own(f) \cup {cur'}
  BY <1>4, <1>7, <1>8
<1> HIDE DEF f
<1> QED BY <1>1, <1>2, <1>4, <1>7, <1>8, <1>9, <1>10, <1>11, OpenStep

\* A do begins.
LEMMA OpenDoStep == IInv /\ OpenDo => IInv'
<1> SUFFICES ASSUME IInv, OpenDo PROVE IInv'
  OBVIOUS
<1> DEFINE f  == [k |-> "do", p |-> Here, back |-> N + 1, end |-> N + 3, other |-> N + 2]
           bs == Fresh(bbs, 3)
           cs == Br(bs, cur, N + 1)
<1>1. phase = "gen" /\ phase' = "gen" /\ Typed /\ Separate
  BY DEF IInv, OpenDo, Room
<1>2. Flags'
  <2>1. src' = Append(src, Word("do"))
    BY DEF OpenDo, Read
  <2>2. UNCHANGED <<hadError_, phase>>
    BY DEF OpenDo
  <2>3. "do" \in Words
    BY DEF Words, Loops
  <2> QED BY <1>1, <2>1, <2>2, <2>3, ReadFacts, KeepsFlags
<1>3. /\ N \in Nat /\ N = Len(bbs) /\ cur \in 1..N /\ Here \in Nat /\ cur \in OpenOf(bbs)
      /\ bbs \in Seq(Block) /\ Targets(bbs, N) /\ OpenOf(bbs) \subseteq 1..N
  BY <1>1, AheadIn, ReadFacts DEF Typed, Blocks
<1>4. /\ nest' = Append(nest, f) /\ cur' = N + 1 /\ UNCHANGED <<labels, labelsDefined>>
      /\ breaks' = Append(breaks, N + 3)
  BY DEF OpenDo, Open
<1>5. /\ bs \in Seq(Block) /\ Len(bs) = N + 3 /\ Targets(bs, N + 3)
      /\ OpenOf(bs) = OpenOf(bbs) \cup {N + 1, N + 2, N + 3}
  <2>1. (N + 1)..(N + 3) = {N + 1, N + 2, N + 3}
    BY <1>3
  <2> QED BY <1>3, <2>1, GrowFacts
<1>6. /\ cs \in Seq(Block) /\ Len(cs) = N + 3 /\ Targets(cs, N + 3)
      /\ OpenOf(cs) = (OpenOf(bbs) \cup {N + 1, N + 2, N + 3}) \ {cur}
  <2>1. cur \in 1..(N + 3) /\ N + 1 \in 1..(N + 3)
    BY <1>3
  <2> HIDE DEF bs
  <2> QED BY <1>5, <2>1, BrFacts
<1>7. /\ bbs' \in Seq(Block) /\ Len(bbs') = N + 3 /\ Targets(bbs', N + 3)
      /\ OpenOf(bbs') = (OpenOf(bbs) \ {cur}) \cup {N + 2, N + 3} \cup {N + 1}
  <2>1. bbs' = cs
    BY DEF OpenDo
  <2>2. cur \notin {N + 1, N + 2, N + 3}
    BY <1>3
  <2> HIDE DEF cs
  <2> QED BY <1>6, <2>1, <2>2
<1>8. f \in Frame /\ FrameIn(f, N + 3) /\ Own(f) = {N + 2, N + 3} /\ (HasOther(f) => f.other # f.end)
  BY <1>3 DEF Frame, FrameIn, Own, HasOther, Loops
<1>9. StackIn(breaks', N + 3)
  <2>1. StackIn(breaks, N + 3)
    BY <1>1, <1>3, Grow
  <2> QED BY <1>3, <1>4, <2>1, PushBreak
<1>10. /\ N + 3 \in Nat /\ N < N + 3 /\ Own(f) \subseteq (N + 1)..(N + 3)
       /\ cur' \in (N + 1)..(N + 3) /\ cur' \notin Own(f)
  <2> HIDE DEF f
  <2> QED BY <1>3, <1>4, <1>8
<1>11. OpenOf(bbs') = (OpenOf(bbs) \ {cur}) \cup Own(f) \cup {cur'}
  BY <1>4, <1>7, <1>8
<1> HIDE DEF f
<1> QED BY <1>1, <1>2, <1>4, <1>7, <1>8, <1>9, <1>10, <1>11, OpenStep

\* A for begins.
LEMMA OpenForStep == ASSUME NEW k \in {"for", "forever"} PROVE IInv /\ OpenFor(k) => IInv'
<1> SUFFICES ASSUME IInv, OpenFor(k) PROVE IInv'
  OBVIOUS
<1> DEFINE f  == [k |-> k, p |-> Here, back |-> N + 1, end |-> N + 3, other |-> 0]
           es == Emit(bbs, cur, Event(Here, "init"))
           bs == Fresh(es, 3)
           cs == Br(bs, cur, N + 1)
<1>1. phase = "gen" /\ phase' = "gen" /\ Typed /\ Separate
  BY DEF IInv, OpenFor, Room
<1>2. Flags'
  <2>1. src' = Append(src, Word(k))
    BY DEF OpenFor, Read
  <2>2. UNCHANGED <<hadError_, phase>>
    BY DEF OpenFor
  <2>3. k \in Words
    BY DEF Words, Loops
  <2> QED BY <1>1, <2>1, <2>2, <2>3, ReadFacts, KeepsFlags
<1>3. /\ N \in Nat /\ N = Len(bbs) /\ cur \in 1..N /\ Here \in Nat /\ cur \in OpenOf(bbs)
      /\ bbs \in Seq(Block) /\ Targets(bbs, N) /\ OpenOf(bbs) \subseteq 1..N
  BY <1>1, AheadIn, ReadFacts DEF Typed, Blocks
<1>4. /\ nest' = Append(nest, f) /\ cur' = N + 2 /\ UNCHANGED <<labels, labelsDefined>>
      /\ breaks' = Append(breaks, N + 3)
  BY DEF OpenFor, Open
<1>5. /\ bs \in Seq(Block) /\ Len(bs) = N + 3 /\ Targets(bs, N + 3)
      /\ OpenOf(bs) = OpenOf(bbs) \cup {N + 1, N + 2, N + 3}
  <2>1. (N + 1)..(N + 3) = {N + 1, N + 2, N + 3}
    BY <1>3
  <2>2. Event(Here, "init") \in Code
    BY <1>1, ReadFacts DEF Parts
  <2>3. es \in Seq(Block) /\ Len(es) = N /\ Targets(es, N) /\ OpenOf(es) = OpenOf(bbs)
    BY <1>3, <2>2, EmitFacts
  <2> HIDE DEF es
  <2>4. es \in Seq(Block) /\ Targets(es, Len(es)) /\ 3 \in Nat
    BY <2>3
  <2>5. /\ bs \in Seq(Block) /\ Len(bs) = Len(es) + 3
        /\ OpenOf(bs) = OpenOf(es) \cup (Len(es) + 1)..(Len(es) + 3)
        /\ Targets(bs, Len(es) + 3)
    BY ONLY <2>4, GrowFacts
  <2> HIDE DEF bs
  <2> QED BY <2>1, <2>3, <2>5
<1>6. /\ cs \in Seq(Block) /\ Len(cs) = N + 3 /\ Targets(cs, N + 3)
      /\ OpenOf(cs) = (OpenOf(bbs) \cup {N + 1, N + 2, N + 3}) \ {cur}
  <2>1. cur \in 1..(N + 3) /\ N + 1 \in 1..(N + 3)
    BY <1>3
  <2> HIDE DEF bs
  <2> QED BY <1>5, <2>1, BrFacts
<1>7. /\ bbs' \in Seq(Block) /\ Len(bbs') = N + 3 /\ Targets(bbs', N + 3)
      /\ OpenOf(bbs') = (OpenOf(bbs) \ {cur}) \cup {N + 3} \cup {N + 2}
  <2>1. bbs' = IF k = "for" THEN Branch(cs, N + 1, Here, N + 2, N + 3) ELSE Br(cs, N + 1, N + 2)
    BY DEF OpenFor
  <2>2. N + 1 \in 1..(N + 3) /\ N + 2 \in 1..(N + 3) /\ N + 3 \in 1..(N + 3)
    BY <1>3
  <2>3. N + 1 # N + 2 /\ N + 1 # N + 3 /\ N + 1 \notin OpenOf(bbs) /\ cur \notin {N + 1, N + 2, N + 3}
    BY <1>3
  <2> HIDE DEF cs
  <2>4. /\ bbs' \in Seq(Block) /\ Len(bbs') = N + 3 /\ Targets(bbs', N + 3)
        /\ OpenOf(bbs') = OpenOf(cs) \ {N + 1}
    <3>1. cs \in Seq(Block) /\ Len(cs) = N + 3 /\ Targets(cs, N + 3)
      BY <1>6
    <3>2. CASE k = "for"
      <4>1. bbs' = Branch(cs, N + 1, Here, N + 2, N + 3)
        BY <2>1, <3>2
      <4>2. Here \in Nat
        BY <1>3
      <4> QED BY <2>2, <3>1, <4>1, <4>2, BranchFacts
    <3>3. CASE k # "for"
      <4>1. bbs' = Br(cs, N + 1, N + 2)
        BY <2>1, <3>3
      <4> QED BY <2>2, <3>1, <4>1, BrFacts
    <3> QED BY <3>2, <3>3
  <2> QED BY <1>6, <2>3, <2>4
<1>8. f \in Frame /\ FrameIn(f, N + 3) /\ Own(f) = {N + 3} /\ (HasOther(f) => f.other # f.end)
  BY <1>3 DEF Frame, FrameIn, Own, HasOther, Loops
<1>9. StackIn(breaks', N + 3)
  <2>1. StackIn(breaks, N + 3)
    BY <1>1, <1>3, Grow
  <2> QED BY <1>3, <1>4, <2>1, PushBreak
<1>10. /\ N + 3 \in Nat /\ N < N + 3 /\ Own(f) \subseteq (N + 1)..(N + 3)
       /\ cur' \in (N + 1)..(N + 3) /\ cur' \notin Own(f)
  <2> HIDE DEF f
  <2> QED BY <1>3, <1>4, <1>8
<1>11. OpenOf(bbs') = (OpenOf(bbs) \ {cur}) \cup Own(f) \cup {cur'}
  BY <1>4, <1>7, <1>8
<1> HIDE DEF f
<1> QED BY <1>1, <1>2, <1>4, <1>7, <1>8, <1>9, <1>10, <1>11, OpenStep

\* A step that gives a diagnostic and changes nothing else.
LEMMA ErrorStep ==
  ASSUME Typed, Separate, phase = "gen", src' \in Seq(Item), hadError_' = TRUE,
         UNCHANGED <<nest, bbs, cur, breaks, labels, labelsDefined, phase>>
  PROVE  IInv'
<1>1. Flags'
  <2>1. phase' \in {"gen", "done"} /\ hadError_' \in BOOLEAN
    OBVIOUS
  <2> QED BY <2>1, Zenon DEF Flags
<1>2. Typed'
  BY <1>1 DEF Typed, Blocks, LabelsIn
<1>3. Separate'
  BY DEF Separate, Pending, LabelsApart
<1> QED BY <1>2, <1>3 DEF IInv

\* A jump out of the insert point and a block for the code after it.
LEMMA JumpFacts ==
  ASSUME NEW bs \in Seq(Block), NEW b \in 1..Len(bs), Targets(bs, Len(bs)),
         NEW t \in Term, t.k # "none", Within(t, Len(bs))
  PROVE  LET cs == Fresh([bs EXCEPT ![b].term = t], 1)
         IN /\ cs \in Seq(Block) /\ Len(cs) = Len(bs) + 1 /\ Targets(cs, Len(bs) + 1)
            /\ OpenOf(cs) = (OpenOf(bs) \ {b}) \cup {Len(bs) + 1}
<1> DEFINE ds == [bs EXCEPT ![b].term = t]
<1>1. Len(bs) \in Nat
  OBVIOUS
<1>2. /\ ds \in Seq(Block) /\ Len(ds) = Len(bs) /\ OpenOf(ds) = OpenOf(bs) \ {b}
      /\ Targets(ds, Len(ds))
  BY <1>1, TermFacts
<1>3. (Len(bs) + 1)..(Len(bs) + 1) = {Len(bs) + 1}
  BY <1>1
<1> HIDE DEF ds
<1>4. /\ Fresh(ds, 1) \in Seq(Block) /\ Len(Fresh(ds, 1)) = Len(bs) + 1
      /\ Targets(Fresh(ds, 1), Len(bs) + 1)
      /\ OpenOf(Fresh(ds, 1)) = (OpenOf(bs) \ {b}) \cup {Len(bs) + 1}
  BY <1>2, <1>3, GrowFacts
<1> QED BY <1>4 DEF ds

\* A return leaves a dead block behind.
LEMMA ReturnStep == IInv /\ Return => IInv'
<1> SUFFICES ASSUME IInv, Return PROVE IInv'
  OBVIOUS
<1>1. phase = "gen" /\ phase' = "gen" /\ Typed /\ Separate
  BY DEF IInv, Return, Room
<1>2. Flags'
  <2>1. src' = Append(src, Word("return"))
    BY DEF Return, Read
  <2>2. UNCHANGED <<hadError_, phase>>
    BY DEF Return
  <2>3. "return" \in Words
    BY DEF Words
  <2> QED BY <1>1, <2>1, <2>2, <2>3, ReadFacts, KeepsFlags
<1>3. /\ N \in Nat /\ N = Len(bbs) /\ cur \in 1..N
      /\ bbs \in Seq(Block) /\ Targets(bbs, N)
  BY <1>1, AheadIn DEF Typed, Blocks
<1>4. /\ bbs' \in Seq(Block) /\ Len(bbs') = N + 1 /\ Targets(bbs', N + 1)
      /\ OpenOf(bbs') = (OpenOf(bbs) \ {cur}) \cup {N + 1}
  <2>1. bbs' = Fresh([bbs EXCEPT ![cur].term = Ret], 1)
    BY DEF Return
  <2>2. Ret \in Term /\ Ret.k # "none" /\ Within(Ret, N)
    BY <1>3, Terms
  <2> QED BY <1>3, <2>1, <2>2, JumpFacts
<1>5. cur' = N + 1 /\ UNCHANGED <<nest, breaks, labels, labelsDefined>>
  BY DEF Return
<1>6. N + 1 \in Nat /\ N <= N + 1 /\ cur' \in (N + 1)..(N + 1)
  BY <1>3, <1>5
<1> QED BY <1>1, <1>2, <1>4, <1>5, <1>6, StayStep

\* A break is an error, or leaves a dead block behind.
LEMMA BreakStep == IInv /\ Break => IInv'
<1> SUFFICES ASSUME IInv, Break PROVE IInv'
  OBVIOUS
<1>1. phase = "gen" /\ phase' = "gen" /\ Typed /\ Separate
  BY DEF IInv, Break, Room
<1>2. src' \in Seq(Item)
  <2>1. src' = Append(src, Word("break"))
    BY DEF Break, Read
  <2>2. "break" \in Words
    BY DEF Words
  <2> QED BY <1>1, <2>1, <2>2, ReadFacts
<1>3. CASE breaks = <<>>
  BY <1>1, <1>2, <1>3, ErrorStep DEF Break
<1>4. CASE breaks # <<>>
  <2>1. /\ bbs' = Fresh(Br(bbs, cur, BreakTarget), 1) /\ cur' = N + 1
        /\ UNCHANGED <<nest, breaks, labels, labelsDefined>>
    BY <1>4 DEF Break
  <2>2. UNCHANGED <<hadError_, phase>>
    BY <1>4 DEF Break
  <2>3. Flags'
    BY <1>1, <1>2, <2>2, KeepsFlags
  <2>4. /\ N \in Nat /\ N = Len(bbs) /\ cur \in 1..N
        /\ bbs \in Seq(Block) /\ Targets(bbs, N) /\ StackIn(breaks, N)
    BY <1>1, AheadIn DEF Typed, Blocks
  <2>5. BreakTarget \in 1..N
    BY <1>4, <2>4 DEF StackIn, BreakTarget
  <2>6. To(BreakTarget) \in Term /\ To(BreakTarget).k # "none" /\ Within(To(BreakTarget), N)
    BY <2>4, <2>5, Terms
  <2>7. /\ bbs' \in Seq(Block) /\ Len(bbs') = N + 1 /\ Targets(bbs', N + 1)
        /\ OpenOf(bbs') = (OpenOf(bbs) \ {cur}) \cup {N + 1}
    BY <2>1, <2>4, <2>6, JumpFacts DEF Br
  <2>8. N + 1 \in Nat /\ N <= N + 1 /\ cur' \in (N + 1)..(N + 1)
    BY <2>1, <2>4
  <2> QED BY <1>1, <2>1, <2>3, <2>7, <2>8, StayStep
<1> QED BY <1>3, <1>4

\* The block made for a label that nobody spoke of before.
NewBlock(l) == IF l \in DOMAIN labels THEN {} ELSE {N + 1}

\* What getLabelBlock does to the blocks.
LEMMA WithFacts ==
  ASSUME Typed, Separate, NEW l \in Labels
  PROVE  /\ WithBlock(l) \in Seq(Block) /\ Len(WithBlock(l)) \in Nat
         /\ Len(WithBlock(l)) \in N..(N + 1) /\ Targets(WithBlock(l), Len(WithBlock(l)))
         /\ LabelBlock(l) \in 1..Len(WithBlock(l)) /\ NewBlock(l) \subseteq (N + 1)..Len(WithBlock(l))
         /\ OpenOf(WithBlock(l)) = OpenOf(bbs) \cup NewBlock(l)
<1>1. N \in Nat /\ N = Len(bbs) /\ bbs \in Seq(Block) /\ Targets(bbs, N)
  BY AheadIn DEF Typed, Blocks
<1>2. CASE l \in DOMAIN labels
  <2>1. WithBlock(l) = bbs /\ LabelBlock(l) = labels[l] /\ NewBlock(l) = {}
    BY <1>2 DEF WithBlock, LabelBlock, NewBlock
  <2>2. labels[l] \in 1..N
    BY <1>1, <1>2 DEF Typed, LabelsIn
  <2> QED BY <1>1, <2>1, <2>2
<1>3. CASE l \notin DOMAIN labels
  <2>1. WithBlock(l) = Fresh(bbs, 1) /\ LabelBlock(l) = N + 1 /\ NewBlock(l) = {N + 1}
    BY <1>3 DEF WithBlock, LabelBlock, NewBlock
  <2>2. (N + 1)..(N + 1) = {N + 1}
    BY <1>1
  <2>3. /\ Fresh(bbs, 1) \in Seq(Block) /\ Len(Fresh(bbs, 1)) = N + 1
        /\ OpenOf(Fresh(bbs, 1)) = OpenOf(bbs) \cup {N + 1} /\ Targets(Fresh(bbs, 1), N + 1)
    BY <1>1, <2>2, GrowFacts
  <2> QED BY <1>1, <2>1, <2>2, <2>3
<1> QED BY <1>2, <1>3

\* What it does to the table.
LEMMA TableFacts ==
  ASSUME Typed, Separate, NEW l \in Labels, getLabelBlock(l)
  PROVE  /\ DOMAIN labels' = DOMAIN labels \cup {l} /\ labels'[l] = LabelBlock(l)
         /\ \A x \in DOMAIN labels : labels'[x] = labels[x]
         /\ \A x \in DOMAIN labels' : labels'[x] \in 1..Len(WithBlock(l))
<1>1. DOMAIN labels' = DOMAIN labels \cup {l} /\ labels'[l] = LabelBlock(l)
  BY DEF getLabelBlock
<1>2. \A x \in DOMAIN labels : labels'[x] = labels[x]
  BY DEF getLabelBlock, LabelBlock
<1>3. LabelBlock(l) \in 1..Len(WithBlock(l)) /\ Len(WithBlock(l)) \in Nat /\ N <= Len(WithBlock(l))
  BY WithFacts, AheadIn
<1>4. \A x \in DOMAIN labels : labels[x] \in 1..Len(WithBlock(l))
  BY <1>3, Grow, AheadIn DEF LabelsIn
<1> QED BY <1>1, <1>2, <1>3, <1>4

\* A goto may make the block of its label.
LEMMA GotoStep == ASSUME NEW l \in Labels PROVE IInv /\ Goto(l) => IInv'
<1> SUFFICES ASSUME IInv, Goto(l) PROVE IInv'
  OBVIOUS
<1> DEFINE bs == WithBlock(l)
           n  == Len(bs)
<1>1. phase = "gen" /\ phase' = "gen" /\ Typed /\ Separate
  BY DEF IInv, Goto, Room
<1>2. Flags'
  <2>1. src' = Append(src, [k |-> "goto", l |-> l])
    BY DEF Goto, Read
  <2>2. UNCHANGED <<hadError_, phase>>
    BY DEF Goto
  <2> QED BY <1>1, <2>1, <2>2, ReadFacts, KeepsFlags
<1>3. /\ bbs' = Fresh(Br(bs, cur, LabelBlock(l)), 1) /\ cur' = n + 1 /\ getLabelBlock(l)
      /\ UNCHANGED <<nest, breaks, labelsDefined>>
  BY DEF Goto
<1>4. /\ N \in Nat /\ N = Len(bbs) /\ cur \in 1..N /\ OpenOf(bbs) \subseteq 1..N
      /\ Ahead(nest) \subseteq 1..N /\ Pending \subseteq 1..N
  BY <1>1, AheadIn
<1>5. /\ bs \in Seq(Block) /\ n \in Nat /\ N <= n /\ Targets(bs, n) /\ LabelBlock(l) \in 1..n
      /\ OpenOf(bs) = OpenOf(bbs) \cup NewBlock(l) /\ NewBlock(l) \subseteq (N + 1)..n /\ cur \in 1..n
  BY <1>1, <1>4, WithFacts
<1>6. /\ bbs' \in Seq(Block) /\ Len(bbs') = n + 1 /\ Targets(bbs', n + 1)
      /\ OpenOf(bbs') = (OpenOf(bs) \ {cur}) \cup {n + 1}
  <2>1. To(LabelBlock(l)) \in Term /\ To(LabelBlock(l)).k # "none" /\ Within(To(LabelBlock(l)), n)
    BY <1>5, Terms
  <2> HIDE DEF bs
  <2> QED BY <1>3, <1>5, <2>1, JumpFacts DEF Br
<1>7. /\ DOMAIN labels' = DOMAIN labels \cup {l} /\ labels'[l] = LabelBlock(l)
      /\ \A x \in DOMAIN labels : labels'[x] = labels[x]
      /\ \A x \in DOMAIN labels' : labels'[x] \in 1..n
  BY <1>1, <1>3, TableFacts
<1>8. /\ labelsDefined \subseteq DOMAIN labels /\ DOMAIN labels \subseteq Labels /\ LabelsApart
      /\ OpenOf(bbs) \ {cur} = Ahead(nest) \cup Pending /\ Ahead(nest) \cap Pending = {}
  BY <1>1 DEF Typed, LabelsIn, Separate
<1> HIDE DEF bs, n
<1>9. Typed'
  <2>1. StackIn(breaks, n + 1) /\ NestIn(nest, n + 1)
    BY <1>1, <1>4, <1>5, Grow
  <2>2. LabelsIn(Len(bbs))'
    BY <1>3, <1>5, <1>6, <1>7, <1>8 DEF LabelsIn
  <2>3. Blocks'
    BY <1>3, <1>5, <1>6 DEF Blocks
  <2> QED BY <1>2, <1>3, <1>6, <2>1, <2>2, <2>3 DEF Typed
<1>10. Pending' = Pending \cup NewBlock(l)
  <2>1. CASE l \in DOMAIN labels
    <3>1. DOMAIN labels' = DOMAIN labels /\ NewBlock(l) = {}
      BY <1>7, <2>1 DEF NewBlock
    <3> QED BY <1>3, <1>7, <1>8, <3>1 DEF Pending
  <2>2. CASE l \notin DOMAIN labels
    <3>1. NewBlock(l) = {labels'[l]} /\ l \notin labelsDefined
      BY <1>7, <1>8, <2>2 DEF NewBlock, LabelBlock
    <3> QED BY <1>3, <1>7, <1>8, <3>1 DEF Pending
  <2> QED BY <2>1, <2>2
<1>11. LabelsApart'
  <2> SUFFICES ASSUME NEW x \in DOMAIN labels' \ labelsDefined', NEW y \in DOMAIN labels' \ labelsDefined', x # y
               PROVE  labels'[x] # labels'[y]
    BY DEF LabelsApart
  <2>1. CASE l \in DOMAIN labels
    BY <1>3, <1>7, <1>8, <2>1 DEF LabelsApart
  <2>2. CASE l \notin DOMAIN labels
    <3>1. labels'[l] = N + 1 /\ \A z \in DOMAIN labels : labels[z] \in 1..N
      BY <1>1, <1>4, <1>7, <2>2 DEF LabelBlock, Typed, LabelsIn
    <3> QED BY <1>3, <1>4, <1>7, <1>8, <3>1 DEF LabelsApart
  <2> QED BY <2>1, <2>2
<1>12. Separate'
  <2>1. /\ NewBlock(l) \cap Ahead(nest) = {} /\ cur \notin NewBlock(l)
        /\ n + 1 \notin Ahead(nest) \cup Pending \cup NewBlock(l)
    BY <1>4, <1>5
  <2>2. OpenOf(bbs') = Ahead(nest) \cup Pending \cup NewBlock(l) \cup {n + 1}
    BY <1>5, <1>6, <1>8, <2>1
  <2>3. Apart(nest')
    BY <1>1, <1>3 DEF Separate
  <2> QED BY <1>3, <1>8, <1>10, <1>11, <2>1, <2>2, <2>3 DEF Separate
<1> QED BY <1>1, <1>9, <1>12 DEF IInv

\* A label moves to its block.
LEMMA LabelStep == ASSUME NEW l \in Labels PROVE IInv /\ Label(l) => IInv'
<1> SUFFICES ASSUME IInv, Label(l) PROVE IInv'
  OBVIOUS
<1> DEFINE bs == WithBlock(l)
           n  == Len(bs)
<1>1. phase = "gen" /\ phase' = "gen" /\ Typed /\ Separate
  BY DEF IInv, Label, Room
<1>2. src' \in Seq(Item)
  <2>1. src' = Append(src, [k |-> "label", l |-> l])
    BY DEF Label, Read
  <2> QED BY <1>1, <2>1, ReadFacts
<1>3. CASE Duplicate(l)
  BY <1>1, <1>2, <1>3, ErrorStep DEF Label
<1>4. CASE ~Duplicate(l)
  <2>1. /\ bbs' = BrIfOpen(bs, cur, LabelBlock(l)) /\ cur' = LabelBlock(l) /\ getLabelBlock(l)
        /\ labelsDefined' = labelsDefined \cup {l} /\ UNCHANGED <<nest, breaks>>
    BY <1>4 DEF Label
  <2>2. Flags'
    <3>1. UNCHANGED <<hadError_, phase>>
      BY <1>4 DEF Label
    <3> QED BY <1>1, <1>2, <3>1, KeepsFlags
  <2>3. /\ N \in Nat /\ N = Len(bbs) /\ cur \in 1..N /\ cur \in OpenOf(bbs) /\ OpenOf(bbs) \subseteq 1..N
        /\ Ahead(nest) \subseteq 1..N /\ Pending \subseteq 1..N
    BY <1>1, AheadIn
  <2>4. /\ bs \in Seq(Block) /\ n \in Nat /\ N <= n /\ Targets(bs, n) /\ LabelBlock(l) \in 1..n
        /\ OpenOf(bs) = OpenOf(bbs) \cup NewBlock(l) /\ NewBlock(l) \subseteq (N + 1)..n /\ cur \in 1..n
    BY <1>1, <2>3, WithFacts
  <2>5. /\ bbs' \in Seq(Block) /\ Len(bbs') = n /\ Targets(bbs', n)
        /\ OpenOf(bbs') = OpenOf(bs) \ {cur}
    <3>1. cur \in OpenOf(bs)
      BY <2>3, <2>4
    <3> HIDE DEF bs
    <3> QED BY <2>1, <2>4, <3>1, BrFacts
  <2>6. /\ DOMAIN labels' = DOMAIN labels \cup {l} /\ labels'[l] = LabelBlock(l)
        /\ \A x \in DOMAIN labels : labels'[x] = labels[x]
        /\ \A x \in DOMAIN labels' : labels'[x] \in 1..n
    BY <1>1, <2>1, TableFacts
  <2>7. /\ labelsDefined \subseteq DOMAIN labels /\ DOMAIN labels \subseteq Labels /\ LabelsApart
        /\ OpenOf(bbs) \ {cur} = Ahead(nest) \cup Pending /\ Ahead(nest) \cap Pending = {}
        /\ l \notin labelsDefined /\ cur \notin Pending
    BY <1>1, <1>4 DEF Typed, LabelsIn, Separate, Duplicate
  <2> HIDE DEF bs, n
  <2>8. Typed'
    <3>1. StackIn(breaks, n) /\ NestIn(nest, n)
      BY <1>1, <2>3, <2>4, Grow
    <3>2. LabelsIn(Len(bbs))'
      BY <2>1, <2>5, <2>6, <2>7 DEF LabelsIn
    <3>3. Blocks'
      BY <2>1, <2>4, <2>5 DEF Blocks
    <3> QED BY <2>1, <2>2, <2>5, <3>1, <3>2, <3>3 DEF Typed
  <2>9. DOMAIN labels' \ labelsDefined' = (DOMAIN labels \ labelsDefined) \ {l}
    BY <2>1, <2>6
  <2>10. Pending' = {labels[x] : x \in (DOMAIN labels \ labelsDefined) \ {l}}
    BY <2>6, <2>9 DEF Pending
  <2>11. /\ LabelBlock(l) \notin Pending' /\ LabelBlock(l) # cur /\ LabelBlock(l) \notin Ahead(nest)
         /\ Pending \cup NewBlock(l) = Pending' \cup {LabelBlock(l)}
         /\ Pending' \subseteq Pending /\ cur \notin NewBlock(l)
    <3>1. CASE l \in DOMAIN labels
      <4>1. LabelBlock(l) = labels[l] /\ NewBlock(l) = {} /\ l \in DOMAIN labels \ labelsDefined
        BY <2>7, <3>1 DEF LabelBlock, NewBlock
      <4>2. LabelBlock(l) \in Pending
        BY <4>1 DEF Pending
      <4>3. Pending = Pending' \cup {LabelBlock(l)}
        BY <2>10, <4>1 DEF Pending
      <4>4. LabelBlock(l) \notin Pending'
        BY <2>7, <2>10, <4>1 DEF LabelsApart
      <4> QED BY <2>7, <4>1, <4>2, <4>3, <4>4
    <3>2. CASE l \notin DOMAIN labels
      <4>1. LabelBlock(l) = N + 1 /\ NewBlock(l) = {N + 1}
        BY <3>2 DEF LabelBlock, NewBlock
      <4>2. Pending' = Pending
        BY <2>10, <3>2 DEF Pending
      <4> QED BY <2>3, <4>1, <4>2
    <3> QED BY <3>1, <3>2
  <2>12. LabelsApart'
    BY <2>6, <2>7, <2>9 DEF LabelsApart
  <2>13. Separate'
    <3>1. OpenOf(bbs') = Ahead(nest) \cup Pending' \cup {LabelBlock(l)}
      BY <2>4, <2>5, <2>7, <2>11
    <3>2. Apart(nest')
      BY <1>1, <2>1 DEF Separate
    <3> QED BY <2>1, <2>7, <2>11, <2>12, <3>1, <3>2 DEF Separate
  <2> QED BY <1>1, <2>8, <2>13 DEF IInv
<1> QED BY <1>3, <1>4

\* The end of the function shuts what is open.
LEMMA finishFnStep == IInv /\ finishFn => IInv'
<1> SUFFICES ASSUME IInv, finishFn PROVE IInv'
  OBVIOUS
<1> DEFINE shut(b) == IF bbs[b].term = None /\ b \in Pending \cup {cur}
                      THEN [bbs[b] EXCEPT !.term = Ret] ELSE bbs[b]
<1>1. phase = "gen" /\ phase' = "done" /\ nest = <<>> /\ Typed /\ Separate
  BY DEF IInv, finishFn
<1>2. /\ bbs' = [b \in DOMAIN bbs |-> shut(b)]
      /\ UNCHANGED <<src, nest, cur, breaks, labels, labelsDefined>>
  BY DEF finishFn, Pending
<1>3. /\ N = Len(bbs) /\ N \in Nat /\ bbs \in Seq(Block) /\ Targets(bbs, N) /\ DOMAIN bbs = 1..N
  BY <1>1, AheadIn DEF Typed, Blocks
<1>4. Ret \in Term /\ Ret # None /\ Ret.to = <<>>
  BY DEF Ret, Term, None
<1>5. \A b \in DOMAIN bbs : /\ shut(b) \in Block
                            /\ shut(b).term = IF bbs[b].term = None /\ b \in Pending \cup {cur}
                                              THEN Ret ELSE bbs[b].term
  <2> SUFFICES ASSUME NEW b \in DOMAIN bbs
               PROVE  /\ shut(b) \in Block
                      /\ shut(b).term = IF bbs[b].term = None /\ b \in Pending \cup {cur}
                                        THEN Ret ELSE bbs[b].term
    OBVIOUS
  <2>1. bbs[b] \in Block
    BY <1>3
  <2>2. [bbs[b] EXCEPT !.term = Ret] \in Block /\ [bbs[b] EXCEPT !.term = Ret].term = Ret
    BY <1>4, <2>1 DEF Block
  <2> QED BY <2>1, <2>2
<1>6. Ahead(nest) = {}
  BY <1>1 DEF Ahead
<1> HIDE DEF shut
<1>7. bbs' \in Seq(Block) /\ Len(bbs') = N /\ DOMAIN bbs' = 1..N
  BY <1>2, <1>3, <1>5
<1>8. OpenOf(bbs') = {}
  <2>1. \A b \in DOMAIN bbs : bbs[b].term = None => b \in Pending \cup {cur}
    BY <1>1, <1>6 DEF Separate, OpenOf
  <2> QED BY <1>2, <1>3, <1>4, <1>5, <1>7, <2>1 DEF OpenOf
<1>9. Targets(bbs', N)
  BY <1>2, <1>3, <1>4, <1>5, <1>7 DEF Targets
<1>10. Flags'
  <2>1. src' \in Seq(Item)
    BY <1>1, <1>2 DEF Typed, Flags
  <2>2. hadError_' \in BOOLEAN
    BY Zenon DEF finishFn
  <2>3. phase' \in {"gen", "done"}
    BY <1>1
  <2> QED BY <2>1, <2>2, <2>3, Zenon DEF Flags
<1>11. Typed'
  BY <1>1, <1>2, <1>3, <1>7, <1>9, <1>10 DEF Typed, Blocks, LabelsIn
<1> QED BY <1>1, <1>8, <1>11 DEF IInv

\* Every step keeps the invariant.
LEMMA NextIInv == IInv /\ [Next]_vars => IInv'
<1> SUFFICES ASSUME IInv, [Next]_vars PROVE IInv'
  OBVIOUS
<1>1. CASE UNCHANGED vars
  BY <1>1 DEF vars, IInv, Typed, Flags, Blocks, LabelsIn, Separate, Pending, LabelsApart
<1>2. ASSUME NEW l \in Labels, Goto(l) \/ Label(l) PROVE IInv'
  BY <1>2, GotoStep, LabelStep
<1>3. ASSUME NEW k \in {"if", "ifelse"}, OpenIf(k) PROVE IInv'
  BY <1>3, OpenIfStep
<1>4. ASSUME NEW k \in {"for", "forever"}, OpenFor(k) PROVE IInv'
  BY <1>4, OpenForStep
<1>5. ASSUME Simple \/ Break \/ Return \/ Else \/ EndIf PROVE IInv'
  BY <1>5, SimpleStep, BreakStep, ReturnStep, ElseStep, EndIfStep
<1>6. ASSUME OpenWhile \/ EndWhile \/ OpenDo \/ EndDo \/ EndFor PROVE IInv'
  BY <1>6, OpenWhileStep, EndWhileStep, OpenDoStep, EndDoStep, EndForStep
<1>7. CASE finishFn
  BY <1>7, finishFnStep
<1> QED BY <1>1, <1>2, <1>3, <1>4, <1>5, <1>6, <1>7 DEF Next

-----------------------------------------------------------------------------
\* Every jump leads to a block that exists, and so do break's targets and the
\* table of labels, in every body of any length over any set of labels (genStmt
\* and the functions it calls).
THEOREM TypeCorrect == Spec => []TypeOK
<1>1. IInv => TypeOK
  <2> SUFFICES ASSUME IInv PROVE TypeOK
    OBVIOUS
  <2>1. Typed /\ bbs \in Seq(Block) /\ DOMAIN bbs = 1..Len(bbs)
    BY DEF IInv, Typed, Blocks
  <2>2. \A b \in DOMAIN bbs : bbs[b].term.k \in {"none", "br", "cond", "ret"}
    <3> SUFFICES ASSUME NEW b \in DOMAIN bbs PROVE bbs[b].term.k \in {"none", "br", "cond", "ret"}
      OBVIOUS
    <3>1. bbs[b] \in Block
      BY <2>1
    <3>2. bbs[b].term \in Term
      BY <3>1 DEF Block
    <3> QED BY <3>2 DEF Term
  <2>3. phase \in {"gen", "done"} /\ hadError_ \in BOOLEAN
    BY <2>1, Zenon DEF Typed, Flags
  <2>4. \A b \in DOMAIN bbs : \A i \in DOMAIN bbs[b].term.to : bbs[b].term.to[i] \in DOMAIN bbs
    BY <2>1 DEF Typed, Blocks, Targets
  <2>5. /\ cur \in DOMAIN bbs /\ \A i \in DOMAIN breaks : breaks[i] \in DOMAIN bbs
        /\ labelsDefined \subseteq DOMAIN labels /\ DOMAIN labels \subseteq Labels
        /\ \A l \in DOMAIN labels : labels[l] \in DOMAIN bbs
    BY <2>1 DEF Typed, Blocks, StackIn, LabelsIn
  <2> QED BY <2>2, <2>3, <2>4, <2>5, Zenon DEF TypeOK
<1> QED BY <1>1, InitIInv, NextIInv, PTL DEF Spec

\* Whatever the body and its errors, no block is left without a terminator, and
\* on the way only the insert point and the blocks still to be moved to are open
\* (genStmt, startDeadBlock, finishFn).
THEOREM EveryBlockTerminated == Spec => []BlocksTerminated
<1>1. IInv => BlocksTerminated
  <2> SUFFICES ASSUME IInv PROVE BlocksTerminated
    OBVIOUS
  <2>1. Awaited = Ahead(nest) \cup Pending
    BY DEF Awaited, Ahead, Pending
  <2>2. phase \in {"gen", "done"}
    BY DEF IInv, Typed, Flags
  <2> QED BY <2>1, <2>2 DEF IInv, Separate, BlocksTerminated, OpenOf
<1> QED BY <1>1, InitIInv, NextIInv, PTL DEF Spec

-----------------------------------------------------------------------------
(* The source read so far, as ErrorsAreReal speaks of it.                   *)

\* The items that open and that close a construct, up to n; how deep place p is.
OpenersTo(s, n) == {q \in 1..n : q <= Len(s) /\ Opens(s[q])}
ClosersTo(s, n) == {q \in 1..n : Closes(s[q])}
DepthIn(s, p)   == Cardinality(OpenersTo(s, p)) - Cardinality(ClosersTo(s, p - 1))
Level(s)        == Cardinality(OpenersTo(s, Len(s))) - Cardinality(ClosersTo(s, Len(s)))

\* The construct that opens at q has ended above p.
Ended(s, q, p) == \E c \in (q + 1)..(p - 1) : Closes(s[c]) /\ DepthIn(s, c) = DepthIn(s, q)

\* The constructs that are open are those of ns, the outermost first.
Nested(s, ns) ==
  /\ Level(s) = Len(ns)
  /\ \A i \in DOMAIN ns : /\ ns[i].p \in DOMAIN s /\ Opens(s[ns[i].p])
                          /\ DepthIn(s, ns[i].p) = i
                          /\ ns[i].k \in Loops <=> s[ns[i].p].k \in Loops
  /\ \A q \in DOMAIN s : Opens(s[q]) =>
       (~Ended(s, q, Len(s) + 1) <=> \E i \in DOMAIN ns : ns[i].p = q)

\* The counts are numbers.
LEMMA Counted ==
  ASSUME NEW s \in Seq(Item), NEW n \in 0..Len(s)
  PROVE  /\ IsFiniteSet(OpenersTo(s, n)) /\ Cardinality(OpenersTo(s, n)) \in Nat
         /\ IsFiniteSet(ClosersTo(s, n)) /\ Cardinality(ClosersTo(s, n)) \in Nat
<1>1. IsFiniteSet(1..n)
  BY FS_Interval
<1>2. OpenersTo(s, n) \in SUBSET (1..n) /\ ClosersTo(s, n) \in SUBSET (1..n)
  BY DEF OpenersTo, ClosersTo
<1>3. IsFiniteSet(OpenersTo(s, n)) /\ IsFiniteSet(ClosersTo(s, n))
  BY <1>1, <1>2, FS_Subset
<1> QED BY <1>3, FS_CardinalityType

\* A new item is as deep as the ones open, one deeper if it opens one; the depth
\* of the others stays.
LEMMA DepthOfNew ==
  ASSUME NEW s \in Seq(Item), NEW x \in Item, NEW t, t = Append(s, x)
  PROVE  /\ \A p \in 1..Len(s) : DepthIn(t, p) = DepthIn(s, p)
         /\ DepthIn(t, Len(s) + 1) = Level(s) + IF Opens(x) THEN 1 ELSE 0
         /\ Level(t) = (Level(s) + IF Opens(x) THEN 1 ELSE 0) - IF Closes(x) THEN 1 ELSE 0
         /\ Level(s) \in Int /\ \A p \in 1..Len(s) : DepthIn(s, p) \in Int
<1> DEFINE n == Len(s)
<1>1. /\ n \in Nat /\ Len(t) = n + 1 /\ t[n + 1] = x
      /\ \A i \in 1..n : t[i] = s[i]
  BY AppendFacts
<1>2. ASSUME NEW p \in 0..n
      PROVE  OpenersTo(t, p) = OpenersTo(s, p) /\ ClosersTo(t, p) = ClosersTo(s, p)
  BY <1>1 DEF OpenersTo, ClosersTo
<1>3. /\ OpenersTo(t, n + 1) = IF Opens(x) THEN OpenersTo(s, n) \cup {n + 1} ELSE OpenersTo(s, n)
      /\ ClosersTo(t, n + 1) = IF Closes(x) THEN ClosersTo(s, n) \cup {n + 1} ELSE ClosersTo(s, n)
  <2>1. \A q \in 1..(n + 1) : q \in 1..n \/ q = n + 1
    BY <1>1
  <2>2. \A q \in 1..n : q \in 1..(n + 1) /\ q <= n /\ q <= n + 1 /\ q # n + 1
    BY <1>1
  <2>3. n + 1 \in 1..(n + 1) /\ n + 1 <= n + 1
    BY <1>1
  <2> HIDE DEF n
  <2>4. Opens(x) => OpenersTo(t, n + 1) = OpenersTo(s, n) \cup {n + 1}
    BY <1>1, <2>1, <2>2, <2>3 DEF OpenersTo, n
  <2>5. ~Opens(x) => OpenersTo(t, n + 1) = OpenersTo(s, n)
    BY <1>1, <2>1, <2>2, <2>3 DEF OpenersTo, n
  <2>6. Closes(x) => ClosersTo(t, n + 1) = ClosersTo(s, n) \cup {n + 1}
    BY <1>1, <2>1, <2>2, <2>3 DEF ClosersTo
  <2>7. ~Closes(x) => ClosersTo(t, n + 1) = ClosersTo(s, n)
    BY <1>1, <2>1, <2>2, <2>3 DEF ClosersTo
  <2> QED BY <2>4, <2>5, <2>6, <2>7
<1>4. n + 1 \notin OpenersTo(s, n) /\ n + 1 \notin ClosersTo(s, n)
  BY <1>1 DEF OpenersTo, ClosersTo
<1>5. /\ IsFiniteSet(OpenersTo(s, n)) /\ Cardinality(OpenersTo(s, n)) \in Nat
      /\ IsFiniteSet(ClosersTo(s, n)) /\ Cardinality(ClosersTo(s, n)) \in Nat
  BY <1>1, Counted
<1>6. /\ Cardinality(OpenersTo(s, n) \cup {n + 1}) = Cardinality(OpenersTo(s, n)) + 1
      /\ Cardinality(ClosersTo(s, n) \cup {n + 1}) = Cardinality(ClosersTo(s, n)) + 1
  BY <1>4, <1>5, FS_AddElement
<1> HIDE DEF n
<1>7. ASSUME NEW p \in 1..n PROVE DepthIn(t, p) = DepthIn(s, p) /\ DepthIn(s, p) \in Int
  <2>1. p \in 0..n /\ p - 1 \in 0..n
    BY <1>1
  <2>2. Cardinality(OpenersTo(s, p)) \in Nat /\ Cardinality(ClosersTo(s, p - 1)) \in Nat
    BY <2>1, Counted DEF n
  <2> QED BY <1>2, <2>1, <2>2 DEF DepthIn
<1>8. Level(s) \in Int /\ Level(s) = Cardinality(OpenersTo(s, n)) - Cardinality(ClosersTo(s, n))
  BY <1>5 DEF Level, n
<1>9. DepthIn(t, n + 1) = Level(s) + IF Opens(x) THEN 1 ELSE 0
  <2>1. n + 1 - 1 = n /\ n \in 0..n
    BY <1>1
  <2>2. DepthIn(t, n + 1) = Cardinality(OpenersTo(t, n + 1)) - Cardinality(ClosersTo(s, n))
    BY <1>2, <2>1 DEF DepthIn
  <2>3. CASE Opens(x)
    <3>1. OpenersTo(t, n + 1) = OpenersTo(s, n) \cup {n + 1}
      BY <1>3, <2>3
    <3>2. Cardinality(OpenersTo(t, n + 1)) = Cardinality(OpenersTo(s, n)) + 1
      BY <1>6, <3>1
    <3> QED BY <1>5, <1>8, <2>2, <2>3, <3>2
  <2>4. CASE ~Opens(x)
    BY <1>3, <1>5, <1>8, <2>2, <2>4
  <2> QED BY <2>3, <2>4
<1>10. Level(t) = (Level(s) + IF Opens(x) THEN 1 ELSE 0) - IF Closes(x) THEN 1 ELSE 0
  <2>1. Level(t) = Cardinality(OpenersTo(t, n + 1)) - Cardinality(ClosersTo(t, n + 1))
    BY <1>1 DEF Level
  <2>2. Cardinality(OpenersTo(t, n + 1)) = Cardinality(OpenersTo(s, n)) + IF Opens(x) THEN 1 ELSE 0
    BY <1>3, <1>5, <1>6
  <2>3. Cardinality(ClosersTo(t, n + 1)) = Cardinality(ClosersTo(s, n)) + IF Closes(x) THEN 1 ELSE 0
    BY <1>3, <1>5, <1>6
  <2>4. PICK a \in Nat, b \in Nat : a = Cardinality(OpenersTo(s, n)) /\ b = Cardinality(ClosersTo(s, n))
    BY <1>5
  <2>5. Level(s) = a - b
    BY <1>8, <2>4
  <2>6. CASE Opens(x)
    <3>1. Cardinality(OpenersTo(t, n + 1)) = a + 1
      BY <2>2, <2>4, <2>6
    <3>2. CASE Closes(x)
      <4>1. Level(t) = a + 1 - (b + 1)
        BY <2>1, <2>3, <2>4, <3>1, <3>2
      <4> QED BY <2>4, <2>5, <2>6, <3>2, <4>1
    <3>3. CASE ~Closes(x)
      <4>1. Level(t) = a + 1 - b
        BY <2>1, <2>3, <2>4, <3>1, <3>3
      <4> QED BY <2>4, <2>5, <2>6, <3>3, <4>1
    <3> QED BY <3>2, <3>3
  <2>7. CASE ~Opens(x)
    <3>1. Cardinality(OpenersTo(t, n + 1)) = a
      BY <2>2, <2>4, <2>7
    <3> QED BY <2>1, <2>3, <2>4, <2>5, <2>7, <3>1
  <2> QED BY <2>6, <2>7
<1> QED BY <1>7, <1>8, <1>9, <1>10 DEF n

\* What has ended above a place that is there already stays so; at the end a new
\* item that closes ends the construct that is as deep as the level.
LEMMA EndedOfNew ==
  ASSUME NEW s \in Seq(Item), NEW x \in Item, NEW t, t = Append(s, x)
  PROVE  /\ \A q, p \in 1..(Len(s) + 1) : q <= Len(s) => (Ended(t, q, p) <=> Ended(s, q, p))
         /\ Opens(x) => ~Closes(x)
         /\ ~Closes(x) => \A q \in 1..Len(s) : Ended(t, q, Len(t) + 1) <=> Ended(s, q, Len(s) + 1)
         /\ Closes(x) => \A q \in 1..Len(s) :
              Ended(t, q, Len(t) + 1) <=> Ended(s, q, Len(s) + 1) \/ Level(s) = DepthIn(s, q)
         /\ ~Ended(t, Len(t), Len(t) + 1)
<1> DEFINE n == Len(s)
<1>1. /\ n \in Nat /\ Len(t) = n + 1 /\ t[n + 1] = x
      /\ \A i \in 1..n : t[i] = s[i]
  BY AppendFacts
<1>2. /\ \A p \in 1..n : DepthIn(t, p) = DepthIn(s, p)
      /\ DepthIn(t, n + 1) = Level(s) + IF Opens(x) THEN 1 ELSE 0
      /\ Level(s) \in Int
  BY DepthOfNew
<1>3. Opens(x) => ~Closes(x)
  BY DEF Opens, Closes, Loops
<1> HIDE DEF n
<1>4. \A q, p \in 1..(n + 1) : q <= n => (Ended(t, q, p) <=> Ended(s, q, p))
  <2> SUFFICES ASSUME NEW q \in 1..n, NEW p \in 1..(n + 1) PROVE Ended(t, q, p) <=> Ended(s, q, p)
    BY <1>1
  <2>1. \A c \in (q + 1)..(p - 1) : c \in 1..n
    BY <1>1
  <2> QED BY <1>1, <1>2, <2>1 DEF Ended
<1>5. ASSUME NEW q \in 1..n
      PROVE  Ended(t, q, n + 2) <=> \/ Ended(s, q, n + 1)
                                    \/ Closes(x) /\ Level(s) = DepthIn(s, q)
  <2>1. /\ (n + 2) - 1 = n + 1 /\ (n + 1) - 1 = n /\ n + 1 \in (q + 1)..(n + 1)
        /\ \A c \in (q + 1)..(n + 1) : c = n + 1 \/ (c \in (q + 1)..n /\ c \in 1..n)
        /\ \A c \in (q + 1)..n : c \in (q + 1)..(n + 1) /\ c \in 1..n
    BY <1>1
  <2>2. Ended(t, q, n + 2) <=> \E c \in (q + 1)..(n + 1) : Closes(t[c]) /\ DepthIn(t, c) = DepthIn(s, q)
    <3>1. DepthIn(t, q) = DepthIn(s, q)
      BY <1>2
    <3>2. Ended(t, q, n + 2) <=> \E c \in (q + 1)..((n + 2) - 1) : Closes(t[c]) /\ DepthIn(t, c) = DepthIn(t, q)
      BY DEF Ended
    <3>3. (n + 2) - 1 = n + 1
      BY <1>1
    <3> QED BY ONLY <3>1, <3>2, <3>3
  <2>3. Ended(s, q, n + 1) <=> \E c \in (q + 1)..n : Closes(t[c]) /\ DepthIn(t, c) = DepthIn(s, q)
    BY <1>1, <1>2, <2>1 DEF Ended
  <2>4. Closes(x) => DepthIn(t, n + 1) = Level(s)
    BY <1>2, <1>3
  <2> QED BY <1>1, <2>1, <2>2, <2>3, <2>4
<1>6. ~Ended(t, n + 1, n + 2)
  BY <1>1 DEF Ended
<1>7. Len(t) + 1 = n + 2
  BY <1>1
<1> QED BY <1>1, <1>3, <1>4, <1>5, <1>6, <1>7 DEF n

\* An item that opens and closes nothing leaves what is open.
LEMMA NestedPlain ==
  ASSUME NEW s \in Seq(Item), NEW x \in Item, ~Opens(x), ~Closes(x), NEW t, t = Append(s, x),
         NEW ns \in Seq(Frame), NEW ms \in Seq(Frame), Len(ms) = Len(ns),
         \A i \in DOMAIN ns : ms[i].p = ns[i].p /\ (ms[i].k \in Loops <=> ns[i].k \in Loops),
         Nested(s, ns)
  PROVE  Nested(t, ms)
<1>0. /\ \A p \in 1..Len(s) : DepthIn(t, p) = DepthIn(s, p)
      /\ Level(t) = (Level(s) + IF Opens(x) THEN 1 ELSE 0) - IF Closes(x) THEN 1 ELSE 0
      /\ DepthIn(t, Len(s) + 1) = Level(s) + IF Opens(x) THEN 1 ELSE 0
  BY DepthOfNew
<1>a. Level(s) = Len(ns) /\ Len(ns) \in Nat
  BY DEF Nested
<1>1. /\ Len(s) \in Nat /\ Len(t) = Len(s) + 1 /\ t[Len(s) + 1] = x
      /\ \A i \in 1..Len(s) : t[i] = s[i]
      /\ DOMAIN s = 1..Len(s) /\ DOMAIN t = 1..(Len(s) + 1)
  BY AppendFacts
<1>2. DOMAIN ms = DOMAIN ns
  OBVIOUS
<1>3. Level(t) = Len(ms)
  BY <1>0, <1>a
<1>4. ASSUME NEW i \in DOMAIN ms
      PROVE  /\ ms[i].p \in DOMAIN t /\ Opens(t[ms[i].p]) /\ DepthIn(t, ms[i].p) = i
             /\ ms[i].k \in Loops <=> t[ms[i].p].k \in Loops
  <2>1. /\ ns[i].p \in 1..Len(s) /\ Opens(s[ns[i].p]) /\ DepthIn(s, ns[i].p) = i
        /\ ns[i].k \in Loops <=> s[ns[i].p].k \in Loops
    BY <1>1, <1>2 DEF Nested
  <2>2. DepthIn(t, ns[i].p) = i /\ t[ns[i].p] = s[ns[i].p] /\ ns[i].p \in 1..(Len(s) + 1)
    BY <1>0, <1>1, <2>1
  <2> QED BY <1>1, <1>2, <2>1, <2>2
<1>5. ASSUME NEW q \in DOMAIN t, Opens(t[q])
      PROVE  ~Ended(t, q, Len(t) + 1) <=> \E i \in DOMAIN ms : ms[i].p = q
  <2>1. q \in 1..Len(s) /\ Opens(s[q])
    BY <1>1, <1>5
  <2>2. Ended(t, q, Len(t) + 1) <=> Ended(s, q, Len(s) + 1)
    BY <2>1, EndedOfNew
  <2>3. ~Ended(s, q, Len(s) + 1) <=> \E i \in DOMAIN ns : ns[i].p = q
    BY <1>1, <2>1 DEF Nested
  <2> QED BY <1>2, <2>2, <2>3
<1> QED BY <1>3, <1>4, <1>5 DEF Nested

\* An item that opens a construct.
LEMMA NestedOpen ==
  ASSUME NEW s \in Seq(Item), NEW x \in Item, Opens(x), NEW t, t = Append(s, x),
         NEW ns \in Seq(Frame), NEW f \in Frame, f.p = Len(s) + 1, f.k = x.k,
         NEW ms, ms = Append(ns, f), Nested(s, ns)
  PROVE  Nested(t, ms)
<1>0. /\ \A p \in 1..Len(s) : DepthIn(t, p) = DepthIn(s, p)
      /\ Level(t) = (Level(s) + IF Opens(x) THEN 1 ELSE 0) - IF Closes(x) THEN 1 ELSE 0
      /\ DepthIn(t, Len(s) + 1) = Level(s) + IF Opens(x) THEN 1 ELSE 0
  BY DepthOfNew
<1>a. Level(s) = Len(ns) /\ Len(ns) \in Nat
  BY DEF Nested
<1>1. /\ Len(s) \in Nat /\ Len(t) = Len(s) + 1 /\ t[Len(s) + 1] = x
      /\ \A i \in 1..Len(s) : t[i] = s[i]
      /\ DOMAIN s = 1..Len(s) /\ DOMAIN t = 1..(Len(s) + 1)
  BY AppendFacts
<1>2. /\ Len(ns) \in Nat /\ Len(ms) = Len(ns) + 1 /\ ms[Len(ns) + 1] = f
      /\ \A i \in 1..Len(ns) : ms[i] = ns[i]
      /\ DOMAIN ns = 1..Len(ns) /\ DOMAIN ms = 1..(Len(ns) + 1)
  BY AppendFacts
<1>3. ~Closes(x) /\ DepthIn(t, Len(s) + 1) = Len(ns) + 1 /\ Level(t) = Len(ns) + 1
  <2>1. ~Closes(x)
    BY EndedOfNew
  <2> QED BY <1>0, <1>a, <2>1
<1>4. ASSUME NEW i \in DOMAIN ms
      PROVE  /\ ms[i].p \in DOMAIN t /\ Opens(t[ms[i].p]) /\ DepthIn(t, ms[i].p) = i
             /\ ms[i].k \in Loops <=> t[ms[i].p].k \in Loops
  <2>1. CASE i = Len(ns) + 1
    BY <1>1, <1>2, <1>3, <2>1
  <2>2. CASE i \in DOMAIN ns
    <3>1. /\ ns[i].p \in 1..Len(s) /\ Opens(s[ns[i].p]) /\ DepthIn(s, ns[i].p) = i
          /\ ns[i].k \in Loops <=> s[ns[i].p].k \in Loops
      BY <1>1, <2>2 DEF Nested
    <3>2. DepthIn(t, ns[i].p) = i /\ t[ns[i].p] = s[ns[i].p] /\ ns[i].p \in 1..(Len(s) + 1)
      BY <1>0, <1>1, <3>1
    <3> QED BY <1>1, <1>2, <2>2, <3>1, <3>2
  <2> QED BY <1>2, <2>1, <2>2
<1>5. ASSUME NEW q \in DOMAIN t, Opens(t[q])
      PROVE  ~Ended(t, q, Len(t) + 1) <=> \E i \in DOMAIN ms : ms[i].p = q
  <2>1. CASE q = Len(s) + 1
    <3>1. ~Ended(t, q, Len(t) + 1)
      BY <1>1, <2>1, EndedOfNew
    <3>2. Len(ns) + 1 \in DOMAIN ms /\ ms[Len(ns) + 1].p = q
      BY <1>2, <2>1
    <3> QED BY <3>1, <3>2
  <2>2. CASE q \in 1..Len(s)
    <3>1. Ended(t, q, Len(t) + 1) <=> Ended(s, q, Len(s) + 1)
      BY <1>3, <2>2, EndedOfNew
    <3>2. ~Ended(s, q, Len(s) + 1) <=> \E i \in DOMAIN ns : ns[i].p = q
      BY <1>1, <1>5, <2>2 DEF Nested
    <3>3. q # f.p
      BY <1>1, <2>2
    <3>4. (\E i \in DOMAIN ns : ns[i].p = q) <=> \E i \in DOMAIN ms : ms[i].p = q
      BY <1>2, <3>3
    <3> QED BY <3>1, <3>2, <3>4
  <2> QED BY <1>1, <2>1, <2>2
<1> QED BY <1>2, <1>3, <1>4, <1>5 DEF Nested

\* An item that closes the innermost one.
LEMMA NestedClose ==
  ASSUME NEW s \in Seq(Item), NEW x \in Item, Closes(x), NEW t, t = Append(s, x),
         NEW ns \in Seq(Frame), ns # <<>>, NEW ms, ms = SubSeq(ns, 1, Len(ns) - 1), Nested(s, ns)
  PROVE  Nested(t, ms)
<1>0. /\ \A p \in 1..Len(s) : DepthIn(t, p) = DepthIn(s, p)
      /\ Level(t) = (Level(s) + IF Opens(x) THEN 1 ELSE 0) - IF Closes(x) THEN 1 ELSE 0
      /\ DepthIn(t, Len(s) + 1) = Level(s) + IF Opens(x) THEN 1 ELSE 0
  BY DepthOfNew
<1>a. Level(s) = Len(ns) /\ Len(ns) \in Nat
  BY DEF Nested
<1>1. /\ Len(s) \in Nat /\ Len(t) = Len(s) + 1 /\ t[Len(s) + 1] = x
      /\ \A i \in 1..Len(s) : t[i] = s[i]
      /\ DOMAIN s = 1..Len(s) /\ DOMAIN t = 1..(Len(s) + 1)
  BY AppendFacts
<1>2. /\ Len(ns) \in Nat /\ Len(ns) > 0 /\ Len(ms) = Len(ns) - 1
      /\ \A i \in 1..(Len(ns) - 1) : ms[i] = ns[i]
      /\ DOMAIN ns = 1..Len(ns) /\ DOMAIN ms = 1..(Len(ns) - 1)
  <2>1. ns \in Seq(Frame) /\ Len(ns) \in Nat /\ Len(ns) > 0 /\ Len(ns) - 1 \in 0..Len(ns)
    OBVIOUS
  <2>2. ms \in Seq(Frame) /\ Len(ms) = Len(ns) - 1 /\ \A i \in 1..(Len(ns) - 1) : ms[i] = ns[i]
    BY <2>1, PrefixFacts
  <2> QED BY <2>1, <2>2
<1>3. ~Opens(x) /\ Level(s) = Len(ns) /\ Level(t) = Len(ns) - 1
  <2>1. ~Opens(x)
    BY EndedOfNew
  <2> QED BY <1>0, <1>a, <2>1
<1>4. ASSUME NEW i \in DOMAIN ms
      PROVE  /\ ms[i].p \in DOMAIN t /\ Opens(t[ms[i].p]) /\ DepthIn(t, ms[i].p) = i
             /\ ms[i].k \in Loops <=> t[ms[i].p].k \in Loops
  <2>0. i \in DOMAIN ns
    BY <1>2
  <2>1. /\ ns[i].p \in 1..Len(s) /\ Opens(s[ns[i].p]) /\ DepthIn(s, ns[i].p) = i
        /\ ns[i].k \in Loops <=> s[ns[i].p].k \in Loops
    BY <1>1, <2>0 DEF Nested
  <2>2. DepthIn(t, ns[i].p) = i /\ t[ns[i].p] = s[ns[i].p] /\ ns[i].p \in 1..(Len(s) + 1)
    BY <1>0, <1>1, <2>1
  <2> QED BY <1>1, <1>2, <2>1, <2>2
<1>5. ASSUME NEW q \in DOMAIN t, Opens(t[q])
      PROVE  ~Ended(t, q, Len(t) + 1) <=> \E i \in DOMAIN ms : ms[i].p = q
  <2>1. q \in 1..Len(s) /\ Opens(s[q])
    BY <1>1, <1>3, <1>5
  <2>2. Ended(t, q, Len(t) + 1) <=> Ended(s, q, Len(s) + 1) \/ Len(ns) = DepthIn(s, q)
    <3>1. \A r \in 1..Len(s) :
            Ended(t, r, Len(t) + 1) <=> Ended(s, r, Len(s) + 1) \/ Level(s) = DepthIn(s, r)
      BY EndedOfNew
    <3> QED BY ONLY <1>a, <2>1, <3>1
  <2>3. ~Ended(s, q, Len(s) + 1) <=> \E i \in DOMAIN ns : ns[i].p = q
    BY <1>1, <2>1 DEF Nested
  <2>4. \A i \in DOMAIN ns : ns[i].p = q => DepthIn(s, q) = i
    BY DEF Nested
  <2>5. (\E i \in DOMAIN ms : ms[i].p = q) <=> \E i \in DOMAIN ns : ns[i].p = q /\ i # Len(ns)
    <3>1. \A i : i \in DOMAIN ms <=> i \in DOMAIN ns /\ i # Len(ns)
      BY <1>2
    <3>2. \A i \in DOMAIN ms : ms[i] = ns[i]
      BY <1>2
    <3> QED BY <3>1, <3>2
  <2> QED BY <2>2, <2>3, <2>4, <2>5
<1> QED BY <1>2, <1>3, <1>4, <1>5 DEF Nested

-----------------------------------------------------------------------------
(* The errors of the source read so far.                                    *)

\* A break stands in no loop; a label is defined twice; a goto has no label.
Lost(s)  == \E p \in DOMAIN s : s[p].k = "break"
                                /\ ~\E q \in 1..(p - 1) : s[q].k \in Loops /\ ~Ended(s, q, p)
Twice(s) == \E p, q \in DOMAIN s : p # q /\ s[p].k = "label" /\ s[p] = s[q]
Unmet(s) == \E p \in DOMAIN s : s[p].k = "goto"
                                /\ ~\E q \in DOMAIN s : s[q] = [k |-> "label", l |-> s[p].l]

\* The labels that stand in s, and those a goto asks for; the loops of ns.
Met(s)      == {l \in Labels : \E p \in DOMAIN s : s[p] = [k |-> "label", l |-> l]}
Asked(s)    == {l \in Labels : \E p \in DOMAIN s : s[p] = [k |-> "goto", l |-> l]}
LoopsOf(ns) == {i \in DOMAIN ns : ns[i].k \in Loops}

\* The stacks, the tables and the error flag tell what the source read so far is.
Told ==
  /\ Nested(src, nest)
  /\ Len(breaks) = Cardinality(LoopsOf(nest))
  /\ labelsDefined = Met(src)
  /\ DOMAIN labels = Met(src) \cup Asked(src)
  /\ hadError_ <=> Lost(src) \/ Twice(src) \/ (phase = "done" /\ Unmet(src))
  /\ phase = "done" => nest = <<>>

\* A new item is a break in no loop, or the others are as they were.
LEMMA LostOfNew ==
  ASSUME NEW s \in Seq(Item), NEW x \in Item, NEW t, t = Append(s, x),
         NEW ns \in Seq(Frame), Nested(s, ns)
  PROVE  Lost(t) <=> Lost(s) \/ (x.k = "break" /\ LoopsOf(ns) = {})
<1>1. /\ Len(s) \in Nat /\ Len(t) = Len(s) + 1 /\ t[Len(s) + 1] = x
      /\ \A i \in 1..Len(s) : t[i] = s[i]
      /\ DOMAIN s = 1..Len(s) /\ DOMAIN t = 1..(Len(s) + 1)
  BY AppendFacts
<1>2. \A q, p \in 1..(Len(s) + 1) : q <= Len(s) => (Ended(t, q, p) <=> Ended(s, q, p))
  BY EndedOfNew
<1> DEFINE Alone(u, p) == ~\E q \in 1..(p - 1) : u[q].k \in Loops /\ ~Ended(u, q, p)
           n == Len(s)
<1>3. ASSUME NEW p \in 1..(n + 1) PROVE Alone(t, p) <=> Alone(s, p)
  <2>1. \A q \in 1..(p - 1) : q \in 1..n /\ q <= n /\ q \in 1..(n + 1)
    BY <1>1
  <2>2. \A q \in 1..(p - 1) : t[q] = s[q] /\ (Ended(t, q, p) <=> Ended(s, q, p))
    BY <1>1, <1>2, <2>1
  <2> QED BY <2>2
<1>4. Alone(s, n + 1) <=> LoopsOf(ns) = {}
  <2>1. (n + 1) - 1 = n
    BY <1>1
  <2>2. ASSUME NEW q \in 1..n, s[q].k \in Loops, ~Ended(s, q, n + 1) PROVE LoopsOf(ns) # {}
    <3>1. Opens(s[q])
      BY <2>2 DEF Opens
    <3>2. PICK i \in DOMAIN ns : ns[i].p = q
      BY <1>1, <2>2, <3>1 DEF Nested
    <3>3. ns[i].k \in Loops
      BY <2>2, <3>2 DEF Nested
    <3> QED BY <3>3 DEF LoopsOf
  <2>3. ASSUME NEW i \in LoopsOf(ns) PROVE \E q \in 1..n : s[q].k \in Loops /\ ~Ended(s, q, n + 1)
    <3>1. /\ i \in DOMAIN ns /\ ns[i].p \in 1..n /\ s[ns[i].p].k \in Loops /\ Opens(s[ns[i].p])
      BY <1>1, <2>3 DEF LoopsOf, Nested
    <3>2. ~Ended(s, ns[i].p, n + 1)
      BY <1>1, <3>1 DEF Nested
    <3> QED BY <3>1, <3>2
  <2> QED BY <2>1, <2>2, <2>3
<1>5. Lost(t) <=> \E p \in 1..(n + 1) : t[p].k = "break" /\ Alone(t, p)
  BY <1>1 DEF Lost
<1>6. Lost(s) <=> \E p \in 1..n : s[p].k = "break" /\ Alone(s, p)
  BY <1>1 DEF Lost
<1> HIDE DEF Alone
<1> QED BY <1>1, <1>3, <1>4, <1>5, <1>6

\* A new item repeats a label, adds a label or adds a goto, or the others are as
\* they were.
LEMMA LabelsOfNew ==
  ASSUME NEW s \in Seq(Item), NEW x \in Item, NEW t, t = Append(s, x)
  PROVE  /\ Twice(t) <=> Twice(s) \/ (x.k = "label" /\ \E q \in DOMAIN s : s[q] = x)
         /\ Met(t) = Met(s) \cup {l \in Labels : x = [k |-> "label", l |-> l]}
         /\ Asked(t) = Asked(s) \cup {l \in Labels : x = [k |-> "goto", l |-> l]}
<1>1. /\ Len(s) \in Nat /\ Len(t) = Len(s) + 1 /\ t[Len(s) + 1] = x
      /\ \A i \in 1..Len(s) : t[i] = s[i]
      /\ DOMAIN s = 1..Len(s) /\ DOMAIN t = 1..(Len(s) + 1)
  BY AppendFacts
<1>2. /\ \A i \in DOMAIN s : i \in DOMAIN t /\ i # Len(s) + 1 /\ t[i] = s[i]
      /\ \A i \in DOMAIN t : i \in DOMAIN s \/ i = Len(s) + 1
      /\ Len(s) + 1 \in DOMAIN t
  BY <1>1
<1>3. Twice(t) <=> Twice(s) \/ (x.k = "label" /\ \E q \in DOMAIN s : s[q] = x)
  <2>1. ASSUME Twice(t) PROVE Twice(s) \/ (x.k = "label" /\ \E q \in DOMAIN s : s[q] = x)
    <3>1. PICK p \in DOMAIN t, q \in DOMAIN t : p # q /\ t[p].k = "label" /\ t[p] = t[q]
      BY <2>1 DEF Twice
    <3>2. CASE p = Len(s) + 1
      BY <1>1, <1>2, <3>1, <3>2
    <3>3. CASE q = Len(s) + 1
      BY <1>1, <1>2, <3>1, <3>3
    <3>4. CASE p \in DOMAIN s /\ q \in DOMAIN s
      BY <1>2, <3>1, <3>4 DEF Twice
    <3> QED BY <1>2, <3>2, <3>3, <3>4
  <2>2. ASSUME Twice(s) PROVE Twice(t)
    BY <1>2, <2>2 DEF Twice
  <2>3. ASSUME x.k = "label", NEW q \in DOMAIN s, s[q] = x PROVE Twice(t)
    <3>1. /\ q \in DOMAIN t /\ Len(s) + 1 \in DOMAIN t /\ q # Len(s) + 1
          /\ t[q].k = "label" /\ t[q] = t[Len(s) + 1]
      BY <1>1, <1>2, <2>3
    <3> QED BY <3>1 DEF Twice
  <2> QED BY <2>1, <2>2, <2>3
<1>4. Met(t) = Met(s) \cup {l \in Labels : x = [k |-> "label", l |-> l]}
  <2>1. \A l \in Labels : (\E p \in DOMAIN t : t[p] = [k |-> "label", l |-> l])
                            <=> (\E p \in DOMAIN s : s[p] = [k |-> "label", l |-> l])
                                \/ x = [k |-> "label", l |-> l]
    BY <1>1, <1>2
  <2> QED BY <2>1 DEF Met
<1>5. Asked(t) = Asked(s) \cup {l \in Labels : x = [k |-> "goto", l |-> l]}
  <2>1. \A l \in Labels : (\E p \in DOMAIN t : t[p] = [k |-> "goto", l |-> l])
                            <=> (\E p \in DOMAIN s : s[p] = [k |-> "goto", l |-> l])
                                \/ x = [k |-> "goto", l |-> l]
    BY <1>1, <1>2
  <2> QED BY <2>1 DEF Asked
<1> QED BY <1>3, <1>4, <1>5

\* The loops that are open, counted.
LEMMA LoopsCounted ==
  ASSUME NEW ns \in Seq(Frame)
  PROVE  /\ IsFiniteSet(LoopsOf(ns)) /\ Cardinality(LoopsOf(ns)) \in Nat
         /\ Cardinality(LoopsOf(ns)) = 0 <=> LoopsOf(ns) = {}
         /\ \A f \in Frame : Cardinality(LoopsOf(Append(ns, f)))
                               = Cardinality(LoopsOf(ns)) + IF f.k \in Loops THEN 1 ELSE 0
         /\ ns # <<>> => Cardinality(LoopsOf(SubSeq(ns, 1, Len(ns) - 1)))
                           = Cardinality(LoopsOf(ns)) - IF ns[Len(ns)].k \in Loops THEN 1 ELSE 0
<1>1. IsFiniteSet(LoopsOf(ns)) /\ Cardinality(LoopsOf(ns)) \in Nat
  <2>1. LoopsOf(ns) \in SUBSET (1..Len(ns)) /\ IsFiniteSet(1..Len(ns))
    BY FS_Interval DEF LoopsOf
  <2>2. IsFiniteSet(LoopsOf(ns))
    BY <2>1, FS_Subset
  <2> QED BY <2>2, FS_CardinalityType
<1>2. Cardinality(LoopsOf(ns)) = 0 <=> LoopsOf(ns) = {}
  BY <1>1, FS_EmptySet
<1>3. ASSUME NEW f \in Frame
      PROVE  Cardinality(LoopsOf(Append(ns, f)))
               = Cardinality(LoopsOf(ns)) + IF f.k \in Loops THEN 1 ELSE 0
  <2> DEFINE ms == Append(ns, f)
  <2>1. /\ DOMAIN ms = 1..(Len(ns) + 1) /\ DOMAIN ns = 1..Len(ns) /\ Len(ns) \in Nat
        /\ ms[Len(ns) + 1] = f /\ \A i \in 1..Len(ns) : ms[i] = ns[i]
    BY AppendFacts
  <2>2. /\ \A i \in DOMAIN ns : i \in DOMAIN ms /\ i # Len(ns) + 1 /\ ms[i] = ns[i]
        /\ \A i \in DOMAIN ms : i \in DOMAIN ns \/ i = Len(ns) + 1
        /\ Len(ns) + 1 \in DOMAIN ms /\ ms[Len(ns) + 1] = f
    BY <2>1
  <2> HIDE DEF ms
  <2>3. CASE f.k \in Loops
    <3>1. LoopsOf(ms) = LoopsOf(ns) \cup {Len(ns) + 1} /\ Len(ns) + 1 \notin LoopsOf(ns)
      BY <2>2, <2>3 DEF LoopsOf
    <3> QED BY <1>1, <2>3, <3>1, FS_AddElement DEF ms
  <2>4. CASE f.k \notin Loops
    <3>1. LoopsOf(ms) = LoopsOf(ns)
      BY <2>2, <2>4 DEF LoopsOf
    <3> QED BY <1>1, <2>4, <3>1 DEF ms
  <2> QED BY <2>3, <2>4
<1>4. ASSUME ns # <<>>
      PROVE  Cardinality(LoopsOf(SubSeq(ns, 1, Len(ns) - 1)))
               = Cardinality(LoopsOf(ns)) - IF ns[Len(ns)].k \in Loops THEN 1 ELSE 0
  <2> DEFINE n  == Len(ns)
             ms == SubSeq(ns, 1, n - 1)
  <2>1. n \in Nat /\ n > 0 /\ n - 1 \in 0..n /\ DOMAIN ns = 1..n
    BY <1>4
  <2>2. Len(ms) = n - 1 /\ (\A i \in 1..(n - 1) : ms[i] = ns[i]) /\ DOMAIN ms = 1..(n - 1)
    BY <2>1, PrefixFacts
  <2>3. /\ \A i : i \in DOMAIN ms <=> i \in DOMAIN ns /\ i # n
        /\ \A i \in DOMAIN ms : ms[i] = ns[i]
    BY <2>1, <2>2
  <2> HIDE DEF ms, n
  <2>4. LoopsOf(ms) = LoopsOf(ns) \ {n}
    BY <2>3 DEF LoopsOf
  <2>5. n \in LoopsOf(ns) <=> ns[n].k \in Loops
    BY <2>1 DEF LoopsOf
  <2>6. Cardinality(LoopsOf(ms)) = IF n \in LoopsOf(ns) THEN Cardinality(LoopsOf(ns)) - 1
                                   ELSE Cardinality(LoopsOf(ns))
    BY <1>1, <2>4, FS_RemoveElement
  <2> QED BY <1>1, <2>5, <2>6 DEF ms, n
<1> QED BY <1>1, <1>2, <1>3, <1>4

-----------------------------------------------------------------------------
\* Nothing has been read at first.
LEMMA InitTold == Init => Told
<1> SUFFICES ASSUME Init PROVE Told
  OBVIOUS
<1>1. /\ src = <<>> /\ nest = <<>> /\ breaks = <<>> /\ labelsDefined = {} /\ DOMAIN labels = {}
      /\ hadError_ = FALSE /\ phase = "gen"
  BY DEF Init
<1>2. LoopsOf(nest) = {} /\ Met(src) = {} /\ Asked(src) = {} /\ ~Lost(src) /\ ~Twice(src)
  BY <1>1 DEF LoopsOf, Met, Asked, Lost, Twice
<1>3. OpenersTo(src, 0) = {} /\ ClosersTo(src, 0) = {} /\ Len(src) = 0 /\ Len(nest) = 0
  BY <1>1 DEF OpenersTo, ClosersTo
<1>4. Cardinality({}) = 0
  BY FS_EmptySet
<1>5. Nested(src, nest)
  <2>1. Level(src) = Cardinality(OpenersTo(src, 0)) - Cardinality(ClosersTo(src, 0))
    BY <1>3 DEF Level
  <2>2. Level(src) = 0 - 0
    BY <1>3, <1>4, <2>1
  <2> QED BY <1>1, <1>3, <2>2 DEF Nested
<1> QED BY <1>1, <1>2, <1>3, <1>4, <1>5 DEF Told

\* What an action that reads x has to keep.
LEMMA ReadStep ==
  ASSUME Typed, Told, phase = "gen", phase' = "gen", NEW x \in Item, src' = Append(src, x),
         Nested(src', nest'), Len(breaks') = Cardinality(LoopsOf(nest')),
         labelsDefined' = labelsDefined \cup {l \in Labels : x = [k |-> "label", l |-> l]},
         DOMAIN labels' = DOMAIN labels \cup {l \in Labels : x = [k |-> "label", l |-> l]}
                                        \cup {l \in Labels : x = [k |-> "goto", l |-> l]},
         hadError_' <=> \/ hadError_
                        \/ x.k = "break" /\ breaks = <<>>
                        \/ x.k = "label" /\ \E q \in DOMAIN src : src[q] = x
  PROVE  Told'
<1>1. src \in Seq(Item) /\ nest \in Seq(Frame) /\ breaks \in Seq(Nat)
  BY DEF Typed, Flags, NestIn, StackIn
<1>2. Lost(src') <=> Lost(src) \/ (x.k = "break" /\ LoopsOf(nest) = {})
  BY <1>1, LostOfNew DEF Told
<1>3. /\ Twice(src') <=> Twice(src) \/ (x.k = "label" /\ \E q \in DOMAIN src : src[q] = x)
      /\ Met(src') = Met(src) \cup {l \in Labels : x = [k |-> "label", l |-> l]}
      /\ Asked(src') = Asked(src) \cup {l \in Labels : x = [k |-> "goto", l |-> l]}
  <2>1. PICK t : t = src'
    OBVIOUS
  <2>2. /\ Twice(t) <=> Twice(src) \/ (x.k = "label" /\ \E q \in DOMAIN src : src[q] = x)
        /\ Met(t) = Met(src) \cup {l \in Labels : x = [k |-> "label", l |-> l]}
        /\ Asked(t) = Asked(src) \cup {l \in Labels : x = [k |-> "goto", l |-> l]}
    <3>1. src \in Seq(Item) /\ x \in Item /\ t = Append(src, x)
      BY <1>1, <2>1
    <3> QED BY ONLY <3>1, LabelsOfNew, ZenonT(40)
  <2> QED BY <2>1, <2>2, Zenon
<1>4. breaks = <<>> <=> LoopsOf(nest) = {}
  <2>1. breaks = <<>> <=> Len(breaks) = 0
    BY <1>1
  <2>2. Cardinality(LoopsOf(nest)) = 0 <=> LoopsOf(nest) = {}
    BY <1>1, LoopsCounted
  <2> QED BY <2>1, <2>2 DEF Told
<1>5. hadError_ <=> Lost(src) \/ Twice(src)
  BY DEF Told
<1>6. hadError_' <=> Lost(src') \/ Twice(src')
  BY <1>2, <1>3, <1>4, <1>5, Zenon
<1>7. labelsDefined' = Met(src') /\ DOMAIN labels' = Met(src') \cup Asked(src')
  BY <1>3 DEF Told
<1>8. phase' # "done"
  OBVIOUS
<1> QED BY <1>6, <1>7, <1>8, Zenon DEF Told

\* The words are items, of the kinds they say.
LEMMA WordFacts ==
  /\ \A k \in Words : /\ Word(k) \in Item /\ Word(k).k = k
                      /\ \A l \in Labels : /\ Word(k) # [k |-> "label", l |-> l]
                                           /\ Word(k) # [k |-> "goto", l |-> l]
  /\ \A l \in Labels : [k |-> "label", l |-> l] \in Item /\ [k |-> "goto", l |-> l] \in Item
<1>1. \A k \in Words : k # "label" /\ k # "goto"
  BY DEF Words, Loops
<1>2. \A k \in Words : /\ Word(k) \in Item /\ Word(k).k = k
                       /\ \A l \in Labels : /\ Word(k) # [k |-> "label", l |-> l]
                                            /\ Word(k) # [k |-> "goto", l |-> l]
  <2> SUFFICES ASSUME NEW k \in Words
               PROVE  /\ Word(k) \in Item /\ Word(k).k = k
                      /\ \A l \in Labels : /\ Word(k) # [k |-> "label", l |-> l]
                                           /\ Word(k) # [k |-> "goto", l |-> l]
    OBVIOUS
  <2>1. Word(k) \in Item
    BY DEF Item
  <2>2. Word(k).k = k
    BY DEF Word
  <2>3. ASSUME NEW l \in Labels
        PROVE  Word(k).k # [k |-> "label", l |-> l].k /\ Word(k).k # [k |-> "goto", l |-> l].k
    BY <1>1, <2>2
  <2> QED BY <2>1, <2>2, <2>3
<1>3. ASSUME NEW y \in Labels
      PROVE  [k |-> "label", l |-> y] \in Item /\ [k |-> "goto", l |-> y] \in Item
  <2>1. [k |-> "label", l |-> y] \in {[k |-> "label", l |-> z] : z \in Labels}
    OBVIOUS
  <2>2. [k |-> "goto", l |-> y] \in {[k |-> "goto", l |-> z] : z \in Labels}
    OBVIOUS
  <2> QED BY <2>1, <2>2 DEF Item
<1> QED BY <1>2, <1>3

\* A word that is neither a break nor opens or closes anything.
LEMMA PlainWord ==
  ASSUME Typed, Told, phase = "gen", phase' = "gen", NEW k \in {"stmt", "return", "else"},
         src' = Append(src, Word(k)),
         nest' \in Seq(Frame), Len(nest') = Len(nest),
         \A i \in DOMAIN nest : nest'[i].p = nest[i].p /\ (nest'[i].k \in Loops <=> nest[i].k \in Loops),
         UNCHANGED <<breaks, labels, labelsDefined, hadError_>>
  PROVE  Told'
<1>1. Word(k) \in Item /\ Word(k).k = k /\ ~Opens(Word(k)) /\ ~Closes(Word(k))
  <2>1. k \in Words
    BY DEF Words
  <2>2. Word(k) \in Item /\ Word(k).k = k
    BY <2>1, WordFacts
  <2> QED BY <2>2 DEF Opens, Closes, Loops
<1>2. src \in Seq(Item) /\ nest \in Seq(Frame) /\ Nested(src, nest)
  BY DEF Typed, Flags, NestIn, Told
<1>3. Nested(src', nest')
  BY <1>1, <1>2, NestedPlain
<1>4. LoopsOf(nest') = LoopsOf(nest)
  <2>1. DOMAIN nest' = DOMAIN nest
    BY <1>2
  <2> QED BY <2>1 DEF LoopsOf
<1>5. /\ {l \in Labels : Word(k) = [k |-> "label", l |-> l]} = {}
      /\ {l \in Labels : Word(k) = [k |-> "goto", l |-> l]} = {}
  BY WordFacts DEF Words
<1>6. /\ labelsDefined' = labelsDefined \cup {l \in Labels : Word(k) = [k |-> "label", l |-> l]}
      /\ DOMAIN labels' = DOMAIN labels \cup {l \in Labels : Word(k) = [k |-> "label", l |-> l]}
                                        \cup {l \in Labels : Word(k) = [k |-> "goto", l |-> l]}
  BY <1>5
<1>7. Len(breaks') = Cardinality(LoopsOf(nest'))
  BY <1>4 DEF Told
<1>8. Word(k).k # "break" /\ Word(k).k # "label"
  BY <1>1
<1>9. hadError_' <=> \/ hadError_
                     \/ Word(k).k = "break" /\ breaks = <<>>
                     \/ Word(k).k = "label" /\ \E q \in DOMAIN src : src[q] = Word(k)
  BY <1>8, Zenon
<1> QED BY <1>1, <1>3, <1>6, <1>7, <1>9, ReadStep

\* A word that opens the construct f.
LEMMA OpenWord ==
  ASSUME Typed, Told, phase = "gen", phase' = "gen",
         NEW k \in Loops \cup {"if", "ifelse"}, src' = Append(src, Word(k)),
         NEW f \in Frame, f.k = k, f.p = Here, nest' = Append(nest, f),
         IF k \in Loops THEN \E b \in Nat : breaks' = Append(breaks, b) ELSE breaks' = breaks,
         UNCHANGED <<labels, labelsDefined, hadError_>>
  PROVE  Told'
<1>0. k \in Words /\ k # "break" /\ k # "label"
  BY DEF Words, Loops
<1>1. Word(k) \in Item /\ Word(k).k = k /\ Opens(Word(k))
  BY <1>0, WordFacts DEF Opens
<1>2. src \in Seq(Item) /\ nest \in Seq(Frame) /\ Nested(src, nest) /\ breaks \in Seq(Nat)
  BY DEF Typed, Flags, NestIn, StackIn, Told
<1>3. Nested(src', nest')
  BY <1>1, <1>2, NestedOpen DEF Here
<1>4. /\ Cardinality(LoopsOf(nest')) = Cardinality(LoopsOf(nest)) + IF k \in Loops THEN 1 ELSE 0
      /\ Cardinality(LoopsOf(nest)) \in Nat
  BY <1>2, LoopsCounted
<1>5. /\ {l \in Labels : Word(k) = [k |-> "label", l |-> l]} = {}
      /\ {l \in Labels : Word(k) = [k |-> "goto", l |-> l]} = {}
  BY <1>0, WordFacts
<1>6. /\ labelsDefined' = labelsDefined \cup {l \in Labels : Word(k) = [k |-> "label", l |-> l]}
      /\ DOMAIN labels' = DOMAIN labels \cup {l \in Labels : Word(k) = [k |-> "label", l |-> l]}
                                        \cup {l \in Labels : Word(k) = [k |-> "goto", l |-> l]}
  BY <1>5
<1>7. Len(breaks') = Cardinality(LoopsOf(nest'))
  <2>1. Len(breaks') = Len(breaks) + IF k \in Loops THEN 1 ELSE 0
    <3>1. CASE k \in Loops
      <4>1. PICK b \in Nat : breaks' = Append(breaks, b)
        BY <3>1
      <4> QED BY <1>2, <3>1, <4>1
    <3>2. CASE k \notin Loops
      BY <1>2, <3>2
    <3> QED BY <3>1, <3>2
  <2> QED BY <1>4, <2>1 DEF Told
<1>8. Word(k).k # "break" /\ Word(k).k # "label"
  BY <1>0, <1>1
<1>9. hadError_' <=> \/ hadError_
                     \/ Word(k).k = "break" /\ breaks = <<>>
                     \/ Word(k).k = "label" /\ \E q \in DOMAIN src : src[q] = Word(k)
  BY <1>8, Zenon
<1> QED BY <1>1, <1>3, <1>6, <1>7, <1>9, ReadStep

\* A word that closes the innermost construct.
LEMMA CloseWord ==
  ASSUME Typed, Told, phase = "gen", phase' = "gen",
         NEW k \in {"endif", "endwhile", "enddo", "endfor"}, src' = Append(src, Word(k)),
         nest # <<>>, Pop, IF Top.k \in Loops THEN PopBreak ELSE breaks' = breaks,
         UNCHANGED <<labels, labelsDefined, hadError_>>
  PROVE  Told'
<1>0. k \in Words /\ k # "break" /\ k # "label"
  BY DEF Words, Loops
<1>1. Word(k) \in Item /\ Word(k).k = k /\ Closes(Word(k))
  BY <1>0, WordFacts DEF Closes
<1>2. src \in Seq(Item) /\ nest \in Seq(Frame) /\ Nested(src, nest) /\ breaks \in Seq(Nat)
  BY DEF Typed, Flags, NestIn, StackIn, Told
<1>a. nest' = SubSeq(nest, 1, Len(nest) - 1)
  BY DEF Pop
<1>3. Nested(src', nest')
  BY <1>1, <1>2, <1>a, NestedClose
<1>4. /\ Cardinality(LoopsOf(nest')) = Cardinality(LoopsOf(nest)) - IF Top.k \in Loops THEN 1 ELSE 0
      /\ Cardinality(LoopsOf(nest)) \in Nat
  BY <1>2, <1>a, LoopsCounted DEF Top
<1>b. Top.k \in Loops => Len(breaks) > 0
  <2> SUFFICES ASSUME Top.k \in Loops PROVE Len(breaks) > 0
    OBVIOUS
  <2>1. Len(nest) \in DOMAIN nest
    BY <1>2
  <2>2. LoopsOf(nest) # {}
    BY <2>1 DEF LoopsOf, Top
  <2>3. Cardinality(LoopsOf(nest)) # 0
    BY <1>2, <2>2, LoopsCounted
  <2> QED BY <1>4, <2>3 DEF Told
<1>5. /\ {l \in Labels : Word(k) = [k |-> "label", l |-> l]} = {}
      /\ {l \in Labels : Word(k) = [k |-> "goto", l |-> l]} = {}
  BY <1>0, WordFacts
<1>6. /\ labelsDefined' = labelsDefined \cup {l \in Labels : Word(k) = [k |-> "label", l |-> l]}
      /\ DOMAIN labels' = DOMAIN labels \cup {l \in Labels : Word(k) = [k |-> "label", l |-> l]}
                                        \cup {l \in Labels : Word(k) = [k |-> "goto", l |-> l]}
  BY <1>5
<1>7. Len(breaks') = Cardinality(LoopsOf(nest'))
  <2>1. Len(breaks') = Len(breaks) - IF Top.k \in Loops THEN 1 ELSE 0
    <3>1. CASE Top.k \in Loops
      <4>1. breaks' = SubSeq(breaks, 1, Len(breaks) - 1) /\ Len(breaks) - 1 \in 0..Len(breaks)
        BY <1>2, <1>b, <3>1 DEF PopBreak
      <4>2. Len(breaks') = Len(breaks) - 1
        BY <1>2, <4>1, PrefixFacts
      <4> QED BY <3>1, <4>2
    <3>2. CASE Top.k \notin Loops
      BY <1>2, <3>2
    <3> QED BY <3>1, <3>2
  <2> QED BY <1>4, <2>1 DEF Told
<1>8. Word(k).k # "break" /\ Word(k).k # "label"
  BY <1>0, <1>1
<1>9. hadError_' <=> \/ hadError_
                     \/ Word(k).k = "break" /\ breaks = <<>>
                     \/ Word(k).k = "label" /\ \E q \in DOMAIN src : src[q] = Word(k)
  BY <1>8, Zenon
<1> QED BY <1>1, <1>3, <1>6, <1>7, <1>9, ReadStep

\* A break, a goto and a label leave what is open.
LEMMA JumpItem ==
  ASSUME Typed, Told, phase = "gen", phase' = "gen",
         NEW x \in Item, x.k \in {"break", "goto", "label"}, src' = Append(src, x),
         UNCHANGED <<nest, breaks>>,
         labelsDefined' = labelsDefined \cup {l \in Labels : x = [k |-> "label", l |-> l]},
         DOMAIN labels' = DOMAIN labels \cup {l \in Labels : x = [k |-> "label", l |-> l]}
                                        \cup {l \in Labels : x = [k |-> "goto", l |-> l]},
         hadError_' <=> \/ hadError_
                        \/ x.k = "break" /\ breaks = <<>>
                        \/ x.k = "label" /\ \E q \in DOMAIN src : src[q] = x
  PROVE  Told'
<1>1. ~Opens(x) /\ ~Closes(x)
  BY DEF Opens, Closes, Loops
<1>2. src \in Seq(Item) /\ nest \in Seq(Frame) /\ Nested(src, nest)
  BY DEF Typed, Flags, NestIn, Told
<1>3. Nested(src', nest')
  BY <1>1, <1>2, NestedPlain
<1>4. Len(breaks') = Cardinality(LoopsOf(nest'))
  BY DEF Told
<1> QED BY <1>3, <1>4, ReadStep

\* The items without a label.
LEMMA ToldWord ==
  ASSUME IInv, Told,
         \/ Simple \/ Break \/ Return \/ Else \/ EndIf
         \/ OpenWhile \/ EndWhile \/ OpenDo \/ EndDo \/ EndFor
         \/ \E k \in {"if", "ifelse"} : OpenIf(k)
         \/ \E k \in {"for", "forever"} : OpenFor(k)
  PROVE  Told'
<1>1. Typed /\ src \in Seq(Item) /\ nest \in Seq(Frame) /\ hadError_ \in BOOLEAN
  BY DEF IInv, Typed, Flags, NestIn
<1>2. CASE Simple \/ Return
  <2>1. PICK k \in {"stmt", "return"} : src' = Append(src, Word(k))
    BY <1>2 DEF Simple, Return, Read
  <2>2. /\ phase = "gen" /\ phase' = "gen"
        /\ UNCHANGED <<nest, breaks, labels, labelsDefined, hadError_>>
    BY <1>2 DEF Simple, Return, Room
  <2> QED BY <1>1, <2>1, <2>2, PlainWord
<1>3. CASE Else
  <2>1. /\ phase = "gen" /\ phase' = "gen" /\ src' = Append(src, Word("else"))
        /\ UNCHANGED <<breaks, labels, labelsDefined, hadError_>>
        /\ nest # <<>> /\ nest[Len(nest)].k = "ifelse" /\ nest' = [nest EXCEPT ![Len(nest)].k = "if"]
    BY <1>3 DEF Else, Inside, Read, Top
  <2>2. Len(nest) \in 1..Len(nest) /\ DOMAIN nest = 1..Len(nest) /\ nest[Len(nest)] \in Frame
    BY <1>1, <2>1
  <2>3. [nest[Len(nest)] EXCEPT !.k = "if"] \in Frame
    BY <2>2 DEF Frame
  <2>4. /\ nest' \in Seq(Frame) /\ Len(nest') = Len(nest)
        /\ nest'[Len(nest)] = [nest[Len(nest)] EXCEPT !.k = "if"]
        /\ \A i \in 1..Len(nest) : i # Len(nest) => nest'[i] = nest[i]
    <3>1. nest' = [nest EXCEPT ![Len(nest)] = [nest[Len(nest)] EXCEPT !.k = "if"]]
      BY <2>1
    <3> QED BY <1>1, <2>2, <2>3, <3>1, UpdateFacts
  <2>5. nest'[Len(nest)].p = nest[Len(nest)].p /\ nest'[Len(nest)].k = "if"
    BY <2>2, <2>4 DEF Frame
  <2>6. \A i \in DOMAIN nest : nest'[i].p = nest[i].p /\ (nest'[i].k \in Loops <=> nest[i].k \in Loops)
    BY <2>1, <2>2, <2>4, <2>5 DEF Loops
  <2> QED BY <1>1, <2>1, <2>4, <2>6, PlainWord
<1>4. CASE Break
  <2>1. /\ phase = "gen" /\ phase' = "gen" /\ src' = Append(src, Word("break"))
        /\ UNCHANGED <<nest, breaks, labels, labelsDefined>>
        /\ hadError_' = IF breaks = <<>> THEN TRUE ELSE hadError_
    BY <1>4, Zenon DEF Break, Room, Read
  <2>2. /\ Word("break") \in Item /\ Word("break").k = "break"
        /\ {l \in Labels : Word("break") = [k |-> "label", l |-> l]} = {}
        /\ {l \in Labels : Word("break") = [k |-> "goto", l |-> l]} = {}
    BY WordFacts DEF Words
  <2>3. hadError_' <=> \/ hadError_
                       \/ Word("break").k = "break" /\ breaks = <<>>
                       \/ Word("break").k = "label" /\ \E q \in DOMAIN src : src[q] = Word("break")
    BY <2>1, <2>2, Zenon
  <2> QED BY <1>1, <2>1, <2>2, <2>3, JumpItem
<1>5. CASE \E k \in {"if", "ifelse"} : OpenIf(k)
  <2>1. PICK k \in {"if", "ifelse"} : OpenIf(k)
    BY <1>5
  <2> DEFINE f == [k |-> k, p |-> Here, back |-> 0, end |-> N + 2,
                   other |-> IF k = "ifelse" THEN N + 3 ELSE N + 2]
  <2>2. /\ phase = "gen" /\ phase' = "gen" /\ src' = Append(src, Word(k)) /\ nest' = Append(nest, f)
        /\ UNCHANGED <<breaks, labels, labelsDefined, hadError_>>
    BY <2>1 DEF OpenIf, Room, Read, Open
  <2>3. f \in Frame /\ f.k = k /\ f.p = Here
    <3>1. N \in Nat /\ Here \in Nat
      BY <1>1 DEF N, Here, Typed, Blocks
    <3> QED BY <3>1 DEF Frame
  <2>4. k \notin Loops /\ k \in Loops \cup {"if", "ifelse"}
    BY DEF Loops
  <2> HIDE DEF f
  <2> QED BY <1>1, <2>2, <2>3, <2>4, OpenWord
<1>6. CASE OpenWhile \/ OpenDo \/ \E k \in {"for", "forever"} : OpenFor(k)
  <2>1. PICK k \in Loops, o \in {0, N + 2} :
          /\ phase = "gen" /\ phase' = "gen" /\ src' = Append(src, Word(k))
          /\ nest' = Append(nest, [k |-> k, p |-> Here, back |-> N + 1, end |-> N + 3, other |-> o])
          /\ breaks' = Append(breaks, N + 3)
          /\ UNCHANGED <<labels, labelsDefined, hadError_>>
    BY <1>6 DEF OpenWhile, OpenDo, OpenFor, Room, Read, Open, Loops
  <2>2. N \in Nat /\ Here \in Nat /\ o \in Nat /\ N + 3 \in Nat /\ N + 1 \in Nat
    BY <1>1 DEF N, Here, Typed, Blocks
  <2>3. PICK f \in Frame : f = [k |-> k, p |-> Here, back |-> N + 1, end |-> N + 3, other |-> o]
    BY <2>2 DEF Frame
  <2> QED BY <1>1, <2>1, <2>2, <2>3, OpenWord
<1>7. CASE EndIf
  <2>1. /\ phase = "gen" /\ phase' = "gen" /\ src' = Append(src, Word("endif"))
        /\ nest # <<>> /\ Top.k = "if" /\ Pop
        /\ UNCHANGED <<breaks, labels, labelsDefined, hadError_>>
    BY <1>7 DEF EndIf, Inside, Read
  <2>2. Top.k \notin Loops
    BY <2>1 DEF Loops
  <2> QED BY <1>1, <2>1, <2>2, CloseWord
<1>8. CASE EndWhile \/ EndDo \/ EndFor
  <2>1. PICK k \in {"endwhile", "enddo", "endfor"} :
          /\ phase = "gen" /\ phase' = "gen" /\ src' = Append(src, Word(k))
          /\ nest # <<>> /\ Top.k \in Loops /\ Pop /\ PopBreak
          /\ UNCHANGED <<labels, labelsDefined, hadError_>>
    BY <1>8 DEF EndWhile, EndDo, EndFor, Inside, Read, Loops
  <2> QED BY <1>1, <2>1, CloseWord
<1> QED BY <1>2, <1>3, <1>4, <1>5, <1>6, <1>7, <1>8

\* The items with a label.
LEMMA ToldLabel ==
  ASSUME IInv, Told, NEW m \in Labels, Goto(m) \/ Label(m)
  PROVE  Told'
<1>1. Typed /\ src \in Seq(Item) /\ hadError_ \in BOOLEAN /\ labelsDefined \subseteq DOMAIN labels
  BY DEF IInv, Typed, Flags, LabelsIn
<1>2. phase = "gen" /\ phase' = "gen" /\ UNCHANGED <<nest, breaks>>
  BY DEF Goto, Label, Room
<1>3. CASE Goto(m)
  <2>1. PICK x : x = [k |-> "goto", l |-> m]
    OBVIOUS
  <2>2. /\ src' = Append(src, x) /\ UNCHANGED <<labelsDefined, hadError_>>
        /\ DOMAIN labels' = DOMAIN labels \cup {m}
    BY <1>3, <2>1 DEF Goto, Read, getLabelBlock
  <2>3. x \in Item /\ x.k = "goto"
    BY <2>1, WordFacts
  <2>4. /\ {l \in Labels : x = [k |-> "label", l |-> l]} = {}
        /\ {l \in Labels : x = [k |-> "goto", l |-> l]} = {m}
    BY <2>1
  <2>5. hadError_' <=> \/ hadError_
                       \/ x.k = "break" /\ breaks = <<>>
                       \/ x.k = "label" /\ \E q \in DOMAIN src : src[q] = x
    BY <2>2, <2>3, Zenon
  <2> QED BY <1>1, <1>2, <2>2, <2>3, <2>4, <2>5, JumpItem
<1>4. CASE Label(m)
  <2>1. PICK x : x = [k |-> "label", l |-> m]
    OBVIOUS
  <2>2. src' = Append(src, x)
    BY <1>4, <2>1 DEF Label, Read
  <2>3. x \in Item /\ x.k = "label"
    BY <2>1, WordFacts
  <2>4. /\ {l \in Labels : x = [k |-> "label", l |-> l]} = {m}
        /\ {l \in Labels : x = [k |-> "goto", l |-> l]} = {}
    BY <2>1
  <2>5. Duplicate(m) <=> \E q \in DOMAIN src : src[q] = x
    BY <2>1 DEF Duplicate, Told, Met
  <2>6. labelsDefined' = labelsDefined \cup {m} /\ DOMAIN labels' = DOMAIN labels \cup {m}
    <3>1. CASE Duplicate(m)
      BY <1>1, <1>4, <3>1 DEF Label, Duplicate
    <3>2. CASE ~Duplicate(m)
      BY <1>4, <3>2 DEF Label, getLabelBlock
    <3> QED BY <3>1, <3>2
  <2>7. hadError_' <=> \/ hadError_
                       \/ x.k = "break" /\ breaks = <<>>
                       \/ x.k = "label" /\ \E q \in DOMAIN src : src[q] = x
    <3>1. hadError_' <=> hadError_ \/ Duplicate(m)
      BY <1>4, Zenon DEF Label
    <3>2. x.k # "break"
      BY <2>3
    <3> QED BY <2>3, <2>5, <3>1, <3>2, Zenon
  <2> QED BY <1>1, <1>2, <2>2, <2>3, <2>4, <2>6, <2>7, JumpItem
<1> QED BY <1>3, <1>4

\* finishFn misses the labels that a goto asks for and that stand nowhere.
LEMMA ToldFinish == ASSUME IInv, Told, finishFn PROVE Told'
<1>1. src \in Seq(Item) /\ phase = "gen"
  BY DEF IInv, Typed, Flags, finishFn
<1>2. /\ phase' = "done" /\ nest = <<>> /\ UNCHANGED <<src, nest, breaks, labels, labelsDefined>>
      /\ hadError_' = (hadError_ \/ {labels[l] : l \in DOMAIN labels \ labelsDefined} # {})
  BY DEF finishFn
<1>3. {labels[l] : l \in DOMAIN labels \ labelsDefined} # {} <=> Asked(src) \ Met(src) # {}
  BY DEF Told
<1>4. Asked(src) \ Met(src) # {} <=> Unmet(src)
  <2>1. ASSUME NEW l \in Asked(src), l \notin Met(src) PROVE Unmet(src)
    <3>1. PICK p \in DOMAIN src : src[p] = [k |-> "goto", l |-> l]
      BY DEF Asked
    <3>2. src[p].k = "goto" /\ src[p].l = l /\ l \in Labels
      BY <3>1 DEF Asked
    <3> QED BY <2>1, <3>2 DEF Unmet, Met
  <2>2. ASSUME Unmet(src) PROVE Asked(src) \ Met(src) # {}
    <3>1. PICK p \in DOMAIN src : /\ src[p].k = "goto"
                                  /\ ~\E q \in DOMAIN src : src[q] = [k |-> "label", l |-> src[p].l]
      BY <2>2 DEF Unmet
    <3>2. src[p] \in Item
      BY <1>1
    <3>3. PICK l \in Labels : src[p] = [k |-> "goto", l |-> l]
      <4>1. PICK x : x = src[p]
        OBVIOUS
      <4>2. ASSUME NEW k \in Words, x = Word(k) PROVE FALSE
        <5>1. x.k = k /\ x.k = "goto"
          BY <3>1, <4>1, <4>2, WordFacts
        <5> QED BY <5>1 DEF Words, Loops
      <4>3. ASSUME NEW m \in Labels, x = [k |-> "label", l |-> m] PROVE FALSE
        BY <3>1, <4>1, <4>3
      <4>4. x \in {[k |-> "goto", l |-> m] : m \in Labels}
        BY <3>2, <4>1, <4>2, <4>3 DEF Item
      <4> QED BY <4>1, <4>4
    <3>4. src[p].l = l
      BY <3>3
    <3>5. l \in Asked(src)
      BY <3>3 DEF Asked
    <3>6. l \notin Met(src)
      BY <3>1, <3>4 DEF Met
    <3> QED BY <3>5, <3>6
  <2> QED BY <2>1, <2>2
<1>5. hadError_ <=> Lost(src) \/ Twice(src)
  BY <1>1 DEF Told
<1>6. hadError_' <=> Lost(src) \/ Twice(src) \/ Unmet(src)
  BY <1>2, <1>3, <1>4, <1>5, Zenon
<1>7. src' = src /\ nest' = nest /\ breaks' = breaks /\ labels' = labels /\ labelsDefined' = labelsDefined
  BY <1>2
<1> QED BY <1>2, <1>6, <1>7 DEF Told

LEMMA NextTold == IInv /\ Told /\ [Next]_vars => Told'
<1> SUFFICES ASSUME IInv, Told, [Next]_vars PROVE Told'
  OBVIOUS
<1>1. CASE UNCHANGED vars
  <2>1. UNCHANGED <<src, nest, breaks, labels, labelsDefined, hadError_, phase>>
    BY <1>1 DEF vars
  <2> QED BY <2>1 DEF Told
<1>2. ASSUME NEW m \in Labels, Goto(m) \/ Label(m) PROVE Told'
  BY <1>2, ToldLabel
<1>3. CASE \/ Simple \/ Break \/ Return \/ Else \/ EndIf
           \/ OpenWhile \/ EndWhile \/ OpenDo \/ EndDo \/ EndFor
           \/ \E k \in {"if", "ifelse"} : OpenIf(k)
           \/ \E k \in {"for", "forever"} : OpenFor(k)
  BY <1>3, ToldWord
<1>4. CASE finishFn
  BY <1>4, ToldFinish
<1> QED BY <1>1, <1>2, <1>3, <1>4 DEF Next

\* An error is given exactly for a break outside a loop, a label defined twice
\* and a goto without a label, for every body: when the construct that opens at
\* q is open at p, nest has it and breaks counts it, and it is closed after p
\* (genStmt, finishFn).
THEOREM ErrorsAreTold == Spec => []ErrorsAreReal
<1>1. IInv /\ Told => ErrorsAreReal
  <2> SUFFICES ASSUME IInv, Told, phase = "done" PROVE ErrorsAreReal
    BY DEF ErrorsAreReal
  <2>1. src \in Seq(Item) /\ Len(src) \in Nat /\ DOMAIN src = 1..Len(src) /\ nest = <<>>
    BY DEF IInv, Typed, Flags, Told
  <2>2. \A p : Depth(p) = DepthIn(src, p)
    BY DEF Depth, DepthIn, OpenersTo, ClosersTo
  <2>3. ASSUME NEW p \in DOMAIN src, src[p].k = "break", NEW q \in 1..(p - 1), src[q].k \in Loops
        PROVE  CloserOf(q) > p <=> ~Ended(src, q, p)
    <3> DEFINE S == {c \in (q + 1)..Len(src) : Closes(src[c]) /\ Depth(c) = Depth(q)}
    <3>1. q \in DOMAIN src /\ q \in Nat /\ p \in Nat /\ q < p /\ p <= Len(src) /\ Opens(src[q])
      BY <2>1, <2>3 DEF Opens
    <3>2. Ended(src, q, Len(src) + 1)
      BY <2>1, <3>1 DEF Told, Nested
    <3>3. \A c : c \in S <=> /\ c \in (q + 1)..Len(src)
                             /\ Closes(src[c]) /\ DepthIn(src, c) = DepthIn(src, q)
      BY <2>2
    <3>4. S # {} /\ S \subseteq Nat
      <4>1. (Len(src) + 1) - 1 = Len(src)
        BY <2>1
      <4>2. PICK c \in (q + 1)..((Len(src) + 1) - 1) : Closes(src[c]) /\ DepthIn(src, c) = DepthIn(src, q)
        BY <3>2 DEF Ended
      <4>3. c \in S
        BY <3>3, <4>1, <4>2
      <4> QED BY <3>1, <4>3
    <3>5. CloserOf(q) = FirstOf(S)
      BY DEF CloserOf
    <3> HIDE DEF S
    <3>6. PICK c \in S : \A d \in S : c <= d
      BY <3>4, LeastNumber
    <3>7. c = FirstOf(S)
      <4>1. \A e \in S : (\A d \in S : e <= d) => e = c
        BY <3>4, <3>6
      <4> QED BY <3>6, <4>1 DEF FirstOf
    <3>8. ~Closes(src[p])
      BY <2>3 DEF Closes
    <3>9. ASSUME c > p PROVE ~Ended(src, q, p)
      <4>1. ASSUME NEW d \in (q + 1)..(p - 1), Closes(src[d]), DepthIn(src, d) = DepthIn(src, q)
            PROVE  FALSE
        <5>1. d \in S /\ d < p /\ d \in Nat /\ c \in Nat
          BY <2>1, <3>1, <3>3, <3>4, <4>1
        <5> QED BY <3>1, <3>6, <3>9, <5>1
      <4> QED BY <4>1 DEF Ended
    <3>10. ASSUME ~(c > p) PROVE Ended(src, q, p)
      <4>1. c \in (q + 1)..Len(src) /\ Closes(src[c]) /\ DepthIn(src, c) = DepthIn(src, q)
        BY <3>3
      <4>2. c # p
        BY <3>8, <4>1
      <4>3. c \in (q + 1)..(p - 1)
        BY <2>1, <3>1, <3>10, <4>1, <4>2
      <4> QED BY <4>1, <4>3 DEF Ended
    <3> QED BY <3>5, <3>7, <3>9, <3>10
  <2>4. Lost(src) <=> \E p \in DOMAIN src : /\ src[p].k = "break"
                                            /\ ~\E q \in 1..(p - 1) : src[q].k \in Loops /\ CloserOf(q) > p
    BY <2>3 DEF Lost
  <2>5. hadError_ <=> Lost(src) \/ Twice(src) \/ Unmet(src)
    BY DEF Told
  <2> QED BY <2>4, <2>5, Zenon DEF ErrorsAreReal, Twice, Unmet
<1>2. Init => IInv /\ Told
  BY InitIInv, InitTold
<1>3. IInv /\ Told /\ [Next]_vars => (IInv /\ Told)'
  BY NextIInv, NextTold
<1> QED BY <1>1, <1>2, <1>3, PTL DEF Spec

-----------------------------------------------------------------------------
(* What a body s means, as Settled and the operators it uses say of src.     *)

\* s begins with t.
Begins(s, t) == Len(t) <= Len(s) /\ \A i \in 1..Len(t) : s[i] = t[i]

ClosersOf(s, p) == {q \in (p + 1)..Len(s) : Closes(s[q]) /\ DepthIn(s, q) = DepthIn(s, p)}
OpenersOf(s, q) == {p \in 1..(q - 1) : Opens(s[p]) /\ DepthIn(s, p) = DepthIn(s, q)}
ElsesOf(s, p)   == {q \in (p + 1)..Len(s) : s[q].k = "else" /\ DepthIn(s, q) = DepthIn(s, p)}
LabelsOf(s, l)  == {q \in 1..Len(s) : s[q] = [k |-> "label", l |-> l]}
CloserIn(s, p)  == FirstOf(ClosersOf(s, p))
OpenerIn(s, q)  == LastOf(OpenersOf(s, q))
ElseIn(s, p)    == FirstOf(ElsesOf(s, p))
LabelIn(s, l)   == FirstOf(LabelsOf(s, l))
LoopsAbout(s, p) == {q \in 1..(p - 1) : s[q].k \in Loops /\ CloserIn(s, q) > p}
LoopIn(s, p)    == LastOf(LoopsAbout(s, p))

PlacesIn(s) == [p : 1..(Len(s) + 1), part : {"go", "run", "init", "cond", "post"}]

SilentIn(s, c) ==
  /\ c.p <= Len(s)
  /\ \/ c.part = "go" /\ s[c.p].k # "return"
     \/ c.part = "cond" /\ s[c.p].k = "forever"

LeadIn(s, c) ==
  LET p == c.p
      x == s[p]
  IN IF c.part = "cond" THEN Place(p + 1, "go")
     ELSE CASE x.k = "stmt" -> Place(p, "run")
            [] x.k \in {"if", "ifelse", "while", "enddo"} -> Place(p, "cond")
            [] x.k \in {"for", "forever"} -> Place(p, "init")
            [] x.k \in {"do", "label", "endif"} -> Place(p + 1, "go")
            [] x.k = "else" -> Place(CloserIn(s, p), "go")
            [] x.k = "endwhile" -> Place(OpenerIn(s, p), "go")
            [] x.k = "endfor" -> Place(OpenerIn(s, p), "post")
            [] x.k = "goto" -> Place(LabelIn(s, x.l), "go")
            [] x.k = "break" -> Place(CloserIn(s, LoopIn(s, p)) + 1, "go")

ThenIn(s, e, yes) ==
  LET p == e.p
      x == s[p]
  IN CASE e.part = "run" -> Place(p + 1, "go")
       [] e.part \in {"init", "post"} -> Place(p, "cond")
       [] e.part = "cond" /\ yes -> Place(IF x.k = "enddo" THEN OpenerIn(s, p) + 1 ELSE p + 1, "go")
       [] e.part = "cond" /\ ~yes /\ x.k = "ifelse" -> Place(ElseIn(s, p) + 1, "go")
       [] e.part = "cond" /\ ~yes /\ x.k = "enddo" -> Place(p + 1, "go")
       [] OTHER -> Place(CloserIn(s, p) + 1, "go")

\* s is a body without errors, in which all that opens is closed.
Whole(s) ==
  /\ ~Lost(s) /\ ~Twice(s) /\ ~Unmet(s)
  /\ \A p \in DOMAIN s :
       /\ Opens(s[p]) => ClosersOf(s, p) # {}
       /\ s[p].k = "ifelse" => ElsesOf(s, p) # {}
       /\ s[p].k = "else" => ClosersOf(s, p) # {} /\ s[CloserIn(s, p)].k = "endif"
       /\ Closes(s[p]) => OpenersOf(s, p) # {}

-----------------------------------------------------------------------------
(* The blocks follow the body: at[b] is the place where block b begins.      *)

\* Where the code that begins at place c ends.
After(s, c, code) == IF code = <<>> THEN c ELSE ThenIn(s, code[Len(code)], TRUE)

\* A piece of code that is no condition.
Plain(s, e) == e.p \in 1..Len(s) /\ e.part \in {"run", "init", "post"}

\* The code is what the body does from place c on.
CodeFits(s, c, code) ==
  /\ code # <<>> => SilentIn(s, c) /\ LeadIn(s, c) = code[1]
  /\ \A i \in 1..(Len(code) - 1) :
       LET d == ThenIn(s, code[i], TRUE) IN SilentIn(s, d) /\ LeadIn(s, d) = code[i + 1]
  /\ \A i \in 1..Len(code) : Plain(s, code[i])

\* The body gets from place c to place d without an event, in one step or two.
Passes(s, c, d) ==
  /\ SilentIn(s, c)
  /\ \/ LeadIn(s, c) = d
     \/ SilentIn(s, LeadIn(s, c)) /\ LeadIn(s, LeadIn(s, c)) = d

\* The terminator t goes on as the body does after code that ends at place e.
TermFits(s, at, e, code, t) ==
  \/ t = None
  \/ t = Ret /\ e.part = "go" /\ ~SilentIn(s, e)
  \/ \E c \in DOMAIN at : t = To(c) /\ (Passes(s, e, at[c]) \/ (code # <<>> /\ at[c] = e))
  \/ \E p \in 1..Len(s), c, d \in DOMAIN at :
       /\ t = Cond(p, c, d) /\ ~SilentIn(s, Place(p, "cond"))
       /\ e = Place(p, "cond") \/ (SilentIn(s, e) /\ LeadIn(s, e) = Place(p, "cond"))
       /\ at[c] = ThenIn(s, Place(p, "cond"), TRUE)
       /\ at[d] = ThenIn(s, Place(p, "cond"), FALSE)

BlockFits(s, at, c, bb) == CodeFits(s, c, bb.code) /\ TermFits(s, at, After(s, c, bb.code), bb.code, bb.term)

BlocksFit(s, at, bs) ==
  /\ at \in [1..Len(bs) -> PlacesIn(s)]
  /\ at[1] = Place(1, "go")
  /\ \A b \in 1..Len(bs) : BlockFits(s, at, at[b], bs[b])

\* What the construct f will move to is where the body goes on.
FrameFits(s, at, f) ==
  /\ at[f.end] = Place(CloserIn(s, f.p) + 1, "go")
  /\ f.k = "ifelse" => at[f.other] = Place(ElseIn(s, f.p) + 1, "go")
  /\ f.k \in {"while", "for", "forever"} => at[f.back] = Place(f.p, "cond")
  /\ f.k = "do" => at[f.back] = Place(f.p + 1, "go") /\ at[f.other] = Place(CloserIn(s, f.p), "cond")

\* Only the blocks of C have code before they are left.
Bare(bs, C) == \A b \in DOMAIN bs : bs[b].term = None /\ b \notin C => bs[b].code = <<>>

\* The blocks bs, of which c is the insert point, the constructs ns and the
\* labels ls follow the body s up to place h.
Follows(s, at, h, bs, c, ns, ls) ==
  /\ BlocksFit(s, at, bs) /\ Bare(bs, {c})
  /\ After(s, at[c], bs[c].code) = Place(h, "go")
  /\ \A i \in DOMAIN ns : FrameFits(s, at, ns[i])
  /\ \A l \in DOMAIN ls : at[ls[l]] = Place(LabelIn(s, l) + 1, "go")

\* However the body goes on, if it has no errors the blocks follow it.
Sim == IF phase = "gen"
       THEN \A s \in Seq(Item) : Begins(s, src) /\ Whole(s) =>
              \E at : Follows(s, at, Here, bbs, cur, nest, labels)
       ELSE Whole(src) => \E at : BlocksFit(src, at, bbs)

\* break leads to the end of the innermost loop, and so for the loops about it.
Rank(ns, i) == Cardinality({j \in LoopsOf(ns) : j <= i})
BreaksFit(br, ns) == \A i \in LoopsOf(ns) : br[Rank(ns, i)] = ns[i].end

\* The construct f is the one that its item opens; i deep, nothing after it ends
\* it or is its else.
KindFits(s, f) == s[f.p].k = f.k \/ (f.k = "if" /\ s[f.p].k = "ifelse")
Inner(s, f, i) ==
  \A r \in (f.p + 1)..Len(s) :
    Opens(s[r]) \/ Closes(s[r]) \/ (f.k = "ifelse" /\ s[r].k = "else") => DepthIn(s, r) > i

\* An else is followed by its endif, an if with an else has it, what closes
\* closes something, or it is still to come.
ShutByEndif(s, p) == \E c \in ClosersOf(s, p) : s[c].k = "endif" /\ \A d \in ClosersOf(s, p) : c <= d
ItemShaped(s, ns, p) ==
  /\ s[p].k = "ifelse" => ElsesOf(s, p) # {} \/ \E i \in DOMAIN ns : ns[i].p = p /\ ns[i].k = "ifelse"
  /\ s[p].k = "else" =>
       ShutByEndif(s, p) \/ \E i \in DOMAIN ns : ns[i].k = "if" /\ DepthIn(s, p) = i /\ ns[i].p < p
  /\ Closes(s[p]) => OpenersOf(s, p) # {}

Shaped(s, ns) ==
  /\ \A i \in DOMAIN ns : KindFits(s, ns[i]) /\ Inner(s, ns[i], i)
  /\ \A p \in DOMAIN s : ItemShaped(s, ns, p)

-----------------------------------------------------------------------------
(* A search in a graph: from a place of S it goes on to the place L tells,   *)
(* elsewhere it ends with V; it gives up with z after m steps.               *)

Search(g, D, S, L, V, z, m) ==
  [n \in 0..m |-> [d \in D |-> IF d \notin S THEN V[d] ELSE IF n = 0 THEN z ELSE g[n - 1][L[d]]]]

Searches(g, D, S, L, V, z, m) ==
  \A n \in 0..m : \A d \in D :
    g[n][d] = IF d \notin S THEN V[d] ELSE IF n = 0 THEN z ELSE g[n - 1][L[d]]

\* There is such a search.
Searchable(Vals, D, S, L, V, z, m) == \E g \in [0..m -> [D -> Vals]] : g = Search(g, D, S, L, V, z, m)

\* The recursion has a solution, so that the chosen function is one.
LEMMA SearchExists ==
  ASSUME NEW Vals, NEW D, NEW S, NEW L \in [S -> D], NEW V \in [D -> Vals], NEW z \in Vals, NEW m \in Nat
  PROVE  Searchable(Vals, D, S, L, V, z, m)
<1> DEFINE T == [D -> Vals]
           a == [d \in D |-> IF d \notin S THEN V[d] ELSE z]
           Go(h) == [d \in D |-> IF d \notin S THEN V[d] ELSE h[L[d]]]
           F == [n \in Nat |-> [h \in T |-> Go(h)]]
<1>1. a \in T
  OBVIOUS
<1>2. ASSUME NEW h \in T PROVE Go(h) \in T
  OBVIOUS
<1>3. F \in [Nat -> [T -> T]]
  BY <1>2
<1>4. ASSUME NEW n \in Nat, NEW h \in T PROVE F[n][h] = Go(h)
  OBVIOUS
<1>5. \A h : \A d \in D : Go(h)[d] = IF d \notin S THEN V[d] ELSE h[L[d]]
  OBVIOUS
<1>6. \A d \in D : a[d] = IF d \notin S THEN V[d] ELSE z
  OBVIOUS
<1>7. a = [d \in D |-> a[d]] /\ \A h : Go(h) = [d \in D |-> Go(h)[d]]
  OBVIOUS
<1> HIDE DEF T, a, Go, F
<1>8. PICK g \in [0..m -> T] : Recurs(g, a, F, m)
  BY <1>1, <1>3, BoundedRecursion
<1>9. \A n \in 1..m : g[n] = Go(g[n - 1])
  <2> SUFFICES ASSUME NEW n \in 1..m PROVE g[n] = Go(g[n - 1])
    OBVIOUS
  <2>1. n \in Nat /\ n - 1 \in 0..m
    OBVIOUS
  <2> QED BY <1>4, <1>8, <2>1 DEF Recurs
<1>10. ASSUME NEW n \in 0..m
       PROVE  g[n] = [d \in D |-> IF d \notin S THEN V[d] ELSE IF n = 0 THEN z ELSE g[n - 1][L[d]]]
  <2>1. CASE n = 0
    BY <1>8, <2>1 DEF Recurs, a
  <2>2. CASE n # 0
    <3>1. g[n] = Go(g[n - 1])
      BY <1>9, <2>2
    <3> QED BY <2>2, <3>1 DEF Go
  <2> QED BY <2>1, <2>2
<1>11. g = [n \in 0..m |-> g[n]]
  BY <1>8
<1>12. g = Search(g, D, S, L, V, z, m)
  BY <1>10, <1>11 DEF Search
<1> QED BY <1>8, <1>12 DEF T, Searchable

\* What its values are, step by step.
LEMMA SearchStep ==
  ASSUME NEW D, NEW S, NEW L, NEW V, NEW z, NEW m \in Nat, NEW g, g = Search(g, D, S, L, V, z, m)
  PROVE  Searches(g, D, S, L, V, z, m)
<1> DEFINE R(n) == [d \in D |-> IF d \notin S THEN V[d] ELSE IF n = 0 THEN z ELSE g[n - 1][L[d]]]
<1>1. \A n \in 0..m : g[n] = R(n)
  BY DEF Search
<1>2. \A n : \A d \in D : R(n)[d] = IF d \notin S THEN V[d] ELSE IF n = 0 THEN z ELSE g[n - 1][L[d]]
  OBVIOUS
<1> HIDE DEF R
<1> QED BY <1>1, <1>2 DEF Searches

\* Places that lead to each other only are searched in vain.
Spins(g, X, z, m) == \A n \in 0..m : \A x \in X : g[n][x] = z

\* By induction on the number of steps.
LEMMA SearchSpins ==
  ASSUME NEW D, NEW S, NEW L, NEW V, NEW z, NEW m \in Nat, NEW g, Searches(g, D, S, L, V, z, m),
         NEW X, X \subseteq D, X \subseteq S, \A x \in X : L[x] \in X
  PROVE  Spins(g, X, z, m)
<1>0. \A n \in 0..m : \A d \in D :
        g[n][d] = IF d \notin S THEN V[d] ELSE IF n = 0 THEN z ELSE g[n - 1][L[d]]
  BY DEF Searches
<1> DEFINE PP(n) == n <= m => \A x \in X : g[n][x] = z
           P == {n \in Nat : PP(n)}
<1>1. PP(0)
  <2>1. 0 \in 0..m
    OBVIOUS
  <2> QED BY <1>0, <2>1
<1>2. ASSUME NEW n \in Nat, PP(n) PROVE PP(n + 1)
  <2> SUFFICES ASSUME n + 1 <= m, NEW x \in X PROVE g[n + 1][x] = z
    OBVIOUS
  <2>1. n + 1 \in 0..m /\ n + 1 # 0 /\ n + 1 - 1 = n /\ n <= m
    OBVIOUS
  <2>2. x \in D /\ x \in S
    OBVIOUS
  <2>3. g[n + 1][x] = g[n][L[x]]
    BY <1>0, <2>1, <2>2
  <2>4. g[n][L[x]] = z
    BY <1>2, <2>1
  <2> QED BY <2>3, <2>4
<1> HIDE DEF PP
<1>3. 0 \in P
  BY <1>1
<1>4. \A n \in Nat : n \in P => n + 1 \in P
  BY <1>2
<1> HIDE DEF P
<1>5. Nat \subseteq P
  BY <1>3, <1>4, InductionOnSets
<1>6. \A n \in Nat : PP(n)
  BY <1>5 DEF P
<1>7. \A n \in 0..m : n \in Nat /\ n <= m
  OBVIOUS
<1> QED BY <1>6, <1>7 DEF PP, Spins

\* A search that steps over more places than there are to step over has found
\* what there is: one step more or less makes no difference.
Rests(g, D, m) == \A d \in D : g[m][d] = g[m - 1][d]

\* With more steps than silent places one more step changes nothing: a walk that
\* has not ended by then meets itself.
LEMMA SearchMeets ==
  ASSUME NEW D, NEW S, S \subseteq D, IsFiniteSet(S), NEW L \in [S -> D], NEW V, NEW z,
         NEW m \in Nat, Cardinality(S) < m,
         NEW g, Searches(g, D, S, L, V, z, m)
  PROVE  Rests(g, D, m)
<1> DEFINE W == [d \in D |-> TRUE]
<1>1. W \in [D -> BOOLEAN] /\ \A d \in D : W[d] = TRUE
  OBVIOUS
<1> HIDE DEF W
<1>2. PICK u \in [0..m -> [D -> BOOLEAN]] : u = Search(u, D, S, L, W, FALSE, m)
  <2>1. Searchable(BOOLEAN, D, S, L, W, FALSE, m)
    BY <1>1, SearchExists
  <2> QED BY <2>1 DEF Searchable
<1> DEFINE U(n) == {d \in D : u[n][d] = FALSE}
<1>3. \A n \in 0..m : \A d \in D :
        u[n][d] = IF d \notin S THEN W[d] ELSE IF n = 0 THEN FALSE ELSE u[n - 1][L[d]]
  <2>1. Searches(u, D, S, L, W, FALSE, m)
    BY <1>2, SearchStep
  <2> QED BY <2>1 DEF Searches
<1>4. \A n \in 0..m : \A d \in D :
        g[n][d] = IF d \notin S THEN V[d] ELSE IF n = 0 THEN z ELSE g[n - 1][L[d]]
  BY DEF Searches
<1>5. /\ \A n \in 0..m : \A d \in D \ S : u[n][d] = TRUE /\ g[n][d] = V[d]
      /\ \A d \in S : u[0][d] = FALSE /\ g[0][d] = z
      /\ \A n \in 0..m : \A d \in S : n # 0 => u[n][d] = u[n - 1][L[d]] /\ g[n][d] = g[n - 1][L[d]]
  <2>1. 0 \in 0..m /\ \A d \in S : d \in D
    OBVIOUS
  <2> QED BY <1>1, <1>3, <1>4, <2>1
<1>6. \A d \in S : L[d] \in D /\ d \in D
  OBVIOUS
<1> DEFINE PP(n) == n <= m =>
                      \A d \in D :
                        /\ u[n][d] = FALSE => g[n][d] = z /\ d \in S
                        /\ n + 1 <= m /\ u[n][d] = TRUE => u[n + 1][d] = TRUE /\ g[n + 1][d] = g[n][d]
           P == {n \in Nat : PP(n)}
<1>7. PP(0)
  <2> SUFFICES ASSUME NEW d \in D
               PROVE  /\ u[0][d] = FALSE => g[0][d] = z /\ d \in S
                      /\ 0 + 1 <= m /\ u[0][d] = TRUE => u[0 + 1][d] = TRUE /\ g[0 + 1][d] = g[0][d]
    OBVIOUS
  <2>1. 0 \in 0..m /\ (0 + 1 <= m => 0 + 1 \in 0..m)
    OBVIOUS
  <2>2. CASE d \in S
    BY <1>5, <2>1, <2>2
  <2>3. CASE d \notin S
    BY <1>5, <2>1, <2>3
  <2> QED BY <2>2, <2>3
<1>8. ASSUME NEW n \in Nat, PP(n) PROVE PP(n + 1)
  <2> SUFFICES ASSUME n + 1 <= m, NEW d \in D
               PROVE  /\ u[n + 1][d] = FALSE => g[n + 1][d] = z /\ d \in S
                      /\ n + 1 + 1 <= m /\ u[n + 1][d] = TRUE
                           => u[n + 1 + 1][d] = TRUE /\ g[n + 1 + 1][d] = g[n + 1][d]
    OBVIOUS
  <2>1. n <= m /\ n \in 0..m /\ n + 1 \in 0..m /\ n + 1 # 0 /\ n + 1 - 1 = n
    OBVIOUS
  <2>2. n + 1 + 1 <= m => n + 1 + 1 \in 0..m /\ n + 1 + 1 # 0 /\ n + 1 + 1 - 1 = n + 1
    OBVIOUS
  <2>3. CASE d \in S
    <3>1. u[n + 1][d] = u[n][L[d]] /\ g[n + 1][d] = g[n][L[d]] /\ L[d] \in D
      BY <1>5, <1>6, <2>1, <2>3
    <3>2. u[n][L[d]] = FALSE => g[n][L[d]] = z
      BY <1>8, <2>1, <3>1
    <3>3. u[n][L[d]] = TRUE => u[n + 1][L[d]] = TRUE /\ g[n + 1][L[d]] = g[n][L[d]]
      BY <1>8, <2>1, <3>1
    <3>4. n + 1 + 1 <= m => u[n + 1 + 1][d] = u[n + 1][L[d]] /\ g[n + 1 + 1][d] = g[n + 1][L[d]]
      BY <1>5, <2>2, <2>3
    <3> QED BY <2>3, <3>1, <3>2, <3>3, <3>4
  <2>4. CASE d \notin S
    BY <1>5, <2>1, <2>2, <2>4
  <2> QED BY <2>3, <2>4
<1> HIDE DEF PP
<1>9. \A n \in Nat : PP(n)
  <2>1. 0 \in P /\ \A n \in Nat : n \in P => n + 1 \in P
    BY <1>7, <1>8
  <2> HIDE DEF P
  <2>2. Nat \subseteq P
    BY <2>1, InductionOnSets
  <2> QED BY <2>2 DEF P
<1>10. ASSUME NEW n \in 0..m, NEW d \in D
      PROVE  /\ u[n][d] = FALSE => g[n][d] = z /\ d \in S
             /\ n + 1 <= m /\ u[n][d] = TRUE => u[n + 1][d] = TRUE /\ g[n + 1][d] = g[n][d]
  <2>1. n \in Nat /\ n <= m
    OBVIOUS
  <2> QED BY <1>9, <2>1 DEF PP
<1>11. \A n \in 0..m : \A d \in D : u[n][d] \in BOOLEAN
  BY <1>2
<1>12. ASSUME NEW n \in 0..m, n + 1 <= m
      PROVE  U(n + 1) \subseteq U(n) /\ U(n) \subseteq S
  <2>1. n + 1 \in 0..m
    BY <1>12
  <2>2. \A d \in D : u[n][d] = FALSE => d \in S
    BY <1>10
  <2>3. \A d \in D : u[n][d] = TRUE => u[n + 1][d] = TRUE
    BY <1>10, <1>12
  <2>4. \A d \in D : u[n][d] \in BOOLEAN /\ u[n + 1][d] \in BOOLEAN
    BY <1>11, <2>1
  <2> QED BY <2>2, <2>3, <2>4
<1>13. U(0) = S
  <2>1. 0 \in 0..m
    OBVIOUS
  <2> QED BY <1>5, <1>10, <2>1
<1> DEFINE QQ(n) == n + 1 <= m => Cardinality(U(n)) + n <= Cardinality(S) \/ U(n) = U(n + 1)
           Q == {n \in Nat : QQ(n)}
<1>14. Cardinality(S) \in Nat
  BY FS_CardinalityType
<1>15. QQ(0)
  <2> HIDE DEF U
  <2> QED BY <1>13, <1>14
<1>16. ASSUME NEW n \in Nat, QQ(n) PROVE QQ(n + 1)
  <2> SUFFICES ASSUME n + 1 + 1 <= m
               PROVE  Cardinality(U(n + 1)) + (n + 1) <= Cardinality(S) \/ U(n + 1) = U(n + 1 + 1)
    OBVIOUS
  <2>1. /\ n \in 0..m /\ n + 1 \in 0..m /\ n + 1 <= m /\ n + 1 # 0 /\ n + 1 - 1 = n
        /\ n + 1 + 1 \in 0..m /\ n + 1 + 1 # 0 /\ n + 1 + 1 - 1 = n + 1
    OBVIOUS
  <2>2. CASE U(n) = U(n + 1)
    <3>0. (\A d \in D : u[n + 1][d] = FALSE => d \in S) /\ \A d \in D : u[n + 1 + 1][d] = FALSE => d \in S
      BY <1>10, <2>1
    <3>1. \A d : d \in U(n + 1) <=> d \in S /\ L[d] \in U(n)
      BY <1>5, <1>6, <2>1, <3>0
    <3>2. \A d : d \in U(n + 1 + 1) <=> d \in S /\ L[d] \in U(n + 1)
      BY <1>5, <1>6, <2>1, <3>0
    <3> HIDE DEF U
    <3> QED BY <2>2, <3>1, <3>2
  <2>3. CASE U(n) # U(n + 1)
    <3>1. U(n + 1) \subseteq U(n) /\ U(n) \subseteq S
      BY <1>12, <2>1
    <3>2. Cardinality(U(n)) + n <= Cardinality(S)
      BY <1>16, <2>1, <2>3
    <3> DEFINE A == U(n)
               B == U(n + 1)
    <3>a. B \subseteq A /\ A \subseteq S /\ A # B /\ Cardinality(A) + n <= Cardinality(S)
      BY <2>3, <3>1, <3>2
    <3> HIDE DEF A, B
    <3>3. IsFiniteSet(A)
      BY <3>a, FS_Subset
    <3>4. Cardinality(B) < Cardinality(A) /\ IsFiniteSet(B)
      <4>1. IsFiniteSet(B) /\ Cardinality(B) <= Cardinality(A) /\ (Cardinality(B) = Cardinality(A) => B = A)
        BY <3>a, <3>3, FS_Subset
      <4>2. Cardinality(A) \in Nat /\ Cardinality(B) \in Nat
        BY <3>3, <4>1, FS_CardinalityType
      <4> QED BY <3>a, <4>1, <4>2
    <3>5. Cardinality(A) \in Nat /\ Cardinality(B) \in Nat
      BY <3>3, <3>4, FS_CardinalityType
    <3>6. Cardinality(B) + (n + 1) <= Cardinality(S)
      BY <1>14, <3>a, <3>4, <3>5
    <3> QED BY <3>6 DEF B
  <2> QED BY <2>2, <2>3
<1> HIDE DEF QQ
<1>17. \A n \in Nat : QQ(n)
  <2>1. 0 \in Q /\ \A n \in Nat : n \in Q => n + 1 \in Q
    BY <1>15, <1>16
  <2> HIDE DEF Q
  <2>2. Nat \subseteq Q
    BY <2>1, InductionOnSets
  <2> QED BY <2>2 DEF Q
<1>18. m # 0 /\ m - 1 \in Nat /\ m - 1 \in 0..m /\ (m - 1) + 1 = m /\ m \in 0..m
  BY <1>14
<1>19. PICK k \in 0..m : k + 1 = m /\ k = m - 1
  BY <1>18
<1>20. U(m) \subseteq U(m - 1) /\ U(m - 1) \subseteq S
  <2>1. k + 1 <= m
    BY <1>19
  <2> HIDE DEF U
  <2>2. U(k + 1) \subseteq U(k) /\ U(k) \subseteq S
    BY <1>12, <2>1
  <2> QED BY <1>19, <2>2
<1>21. ASSUME NEW d \in D
       PROVE  /\ u[m - 1][d] = FALSE => g[m - 1][d] = z
              /\ u[m][d] = FALSE => g[m][d] = z
              /\ u[m - 1][d] = TRUE => g[m][d] = g[m - 1][d]
  <2>1. k + 1 <= m /\ u[k][d] = TRUE => g[k + 1][d] = g[k][d]
    BY <1>10
  <2>2. (u[k][d] = FALSE => g[k][d] = z) /\ (u[m][d] = FALSE => g[m][d] = z)
    BY <1>10, <1>18
  <2> QED BY <1>19, <1>18, <2>1, <2>2
<1>22. U(m) = U(m - 1)
  <2>1. Cardinality(U(m - 1)) + (m - 1) <= Cardinality(S) \/ U(m - 1) = U(m)
    BY <1>17, <1>18 DEF QQ
  <2>2. CASE Cardinality(U(m - 1)) + (m - 1) <= Cardinality(S)
    <3>1. U(m) \subseteq U(m - 1) /\ U(m - 1) \subseteq S
      BY <1>20
    <3> DEFINE A == U(m - 1)
    <3>a. A \subseteq S /\ Cardinality(A) + (m - 1) <= Cardinality(S) /\ U(m) \subseteq A
      BY <2>2, <3>1
    <3> HIDE DEF A
    <3>2. IsFiniteSet(A)
      BY <3>a, FS_Subset
    <3>b. Cardinality(A) \in Nat
      BY <3>2, FS_CardinalityType
    <3>3. Cardinality(A) = 0
      BY <1>14, <1>18, <3>a, <3>b
    <3>4. A = {}
      BY <3>2, <3>3, FS_EmptySet
    <3> HIDE DEF U
    <3> QED BY <3>a, <3>4 DEF A
  <2> QED BY <2>1, <2>2
<1> SUFFICES ASSUME NEW d \in D PROVE g[m][d] = g[m - 1][d]
  BY DEF Rests
<1>23. CASE u[m - 1][d] = TRUE
  BY <1>21, <1>23
<1>24. CASE u[m - 1][d] = FALSE
  <2>1. u[m][d] = FALSE
    BY <1>22, <1>24
  <2> QED BY <1>21, <1>24, <2>1
<1> QED BY <1>11, <1>18, <1>23, <1>24

\* So it tells at a place what it tells at the next, and z where it goes round.
Tells(h, D, S, L, V, z) ==
  /\ \A d \in D : d \notin S => h[d] = V[d]
  /\ \A d \in S : h[d] = h[L[d]]
  /\ \A X \in SUBSET S : (\A x \in X : L[x] \in X) => \A x \in X : h[x] = z

\* So the search tells what it should, given steps enough.
LEMMA SearchTells ==
  ASSUME NEW D, NEW S, S \subseteq D, IsFiniteSet(S), NEW L \in [S -> D], NEW V, NEW z,
         NEW m \in Nat, Cardinality(S) < m \/ S = D,
         NEW g, Searches(g, D, S, L, V, z, m)
  PROVE  Tells(g[m], D, S, L, V, z)
<1>0. \A n \in 0..m : \A d \in D :
        g[n][d] = IF d \notin S THEN V[d] ELSE IF n = 0 THEN z ELSE g[n - 1][L[d]]
  BY DEF Searches
<1>1. m \in 0..m
  OBVIOUS
<1>2. \A d \in D : d \notin S => g[m][d] = V[d]
  BY <1>0, <1>1
<1>3. ASSUME NEW X, X \subseteq S, \A x \in X : L[x] \in X PROVE \A x \in X : g[m][x] = z
  <2>1. X \subseteq D
    BY <1>3
  <2>2. Spins(g, X, z, m)
    BY <1>3, <2>1, SearchSpins
  <2> QED BY <1>1, <2>2 DEF Spins
<1>4. ASSUME NEW d \in S PROVE g[m][d] = g[m][L[d]]
  <2>1. CASE Cardinality(S) < m
    <3>1. Cardinality(S) \in Nat
      BY FS_CardinalityType
    <3>2. m # 0 /\ d \in D /\ L[d] \in D
      BY <2>1, <3>1
    <3>3. g[m][d] = g[m - 1][L[d]]
      BY <1>0, <1>1, <3>2
    <3>4. Rests(g, D, m)
      BY <2>1, SearchMeets
    <3> QED BY <3>2, <3>3, <3>4 DEF Rests
  <2>2. CASE S = D
    <3>1. \A x \in S : L[x] \in S
      BY <2>2
    <3>2. g[m][d] = z /\ g[m][L[d]] = z
      BY <1>3, <3>1
    <3> QED BY <3>2
  <2> QED BY <2>1, <2>2
<1> QED BY <1>2, <1>3, <1>4 DEF Tells

-----------------------------------------------------------------------------
(* Places found in the body.                                                 *)

\* The first and the last of some numbers.
LEMMA FirstIs ==
  ASSUME NEW S, S \subseteq Nat, NEW p \in S, \A q \in S : p <= q
  PROVE  FirstOf(S) = p
<1>1. \A e \in S : (\A d \in S : e <= d) => e = p
  OBVIOUS
<1> QED BY <1>1 DEF FirstOf

\* The last of a set is the one no member comes after.
LEMMA LastIs ==
  ASSUME NEW S, S \subseteq Nat, NEW p \in S, \A q \in S : p >= q
  PROVE  LastOf(S) = p
<1>1. \A e \in S : (\A d \in S : e >= d) => e = p
  OBVIOUS
<1> QED BY <1>1 DEF LastOf

\* A set of numbers that is not empty has a first.
LEMMA FirstIn ==
  ASSUME NEW S, S \subseteq Nat, S # {}
  PROVE  FirstOf(S) \in S /\ \A q \in S : FirstOf(S) <= q
<1>1. PICK p \in S : \A q \in S : p <= q
  BY LeastNumber
<1>2. FirstOf(S) = p
  BY <1>1, FirstIs
<1> QED BY <1>1, <1>2

\* What is true of the beginning stays true of the whole.
LEMMA Prefix ==
  ASSUME NEW s \in Seq(Item), NEW t \in Seq(Item), Begins(s, t)
  PROVE  /\ Len(s) \in Nat /\ Len(t) \in Nat /\ Len(t) <= Len(s)
         /\ DOMAIN s = 1..Len(s) /\ DOMAIN t = 1..Len(t)
         /\ \A p \in 1..Len(t) : p \in 1..Len(s) /\ s[p] = t[p] /\ DepthIn(s, p) = DepthIn(t, p)
<1>1. /\ Len(s) \in Nat /\ Len(t) \in Nat /\ Len(t) <= Len(s)
      /\ DOMAIN s = 1..Len(s) /\ DOMAIN t = 1..Len(t) /\ \A i \in 1..Len(t) : s[i] = t[i]
  BY DEF Begins
<1>2. ASSUME NEW p \in 1..Len(t) PROVE DepthIn(s, p) = DepthIn(t, p)
  <2>1. OpenersTo(s, p) = OpenersTo(t, p)
    BY <1>1 DEF OpenersTo
  <2>2. ClosersTo(s, p - 1) = ClosersTo(t, p - 1)
    BY <1>1 DEF ClosersTo
  <2> QED BY <2>1, <2>2 DEF DepthIn
<1> QED BY <1>1, <1>2

\* A construct has ended at a place of t exactly if it has there in s.
LEMMA PrefixEnded ==
  ASSUME NEW s \in Seq(Item), NEW t \in Seq(Item), Begins(s, t),
         NEW q \in 1..Len(t), NEW p \in 1..(Len(t) + 1)
  PROVE  Ended(s, q, p) <=> Ended(t, q, p)
<1>1. \A c \in (q + 1)..(p - 1) : c \in 1..Len(t)
  BY Prefix
<1>2. \A c \in 1..Len(t) : s[c] = t[c] /\ DepthIn(s, c) = DepthIn(t, c)
  BY Prefix
<1> QED BY <1>1, <1>2 DEF Ended

\* So are its errors.
LEMMA PrefixErrors ==
  ASSUME NEW s \in Seq(Item), NEW t \in Seq(Item), Begins(s, t)
  PROVE  (Lost(t) => Lost(s)) /\ (Twice(t) => Twice(s))
<1>1. /\ Len(s) \in Nat /\ Len(t) \in Nat /\ Len(t) <= Len(s)
      /\ DOMAIN s = 1..Len(s) /\ DOMAIN t = 1..Len(t)
      /\ \A p \in 1..Len(t) : p \in 1..Len(s) /\ s[p] = t[p]
  BY Prefix
<1>2. ASSUME Lost(t) PROVE Lost(s)
  <2>1. PICK p \in 1..Len(t) : /\ t[p].k = "break"
                               /\ ~\E q \in 1..(p - 1) : t[q].k \in Loops /\ ~Ended(t, q, p)
    BY <1>1, <1>2 DEF Lost
  <2>2. \A q \in 1..(p - 1) : q \in 1..Len(t) /\ p \in 1..(Len(t) + 1)
    BY <1>1
  <2>3. \A q \in 1..(p - 1) : s[q] = t[q] /\ (Ended(s, q, p) <=> Ended(t, q, p))
    BY <1>1, <2>2, PrefixEnded
  <2> QED BY <1>1, <2>1, <2>3 DEF Lost
<1>3. ASSUME Twice(t) PROVE Twice(s)
  BY <1>1, <1>3 DEF Twice
<1> QED BY <1>2, <1>3

-----------------------------------------------------------------------------
(* Where the items stand that the next item x belongs to; t is the body read *)
(* up to x, and s a body that begins with t.                                 *)

\* The constructs that are open, in their order.
LEMMA Rising ==
  ASSUME NEW t \in Seq(Item), NEW ns \in Seq(Frame), Nested(t, ns), Shaped(t, ns),
         NEW i \in DOMAIN ns, NEW j \in DOMAIN ns, i < j
  PROVE  ns[i].p < ns[j].p
<1>1. /\ ns[i].p \in 1..Len(t) /\ DepthIn(t, ns[i].p) = i
      /\ ns[j].p \in 1..Len(t) /\ DepthIn(t, ns[j].p) = j /\ Opens(t[ns[i].p])
  BY DEF Nested
<1>2. i \in Nat /\ j \in Nat
  OBVIOUS
<1>3. ns[i].p # ns[j].p
  BY <1>1, <1>2
<1>4. ASSUME ns[j].p < ns[i].p PROVE FALSE
  <2>1. ns[i].p \in (ns[j].p + 1)..Len(t)
    BY <1>1, <1>4
  <2>2. DepthIn(t, ns[i].p) > j
    BY <1>1, <2>1 DEF Shaped, Inner
  <2> QED BY <1>1, <1>2, <2>2
<1> QED BY <1>1, <1>3, <1>4

\* The new item is as deep as the constructs that are open.
LEMMA NewDepth ==
  ASSUME NEW r \in Seq(Item), NEW x \in Item, ~Opens(x), NEW ns \in Seq(Frame), Nested(r, ns),
         NEW s \in Seq(Item), Begins(s, Append(r, x))
  PROVE  /\ Len(r) \in Nat /\ Len(r) + 1 \in 1..Len(s) /\ s[Len(r) + 1] = x
         /\ DepthIn(s, Len(r) + 1) = Len(ns)
         /\ \A p \in 1..Len(r) : p \in 1..Len(s) /\ s[p] = r[p] /\ DepthIn(s, p) = DepthIn(r, p)
<1> DEFINE t == Append(r, x)
<1>1. /\ t \in Seq(Item) /\ Len(r) \in Nat /\ Len(t) = Len(r) + 1 /\ t[Len(r) + 1] = x
      /\ \A i \in 1..Len(r) : t[i] = r[i]
  BY AppendFacts
<1>2. /\ \A p \in 1..Len(r) : DepthIn(t, p) = DepthIn(r, p)
      /\ DepthIn(t, Len(r) + 1) = Level(r) + IF Opens(x) THEN 1 ELSE 0
  BY DepthOfNew
<1>3. Level(r) = Len(ns) /\ Len(ns) \in Nat
  BY DEF Nested
<1> HIDE DEF t
<1>4. Begins(s, t)
  BY DEF t
<1>5. \A p \in 1..Len(t) : p \in 1..Len(s) /\ s[p] = t[p] /\ DepthIn(s, p) = DepthIn(t, p)
  BY <1>1, <1>4, Prefix
<1>6. Len(r) + 1 \in 1..Len(t) /\ \A p \in 1..Len(r) : p \in 1..Len(t)
  BY <1>1
<1>7. DepthIn(t, Len(r) + 1) = Len(ns)
  BY <1>2, <1>3
<1> QED BY <1>1, <1>2, <1>5, <1>6, <1>7

\* What the item that closes a construct, and an else, belongs to.
LEMMA CloserFound ==
  ASSUME NEW r \in Seq(Item), NEW x \in Item, Closes(x), NEW ns \in Seq(Frame), ns # <<>>,
         Nested(r, ns), Shaped(r, ns), NEW s \in Seq(Item), Begins(s, Append(r, x))
  PROVE  /\ CloserIn(s, ns[Len(ns)].p) = Len(r) + 1
         /\ OpenerIn(s, Len(r) + 1) = ns[Len(ns)].p
<1> DEFINE h == Len(r) + 1
           n == Len(ns)
           p == ns[n].p
<1>1. n \in Nat /\ n \in DOMAIN ns /\ p \in 1..Len(r) /\ Opens(r[p]) /\ DepthIn(r, p) = n
  BY DEF Nested
<1>2. ~Opens(x)
  BY DEF Opens, Closes, Loops
<1>3. /\ Len(r) \in Nat /\ h \in 1..Len(s) /\ s[h] = x /\ DepthIn(s, h) = n
      /\ \A q \in 1..Len(r) : q \in 1..Len(s) /\ s[q] = r[q] /\ DepthIn(s, q) = DepthIn(r, q)
  BY <1>2, NewDepth
<1>4. \A q \in (p + 1)..Len(r) : Opens(r[q]) \/ Closes(r[q]) => DepthIn(r, q) > n
  BY <1>1 DEF Shaped, Inner
<1>5. DepthIn(s, p) = n /\ Opens(s[p]) /\ p < h /\ Len(s) \in Nat /\ h \in Nat /\ p \in Nat
  BY <1>1, <1>3
<1> HIDE DEF n, p
<1>6. \A q : q \in (p + 1)..Len(s) /\ q < h => q \in (p + 1)..Len(r) /\ q \in 1..Len(r)
  BY <1>1, <1>3
<1>7. \A q : q \in 1..(h - 1) /\ q > p => q \in (p + 1)..Len(r) /\ q \in 1..Len(r)
  BY <1>1, <1>3
<1>8. ClosersOf(s, p) \subseteq Nat /\ OpenersOf(s, h) \subseteq Nat
  BY <1>1, <1>3 DEF ClosersOf, OpenersOf
<1>9. h \in ClosersOf(s, p) /\ \A q \in ClosersOf(s, p) : h <= q
  <2>1. h \in ClosersOf(s, p)
    BY <1>3, <1>5 DEF ClosersOf
  <2>2. ASSUME NEW q \in ClosersOf(s, p), q < h PROVE FALSE
    <3>1. q \in (p + 1)..Len(s) /\ Closes(s[q]) /\ DepthIn(s, q) = n
      BY <1>5 DEF ClosersOf
    <3>2. q \in (p + 1)..Len(r) /\ q \in 1..Len(r)
      BY <1>6, <2>2, <3>1
    <3>3. DepthIn(r, q) > n
      BY <1>3, <1>4, <3>1, <3>2
    <3> QED BY <1>1, <1>3, <3>1, <3>2, <3>3
  <2> QED BY <1>5, <1>8, <2>1, <2>2
<1>10. p \in OpenersOf(s, h) /\ \A q \in OpenersOf(s, h) : p >= q
  <2>1. p \in OpenersOf(s, h)
    BY <1>1, <1>3, <1>5 DEF OpenersOf
  <2>2. ASSUME NEW q \in OpenersOf(s, h), q > p PROVE FALSE
    <3>1. q \in 1..(h - 1) /\ Opens(s[q]) /\ DepthIn(s, q) = n
      BY <1>3 DEF OpenersOf
    <3>2. q \in (p + 1)..Len(r) /\ q \in 1..Len(r)
      BY <1>7, <2>2, <3>1
    <3>3. DepthIn(r, q) > n
      BY <1>3, <1>4, <3>1, <3>2
    <3> QED BY <1>1, <1>3, <3>1, <3>2, <3>3
  <2> QED BY <1>5, <1>8, <2>1, <2>2
<1>11. CloserIn(s, p) = h
  BY <1>8, <1>9, FirstIs DEF CloserIn
<1>12. OpenerIn(s, h) = p
  BY <1>8, <1>10, LastIs DEF OpenerIn
<1> QED BY <1>11, <1>12 DEF n, p

\* The else that is read now is the one of the innermost construct, and is closed
\* where that is.
LEMMA ElseFound ==
  ASSUME NEW r \in Seq(Item), NEW x \in Item, x.k = "else", NEW ns \in Seq(Frame), ns # <<>>,
         ns[Len(ns)].k = "ifelse",
         Nested(r, ns), Shaped(r, ns), NEW s \in Seq(Item), Begins(s, Append(r, x))
  PROVE  /\ ElseIn(s, ns[Len(ns)].p) = Len(r) + 1
         /\ CloserIn(s, ns[Len(ns)].p) = CloserIn(s, Len(r) + 1)
<1> DEFINE h == Len(r) + 1
           n == Len(ns)
           p == ns[n].p
<1>1. n \in Nat /\ n \in DOMAIN ns /\ p \in 1..Len(r) /\ Opens(r[p]) /\ DepthIn(r, p) = n
  BY DEF Nested
<1>2. ~Opens(x) /\ ~Closes(x)
  BY DEF Opens, Closes, Loops
<1>3. ~Opens(x)
  BY <1>2
<1>4. /\ Len(r) \in Nat /\ h \in 1..Len(s) /\ s[h] = x /\ DepthIn(s, h) = n
      /\ \A q \in 1..Len(r) : q \in 1..Len(s) /\ s[q] = r[q] /\ DepthIn(s, q) = DepthIn(r, q)
  BY <1>3, NewDepth, SMTT(30)
<1>5. \A q \in (p + 1)..Len(r) : Closes(r[q]) \/ r[q].k = "else" => DepthIn(r, q) > n
  BY <1>1 DEF Shaped, Inner
<1>6. DepthIn(s, p) = n /\ p < h /\ Len(s) \in Nat /\ h \in Nat /\ p \in Nat
  BY <1>1, <1>4
<1> HIDE DEF n, p
<1>7. \A q : q \in (p + 1)..Len(s) /\ q < h => q \in (p + 1)..Len(r) /\ q \in 1..Len(r)
  BY <1>1, <1>4
<1>8. ASSUME NEW q \in (p + 1)..Len(s), q < h, Closes(s[q]) \/ s[q].k = "else", DepthIn(s, q) = n
      PROVE  FALSE
  <2>1. q \in (p + 1)..Len(r) /\ q \in 1..Len(r)
    BY <1>7, <1>8
  <2>2. DepthIn(r, q) > n
    BY <1>4, <1>5, <1>8, <2>1
  <2> QED BY <1>1, <1>4, <1>8, <2>1, <2>2
<1>9. ElsesOf(s, p) \subseteq Nat
  BY <1>1, <1>4 DEF ElsesOf
<1>10. h \in ElsesOf(s, p) /\ \A q \in ElsesOf(s, p) : h <= q
  <2>1. h \in ElsesOf(s, p)
    BY <1>4, <1>6 DEF ElsesOf
  <2>2. ASSUME NEW q \in ElsesOf(s, p), q < h PROVE FALSE
    BY <1>6, <1>8, <2>2 DEF ElsesOf
  <2> QED BY <1>6, <1>9, <2>1, <2>2
<1>11. ElseIn(s, p) = h
  BY <1>9, <1>10, FirstIs DEF ElseIn
<1>12. ClosersOf(s, p) = ClosersOf(s, h)
  <2>1. ASSUME NEW q \in ClosersOf(s, p) PROVE q \in ClosersOf(s, h)
    <3>1. q \in (p + 1)..Len(s) /\ Closes(s[q]) /\ DepthIn(s, q) = n
      BY <1>6 DEF ClosersOf
    <3>2. ~(q < h) /\ q # h
      BY <1>2, <1>4, <1>8, <3>1
    <3>3. q \in (h + 1)..Len(s)
      BY <1>6, <3>1, <3>2, SMTT(30)
    <3> QED BY <1>4, <3>1, <3>3 DEF ClosersOf
  <2>2. ASSUME NEW q \in ClosersOf(s, h) PROVE q \in ClosersOf(s, p)
    <3>1. q \in (h + 1)..Len(s) /\ Closes(s[q]) /\ DepthIn(s, q) = n
      BY <1>4 DEF ClosersOf
    <3>2. q \in (p + 1)..Len(s)
      BY <1>6, <3>1
    <3> QED BY <1>6, <3>1, <3>2 DEF ClosersOf
  <2> QED BY <2>1, <2>2
<1>13. CloserIn(s, p) = CloserIn(s, h)
  BY <1>12 DEF CloserIn
<1> QED BY <1>11, <1>13 DEF n, p


\* What begins with more begins with less.
LEMMA BeginsLess ==
  ASSUME NEW r \in Seq(Item), NEW x \in Item, NEW s \in Seq(Item), Begins(s, Append(r, x))
  PROVE  Begins(s, r)
<1>1. /\ Len(r) \in Nat /\ Len(Append(r, x)) = Len(r) + 1 /\ Len(s) \in Nat
      /\ \A i \in 1..Len(r) : Append(r, x)[i] = r[i]
  BY AppendFacts
<1>2. Len(r) + 1 <= Len(s) /\ \A i \in 1..(Len(r) + 1) : s[i] = Append(r, x)[i]
  BY <1>1 DEF Begins
<1>3. \A i \in 1..Len(r) : i \in 1..(Len(r) + 1)
  BY <1>1
<1> HIDE DEF Begins
<1>4. Len(r) <= Len(s) /\ \A i \in 1..Len(r) : s[i] = r[i]
  BY <1>1, <1>2, <1>3
<1> QED BY <1>4 DEF Begins

\* The loop that a break leaves is the innermost of those that are open.
LEMMA LoopFound ==
  ASSUME NEW r \in Seq(Item), NEW x \in Item, x.k = "break", NEW ns \in Seq(Frame),
         Nested(r, ns), Shaped(r, ns), NEW s \in Seq(Item), Begins(s, Append(r, x)), Whole(s),
         NEW i \in LoopsOf(ns), \A j \in LoopsOf(ns) : j <= i
  PROVE  LoopIn(s, Len(r) + 1) = ns[i].p
<1> DEFINE h == Len(r) + 1
<1>1. ~Opens(x)
  BY DEF Opens, Loops
<1>2. ~Closes(x)
  BY DEF Closes
<1>3. /\ Len(r) \in Nat /\ h \in 1..Len(s) /\ s[h] = x
      /\ \A q \in 1..Len(r) : q \in 1..Len(s) /\ s[q] = r[q] /\ DepthIn(s, q) = DepthIn(r, q)
  BY <1>1, NewDepth
<1>4. Begins(s, r) /\ Len(s) \in Nat /\ h \in Nat /\ h \in 1..(Len(r) + 1) /\ DOMAIN s = 1..Len(s)
      /\ DOMAIN r = 1..Len(r)
  BY <1>3, BeginsLess
<1>5. ASSUME NEW q \in 1..Len(r), Opens(r[q])
      PROVE  CloserIn(s, q) > h <=> \E j \in DOMAIN ns : ns[j].p = q
  <2>1. q \in 1..Len(s) /\ Opens(s[q]) /\ q < h /\ q \in Nat
    BY <1>3, <1>5
  <2>2. ClosersOf(s, q) # {} /\ ClosersOf(s, q) \subseteq Nat
    BY <1>4, <2>1 DEF Whole, ClosersOf
  <2>3. PICK c : c = CloserIn(s, q)
    OBVIOUS
  <2>4. c \in ClosersOf(s, q) /\ \A d \in ClosersOf(s, q) : c <= d
    BY <2>2, <2>3, FirstIn DEF CloserIn
  <2>5. c \in (q + 1)..Len(s) /\ Closes(s[c]) /\ DepthIn(s, c) = DepthIn(s, q)
    BY <2>4 DEF ClosersOf
  <2>6. Ended(s, q, h) <=> Ended(r, q, Len(r) + 1)
    BY <1>4, PrefixEnded
  <2>7. ~Ended(r, q, Len(r) + 1) <=> \E j \in DOMAIN ns : ns[j].p = q
    BY <1>4, <1>5 DEF Nested
  <2> HIDE DEF h
  <2>8. ASSUME c > h, Ended(s, q, h) PROVE FALSE
    <3>1. PICK d \in (q + 1)..(h - 1) : Closes(s[d]) /\ DepthIn(s, d) = DepthIn(s, q)
      BY <2>8 DEF Ended
    <3>2. d \in (q + 1)..Len(s) /\ d < h
      BY <1>3, <1>4, <2>1, <3>1
    <3>3. d \in ClosersOf(s, q)
      BY <3>1, <3>2 DEF ClosersOf
    <3> QED BY <1>4, <2>4, <2>5, <2>8, <3>2, <3>3
  <2>9. ASSUME ~(c > h) PROVE Ended(s, q, h)
    <3>1. c # h
      BY <1>2, <1>3, <2>5
    <3>2. c \in (q + 1)..(h - 1)
      BY <1>4, <2>1, <2>5, <2>9, <3>1
    <3> QED BY <2>5, <3>2 DEF Ended
  <2> QED BY <2>3, <2>6, <2>7, <2>8, <2>9
<1>6. ASSUME NEW j \in DOMAIN ns
      PROVE  /\ j \in Nat /\ ns[j].p \in 1..Len(r) /\ Opens(r[ns[j].p])
             /\ (ns[j].k \in Loops <=> r[ns[j].p].k \in Loops)
  BY <1>4 DEF Nested
<1>7. \A q : q \in 1..(h - 1) <=> q \in 1..Len(r)
  BY <1>3
<1> HIDE DEF h
<1>8. ASSUME NEW q \in LoopsAbout(s, h) PROVE \E j \in LoopsOf(ns) : ns[j].p = q
  <2>1. q \in 1..Len(r) /\ s[q].k \in Loops /\ CloserIn(s, q) > h
    BY <1>7 DEF LoopsAbout
  <2>2. r[q].k \in Loops /\ Opens(r[q])
    BY <1>3, <2>1 DEF Opens
  <2>3. PICK j \in DOMAIN ns : ns[j].p = q
    BY <1>5, <2>1, <2>2
  <2> QED BY <1>6, <2>2, <2>3 DEF LoopsOf
<1>9. i \in DOMAIN ns /\ ns[i].k \in Loops
  BY DEF LoopsOf
<1>10. ns[i].p \in LoopsAbout(s, h)
  <2>1. ns[i].p \in 1..Len(r) /\ Opens(r[ns[i].p]) /\ r[ns[i].p].k \in Loops
    BY <1>6, <1>9
  <2>2. CloserIn(s, ns[i].p) > h
    BY <1>5, <1>9, <2>1
  <2> QED BY <1>3, <1>7, <2>1, <2>2 DEF LoopsAbout
<1>11. \A q \in LoopsAbout(s, h) : ns[i].p >= q
  <2> SUFFICES ASSUME NEW q \in LoopsAbout(s, h) PROVE ns[i].p >= q
    OBVIOUS
  <2>1. PICK j \in LoopsOf(ns) : ns[j].p = q
    BY <1>8
  <2>2. j <= i /\ j \in DOMAIN ns /\ j \in Nat /\ i \in Nat
    BY <1>6, <1>9, <2>1 DEF LoopsOf
  <2>3. j < i => ns[j].p < ns[i].p
    BY <1>9, <2>2, Rising
  <2>4. ns[i].p \in Nat /\ ns[j].p \in Nat
    BY <1>6, <1>9, <2>2
  <2>5. CASE j = i
    BY <2>1, <2>4, <2>5
  <2>6. CASE j < i
    BY <2>1, <2>3, <2>4, <2>6
  <2> QED BY <2>2, <2>5, <2>6
<1>12. LoopsAbout(s, h) \subseteq Nat
  BY <1>3, <1>7 DEF LoopsAbout
<1>13. LoopIn(s, h) = ns[i].p
  BY <1>10, <1>11, <1>12, LastIs DEF LoopIn
<1> QED BY <1>13 DEF h

\* A label that was not met yet is met here.
LEMMA LabelFound ==
  ASSUME NEW r \in Seq(Item), NEW l \in Labels, NEW x \in Item, x = [k |-> "label", l |-> l],
         l \notin Met(r), NEW s \in Seq(Item), Begins(s, Append(r, x))
  PROVE  LabelIn(s, l) = Len(r) + 1
<1> DEFINE h == Len(r) + 1
<1>1. /\ Append(r, x) \in Seq(Item) /\ Len(r) \in Nat /\ Len(Append(r, x)) = h /\ Append(r, x)[h] = x
      /\ \A i \in 1..Len(r) : Append(r, x)[i] = r[i]
  BY AppendFacts
<1>2. h \in 1..Len(s) /\ Len(s) \in Nat /\ s[h] = x
  <2>1. Len(Append(r, x)) <= Len(s) /\ \A i \in 1..Len(Append(r, x)) : s[i] = Append(r, x)[i]
    BY DEF Begins
  <2>2. h <= Len(s) /\ \A i \in 1..h : s[i] = Append(r, x)[i]
    BY <1>1, <2>1
  <2>3. h \in 1..h /\ h \in Nat /\ Len(s) \in Nat
    BY <1>1
  <2> QED BY <1>1, <2>2, <2>3
<1>3. \A q \in 1..Len(r) : s[q] # x
  <2>1. \A q \in 1..Len(r) : r[q] # x
    BY DEF Met
  <2>2. Begins(s, r)
    BY BeginsLess
  <2> QED BY <2>1, <2>2 DEF Begins
<1>4. LabelsOf(s, l) \subseteq Nat /\ h \in LabelsOf(s, l)
  BY <1>2 DEF LabelsOf
<1>5. \A q \in LabelsOf(s, l) : h <= q
  <2> SUFFICES ASSUME NEW q \in LabelsOf(s, l), ~(h <= q) PROVE FALSE
    OBVIOUS
  <2>1. q \in 1..Len(s) /\ s[q] = x
    BY DEF LabelsOf
  <2>2. q \in 1..Len(r)
    BY <1>1, <1>2, <2>1
  <2> QED BY <1>3, <2>1, <2>2
<1> QED BY <1>4, <1>5, FirstIs DEF LabelIn

\* A goto in a body without errors has its label.
LEMMA GotoFound ==
  ASSUME NEW s \in Seq(Item), Whole(s), NEW p \in DOMAIN s, s[p].k = "goto"
  PROVE  LabelIn(s, s[p].l) \in 1..Len(s) /\ s[LabelIn(s, s[p].l)].k = "label"
<1>1. PICK q \in DOMAIN s : s[q] = [k |-> "label", l |-> s[p].l]
  BY DEF Whole, Unmet
<1>2. LabelsOf(s, s[p].l) \subseteq Nat /\ q \in LabelsOf(s, s[p].l)
  BY <1>1 DEF LabelsOf
<1>3. LabelIn(s, s[p].l) \in LabelsOf(s, s[p].l)
  BY <1>2, FirstIn DEF LabelIn
<1> QED BY <1>3 DEF LabelsOf

-----------------------------------------------------------------------------
(* The shape of the body, item by item.                                      *)

\* What is known of an item stays known.
LEMMA ShapeGrows ==
  ASSUME NEW s \in Seq(Item), NEW x \in Item, NEW t, t = Append(s, x), NEW p \in 1..Len(s)
  PROVE  /\ ElsesOf(s, p) \subseteq ElsesOf(t, p) /\ ClosersOf(s, p) \subseteq ClosersOf(t, p)
         /\ OpenersOf(s, p) \subseteq OpenersOf(t, p)
         /\ \A d \in ClosersOf(t, p) : d \in ClosersOf(s, p) \/ (d = Len(s) + 1 /\ Closes(x))
<1>1. /\ t \in Seq(Item) /\ Len(s) \in Nat /\ Len(t) = Len(s) + 1 /\ t[Len(s) + 1] = x
      /\ \A i \in 1..Len(s) : t[i] = s[i]
  BY AppendFacts
<1>2. \A q \in 1..Len(s) : DepthIn(t, q) = DepthIn(s, q)
  BY DepthOfNew
<1>3. \A q \in (p + 1)..Len(s) : q \in 1..Len(s) /\ q \in (p + 1)..Len(t)
  BY <1>1
<1>4. \A q \in (p + 1)..Len(t) : q \in (p + 1)..Len(s) \/ q = Len(s) + 1
  BY <1>1
<1>5. \A q \in 1..(p - 1) : q \in 1..Len(s)
  BY <1>1
<1>6. ElsesOf(s, p) \subseteq ElsesOf(t, p)
  BY <1>1, <1>2, <1>3 DEF ElsesOf
<1>7. ClosersOf(s, p) \subseteq ClosersOf(t, p)
  BY <1>1, <1>2, <1>3 DEF ClosersOf
<1>8. OpenersOf(s, p) \subseteq OpenersOf(t, p)
  BY <1>1, <1>2, <1>5 DEF OpenersOf
<1>9. ASSUME NEW d \in ClosersOf(t, p) PROVE d \in ClosersOf(s, p) \/ (d = Len(s) + 1 /\ Closes(x))
  <2>1. d \in (p + 1)..Len(t) /\ Closes(t[d]) /\ DepthIn(t, d) = DepthIn(t, p)
    BY DEF ClosersOf
  <2>2. CASE d = Len(s) + 1
    BY <1>1, <2>1, <2>2
  <2>3. CASE d \in (p + 1)..Len(s)
    BY <1>1, <1>2, <1>3, <2>1, <2>3 DEF ClosersOf
  <2> QED BY <1>4, <2>1, <2>2, <2>3
<1> QED BY <1>6, <1>7, <1>8, <1>9

\* The first to close an item stays the first.
LEMMA ShutStays ==
  ASSUME NEW s \in Seq(Item), NEW x \in Item, NEW t, t = Append(s, x), NEW p \in 1..Len(s),
         ShutByEndif(s, p)
  PROVE  ShutByEndif(t, p)
<1>1. Len(s) \in Nat /\ \A i \in 1..Len(s) : t[i] = s[i]
  BY AppendFacts
<1>2. PICK c \in ClosersOf(s, p) : s[c].k = "endif" /\ \A d \in ClosersOf(s, p) : c <= d
  BY DEF ShutByEndif
<1>3. c \in (p + 1)..Len(s)
  BY DEF ClosersOf
<1>4. c \in 1..Len(s) /\ c \in Nat /\ c <= Len(s) + 1
  BY <1>1, <1>3
<1>5. \A d \in ClosersOf(t, p) : d \in ClosersOf(s, p) \/ d = Len(s) + 1
  BY ShapeGrows
<1>6. c \in ClosersOf(t, p)
  BY ShapeGrows
<1>7. t[c].k = "endif" /\ \A d \in ClosersOf(t, p) : c <= d
  BY <1>1, <1>2, <1>4, <1>5
<1> QED BY <1>6, <1>7 DEF ShutByEndif

\* A construct that stays open.
LEMMA InnerGrows ==
  ASSUME NEW s \in Seq(Item), NEW x \in Item, NEW t, t = Append(s, x), NEW ns \in Seq(Frame), Nested(s, ns),
         NEW i \in DOMAIN ns, KindFits(s, ns[i]), Inner(s, ns[i], i),
         NEW f \in Frame, f.p = ns[i].p, f.k = ns[i].k \/ (f.k = "if" /\ ns[i].k = "ifelse"),
         Closes(x) \/ (f.k = "ifelse" /\ x.k = "else") => i < Len(ns)
  PROVE  KindFits(t, f) /\ Inner(t, f, i)
<1>1. /\ t \in Seq(Item) /\ Len(s) \in Nat /\ Len(t) = Len(s) + 1 /\ t[Len(s) + 1] = x
      /\ \A j \in 1..Len(s) : t[j] = s[j]
  BY AppendFacts
<1>2. /\ \A q \in 1..Len(s) : DepthIn(t, q) = DepthIn(s, q)
      /\ DepthIn(t, Len(s) + 1) = Level(s) + IF Opens(x) THEN 1 ELSE 0
  BY DepthOfNew
<1>3. Level(s) = Len(ns) /\ Len(ns) \in Nat /\ i \in Nat /\ i <= Len(ns) /\ ns[i].p \in 1..Len(s)
  BY <1>1 DEF Nested
<1>4. Opens(x) => ~Closes(x)
  BY DEF Opens, Closes, Loops
<1>5. t[f.p] = s[f.p]
  BY <1>1, <1>3
<1>6. KindFits(t, f)
  BY <1>5 DEF KindFits
<1>7. ASSUME NEW r \in (f.p + 1)..Len(t),
             Opens(t[r]) \/ Closes(t[r]) \/ (f.k = "ifelse" /\ t[r].k = "else")
      PROVE  DepthIn(t, r) > i
  <2>1. CASE r = Len(s) + 1
    <3>1. Opens(x) \/ Closes(x) \/ (f.k = "ifelse" /\ x.k = "else")
      BY <1>1, <1>7, <2>1
    <3>2. CASE Opens(x)
      BY <1>2, <1>3, <2>1, <3>2
    <3>3. CASE ~Opens(x)
      BY <1>2, <1>3, <2>1, <3>1, <3>3
    <3> QED BY <3>2, <3>3
  <2>2. CASE r # Len(s) + 1
    <3>1. r \in (ns[i].p + 1)..Len(s) /\ r \in 1..Len(s)
      BY <1>1, <1>3, <2>2
    <3>2. Opens(s[r]) \/ Closes(s[r]) \/ (ns[i].k = "ifelse" /\ s[r].k = "else")
      BY <1>1, <1>7, <3>1
    <3>3. DepthIn(s, r) > i
      BY <3>1, <3>2 DEF Inner
    <3> QED BY <1>2, <3>1, <3>3
  <2> QED BY <2>1, <2>2
<1> QED BY <1>6, <1>7 DEF Inner

\* An item that was there: the construct it waits for is still open, or is met.
Keeps(s, t, ns, ms, p) ==
  /\ \A i \in DOMAIN ns : ns[i].p = p /\ ns[i].k = "ifelse" =>
       ElsesOf(t, p) # {} \/ \E j \in DOMAIN ms : ms[j].p = p /\ ms[j].k = "ifelse"
  /\ \A i \in DOMAIN ns : ns[i].k = "if" /\ DepthIn(s, p) = i /\ ns[i].p < p =>
       ShutByEndif(t, p) \/ (i \in DOMAIN ms /\ ms[i].k = "if" /\ ms[i].p = ns[i].p)

\* An item keeps its shape if the constructs it relies on do.
LEMMA ItemStays ==
  ASSUME NEW s \in Seq(Item), NEW x \in Item, NEW t, t = Append(s, x), NEW ns, NEW ms,
         NEW p \in 1..Len(s), ItemShaped(s, ns, p),
         Keeps(s, t, ns, ms, p)
  PROVE  ItemShaped(t, ms, p)
<1>1. t[p] = s[p] /\ DepthIn(t, p) = DepthIn(s, p)
  <2>1. t[p] = s[p]
    BY AppendFacts
  <2>2. DepthIn(t, p) = DepthIn(s, p)
    BY DepthOfNew
  <2> QED BY <2>1, <2>2
<1>2. ElsesOf(s, p) \subseteq ElsesOf(t, p) /\ OpenersOf(s, p) \subseteq OpenersOf(t, p)
  BY ShapeGrows
<1>3. ShutByEndif(s, p) => ShutByEndif(t, p)
  BY ShutStays
<1>4. t[p].k = "ifelse" => ElsesOf(t, p) # {} \/ \E i \in DOMAIN ms : ms[i].p = p /\ ms[i].k = "ifelse"
  BY <1>1, <1>2 DEF ItemShaped, Keeps
<1>5. t[p].k = "else" =>
        ShutByEndif(t, p) \/ \E i \in DOMAIN ms : ms[i].k = "if" /\ DepthIn(t, p) = i /\ ms[i].p < p
  BY <1>1, <1>3 DEF ItemShaped, Keeps
<1>6. Closes(t[p]) => OpenersOf(t, p) # {}
  BY <1>1, <1>2 DEF ItemShaped
<1> QED BY <1>4, <1>5, <1>6 DEF ItemShaped

\* A statement that neither opens nor closes keeps the shape.
LEMMA ShapedPlain ==
  ASSUME NEW s \in Seq(Item), NEW x \in Item, ~Opens(x), ~Closes(x), x.k # "else",
         NEW t, t = Append(s, x), NEW ns \in Seq(Frame), Nested(s, ns), Shaped(s, ns)
  PROVE  Shaped(t, ns)
<1>1. /\ Len(s) \in Nat /\ Len(t) = Len(s) + 1 /\ t[Len(s) + 1] = x
      /\ DOMAIN t = 1..(Len(s) + 1) /\ DOMAIN s = 1..Len(s)
  BY AppendFacts
<1>2. ASSUME NEW i \in DOMAIN ns PROVE KindFits(t, ns[i]) /\ Inner(t, ns[i], i)
  <2>1. ns[i] \in Frame /\ KindFits(s, ns[i]) /\ Inner(s, ns[i], i)
    BY DEF Shaped
  <2> QED BY <2>1, InnerGrows
<1>3. ASSUME NEW p \in 1..Len(s) PROVE ItemShaped(t, ns, p)
  <2>1. ItemShaped(s, ns, p)
    BY <1>1 DEF Shaped
  <2>2. Keeps(s, t, ns, ns, p)
    BY DEF Keeps
  <2> QED BY <2>1, <2>2, ItemStays
<1>4. ItemShaped(t, ns, Len(s) + 1)
  <2>1. x.k # "ifelse"
    BY DEF Opens
  <2> QED BY <1>1, <2>1 DEF ItemShaped
<1>5. \A p \in DOMAIN t : p \in 1..Len(s) \/ p = Len(s) + 1
  BY <1>1
<1> QED BY <1>2, <1>3, <1>4, <1>5 DEF Shaped

\* So does an item that opens a construct,
LEMMA ShapedOpen ==
  ASSUME NEW s \in Seq(Item), NEW x \in Item, Opens(x), NEW t, t = Append(s, x),
         NEW ns \in Seq(Frame), NEW f \in Frame, f.p = Len(s) + 1, f.k = x.k,
         NEW ms, ms = Append(ns, f), Nested(s, ns), Shaped(s, ns)
  PROVE  Shaped(t, ms)
<1>1. /\ Len(s) \in Nat /\ Len(t) = Len(s) + 1 /\ t[Len(s) + 1] = x
      /\ DOMAIN t = 1..(Len(s) + 1) /\ DOMAIN s = 1..Len(s)
  BY AppendFacts
<1>2. /\ Len(ns) \in Nat /\ Len(ms) = Len(ns) + 1 /\ ms[Len(ns) + 1] = f
      /\ \A i \in 1..Len(ns) : ms[i] = ns[i]
      /\ DOMAIN ns = 1..Len(ns) /\ DOMAIN ms = 1..(Len(ns) + 1)
  BY AppendFacts
<1>3. ~Closes(x) /\ x.k # "else"
  BY DEF Opens, Closes, Loops
<1>4. ASSUME NEW i \in DOMAIN ns PROVE KindFits(t, ms[i]) /\ Inner(t, ms[i], i) /\ i \in DOMAIN ms /\ ms[i] = ns[i]
  <2>1. ns[i] \in Frame /\ KindFits(s, ns[i]) /\ Inner(s, ns[i], i) /\ i \in DOMAIN ms /\ ms[i] = ns[i]
    BY <1>2 DEF Shaped
  <2>2. KindFits(t, ns[i]) /\ Inner(t, ns[i], i)
    BY <1>3, <2>1, InnerGrows
  <2> QED BY <2>1, <2>2
<1>5. KindFits(t, f) /\ Inner(t, f, Len(ns) + 1)
  <2>1. KindFits(t, f)
    BY <1>1 DEF KindFits
  <2>2. \A r \in (f.p + 1)..Len(t) : FALSE
    BY <1>1
  <2> QED BY <2>1, <2>2 DEF Inner
<1>6. ASSUME NEW p \in 1..Len(s) PROVE ItemShaped(t, ms, p)
  <2>1. ItemShaped(s, ns, p)
    BY <1>1 DEF Shaped
  <2>2. \A i \in DOMAIN ns : i \in DOMAIN ms /\ ms[i] = ns[i]
    BY <1>4
  <2>3. Keeps(s, t, ns, ms, p)
    BY <2>2 DEF Keeps
  <2> QED BY <2>1, <2>3, ItemStays
<1>7. ItemShaped(t, ms, Len(s) + 1)
  <2>1. Len(ns) + 1 \in DOMAIN ms /\ ms[Len(ns) + 1].p = Len(s) + 1 /\ ms[Len(ns) + 1].k = x.k
    BY <1>2
  <2> QED BY <1>1, <1>3, <2>1 DEF ItemShaped
<1>8. \A p \in DOMAIN t : p \in 1..Len(s) \/ p = Len(s) + 1
  BY <1>1
<1>9. \A i \in DOMAIN ms : i \in DOMAIN ns \/ i = Len(ns) + 1
  BY <1>2
<1>10. \A i \in DOMAIN ms : KindFits(t, ms[i]) /\ Inner(t, ms[i], i)
  BY <1>2, <1>4, <1>5, <1>9
<1> QED BY <1>6, <1>7, <1>8, <1>10 DEF Shaped

\* an else, which makes an if with an else one without,
LEMMA ShapedElse ==
  ASSUME NEW s \in Seq(Item), NEW x \in Item, x.k = "else", NEW t, t = Append(s, x),
         NEW ns \in Seq(Frame), ns # <<>>, ns[Len(ns)].k = "ifelse",
         NEW ms, ms = [ns EXCEPT ![Len(ns)].k = "if"], Nested(s, ns), Shaped(s, ns)
  PROVE  Shaped(t, ms)
<1>1. /\ Len(s) \in Nat /\ Len(t) = Len(s) + 1 /\ t[Len(s) + 1] = x /\ t \in Seq(Item)
      /\ DOMAIN t = 1..(Len(s) + 1) /\ DOMAIN s = 1..Len(s)
  BY AppendFacts
<1> DEFINE n == Len(ns)
           g == [ns[n] EXCEPT !.k = "if"]
<1>2. /\ n \in Nat /\ n \in DOMAIN ns /\ ns[n] \in Frame /\ DOMAIN ms = DOMAIN ns
      /\ \A i \in DOMAIN ns : ns[i] \in Frame /\ i \in Nat /\ i <= n /\ (i # n => ms[i] = ns[i])
      /\ ms[n] = g /\ g.p = ns[n].p /\ g.k = "if" /\ g \in Frame
  <2>1. n \in Nat /\ n \in DOMAIN ns /\ ns[n] \in Frame /\ \A i \in DOMAIN ns : ns[i] \in Frame /\ i \in Nat /\ i <= n
    OBVIOUS
  <2>2. g.p = ns[n].p /\ g.k = "if" /\ g \in Frame
    BY <2>1 DEF Frame
  <2>3. ms = [ns EXCEPT ![n] = g]
    OBVIOUS
  <2> HIDE DEF g, n
  <2>4. DOMAIN ms = DOMAIN ns /\ ms[n] = g /\ \A i \in DOMAIN ns : i # n => ms[i] = ns[i]
    BY <2>1, <2>3
  <2> QED BY <2>1, <2>2, <2>4
<1>3. ~Opens(x) /\ ~Closes(x)
  BY DEF Opens, Closes, Loops
<1> HIDE DEF n, g
<1>4. ASSUME NEW i \in DOMAIN ns PROVE KindFits(t, ms[i]) /\ Inner(t, ms[i], i)
  <2>1. ns[i] \in Frame /\ KindFits(s, ns[i]) /\ Inner(s, ns[i], i)
    BY <1>2 DEF Shaped
  <2>2. CASE i = n
    <3>1. g \in Frame /\ g.p = ns[i].p /\ g.k = "if" /\ ns[i].k = "ifelse" /\ ms[i] = g
      BY <1>2, <2>2 DEF n
    <3>2. /\ g.k = ns[i].k \/ (g.k = "if" /\ ns[i].k = "ifelse")
          /\ Closes(x) \/ (g.k = "ifelse" /\ x.k = "else") => i < Len(ns)
      BY <1>3, <3>1
    <3>3. KindFits(t, g) /\ Inner(t, g, i)
      <4>1. s \in Seq(Item) /\ x \in Item /\ t = Append(s, x) /\ ns \in Seq(Frame) /\ Nested(s, ns) /\ i \in DOMAIN ns
        OBVIOUS
      <4>2. ASSUME NEW f \in Frame, f.p = ns[i].p, f.k = ns[i].k \/ (f.k = "if" /\ ns[i].k = "ifelse"),
                   Closes(x) \/ (f.k = "ifelse" /\ x.k = "else") => i < Len(ns)
            PROVE  KindFits(t, f) /\ Inner(t, f, i)
        BY <2>1, <4>1, <4>2, InnerGrows
      <4> QED BY <3>1, <3>2, <4>2
    <3> QED BY <3>1, <3>3
  <2>3. CASE i # n
    <3>1. i < Len(ns)
      BY <1>2, <2>3 DEF n
    <3>2. KindFits(t, ns[i]) /\ Inner(t, ns[i], i)
      BY <2>1, <3>1, InnerGrows
    <3> QED BY <1>2, <2>3, <3>2
  <2> QED BY <2>2, <2>3
<1>5. ns[n].p \in 1..Len(s) /\ DepthIn(s, ns[n].p) = n
  BY <1>1, <1>2 DEF Nested
<1>6. DepthIn(t, Len(s) + 1) = n
  <2>1. DepthIn(t, Len(s) + 1) = Level(s) + IF Opens(x) THEN 1 ELSE 0
    BY DepthOfNew
  <2>2. Level(s) = n
    BY DEF Nested, n
  <2> QED BY <1>2, <1>3, <2>1, <2>2
<1>7. ElsesOf(t, ns[n].p) # {}
  <2>1. DepthIn(t, ns[n].p) = n
    BY <1>5, DepthOfNew
  <2>2. Len(s) + 1 \in (ns[n].p + 1)..Len(t)
    BY <1>1, <1>5
  <2> QED BY <1>1, <1>6, <2>1, <2>2 DEF ElsesOf
<1>8. ASSUME NEW p \in 1..Len(s) PROVE ItemShaped(t, ms, p)
  <2>1. ItemShaped(s, ns, p)
    BY <1>1 DEF Shaped
  <2>2. \A i \in DOMAIN ns : ns[i].p = p /\ ns[i].k = "ifelse" =>
          ElsesOf(t, p) # {} \/ \E j \in DOMAIN ms : ms[j].p = p /\ ms[j].k = "ifelse"
    BY <1>2, <1>7
  <2>3. \A i \in DOMAIN ns : ns[i].k = "if" => i \in DOMAIN ms /\ ms[i].k = "if" /\ ms[i].p = ns[i].p
    BY <1>2
  <2>4. Keeps(s, t, ns, ms, p)
    BY <2>2, <2>3 DEF Keeps
  <2>5. s \in Seq(Item) /\ x \in Item /\ t = Append(s, x) /\ p \in 1..Len(s)
    OBVIOUS
  <2> QED BY ONLY <2>1, <2>4, <2>5, ItemStays
<1>9. ItemShaped(t, ms, Len(s) + 1)
  <2>1. n \in DOMAIN ms /\ ms[n].k = "if" /\ DepthIn(t, Len(s) + 1) = n /\ ms[n].p < Len(s) + 1
    BY <1>1, <1>2, <1>5, <1>6
  <2> QED BY <1>1, <1>3, <2>1 DEF ItemShaped
<1>10. \A p \in DOMAIN t : p \in 1..Len(s) \/ p = Len(s) + 1
  BY <1>1
<1> QED BY <1>2, <1>4, <1>8, <1>9, <1>10 DEF Shaped

\* and an item that closes the innermost construct.
LEMMA ShapedClose ==
  ASSUME NEW s \in Seq(Item), NEW x \in Item, Closes(x), NEW t, t = Append(s, x),
         NEW ns \in Seq(Frame), ns # <<>>, ns[Len(ns)].k # "ifelse",
         ns[Len(ns)].k = "if" => x.k = "endif",
         NEW ms, ms = SubSeq(ns, 1, Len(ns) - 1), Nested(s, ns), Shaped(s, ns)
  PROVE  Shaped(t, ms)
<1>1. /\ Len(s) \in Nat /\ Len(t) = Len(s) + 1 /\ t[Len(s) + 1] = x /\ t \in Seq(Item)
      /\ \A i \in 1..Len(s) : t[i] = s[i]
      /\ DOMAIN t = 1..(Len(s) + 1) /\ DOMAIN s = 1..Len(s)
  BY AppendFacts
<1> DEFINE n == Len(ns)
<1>2. /\ n \in Nat /\ n \in DOMAIN ns /\ n > 0 /\ \A i \in DOMAIN ns : ns[i] \in Frame /\ i \in Nat /\ i <= n
  OBVIOUS
<1>3. /\ \A i : i \in DOMAIN ms <=> i \in DOMAIN ns /\ i # n
      /\ \A i \in DOMAIN ms : ms[i] = ns[i]
  <2>1. n - 1 \in 0..Len(ns) /\ DOMAIN ns = 1..n
    BY <1>2
  <2>2. ms \in Seq(Frame) /\ Len(ms) = n - 1 /\ \A i \in 1..(n - 1) : ms[i] = ns[i]
    BY <2>1, PrefixFacts
  <2> QED BY <1>2, <2>1, <2>2
<1>4. ~Opens(x) /\ x.k # "else"
  BY DEF Opens, Closes, Loops
<1> HIDE DEF n
<1>5. ASSUME NEW i \in DOMAIN ms PROVE KindFits(t, ms[i]) /\ Inner(t, ms[i], i)
  <2>1. i \in DOMAIN ns /\ ns[i] \in Frame /\ KindFits(s, ns[i]) /\ Inner(s, ns[i], i) /\ i # n /\ ms[i] = ns[i]
    BY <1>2, <1>3 DEF Shaped
  <2>2. i < Len(ns)
    BY <1>2, <2>1 DEF n
  <2>3. KindFits(t, ns[i]) /\ Inner(t, ns[i], i)
    BY <2>1, <2>2, InnerGrows
  <2> QED BY <2>1, <2>3
<1>6. ns[n].p \in 1..Len(s) /\ DepthIn(s, ns[n].p) = n /\ Opens(s[ns[n].p]) /\ Inner(s, ns[n], n)
  BY <1>1, <1>2 DEF Nested, Shaped
<1>7. DepthIn(t, Len(s) + 1) = n /\ \A q \in 1..Len(s) : DepthIn(t, q) = DepthIn(s, q)
  <2>1. /\ DepthIn(t, Len(s) + 1) = Level(s) + IF Opens(x) THEN 1 ELSE 0
        /\ \A q \in 1..Len(s) : DepthIn(t, q) = DepthIn(s, q)
    BY DepthOfNew
  <2>2. Level(s) = n
    BY DEF Nested, n
  <2> QED BY <1>2, <1>4, <2>1, <2>2
<1>8. ASSUME NEW p \in 1..Len(s) PROVE ItemShaped(t, ms, p)
  <2>1. ItemShaped(s, ns, p)
    BY <1>1 DEF Shaped
  <2>2. \A i \in DOMAIN ns : ns[i].p = p /\ ns[i].k = "ifelse" => \E j \in DOMAIN ms : ms[j].p = p /\ ms[j].k = "ifelse"
    BY <1>2, <1>3 DEF n
  <2>3. ASSUME NEW i \in DOMAIN ns, ns[i].k = "if", DepthIn(s, p) = i, ns[i].p < p, i = n
        PROVE  ShutByEndif(t, p)
    <3>1. x.k = "endif"
      BY <2>3 DEF n
    <3>2. Len(s) + 1 \in ClosersOf(t, p)
      <4>1. Len(s) + 1 \in (p + 1)..Len(t)
        BY <1>1
      <4> QED BY <1>1, <1>7, <2>3, <4>1 DEF ClosersOf
    <3>3. \A d \in ClosersOf(t, p) : Len(s) + 1 <= d
      <4> SUFFICES ASSUME NEW d \in ClosersOf(t, p), ~(Len(s) + 1 <= d) PROVE FALSE
        OBVIOUS
      <4>1. d \in (p + 1)..Len(t) /\ Closes(t[d]) /\ DepthIn(t, d) = DepthIn(t, p)
        BY DEF ClosersOf
      <4>2. d \in 1..Len(s) /\ d \in (ns[n].p + 1)..Len(s)
        BY <1>1, <1>6, <2>3, <4>1
      <4>3. Closes(s[d]) /\ DepthIn(s, d) = n
        BY <1>1, <1>7, <2>3, <4>1, <4>2
      <4>4. DepthIn(s, d) > n
        BY <1>6, <4>2, <4>3 DEF Inner
      <4> QED BY <1>2, <4>3, <4>4
    <3> QED BY <1>1, <3>1, <3>2, <3>3 DEF ShutByEndif
  <2>4. \A i \in DOMAIN ns : ns[i].k = "if" /\ DepthIn(s, p) = i /\ ns[i].p < p =>
          ShutByEndif(t, p) \/ (i \in DOMAIN ms /\ ms[i].k = "if" /\ ms[i].p = ns[i].p)
    BY <1>3, <2>3
  <2>5. Keeps(s, t, ns, ms, p)
    BY <2>2, <2>4 DEF Keeps
  <2>6. s \in Seq(Item) /\ x \in Item /\ t = Append(s, x) /\ p \in 1..Len(s)
    OBVIOUS
  <2> QED BY ONLY <2>1, <2>5, <2>6, ItemStays
<1>9. ItemShaped(t, ms, Len(s) + 1)
  <2>1. ns[n].p \in OpenersOf(t, Len(s) + 1)
    <3>1. ns[n].p \in 1..((Len(s) + 1) - 1)
      BY <1>1, <1>6
    <3> QED BY <1>1, <1>6, <1>7, <3>1 DEF OpenersOf
  <2>2. x.k # "ifelse"
    BY <1>4 DEF Opens
  <2> QED BY <1>1, <1>4, <2>1, <2>2 DEF ItemShaped
<1>10. \A p \in DOMAIN t : p \in 1..Len(s) \/ p = Len(s) + 1
  BY <1>1
<1> QED BY <1>5, <1>8, <1>9, <1>10 DEF Shaped

-----------------------------------------------------------------------------
(* The shape is kept, and what break leads to.                               *)

\* The items by what they do to the constructs that are open.
LEMMA NextShaped == IInv /\ Told /\ Shaped(src, nest) /\ [Next]_vars => Shaped(src, nest)'
<1> SUFFICES ASSUME IInv, Told, Shaped(src, nest), [Next]_vars PROVE Shaped(src', nest')
  OBVIOUS
<1>1. Typed /\ src \in Seq(Item) /\ nest \in Seq(Frame) /\ Nested(src, nest)
  BY DEF IInv, Typed, Flags, NestIn, Told
<1>2. CASE UNCHANGED <<src, nest>>
  BY <1>2
<1>3. ASSUME NEW x \in Item, src' = Append(src, x), nest' = nest,
             x.k \in {"stmt", "break", "return", "goto", "label"}
      PROVE  Shaped(src', nest')
  <2>1. ~Opens(x) /\ ~Closes(x) /\ x.k # "else"
    BY <1>3 DEF Opens, Closes, Loops
  <2>2. Shaped(src', nest)
    BY <1>1, <1>3, <2>1, ShapedPlain
  <2> QED BY <1>3, <2>2
<1>4. CASE Simple \/ Break \/ Return
  <2>1. PICK k \in {"stmt", "break", "return"} : src' = Append(src, Word(k)) /\ nest' = nest
    BY <1>4 DEF Simple, Break, Return, Read
  <2>2. Word(k) \in Item /\ Word(k).k = k
    BY WordFacts DEF Words
  <2> QED BY <1>3, <2>1, <2>2
<1>5. ASSUME NEW l \in Labels, Goto(l) \/ Label(l) PROVE Shaped(src', nest')
  <2>1. PICK x \in {[k |-> "goto", l |-> l], [k |-> "label", l |-> l]} : src' = Append(src, x) /\ nest' = nest
    BY <1>5 DEF Goto, Label, Read
  <2>2. [k |-> "goto", l |-> l] \in Item /\ [k |-> "label", l |-> l] \in Item
    BY WordFacts
  <2>3. x \in Item /\ x.k \in {"goto", "label"}
    BY <2>1, <2>2
  <2> QED BY <1>3, <2>1, <2>3
<1>6. ASSUME NEW k \in Loops \cup {"if", "ifelse"}, NEW f, src' = Append(src, Word(k)),
             nest' = Append(nest, f), f \in Frame, f.k = k, f.p = Here
      PROVE  Shaped(src', nest')
  <2>1. Word(k) \in Item /\ Word(k).k = k
    BY WordFacts DEF Words
  <2>2. Opens(Word(k)) /\ f.p = Len(src) + 1 /\ f.k = Word(k).k
    BY <1>6, <2>1 DEF Opens, Here
  <2> QED BY <1>1, <1>6, <2>1, <2>2, ShapedOpen
<1>7. CASE \E k \in {"if", "ifelse"} : OpenIf(k)
  <2>1. PICK k \in {"if", "ifelse"} : OpenIf(k)
    BY <1>7
  <2>2. N \in Nat /\ Here \in Nat
    BY <1>1 DEF N, Here, Typed, Blocks
  <2>3. PICK o \in {N + 2, N + 3} : /\ src' = Append(src, Word(k))
            /\ nest' = Append(nest, [k |-> k, p |-> Here, back |-> 0, end |-> N + 2, other |-> o])
    BY <2>1 DEF OpenIf, Read, Open
  <2>4. PICK f \in Frame : f = [k |-> k, p |-> Here, back |-> 0, end |-> N + 2, other |-> o]
    BY <2>2, <2>3 DEF Frame
  <2> QED BY <1>6, <2>3, <2>4
<1>8. CASE OpenWhile \/ OpenDo \/ \E k \in {"for", "forever"} : OpenFor(k)
  <2>1. PICK k \in Loops, o \in {0, N + 2} :
          /\ src' = Append(src, Word(k))
          /\ nest' = Append(nest, [k |-> k, p |-> Here, back |-> N + 1, end |-> N + 3, other |-> o])
    BY <1>8 DEF OpenWhile, OpenDo, OpenFor, Read, Open, Loops
  <2>2. N \in Nat /\ Here \in Nat /\ o \in Nat /\ N + 3 \in Nat /\ N + 1 \in Nat
    BY <1>1 DEF N, Here, Typed, Blocks
  <2>3. PICK f \in Frame : f = [k |-> k, p |-> Here, back |-> N + 1, end |-> N + 3, other |-> o]
    BY <2>2 DEF Frame
  <2> QED BY <1>6, <2>1, <2>3
<1>9. CASE Else
  <2>1. /\ src' = Append(src, Word("else")) /\ nest # <<>> /\ nest[Len(nest)].k = "ifelse"
        /\ nest' = [nest EXCEPT ![Len(nest)].k = "if"]
    BY <1>9 DEF Else, Inside, Read, Top
  <2>2. Word("else") \in Item /\ Word("else").k = "else"
    BY WordFacts DEF Words
  <2> QED BY <1>1, <2>1, <2>2, ShapedElse
<1>10. ASSUME NEW k \in {"endif", "endwhile", "enddo", "endfor"}, src' = Append(src, Word(k)),
              nest # <<>>, nest[Len(nest)].k # "ifelse", nest[Len(nest)].k = "if" => k = "endif", Pop
       PROVE  Shaped(src', nest')
  <2>1. Word(k) \in Item /\ Word(k).k = k /\ Closes(Word(k))
    BY WordFacts DEF Words, Closes
  <2>2. nest' = SubSeq(nest, 1, Len(nest) - 1)
    BY <1>10 DEF Pop
  <2> QED BY <1>1, <1>10, <2>1, <2>2, ShapedClose
<1>11. CASE EndIf
  <2>1. src' = Append(src, Word("endif")) /\ nest # <<>> /\ nest[Len(nest)].k = "if" /\ Pop
    BY <1>11 DEF EndIf, Inside, Read, Top
  <2> QED BY <1>10, <2>1
<1>12. CASE EndWhile \/ EndDo \/ EndFor
  <2>1. PICK k \in {"endwhile", "enddo", "endfor"} :
          src' = Append(src, Word(k)) /\ nest # <<>> /\ nest[Len(nest)].k \in Loops /\ Pop
    BY <1>12 DEF EndWhile, EndDo, EndFor, Inside, Read, Loops, Top
  <2>2. nest[Len(nest)].k # "ifelse" /\ nest[Len(nest)].k # "if"
    BY <2>1 DEF Loops
  <2> QED BY <1>10, <2>1, <2>2
<1>13. CASE finishFn
  BY <1>2, <1>13 DEF finishFn
<1>14. CASE UNCHANGED vars
  BY <1>2, <1>14 DEF vars
<1> QED BY <1>4, <1>5, <1>7, <1>8, <1>9, <1>11, <1>12, <1>13, <1>14 DEF Next

-----------------------------------------------------------------------------
\* The constructs counted are loops of ns.
LEMMA Ranked ==
  ASSUME NEW ns \in Seq(Frame), NEW i \in LoopsOf(ns)
  PROVE  /\ Rank(ns, i) \in 1..Cardinality(LoopsOf(ns))
         /\ (\A j \in LoopsOf(ns) : j <= i) => Rank(ns, i) = Cardinality(LoopsOf(ns))
<1> DEFINE A == LoopsOf(ns)
           B == {j \in A : j <= i}
<1>1. IsFiniteSet(A) /\ Cardinality(A) \in Nat
  BY LoopsCounted
<1>2. i \in Nat
  BY DEF LoopsOf
<1>3. B \subseteq A /\ i \in B
  BY <1>2
<1> HIDE DEF A, B
<1>4. IsFiniteSet(B) /\ Cardinality(B) <= Cardinality(A)
  BY <1>1, <1>3, FS_Subset
<1>5. Cardinality(B) \in Nat /\ Cardinality(B) # 0
  <2>1. Cardinality(B) \in Nat
    BY <1>4, FS_CardinalityType
  <2>2. B # {}
    BY <1>3
  <2> QED BY <1>4, <2>1, <2>2, FS_EmptySet
<1>6. Rank(ns, i) = Cardinality(B)
  BY DEF Rank, B, A
<1>7. (\A j \in LoopsOf(ns) : j <= i) => B = A
  BY DEF A, B
<1> QED BY <1>1, <1>4, <1>5, <1>6, <1>7 DEF A

\* A step that leaves the loops.
LEMMA BreaksSame ==
  ASSUME NEW br, NEW ns, NEW ms, BreaksFit(br, ns), LoopsOf(ms) = LoopsOf(ns),
         \A i \in LoopsOf(ns) : ms[i].end = ns[i].end
  PROVE  BreaksFit(br, ms)
<1>1. \A i : Rank(ms, i) = Rank(ns, i)
  BY DEF Rank
<1> QED BY <1>1 DEF BreaksFit

\* A loop begins.
LEMMA BreaksPush ==
  ASSUME NEW br \in Seq(Nat), NEW ns \in Seq(Frame), NEW f \in Frame, f.k \in Loops,
         Len(br) = Cardinality(LoopsOf(ns)), BreaksFit(br, ns)
  PROVE  BreaksFit(Append(br, f.end), Append(ns, f))
<1> DEFINE ms == Append(ns, f)
           bs == Append(br, f.end)
<1>1. /\ ms \in Seq(Frame) /\ DOMAIN ms = 1..(Len(ns) + 1) /\ DOMAIN ns = 1..Len(ns) /\ Len(ns) \in Nat
      /\ ms[Len(ns) + 1] = f /\ \A i \in 1..Len(ns) : ms[i] = ns[i]
  BY AppendFacts
<1>2. f.end \in Nat
  BY DEF Frame
<1>3. Len(br) \in Nat /\ bs[Len(br) + 1] = f.end /\ \A i \in 1..Len(br) : bs[i] = br[i]
  BY <1>2, AppendFacts
<1>4. /\ \A i \in DOMAIN ns : i \in DOMAIN ms /\ i # Len(ns) + 1 /\ ms[i] = ns[i] /\ i \in Nat /\ i < Len(ns) + 1
      /\ \A i \in DOMAIN ms : i \in DOMAIN ns \/ i = Len(ns) + 1
      /\ Len(ns) + 1 \in DOMAIN ms /\ ms[Len(ns) + 1] = f
  BY <1>1
<1>5. Cardinality(LoopsOf(ms)) = Len(br) + 1
  BY LoopsCounted
<1> HIDE DEF ms, bs
<1>6. LoopsOf(ms) = LoopsOf(ns) \cup {Len(ns) + 1}
  BY <1>4 DEF LoopsOf
<1>7. ASSUME NEW i \in LoopsOf(ns) PROVE bs[Rank(ms, i)] = ms[i].end
  <2>1. i \in DOMAIN ns
    BY DEF LoopsOf
  <2>2. {j \in LoopsOf(ms) : j <= i} = {j \in LoopsOf(ns) : j <= i}
    BY <1>1, <1>4, <1>6, <2>1
  <2>3. Rank(ms, i) = Rank(ns, i)
    BY <2>2 DEF Rank
  <2>4. Rank(ns, i) \in 1..Len(br)
    BY Ranked
  <2> QED BY <1>3, <1>4, <2>1, <2>3, <2>4 DEF BreaksFit
<1>8. bs[Rank(ms, Len(ns) + 1)] = f.end
  <2>1. Len(ns) + 1 \in LoopsOf(ms) /\ \A j \in LoopsOf(ms) : j <= Len(ns) + 1
    BY <1>1, <1>6 DEF LoopsOf
  <2>2. Rank(ms, Len(ns) + 1) = Len(br) + 1
    BY <1>1, <1>5, <2>1, Ranked
  <2> QED BY <1>3, <2>2
<1>9. BreaksFit(bs, ms)
  BY <1>1, <1>6, <1>7, <1>8 DEF BreaksFit
<1> QED BY <1>9 DEF bs, ms

\* A loop ends.
LEMMA BreaksPop ==
  ASSUME NEW br \in Seq(Nat), NEW ns \in Seq(Frame), ns # <<>>, ns[Len(ns)].k \in Loops,
         Len(br) = Cardinality(LoopsOf(ns)), BreaksFit(br, ns)
  PROVE  BreaksFit(SubSeq(br, 1, Len(br) - 1), SubSeq(ns, 1, Len(ns) - 1))
<1> DEFINE n  == Len(ns)
           m  == Len(br)
           ms == SubSeq(ns, 1, n - 1)
           bs == SubSeq(br, 1, m - 1)
<1>1. n \in Nat /\ n > 0 /\ n - 1 \in 0..n /\ DOMAIN ns = 1..n /\ n \in DOMAIN ns
  OBVIOUS
<1>2. ms \in Seq(Frame) /\ Len(ms) = n - 1 /\ (\A i \in 1..(n - 1) : ms[i] = ns[i]) /\ DOMAIN ms = 1..(n - 1)
  BY <1>1, PrefixFacts
<1>3. /\ \A i : i \in DOMAIN ms <=> i \in DOMAIN ns /\ i # n
      /\ \A i \in DOMAIN ms : ms[i] = ns[i] /\ i \in Nat /\ i < n
  BY <1>1, <1>2
<1>4. Cardinality(LoopsOf(ms)) = m - 1
  BY LoopsCounted
<1>5. Cardinality(LoopsOf(ms)) \in Nat
  BY <1>2, LoopsCounted
<1>6. m \in Nat /\ m - 1 \in 0..m
  BY <1>4, <1>5
<1>7. \A i \in 1..(m - 1) : bs[i] = br[i]
  BY <1>6, PrefixFacts
<1> HIDE DEF n, m, ms, bs
<1>8. LoopsOf(ms) = LoopsOf(ns) \ {n}
  BY <1>3 DEF LoopsOf
<1>9. ASSUME NEW i \in LoopsOf(ms) PROVE bs[Rank(ms, i)] = ms[i].end
  <2>1. i \in DOMAIN ms /\ i \in LoopsOf(ns) /\ i \in Nat /\ i < n /\ ms[i] = ns[i]
    BY <1>3, <1>8 DEF LoopsOf
  <2>2. {j \in LoopsOf(ms) : j <= i} = {j \in LoopsOf(ns) : j <= i}
    BY <1>1, <1>8, <2>1
  <2>3. Rank(ms, i) = Rank(ns, i)
    BY <2>2 DEF Rank
  <2>4. Rank(ms, i) \in 1..(m - 1)
    BY <1>2, <1>4, Ranked
  <2> QED BY <1>7, <2>1, <2>3, <2>4 DEF BreaksFit
<1>10. BreaksFit(bs, ms)
  BY <1>9 DEF BreaksFit
<1> QED BY <1>10 DEF n, m, ms, bs


\* Every step keeps the blocks that break leads to.
LEMMA NextBreaks == IInv /\ Told /\ BreaksFit(breaks, nest) /\ [Next]_vars => BreaksFit(breaks, nest)'
<1> SUFFICES ASSUME IInv, Told, BreaksFit(breaks, nest), [Next]_vars PROVE BreaksFit(breaks', nest')
  BY DEF BreaksFit, Rank, LoopsOf
<1>1. /\ Typed /\ nest \in Seq(Frame) /\ breaks \in Seq(Nat)
      /\ Len(breaks) = Cardinality(LoopsOf(nest)) /\ N \in Nat /\ Here \in Nat
  BY DEF IInv, Typed, Flags, Blocks, NestIn, StackIn, Told, N, Here
<1>2. CASE UNCHANGED <<breaks, nest>>
  BY <1>2
<1>3. CASE Simple \/ Break \/ Return \/ (\E l \in Labels : Goto(l) \/ Label(l)) \/ finishFn \/ UNCHANGED vars
  BY <1>2, <1>3 DEF Simple, Break, Return, Goto, Label, finishFn, vars
<1>4. CASE \E k \in {"if", "ifelse"} : OpenIf(k)
  <2>1. PICK k \in {"if", "ifelse"} : OpenIf(k)
    BY <1>4
  <2>2. PICK o \in {N + 2, N + 3} : /\ UNCHANGED breaks
            /\ nest' = Append(nest, [k |-> k, p |-> Here, back |-> 0, end |-> N + 2, other |-> o])
    BY <2>1 DEF OpenIf, Read, Open
  <2>7. N + 2 \in Nat /\ o \in Nat /\ 0 \in Nat /\ k \in Loops \cup {"if", "ifelse"}
    BY <1>1, <2>2
  <2>3. PICK f \in Frame : f = [k |-> k, p |-> Here, back |-> 0, end |-> N + 2, other |-> o]
    BY <1>1, <2>7 DEF Frame
  <2>4. f.k \notin Loops
    BY <2>3 DEF Loops
  <2>5. /\ \A i \in DOMAIN nest : i \in DOMAIN nest' /\ nest'[i] = nest[i]
        /\ \A i \in DOMAIN nest' : i \in DOMAIN nest \/ nest'[i] = f
    <3>1. nest' = Append(nest, f)
      BY <2>2, <2>3
    <3> QED BY <1>1, <3>1, AppendFacts
  <2>6. LoopsOf(nest') = LoopsOf(nest) /\ \A i \in LoopsOf(nest) : nest'[i].end = nest[i].end
    BY <2>4, <2>5 DEF LoopsOf
  <2> QED BY <2>2, <2>6, BreaksSame
<1>5. CASE OpenWhile \/ OpenDo \/ \E k \in {"for", "forever"} : OpenFor(k)
  <2>1. PICK k \in Loops, o \in {0, N + 2} :
          /\ nest' = Append(nest, [k |-> k, p |-> Here, back |-> N + 1, end |-> N + 3, other |-> o])
          /\ breaks' = Append(breaks, N + 3)
    BY <1>5 DEF OpenWhile, OpenDo, OpenFor, Open, Loops
  <2>2. o \in Nat /\ N + 3 \in Nat /\ N + 1 \in Nat
    BY <1>1
  <2>3. PICK f \in Frame : f = [k |-> k, p |-> Here, back |-> N + 1, end |-> N + 3, other |-> o]
    BY <1>1, <2>2 DEF Frame
  <2>4. f.k \in Loops /\ breaks' = Append(breaks, f.end) /\ nest' = Append(nest, f)
    BY <2>1, <2>3
  <2> QED BY <1>1, <2>4, BreaksPush
<1>6. CASE Else
  <2>1. /\ nest # <<>> /\ nest[Len(nest)].k = "ifelse" /\ UNCHANGED breaks
        /\ nest' = [nest EXCEPT ![Len(nest)].k = "if"]
    BY <1>6 DEF Else, Inside, Top
  <2>2. /\ Len(nest) \in DOMAIN nest /\ \A i \in DOMAIN nest : nest[i] \in Frame
    BY <1>1, <2>1
  <2>3. /\ DOMAIN nest' = DOMAIN nest
        /\ \A i \in DOMAIN nest : nest'[i].end = nest[i].end /\ (nest'[i].k \in Loops <=> nest[i].k \in Loops)
    BY <2>1, <2>2 DEF Frame, Loops
  <2>4. LoopsOf(nest') = LoopsOf(nest) /\ \A i \in LoopsOf(nest) : nest'[i].end = nest[i].end
    BY <2>3 DEF LoopsOf
  <2> QED BY <2>1, <2>4, BreaksSame
<1>7. CASE EndIf
  <2>1. nest # <<>> /\ nest[Len(nest)].k = "if" /\ nest' = SubSeq(nest, 1, Len(nest) - 1) /\ UNCHANGED breaks
    BY <1>7 DEF EndIf, Inside, Top, Pop
  <2>2. nest[Len(nest)].k \notin Loops
    BY <2>1 DEF Loops
  <2>3. /\ \A i \in DOMAIN nest' : i \in DOMAIN nest /\ nest'[i] = nest[i]
        /\ \A i \in DOMAIN nest : i \in DOMAIN nest' \/ i = Len(nest)
    <3>1. Len(nest) \in Nat /\ Len(nest) - 1 \in 0..Len(nest) /\ DOMAIN nest = 1..Len(nest)
      BY <1>1, <2>1
    <3>2. Len(nest') = Len(nest) - 1 /\ nest' \in Seq(Frame) /\ \A i \in 1..(Len(nest) - 1) : nest'[i] = nest[i]
      BY <1>1, <2>1, <3>1, PrefixFacts
    <3> QED BY <3>1, <3>2
  <2>4. LoopsOf(nest') = LoopsOf(nest) /\ \A i \in LoopsOf(nest) : nest'[i].end = nest[i].end
    BY <2>2, <2>3 DEF LoopsOf
  <2> QED BY <2>1, <2>4, BreaksSame
<1>8. CASE EndWhile \/ EndDo \/ EndFor
  <2>1. /\ nest # <<>> /\ nest[Len(nest)].k \in Loops
        /\ nest' = SubSeq(nest, 1, Len(nest) - 1) /\ breaks' = SubSeq(breaks, 1, Len(breaks) - 1)
    BY <1>8 DEF EndWhile, EndDo, EndFor, Inside, Read, Loops, Top, Pop, PopBreak
  <2> QED BY <1>1, <2>1, BreaksPop
<1> QED BY <1>2, <1>3, <1>4, <1>5, <1>6, <1>7, <1>8 DEF Next

-----------------------------------------------------------------------------
\* A body that is read, without an error, is whole.
LEMMA WholeAtEnd ==
  ASSUME IInv, Told, Shaped(src, nest), phase = "done", ~hadError_
  PROVE  Whole(src)
<1>1. src \in Seq(Item) /\ Len(src) \in Nat /\ DOMAIN src = 1..Len(src) /\ nest = <<>> /\ Nested(src, nest)
  BY DEF IInv, Typed, Flags, Told
<1>2. ~Lost(src) /\ ~Twice(src) /\ ~Unmet(src)
  BY DEF Told
<1>3. DOMAIN nest = {}
  BY <1>1
<1>4. ASSUME NEW p \in DOMAIN src, Opens(src[p]) PROVE ClosersOf(src, p) # {}
  <2>1. Ended(src, p, Len(src) + 1)
    BY <1>1, <1>3, <1>4 DEF Nested
  <2>2. (Len(src) + 1) - 1 = Len(src)
    BY <1>1
  <2>3. PICK c \in (p + 1)..((Len(src) + 1) - 1) : Closes(src[c]) /\ DepthIn(src, c) = DepthIn(src, p)
    BY <2>1 DEF Ended
  <2>4. c \in ClosersOf(src, p)
    BY <2>2, <2>3 DEF ClosersOf
  <2> QED BY <2>4
<1>5. ASSUME NEW p \in DOMAIN src, src[p].k = "else"
      PROVE  ClosersOf(src, p) # {} /\ src[CloserIn(src, p)].k = "endif"
  <2>1. ShutByEndif(src, p)
    BY <1>3, <1>5 DEF Shaped, ItemShaped
  <2>2. PICK c \in ClosersOf(src, p) : src[c].k = "endif" /\ \A d \in ClosersOf(src, p) : c <= d
    BY <2>1 DEF ShutByEndif
  <2>3. ClosersOf(src, p) \subseteq Nat
    BY <1>1 DEF ClosersOf
  <2>4. CloserIn(src, p) = c
    BY <2>2, <2>3, FirstIs DEF CloserIn
  <2> QED BY <2>2, <2>4
<1>6. ASSUME NEW p \in DOMAIN src
      PROVE  (src[p].k = "ifelse" => ElsesOf(src, p) # {}) /\ (Closes(src[p]) => OpenersOf(src, p) # {})
  BY <1>3 DEF Shaped, ItemShaped
<1> QED BY <1>2, <1>4, <1>5, <1>6 DEF Whole

-----------------------------------------------------------------------------
(* What the builder's calls do to blocks that follow the body.               *)

\* as is at with more blocks.
Over(as, at, n) == \A b \in 1..n : as[b] = at[b]

\* A terminator fits still when more blocks have places.
LEMMA TermStays ==
  ASSUME NEW s, NEW at, NEW as, DOMAIN at \subseteq DOMAIN as, \A b \in DOMAIN at : as[b] = at[b],
         NEW e, NEW code, NEW t, TermFits(s, at, e, code, t)
  PROVE  TermFits(s, as, e, code, t)
<1>1. CASE t = None \/ (t = Ret /\ e.part = "go" /\ ~SilentIn(s, e))
  BY <1>1 DEF TermFits
<1>2. CASE \E c \in DOMAIN at : t = To(c) /\ (Passes(s, e, at[c]) \/ (code # <<>> /\ at[c] = e))
  <2>1. \E c \in DOMAIN as : t = To(c) /\ (Passes(s, e, as[c]) \/ (code # <<>> /\ as[c] = e))
    BY <1>2
  <2> QED BY <2>1 DEF TermFits
<1>3. CASE \E p \in 1..Len(s), c, d \in DOMAIN at :
             /\ t = Cond(p, c, d) /\ ~SilentIn(s, Place(p, "cond"))
             /\ e = Place(p, "cond") \/ (SilentIn(s, e) /\ LeadIn(s, e) = Place(p, "cond"))
             /\ at[c] = ThenIn(s, Place(p, "cond"), TRUE)
             /\ at[d] = ThenIn(s, Place(p, "cond"), FALSE)
  <2>1. \E p \in 1..Len(s), c, d \in DOMAIN as :
             /\ t = Cond(p, c, d) /\ ~SilentIn(s, Place(p, "cond"))
             /\ e = Place(p, "cond") \/ (SilentIn(s, e) /\ LeadIn(s, e) = Place(p, "cond"))
             /\ as[c] = ThenIn(s, Place(p, "cond"), TRUE)
             /\ as[d] = ThenIn(s, Place(p, "cond"), FALSE)
    BY <1>3
  <2> QED BY <2>1 DEF TermFits
<1> QED BY <1>1, <1>2, <1>3 DEF TermFits

\* New blocks may begin anywhere.
Grown(s, as, at, bs, n, q) ==
  /\ BlocksFit(s, as, Fresh(bs, n)) /\ Over(as, at, Len(bs))
  /\ \A i \in 1..n : as[Len(bs) + i] = q[i]

\* New blocks can begin at any places, for nothing is in them.
LEMMA FreshFits ==
  ASSUME NEW s, NEW at, NEW bs \in Seq(Block), Len(bs) > 0, BlocksFit(s, at, bs),
         NEW n \in Nat, NEW q \in [1..n -> PlacesIn(s)]
  PROVE  \E as : Grown(s, as, at, bs, n, q)
<1>1. PICK m \in Nat : m = Len(bs)
  OBVIOUS
<1>2. m > 0 /\ at \in [1..m -> PlacesIn(s)] /\ at[1] = Place(1, "go")
  BY <1>1 DEF BlocksFit
<1>3. PICK ao : ao = [b \in 1..(m + n) |-> IF b <= m THEN at[b] ELSE q[b - m]]
  OBVIOUS
<1>4. /\ \A b \in 1..(m + n) : b <= m => b \in 1..m
      /\ \A b \in 1..(m + n) : ~(b <= m) => b - m \in 1..n
      /\ \A b \in 1..m : b \in 1..(m + n) /\ b <= m
      /\ \A i \in 1..n : m + i \in 1..(m + n) /\ ~(m + i <= m) /\ (m + i) - m = i
  BY <1>2
<1>5. ao \in [1..(m + n) -> PlacesIn(s)]
  BY <1>2, <1>3, <1>4
<1>6. \A b \in 1..m : ao[b] = at[b]
  BY <1>3, <1>4
<1>7. \A i \in 1..n : ao[m + i] = q[i]
  BY <1>3, <1>4
<1>8. PICK cs : cs = Fresh(bs, n)
  OBVIOUS
<1>9. cs \in Seq(Block) /\ Len(cs) = m + n
  BY <1>1, <1>8, FreshFacts
<1>10. \A b \in 1..(m + n) : cs[b] = IF b <= m THEN bs[b] ELSE EmptyBlock
  BY <1>1, <1>8 DEF Fresh
<1>11. ASSUME NEW b \in 1..(m + n) PROVE BlockFits(s, ao, ao[b], cs[b])
  <2>1. CASE b <= m
    <3>1. b \in 1..m /\ ao[b] = at[b] /\ cs[b] = bs[b]
      BY <1>4, <1>6, <1>10, <2>1
    <3>2. BlockFits(s, at, at[b], bs[b])
      BY <1>1, <3>1 DEF BlocksFit
    <3>3. DOMAIN at = 1..m /\ DOMAIN ao = 1..(m + n)
      BY <1>2, <1>5
    <3>4. DOMAIN at \subseteq DOMAIN ao /\ \A c \in DOMAIN at : ao[c] = at[c]
      BY <1>4, <1>6, <3>3
    <3>5. TermFits(s, ao, After(s, at[b], bs[b].code), bs[b].code, bs[b].term)
      BY <3>2, <3>4, TermStays DEF BlockFits
    <3> QED BY <3>1, <3>2, <3>5 DEF BlockFits
  <2>2. CASE ~(b <= m)
    <3>1. cs[b] = EmptyBlock
      BY <1>10, <2>2
    <3>2. cs[b].code = <<>> /\ cs[b].term = None
      BY <3>1 DEF EmptyBlock
    <3>3. CodeFits(s, ao[b], <<>>)
      BY DEF CodeFits
    <3> QED BY <3>2, <3>3 DEF BlockFits, TermFits
  <2> QED BY <2>1, <2>2
<1>12. ao[1] = Place(1, "go")
  BY <1>2, <1>6
<1>13. BlocksFit(s, ao, cs)
  BY <1>5, <1>9, <1>11, <1>12 DEF BlocksFit
<1>14. Grown(s, ao, at, bs, n, q)
  BY <1>1, <1>6, <1>7, <1>8, <1>13 DEF Grown, Over
<1> QED BY <1>14

\* One, two and three of them.
Begin(s, as, at, bs, n, x, y, z) ==
  /\ BlocksFit(s, as, Fresh(bs, n)) /\ Over(as, at, Len(bs))
  /\ as[Len(bs) + 1] = x
  /\ n >= 2 => as[Len(bs) + 2] = y
  /\ n >= 3 => as[Len(bs) + 3] = z

\* The same for up to three places given by name.
LEMMA NewFits ==
  ASSUME NEW s, NEW at, NEW bs \in Seq(Block), Len(bs) > 0, BlocksFit(s, at, bs), NEW n \in 1..3,
         NEW x \in PlacesIn(s), NEW y \in PlacesIn(s), NEW z \in PlacesIn(s)
  PROVE  \E as : Begin(s, as, at, bs, n, x, y, z)
<1> DEFINE q == [i \in 1..n |-> IF i = 1 THEN x ELSE IF i = 2 THEN y ELSE z]
<1>1. q \in [1..n -> PlacesIn(s)] /\ n \in Nat
  OBVIOUS
<1>2. q[1] = x /\ (n >= 2 => q[2] = y) /\ (n >= 3 => q[3] = z)
  OBVIOUS
<1> HIDE DEF q
<1>3. PICK as : Grown(s, as, at, bs, n, q)
  BY <1>1, FreshFits
<1>4. 1 \in 1..n /\ (n >= 2 => 2 \in 1..n) /\ (n >= 3 => 3 \in 1..n)
  OBVIOUS
<1>5. Begin(s, as, at, bs, n, x, y, z)
  BY <1>2, <1>3, <1>4 DEF Grown, Begin
<1> QED BY <1>5

\* A terminator that goes on as the body does.
LEMMA TermStep ==
  ASSUME NEW s, NEW at, NEW bs \in Seq(Block), BlocksFit(s, at, bs), NEW b \in 1..Len(bs), NEW t \in Term,
         TermFits(s, at, After(s, at[b], bs[b].code), bs[b].code, t)
  PROVE  BlocksFit(s, at, [bs EXCEPT ![b].term = t])
<1> DEFINE cs == [bs EXCEPT ![b].term = t]
<1>1. DOMAIN bs = 1..Len(bs) /\ Len(cs) = Len(bs) /\ \A c \in 1..Len(bs) : bs[c] \in Block
  OBVIOUS
<1>2. \A c \in 1..Len(bs) : cs[c].code = bs[c].code /\ cs[c].term = IF c = b THEN t ELSE bs[c].term
  BY <1>1 DEF Block
<1> HIDE DEF cs
<1>3. ASSUME NEW c \in 1..Len(bs) PROVE BlockFits(s, at, at[c], cs[c])
  <2>1. BlockFits(s, at, at[c], bs[c])
    BY DEF BlocksFit
  <2> QED BY <1>2, <2>1 DEF BlockFits
<1>4. BlocksFit(s, at, cs)
  BY <1>1, <1>3 DEF BlocksFit
<1> QED BY <1>4 DEF cs

\* A piece of code that the body runs next.
LEMMA EmitStep ==
  ASSUME NEW s, NEW at, NEW bs \in Seq(Block), BlocksFit(s, at, bs), NEW b \in 1..Len(bs), NEW e \in Code,
         bs[b].term = None, Plain(s, e),
         SilentIn(s, After(s, at[b], bs[b].code)), LeadIn(s, After(s, at[b], bs[b].code)) = e
  PROVE  /\ BlocksFit(s, at, Emit(bs, b, e))
         /\ Emit(bs, b, e)[b].code # <<>> /\ After(s, at[b], Emit(bs, b, e)[b].code) = ThenIn(s, e, TRUE)
<1> DEFINE cs == Emit(bs, b, e)
           k  == bs[b].code
           k2 == Append(k, e)
<1>1. DOMAIN bs = 1..Len(bs) /\ Len(cs) = Len(bs) /\ bs[b] \in Block
  BY DEF Emit
<1>2. /\ \A c \in 1..Len(bs) : c # b => cs[c] = bs[c]
      /\ cs[b].code = k2 /\ cs[b].term = None
  BY <1>1 DEF Emit, Block
<1>3. k \in Seq(Code)
  BY <1>1 DEF Block
<1>4. /\ Len(k) \in Nat /\ Len(k2) = Len(k) + 1 /\ k2[Len(k) + 1] = e /\ k2 # <<>>
      /\ \A i \in 1..Len(k) : k2[i] = k[i]
  BY <1>3, AppendFacts
<1>5. Plain(s, e)
  OBVIOUS
<1>6. BlockFits(s, at, at[b], bs[b])
  BY DEF BlocksFit
<1> HIDE DEF cs, k, k2
<1>7. CodeFits(s, at[b], k)
  BY <1>6 DEF BlockFits, k
<1>8. CodeFits(s, at[b], k2)
  <2>1. SilentIn(s, at[b]) /\ LeadIn(s, at[b]) = k2[1]
    <3>1. CASE k = <<>>
      <4>1. Len(k) = 0 /\ After(s, at[b], k) = at[b]
        BY <3>1 DEF After
      <4> QED BY <1>4, <4>1 DEF k
    <3>2. CASE k # <<>>
      <4>1. 1 \in 1..Len(k)
        BY <1>3, <3>2
      <4> QED BY <1>4, <1>7, <3>2, <4>1 DEF CodeFits
    <3> QED BY <3>1, <3>2
  <2>2. ASSUME NEW i \in 1..(Len(k2) - 1)
        PROVE  SilentIn(s, ThenIn(s, k2[i], TRUE)) /\ LeadIn(s, ThenIn(s, k2[i], TRUE)) = k2[i + 1]
    <3>1. CASE i = Len(k)
      <4>1. k # <<>> /\ i \in 1..Len(k)
        BY <1>4, <2>2, <3>1
      <4>2. After(s, at[b], k) = ThenIn(s, k[i], TRUE)
        BY <3>1, <4>1 DEF After
      <4> QED BY <1>4, <3>1, <4>1, <4>2 DEF k
    <3>2. CASE i # Len(k)
      <4>1. i \in 1..(Len(k) - 1) /\ i \in 1..Len(k) /\ i + 1 \in 1..Len(k)
        BY <1>4, <3>2
      <4> QED BY <1>4, <1>7, <4>1 DEF CodeFits
    <3> QED BY <3>1, <3>2
  <2>3. \A i \in 1..Len(k2) : Plain(s, k2[i])
    BY <1>4, <1>5, <1>7 DEF CodeFits
  <2> QED BY <2>1, <2>2, <2>3 DEF CodeFits
<1>9. BlockFits(s, at, at[b], cs[b])
  BY <1>2, <1>8 DEF BlockFits, TermFits
<1>10. ASSUME NEW c \in 1..Len(bs) PROVE BlockFits(s, at, at[c], cs[c])
  <2>1. BlockFits(s, at, at[c], bs[c])
    BY DEF BlocksFit
  <2> QED BY <1>2, <1>9, <2>1
<1>11. BlocksFit(s, at, cs)
  BY <1>1, <1>10 DEF BlocksFit
<1>12. After(s, at[b], k2) = ThenIn(s, e, TRUE)
  BY <1>4 DEF After
<1> QED BY <1>2, <1>4, <1>11, <1>12 DEF cs

-----------------------------------------------------------------------------
(* A whole body leads from places to places.                                 *)

\* What kinds of items there are.
LEMMA ItemKinds == \A x \in Item : x.k \in Words \cup {"goto", "label"}
<1> SUFFICES ASSUME NEW x \in Item PROVE x.k \in Words \cup {"goto", "label"}
  OBVIOUS
<1>1. CASE x \in {Word(k) : k \in Words}
  <2>1. PICK k \in Words : x = Word(k)
    BY <1>1
  <2>2. x.k = k
    BY <2>1, WordFacts
  <2> QED BY <2>2
<1>2. CASE x \in {[k |-> "goto", l |-> l] : l \in Labels}
  BY <1>2
<1>3. CASE x \in {[k |-> "label", l |-> l] : l \in Labels}
  BY <1>3
<1> QED BY <1>1, <1>2, <1>3 DEF Item

\* A set of numbers up to n that is not empty has a last.
LEMMA LastIn ==
  ASSUME NEW n \in Nat, NEW S, S \subseteq 1..n, S # {}
  PROVE  LastOf(S) \in S /\ \A q \in S : LastOf(S) >= q
<1> DEFINE T == {n - x : x \in S}
<1>1. T \subseteq Nat /\ T # {}
  <2>1. \A x \in S : n - x \in Nat
    OBVIOUS
  <2> QED BY <2>1
<1>2. PICK y \in T : \A z \in T : y <= z
  BY <1>1, LeastNumber
<1>3. PICK x \in S : y = n - x
  OBVIOUS
<1>4. \A z \in S : x >= z
  <2> SUFFICES ASSUME NEW z \in S PROVE x >= z
    OBVIOUS
  <2>1. n - z \in T /\ x \in Nat /\ z \in Nat
    OBVIOUS
  <2>2. n - x <= n - z
    BY <1>2, <1>3, <2>1
  <2> QED BY <2>1, <2>2
<1>5. S \subseteq Nat
  OBVIOUS
<1>6. LastOf(S) = x
  BY <1>4, <1>5, LastIs
<1> QED BY <1>4, <1>6

\* What belongs to the item at p.
Belongs(s, p) ==
  /\ Opens(s[p]) => CloserIn(s, p) \in (p + 1)..Len(s) /\ Closes(s[CloserIn(s, p)])
  /\ s[p].k = "ifelse" => ElseIn(s, p) \in (p + 1)..Len(s)
  /\ s[p].k = "else" => CloserIn(s, p) \in (p + 1)..Len(s) /\ s[CloserIn(s, p)].k = "endif"
  /\ Closes(s[p]) => OpenerIn(s, p) \in 1..(p - 1)
  /\ s[p].k = "goto" => LabelIn(s, s[p].l) \in 1..Len(s)
  /\ s[p].k = "break" => LoopIn(s, p) \in 1..(p - 1) /\ CloserIn(s, LoopIn(s, p)) \in 1..Len(s)

\* In a body without errors all these are there.
LEMMA WholeBelongs ==
  ASSUME NEW s \in Seq(Item), Whole(s), NEW p \in 1..Len(s)
  PROVE  Belongs(s, p)
<1>1. Len(s) \in Nat /\ DOMAIN s = 1..Len(s) /\ p \in Nat
  OBVIOUS
<1>2. \A q \in 1..Len(s) : ClosersOf(s, q) \subseteq (q + 1)..Len(s) /\ ClosersOf(s, q) \subseteq Nat
  BY DEF ClosersOf
<1>3. \A q \in 1..Len(s) : ClosersOf(s, q) # {} => CloserIn(s, q) \in ClosersOf(s, q) /\ CloserIn(s, q) \in (q + 1)..Len(s)
  BY <1>2, FirstIn DEF CloserIn
<1>4. \A q \in 1..Len(s) : Opens(s[q]) => CloserIn(s, q) \in (q + 1)..Len(s) /\ Closes(s[CloserIn(s, q)])
  <2> SUFFICES ASSUME NEW q \in 1..Len(s), Opens(s[q])
               PROVE  CloserIn(s, q) \in (q + 1)..Len(s) /\ Closes(s[CloserIn(s, q)])
    OBVIOUS
  <2>1. ClosersOf(s, q) # {}
    BY <1>1 DEF Whole
  <2> QED BY <1>3, <2>1 DEF ClosersOf
<1>5. ASSUME s[p].k = "ifelse" PROVE ElseIn(s, p) \in (p + 1)..Len(s)
  <2>1. ElsesOf(s, p) # {} /\ ElsesOf(s, p) \subseteq Nat /\ ElsesOf(s, p) \subseteq (p + 1)..Len(s)
    BY <1>1, <1>5 DEF Whole, ElsesOf
  <2>2. ElseIn(s, p) \in ElsesOf(s, p)
    BY <2>1, FirstIn DEF ElseIn
  <2> QED BY <2>1, <2>2
<1>6. ASSUME s[p].k = "else" PROVE CloserIn(s, p) \in (p + 1)..Len(s) /\ s[CloserIn(s, p)].k = "endif"
  <2>1. ClosersOf(s, p) # {} /\ s[CloserIn(s, p)].k = "endif"
    BY <1>1, <1>6 DEF Whole
  <2> QED BY <1>3, <2>1
<1>7. ASSUME Closes(s[p]) PROVE OpenerIn(s, p) \in 1..(p - 1)
  <2>1. OpenersOf(s, p) # {} /\ OpenersOf(s, p) \subseteq 1..(p - 1)
    BY <1>1, <1>7 DEF Whole, OpenersOf
  <2>2. p - 1 \in Nat
    BY <1>1
  <2>3. OpenerIn(s, p) \in OpenersOf(s, p)
    BY <2>1, <2>2, LastIn DEF OpenerIn
  <2> QED BY <2>1, <2>3
<1>8. s[p].k = "goto" => LabelIn(s, s[p].l) \in 1..Len(s)
  BY <1>1, GotoFound
<1>9. ASSUME s[p].k = "break" PROVE LoopIn(s, p) \in 1..(p - 1) /\ CloserIn(s, LoopIn(s, p)) \in 1..Len(s)
  <2>1. PICK q \in 1..(p - 1) : s[q].k \in Loops /\ ~Ended(s, q, p)
    BY <1>1, <1>9 DEF Whole, Lost
  <2>2. q \in 1..Len(s) /\ q \in Nat /\ Opens(s[q])
    BY <1>1, <2>1 DEF Opens
  <2>3. CloserIn(s, q) \in (q + 1)..Len(s) /\ CloserIn(s, q) \in ClosersOf(s, q)
    BY <1>1, <1>3, <2>2 DEF Whole
  <2>4. Closes(s[CloserIn(s, q)]) /\ DepthIn(s, CloserIn(s, q)) = DepthIn(s, q)
    BY <2>3 DEF ClosersOf
  <2>5. CloserIn(s, q) # p
    BY <1>9, <2>4 DEF Closes
  <2>6. CloserIn(s, q) \notin (q + 1)..(p - 1)
    BY <2>1, <2>4 DEF Ended
  <2>7. CloserIn(s, q) > p
    BY <1>1, <2>2, <2>3, <2>5, <2>6
  <2>8. q \in LoopsAbout(s, p)
    BY <2>1, <2>7 DEF LoopsAbout
  <2>9. LoopsAbout(s, p) \subseteq 1..(p - 1) /\ p - 1 \in Nat
    BY <1>1 DEF LoopsAbout
  <2>10. LoopIn(s, p) \in LoopsAbout(s, p)
    BY <2>8, <2>9, LastIn DEF LoopIn
  <2>11. LoopIn(s, p) \in 1..(p - 1) /\ Opens(s[LoopIn(s, p)])
    BY <2>10 DEF LoopsAbout, Opens
  <2>12. LoopIn(s, p) \in 1..Len(s) /\ LoopIn(s, p) \in Nat
    BY <1>1, <2>11
  <2>13. CloserIn(s, LoopIn(s, p)) \in (LoopIn(s, p) + 1)..Len(s)
    BY <1>4, <2>11, <2>12
  <2> QED BY <1>1, <2>11, <2>12, <2>13
<1> QED BY <1>4, <1>5, <1>6, <1>7, <1>8, <1>9 DEF Belongs

\* A silent place of a body without errors leads to a place of it.
LEMMA LeadStays ==
  ASSUME NEW s \in Seq(Item), Whole(s), NEW c \in PlacesIn(s), SilentIn(s, c)
  PROVE  LeadIn(s, c) \in PlacesIn(s)
<1> DEFINE p == c.p
<1>1. p \in 1..Len(s) /\ Len(s) \in Nat /\ p \in Nat
  BY DEF SilentIn, PlacesIn
<1>2. c.part \in {"go", "cond"} /\ s[p] \in Item
  BY <1>1 DEF SilentIn
<1>3. Belongs(s, p)
  BY <1>1, WholeBelongs
<1>4. /\ \A q \in 1..(Len(s) + 1) : \A part \in {"go", "run", "init", "cond", "post"} : Place(q, part) \in PlacesIn(s)
      /\ \A q \in 1..Len(s) : q \in 1..(Len(s) + 1) /\ q + 1 \in 1..(Len(s) + 1)
      /\ \A q \in (p + 1)..Len(s) : q \in 1..Len(s)
      /\ \A q \in 1..(p - 1) : q \in 1..Len(s)
  BY <1>1 DEF Place, PlacesIn
<1>5. CASE c.part = "cond"
  <2>1. LeadIn(s, c) = Place(p + 1, "go")
    BY <1>5 DEF LeadIn
  <2> QED BY <1>1, <1>4, <2>1
<1>6. CASE c.part # "cond"
  <2>1. s[p].k \in Words \cup {"goto", "label"} /\ s[p].k # "return"
    BY <1>2, <1>6, ItemKinds DEF SilentIn
  <2>2. CASE s[p].k = "stmt"
    <3>1. LeadIn(s, c) = Place(p, "run")
      BY <1>6, <2>2 DEF LeadIn
    <3> QED BY <1>1, <1>4, <3>1
  <2>3. CASE s[p].k \in {"if", "ifelse", "while", "enddo"}
    <3>1. LeadIn(s, c) = Place(p, "cond")
      BY <1>6, <2>3 DEF LeadIn
    <3> QED BY <1>1, <1>4, <3>1
  <2>4. CASE s[p].k \in {"for", "forever"}
    <3>1. LeadIn(s, c) = Place(p, "init")
      BY <1>6, <2>4 DEF LeadIn
    <3> QED BY <1>1, <1>4, <3>1
  <2>5. CASE s[p].k \in {"do", "label", "endif"}
    <3>1. LeadIn(s, c) = Place(p + 1, "go")
      BY <1>6, <2>5 DEF LeadIn
    <3> QED BY <1>1, <1>4, <3>1
  <2>6. CASE s[p].k = "else"
    <3>1. LeadIn(s, c) = Place(CloserIn(s, p), "go")
      BY <1>6, <2>6 DEF LeadIn
    <3> QED BY <1>1, <1>3, <1>4, <2>6, <3>1 DEF Belongs
  <2>7. CASE s[p].k \in {"endwhile", "endfor"}
    <3>1. LeadIn(s, c) = Place(OpenerIn(s, p), "go") \/ LeadIn(s, c) = Place(OpenerIn(s, p), "post")
      BY <1>6, <2>7 DEF LeadIn
    <3>2. Closes(s[p])
      BY <2>7 DEF Closes
    <3> QED BY <1>1, <1>3, <1>4, <3>1, <3>2 DEF Belongs
  <2>8. CASE s[p].k = "goto"
    <3>1. LeadIn(s, c) = Place(LabelIn(s, s[p].l), "go")
      BY <1>6, <2>8 DEF LeadIn
    <3> QED BY <1>1, <1>3, <1>4, <2>8, <3>1 DEF Belongs
  <2>9. CASE s[p].k = "break"
    <3>1. LeadIn(s, c) = Place(CloserIn(s, LoopIn(s, p)) + 1, "go")
      BY <1>6, <2>9 DEF LeadIn
    <3> QED BY <1>1, <1>3, <1>4, <2>9, <3>1 DEF Belongs
  <2> QED BY <2>1, <2>2, <2>3, <2>4, <2>5, <2>6, <2>7, <2>8, <2>9 DEF Words, Loops
<1> QED BY <1>5, <1>6

-----------------------------------------------------------------------------
(* Blocks that follow the body, all empty but those of C where they are open.*)

Good(s, at, bs, C) == bs \in Seq(Block) /\ Len(bs) > 0 /\ BlocksFit(s, at, bs) /\ Bare(bs, C)

\* Where block b of bs ends.
Ends(s, at, bs, b) == After(s, at[b], bs[b].code)

\* cs is bs but for block b.
SameBut(cs, bs, b) == Len(cs) = Len(bs) /\ \A d \in 1..Len(bs) : d # b => cs[d] = bs[d]

\* More blocks may have code.
LEMMA GoodMore ==
  ASSUME NEW s, NEW at, NEW bs, Good(s, at, bs, {}), NEW C
  PROVE  Good(s, at, bs, C)
BY DEF Good, Bare

\* Blocks are made.
GoodNew(s, as, at, bs, n, C, x, y, z) ==
  /\ Good(s, as, Fresh(bs, n), C) /\ Over(as, at, Len(bs))
  /\ as[Len(bs) + 1] = x
  /\ n >= 2 => as[Len(bs) + 2] = y
  /\ n >= 3 => as[Len(bs) + 3] = z

FreshBlocks(bs, n) ==
  /\ Len(Fresh(bs, n)) = Len(bs) + n
  /\ \A b \in 1..Len(bs) : Fresh(bs, n)[b] = bs[b]
  /\ \A b \in (Len(bs) + 1)..(Len(bs) + n) : Fresh(bs, n)[b] = EmptyBlock

\* What Fresh makes.
LEMMA FreshAre ==
  ASSUME NEW bs \in Seq(Block), NEW n \in Nat
  PROVE  FreshBlocks(bs, n)
<1>1. Len(Fresh(bs, n)) = Len(bs) + n
  BY FreshFacts
<1>2. /\ \A b \in 1..Len(bs) : Fresh(bs, n)[b] = bs[b]
      /\ \A b \in (Len(bs) + 1)..(Len(bs) + n) : Fresh(bs, n)[b] = EmptyBlock
  BY DEF Fresh
<1> QED BY <1>1, <1>2 DEF FreshBlocks

\* Blocks are made without harm, to begin at places of choice.
LEMMA GoodFresh ==
  ASSUME NEW s, NEW at, NEW bs, NEW C, Good(s, at, bs, C), NEW n \in 1..3,
         NEW x \in PlacesIn(s), NEW y \in PlacesIn(s), NEW z \in PlacesIn(s)
  PROVE  \E as : GoodNew(s, as, at, bs, n, C, x, y, z)
<1>1. bs \in Seq(Block) /\ Len(bs) > 0 /\ BlocksFit(s, at, bs) /\ Bare(bs, C) /\ n \in Nat /\ Len(bs) \in Nat
  BY DEF Good
<1>2. PICK as : Begin(s, as, at, bs, n, x, y, z)
  BY <1>1, NewFits
<1>3. PICK cs : cs = Fresh(bs, n)
  OBVIOUS
<1>4. cs \in Seq(Block) /\ Len(cs) = Len(bs) + n
  BY <1>1, <1>3, FreshFacts
<1>5. FreshBlocks(bs, n)
  BY <1>1, FreshAre
<1>6. Bare(cs, C)
  <2> SUFFICES ASSUME NEW b \in DOMAIN cs, cs[b].term = None, b \notin C PROVE cs[b].code = <<>>
    BY DEF Bare
  <2>1. CASE b \in 1..Len(bs)
    <3>1. cs[b] = bs[b] /\ b \in DOMAIN bs
      BY <1>1, <1>3, <1>5, <2>1 DEF FreshBlocks
    <3> QED BY <1>1, <3>1 DEF Bare
  <2>2. CASE b \notin 1..Len(bs)
    <3>1. b \in (Len(bs) + 1)..(Len(bs) + n)
      BY <1>1, <1>4, <2>2
    <3>2. cs[b] = EmptyBlock
      BY <1>3, <1>5, <3>1 DEF FreshBlocks
    <3> QED BY <3>2 DEF EmptyBlock
  <2> QED BY <2>1, <2>2
<1>7. Len(cs) > 0
  BY <1>1, <1>4
<1>8. Good(s, as, cs, C)
  BY <1>2, <1>3, <1>4, <1>6, <1>7 DEF Good, Begin
<1>9. GoodNew(s, as, at, bs, n, C, x, y, z)
  BY <1>2, <1>3, <1>8 DEF GoodNew, Begin
<1> QED BY <1>9

\* A block is shut.
Shut(s, at, cs, bs, b, C) == Good(s, at, cs, C) /\ SameBut(cs, bs, b)

\* A block is shut by a terminator that goes on as the body does,
LEMMA GoodTerm ==
  ASSUME NEW s, NEW at, NEW bs, NEW b \in 1..Len(bs), Good(s, at, bs, {b}), NEW t \in Term, t.k # "none",
         TermFits(s, at, Ends(s, at, bs, b), bs[b].code, t)
  PROVE  Shut(s, at, [bs EXCEPT ![b].term = t], bs, b, {})
<1>1. bs \in Seq(Block) /\ Len(bs) > 0 /\ BlocksFit(s, at, bs) /\ Bare(bs, {b}) /\ DOMAIN bs = 1..Len(bs)
  BY DEF Good
<1>2. PICK cs : cs = [bs EXCEPT ![b].term = t]
  OBVIOUS
<1>3. BlocksFit(s, at, cs)
  BY <1>1, <1>2, TermStep DEF Ends
<1>4. cs \in Seq(Block) /\ Len(cs) = Len(bs) /\ DOMAIN cs = DOMAIN bs
  BY <1>1, <1>2, TermFacts
<1>5. (\A d \in 1..Len(bs) : d # b => cs[d] = bs[d]) /\ cs[b].term = t
  <2>1. bs[b] \in Block
    BY <1>1
  <2> QED BY <1>1, <1>2, <2>1 DEF Block
<1>6. t # None
  BY DEF None
<1>7. Bare(cs, {})
  BY <1>1, <1>4, <1>5, <1>6 DEF Bare
<1>8. Shut(s, at, cs, bs, b, {})
  BY <1>1, <1>3, <1>4, <1>5, <1>7 DEF Shut, Good, SameBut
<1> QED BY <1>2, <1>8

\* by a branch to where the body gets without an event,
LEMMA GoodBr ==
  ASSUME NEW s, NEW at, NEW bs, NEW b \in 1..Len(bs), Good(s, at, bs, {b}), NEW c \in 1..Len(bs),
         Passes(s, Ends(s, at, bs, b), at[c]) \/ (bs[b].code # <<>> /\ at[c] = Ends(s, at, bs, b))
  PROVE  Shut(s, at, Br(bs, b, c), bs, b, {})
<1>1. bs \in Seq(Block) /\ Len(bs) \in Nat /\ DOMAIN at = 1..Len(bs)
  BY DEF Good, BlocksFit
<1>2. To(c) \in Term /\ To(c).k # "none"
  BY <1>1, Terms
<1>3. TermFits(s, at, Ends(s, at, bs, b), bs[b].code, To(c))
  BY <1>1 DEF TermFits
<1> QED BY <1>2, <1>3, GoodTerm DEF Br

\* or by a condition that the body meets there.
LEMMA GoodBranch ==
  ASSUME NEW s, NEW at, NEW bs, NEW b \in 1..Len(bs), Good(s, at, bs, {b}), NEW p \in 1..Len(s), p \in Nat,
         NEW c \in 1..Len(bs), NEW d \in 1..Len(bs), ~SilentIn(s, Place(p, "cond")),
         \/ Ends(s, at, bs, b) = Place(p, "cond")
         \/ SilentIn(s, Ends(s, at, bs, b)) /\ LeadIn(s, Ends(s, at, bs, b)) = Place(p, "cond"),
         at[c] = ThenIn(s, Place(p, "cond"), TRUE), at[d] = ThenIn(s, Place(p, "cond"), FALSE)
  PROVE  Shut(s, at, Branch(bs, b, p, c, d), bs, b, {})
<1>1. bs \in Seq(Block) /\ Len(bs) \in Nat /\ DOMAIN at = 1..Len(bs) /\ c \in Nat /\ d \in Nat
  BY DEF Good, BlocksFit
<1>2. Cond(p, c, d) \in Term /\ Cond(p, c, d).k # "none"
  BY <1>1, Terms
<1>3. TermFits(s, at, Ends(s, at, bs, b), bs[b].code, Cond(p, c, d))
  BY <1>1 DEF TermFits
<1> QED BY <1>2, <1>3, GoodTerm DEF Branch

\* A piece of code is made.
Coded(s, at, cs, bs, b, e) ==
  /\ Good(s, at, cs, {b}) /\ SameBut(cs, bs, b)
  /\ cs[b].code # <<>> /\ cs[b].term = None /\ Ends(s, at, cs, b) = ThenIn(s, e, TRUE)

\* A piece of code is what the body does next.
LEMMA GoodEmit ==
  ASSUME NEW s, NEW at, NEW bs, NEW b \in 1..Len(bs), Good(s, at, bs, {b}), NEW e \in Code,
         bs[b].term = None, Plain(s, e),
         SilentIn(s, Ends(s, at, bs, b)), LeadIn(s, Ends(s, at, bs, b)) = e
  PROVE  Coded(s, at, Emit(bs, b, e), bs, b, e)
<1>1. bs \in Seq(Block) /\ Len(bs) > 0 /\ BlocksFit(s, at, bs) /\ Bare(bs, {b}) /\ DOMAIN bs = 1..Len(bs)
  BY DEF Good
<1>2. PICK cs : cs = Emit(bs, b, e)
  OBVIOUS
<1>3. BlocksFit(s, at, cs) /\ cs[b].code # <<>> /\ After(s, at[b], cs[b].code) = ThenIn(s, e, TRUE)
  BY <1>1, <1>2, EmitStep DEF Ends
<1>4. cs \in Seq(Block) /\ Len(cs) = Len(bs)
  BY <1>1, <1>2, EmitFacts
<1>5. (\A d \in 1..Len(bs) : d # b => cs[d] = bs[d]) /\ cs[b].term = bs[b].term /\ DOMAIN cs = DOMAIN bs
  <2>1. bs[b] \in Block
    BY <1>1
  <2> QED BY <1>1, <1>2, <2>1 DEF Block, Emit
<1>6. Bare(cs, {b})
  BY <1>1, <1>5 DEF Bare
<1>7. Coded(s, at, cs, bs, b, e)
  BY <1>1, <1>3, <1>4, <1>5, <1>6 DEF Coded, Good, SameBut, Ends
<1> QED BY <1>2, <1>7

-----------------------------------------------------------------------------
(* What the body does at the item at place h.                                *)

Leads(s, h) ==
  /\ SilentIn(s, Place(h, "go")) <=> s[h].k # "return"
  /\ SilentIn(s, Place(h, "cond")) <=> s[h].k = "forever"
  /\ LeadIn(s, Place(h, "cond")) = Place(h + 1, "go")
  /\ s[h].k = "stmt" => LeadIn(s, Place(h, "go")) = Place(h, "run")
  /\ s[h].k \in {"if", "ifelse", "while", "enddo"} => LeadIn(s, Place(h, "go")) = Place(h, "cond")
  /\ s[h].k \in {"for", "forever"} => LeadIn(s, Place(h, "go")) = Place(h, "init")
  /\ s[h].k \in {"do", "label", "endif"} => LeadIn(s, Place(h, "go")) = Place(h + 1, "go")
  /\ s[h].k = "else" => LeadIn(s, Place(h, "go")) = Place(CloserIn(s, h), "go")
  /\ s[h].k = "endwhile" => LeadIn(s, Place(h, "go")) = Place(OpenerIn(s, h), "go")
  /\ s[h].k = "endfor" => LeadIn(s, Place(h, "go")) = Place(OpenerIn(s, h), "post")
  /\ s[h].k = "goto" => LeadIn(s, Place(h, "go")) = Place(LabelIn(s, s[h].l), "go")
  /\ s[h].k = "break" => LeadIn(s, Place(h, "go")) = Place(CloserIn(s, LoopIn(s, h)) + 1, "go")

\* By cases of the kind of item.
LEMMA LeadsAre ==
  ASSUME NEW s \in Seq(Item), NEW h \in 1..Len(s)
  PROVE  Leads(s, h)
<1>1. /\ Place(h, "go").p = h /\ Place(h, "go").part = "go"
      /\ Place(h, "cond").p = h /\ Place(h, "cond").part = "cond"
  BY DEF Place
<1>2. h <= Len(s)
  OBVIOUS
<1>3. /\ SilentIn(s, Place(h, "go")) <=> s[h].k # "return"
      /\ SilentIn(s, Place(h, "cond")) <=> s[h].k = "forever"
  BY <1>1, <1>2 DEF SilentIn
<1>4. LeadIn(s, Place(h, "cond")) = Place(h + 1, "go")
  BY <1>1 DEF LeadIn
<1>5. s[h].k = "stmt" => LeadIn(s, Place(h, "go")) = Place(h, "run")
  BY <1>1 DEF LeadIn
<1>6. s[h].k \in {"if", "ifelse", "while", "enddo"} => LeadIn(s, Place(h, "go")) = Place(h, "cond")
  BY <1>1 DEF LeadIn
<1>7. s[h].k \in {"for", "forever"} => LeadIn(s, Place(h, "go")) = Place(h, "init")
  BY <1>1 DEF LeadIn
<1>8. s[h].k \in {"do", "label", "endif"} => LeadIn(s, Place(h, "go")) = Place(h + 1, "go")
  BY <1>1 DEF LeadIn
<1>9. s[h].k = "else" => LeadIn(s, Place(h, "go")) = Place(CloserIn(s, h), "go")
  BY <1>1 DEF LeadIn
<1>10. s[h].k = "endwhile" => LeadIn(s, Place(h, "go")) = Place(OpenerIn(s, h), "go")
  BY <1>1 DEF LeadIn
<1>11. s[h].k = "endfor" => LeadIn(s, Place(h, "go")) = Place(OpenerIn(s, h), "post")
  BY <1>1 DEF LeadIn
<1>12. s[h].k = "goto" => LeadIn(s, Place(h, "go")) = Place(LabelIn(s, s[h].l), "go")
  BY <1>1 DEF LeadIn
<1>13. s[h].k = "break" => LeadIn(s, Place(h, "go")) = Place(CloserIn(s, LoopIn(s, h)) + 1, "go")
  BY <1>1 DEF LeadIn
<1> QED BY <1>3, <1>4, <1>5, <1>6, <1>7, <1>8, <1>9, <1>10, <1>11, <1>12, <1>13 DEF Leads

\* After an event of the item at place h.
Thens(s, h) ==
  /\ \A yes \in BOOLEAN : ThenIn(s, Place(h, "run"), yes) = Place(h + 1, "go")
  /\ \A yes \in BOOLEAN : /\ ThenIn(s, Place(h, "init"), yes) = Place(h, "cond")
                          /\ ThenIn(s, Place(h, "post"), yes) = Place(h, "cond")
  /\ s[h].k # "enddo" => ThenIn(s, Place(h, "cond"), TRUE) = Place(h + 1, "go")
  /\ s[h].k = "enddo" => /\ ThenIn(s, Place(h, "cond"), TRUE) = Place(OpenerIn(s, h) + 1, "go")
                         /\ ThenIn(s, Place(h, "cond"), FALSE) = Place(h + 1, "go")
  /\ s[h].k = "ifelse" => ThenIn(s, Place(h, "cond"), FALSE) = Place(ElseIn(s, h) + 1, "go")
  /\ s[h].k \in {"if", "while", "for"} => ThenIn(s, Place(h, "cond"), FALSE) = Place(CloserIn(s, h) + 1, "go")

\* By cases of the part of the item.
LEMMA ThensAre ==
  ASSUME NEW s, NEW h
  PROVE  Thens(s, h)
<1>1. \A part \in {"run", "init", "post", "cond"} : Place(h, part).p = h /\ Place(h, part).part = part
  BY DEF Place
<1>2. ASSUME NEW yes \in BOOLEAN
      PROVE  /\ ThenIn(s, Place(h, "run"), yes) = Place(h + 1, "go")
             /\ ThenIn(s, Place(h, "init"), yes) = Place(h, "cond")
             /\ ThenIn(s, Place(h, "post"), yes) = Place(h, "cond")
  BY <1>1 DEF ThenIn
<1>3. ThenIn(s, Place(h, "cond"), TRUE) = Place(IF s[h].k = "enddo" THEN OpenerIn(s, h) + 1 ELSE h + 1, "go")
  BY <1>1 DEF ThenIn
<1>4. s[h].k = "enddo" => ThenIn(s, Place(h, "cond"), FALSE) = Place(h + 1, "go")
  BY <1>1 DEF ThenIn
<1>5. s[h].k = "ifelse" => ThenIn(s, Place(h, "cond"), FALSE) = Place(ElseIn(s, h) + 1, "go")
  BY <1>1 DEF ThenIn
<1>6. s[h].k \in {"if", "while", "for"} => ThenIn(s, Place(h, "cond"), FALSE) = Place(CloserIn(s, h) + 1, "go")
  BY <1>1 DEF ThenIn
<1> QED BY <1>2, <1>3, <1>4, <1>5, <1>6 DEF Thens

-----------------------------------------------------------------------------
(* The blocks follow a body s, and the item x is read next.                  *)

Ready(s, at, x) ==
  /\ x \in Item /\ s \in Seq(Item) /\ Begins(s, Append(src, x)) /\ Whole(s)
  /\ Follows(s, at, Here, bbs, cur, nest, labels)
  /\ Typed /\ Separate /\ Nested(src, nest) /\ Shaped(src, nest)

\* What is known when an item is read.
LEMMA ReadyFacts ==
  ASSUME NEW s, NEW at, NEW x, Ready(s, at, x)
  PROVE  /\ Len(s) \in Nat /\ Here \in Nat /\ Here \in 1..Len(s) /\ s[Here] = x /\ s \in Seq(Item)
         /\ N \in Nat /\ N = Len(bbs) /\ cur \in 1..N /\ bbs[cur].term = None
         /\ Good(s, at, bbs, {cur}) /\ Ends(s, at, bbs, cur) = Place(Here, "go")
         /\ Leads(s, Here) /\ Thens(s, Here) /\ Belongs(s, Here)
         /\ (Place(Here, "cond") \in PlacesIn(s) /\ Place(Here, "go") \in PlacesIn(s))
         /\ \A p \in 1..Len(s) : p + 1 \in Nat /\ Place(p + 1, "go") \in PlacesIn(s)
         /\ \A p \in 1..Len(src) : s[p] = src[p] /\ p \in 1..Len(s)
<1>0. x \in Item /\ s \in Seq(Item) /\ Begins(s, Append(src, x)) /\ Whole(s) /\ src \in Seq(Item)
  BY DEF Ready, Typed, Flags
<1>1. /\ Len(src) \in Nat /\ Len(Append(src, x)) = Here /\ Append(src, x)[Here] = x
      /\ \A p \in 1..Len(src) : Append(src, x)[p] = src[p]
  BY <1>0, AppendFacts DEF Here
<1>2. Here <= Len(s) /\ \A p \in 1..Here : s[p] = Append(src, x)[p]
  BY <1>0, <1>1 DEF Begins
<1>3. Len(s) \in Nat /\ Here \in Nat /\ Here \in 1..Here /\ Here \in 1..Len(s) /\ \A p \in 1..Len(src) : p \in 1..Here
  BY <1>0, <1>1, <1>2 DEF Here
<1>4. s[Here] = x /\ \A p \in 1..Len(src) : s[p] = src[p] /\ p \in 1..Len(s)
  BY <1>0, <1>1, <1>2, <1>3
<1>5. N \in Nat /\ N = Len(bbs) /\ cur \in 1..N /\ cur \in OpenOf(bbs) /\ bbs \in Seq(Block)
  BY AheadIn DEF Ready, Typed, Blocks
<1>6. bbs[cur].term = None
  BY <1>5 DEF OpenOf
<1>7. Good(s, at, bbs, {cur}) /\ Ends(s, at, bbs, cur) = Place(Here, "go")
  BY <1>5 DEF Ready, Follows, Good, Ends
<1>8. Leads(s, Here) /\ Thens(s, Here) /\ Belongs(s, Here)
  BY <1>0, <1>3, LeadsAre, ThensAre, WholeBelongs
<1>9. /\ Place(Here, "cond") \in PlacesIn(s) /\ Place(Here, "go") \in PlacesIn(s)
      /\ \A p \in 1..Len(s) : p + 1 \in Nat /\ Place(p + 1, "go") \in PlacesIn(s)
  BY <1>3 DEF Place, PlacesIn
<1> QED BY <1>0, <1>3, <1>4, <1>5, <1>6, <1>7, <1>8, <1>9

\* The constructs and labels that were there, with more blocks.
LEMMA Carried ==
  ASSUME NEW s, NEW at, NEW x, Ready(s, at, x), NEW as, Over(as, at, N)
  PROVE  /\ \A i \in DOMAIN nest : FrameFits(s, as, nest[i])
         /\ \A l \in DOMAIN labels : as[labels[l]] = Place(LabelIn(s, l) + 1, "go")
<1>1. /\ \A i \in DOMAIN nest : FrameFits(s, at, nest[i]) /\ FrameIn(nest[i], N)
      /\ \A l \in DOMAIN labels : at[labels[l]] = Place(LabelIn(s, l) + 1, "go") /\ labels[l] \in 1..N
  BY DEF Ready, Follows, Typed, NestIn, FramesIn, LabelsIn, N
<1>2. ASSUME NEW i \in DOMAIN nest PROVE FrameFits(s, as, nest[i])
  <2>1. FrameFits(s, at, nest[i]) /\ FrameIn(nest[i], N)
    BY <1>1
  <2> QED BY <2>1 DEF FrameFits, FrameIn, Over, HasOther, Loops
<1> QED BY <1>1, <1>2 DEF Over

-----------------------------------------------------------------------------
(* Each step of genStmt.                                                     *)

\* The labels ls of blocks up to n are where the body has them.
LabelsFit(s, at, ls, n) == \A l \in DOMAIN ls : ls[l] \in 1..n /\ at[ls[l]] = Place(LabelIn(s, l) + 1, "go")

\* The constructs ns are where the body goes on.
NestFits(s, at, ns) == \A i \in DOMAIN ns : FrameFits(s, at, ns[i])

\* Blocks that follow the body, none open with code in it.
Left(s, as, at, cs, ls) == Good(s, as, cs, {}) /\ Over(as, at, N) /\ N <= Len(cs) /\ LabelsFit(s, as, ls, Len(cs))

\* What is there stays with more blocks.
LEMMA Stays ==
  ASSUME NEW s, NEW at, NEW x, Ready(s, at, x), NEW as, Over(as, at, N)
  PROVE  NestFits(s, as, nest) /\ LabelsFit(s, as, labels, N)
<1>1. /\ \A i \in DOMAIN nest : FrameFits(s, as, nest[i])
      /\ \A l \in DOMAIN labels : as[labels[l]] = Place(LabelIn(s, l) + 1, "go")
  BY Carried
<1>2. \A l \in DOMAIN labels : labels[l] \in 1..N
  BY DEF Ready, Typed, LabelsIn, N
<1> QED BY <1>1, <1>2 DEF NestFits, LabelsFit

\* After a step that ends at an open block c without code.
LEMMA Come ==
  ASSUME NEW s, NEW as, NEW bs, Good(s, as, bs, {}), NEW c \in 1..Len(bs), bs[c].term = None,
         NEW h, as[c] = Place(h, "go"), NEW ns, NestFits(s, as, ns), NEW ls, NEW n, LabelsFit(s, as, ls, n)
  PROVE  Follows(s, as, h, bs, c, ns, ls)
<1>1. DOMAIN bs = 1..Len(bs) /\ BlocksFit(s, as, bs) /\ Bare(bs, {})
  BY DEF Good
<1>2. bs[c].code = <<>> /\ Bare(bs, {c})
  BY <1>1 DEF Bare
<1>3. After(s, as[c], bs[c].code) = Place(h, "go")
  BY <1>2 DEF After
<1> QED BY <1>1, <1>2, <1>3 DEF Follows, NestFits, LabelsFit

\* A block for the code after a jump.
LEMMA Dead ==
  ASSUME NEW s, NEW at, NEW x, Ready(s, at, x), NEW a, NEW cs, NEW ls, Left(s, a, at, cs, ls)
  PROVE  \E as : Follows(s, as, Here + 1, Fresh(cs, 1), Len(cs) + 1, nest, ls)
<1>1. Good(s, a, cs, {}) /\ Over(a, at, N) /\ N <= Len(cs) /\ LabelsFit(s, a, ls, Len(cs)) /\ cs \in Seq(Block)
  BY DEF Left, Good
<1>2. Len(cs) \in Nat /\ N \in Nat
  BY <1>1, ReadyFacts
<1>3. PICK z : z = Place(Here + 1, "go")
  OBVIOUS
<1>4. z \in PlacesIn(s)
  BY <1>3, ReadyFacts
<1>5. PICK as : GoodNew(s, as, a, cs, 1, {}, z, z, z)
  BY <1>1, <1>4, GoodFresh
<1>6. Good(s, as, Fresh(cs, 1), {}) /\ Over(as, a, Len(cs)) /\ as[Len(cs) + 1] = z
  BY <1>5 DEF GoodNew
<1>7. Over(as, at, N) /\ LabelsFit(s, as, ls, Len(cs))
  <2>1. \A b \in 1..N : b \in 1..Len(cs)
    BY <1>1, <1>2
  <2>2. \A b \in 1..N : as[b] = at[b]
    BY <1>1, <1>6, <2>1 DEF Over
  <2>3. \A l \in DOMAIN ls : ls[l] \in 1..Len(cs) /\ as[ls[l]] = Place(LabelIn(s, l) + 1, "go")
    BY <1>1, <1>6 DEF Over, LabelsFit
  <2> QED BY <2>2, <2>3 DEF Over, LabelsFit
<1>8. NestFits(s, as, nest)
  BY <1>7, Stays
<1>9. Len(Fresh(cs, 1)) = Len(cs) + 1 /\ Fresh(cs, 1)[Len(cs) + 1].term = None
  <2>1. FreshBlocks(cs, 1)
    BY <1>1, FreshAre
  <2> QED BY <1>2, <2>1 DEF FreshBlocks, EmptyBlock
<1>10. Len(cs) + 1 \in 1..Len(Fresh(cs, 1))
  BY <1>2, <1>9
<1>11. Follows(s, as, Here + 1, Fresh(cs, 1), Len(cs) + 1, nest, ls)
  BY <1>3, <1>6, <1>7, <1>8, <1>9, <1>10, Come
<1> QED BY <1>11

\* Code is made and nothing else.
LEMMA FollowSimple ==
  ASSUME NEW s, NEW at, NEW x, Ready(s, at, x), Simple, x = Word("stmt")
  PROVE  \E as : Follows(s, as, Here + 1, bbs', cur', nest', labels')
<1>1. x.k = "stmt" /\ x.k # "return"
  BY DEF Word
<1>2. PICK e : e = Event(Here, "run")
  OBVIOUS
<1>3. e = Place(Here, "run") /\ e \in Code /\ Plain(s, e)
  BY <1>2, ReadyFacts DEF Event, Place, Code, Parts, Plain
<1>4. /\ cur \in 1..Len(bbs) /\ Good(s, at, bbs, {cur}) /\ bbs[cur].term = None
      /\ Ends(s, at, bbs, cur) = Place(Here, "go")
  BY ReadyFacts
<1>5. SilentIn(s, Place(Here, "go")) /\ LeadIn(s, Place(Here, "go")) = e
  <2>1. Leads(s, Here) /\ s[Here] = x
    BY ReadyFacts
  <2> QED BY <1>1, <1>3, <2>1 DEF Leads
<1>6. Coded(s, at, Emit(bbs, cur, e), bbs, cur, e)
  BY <1>3, <1>4, <1>5, GoodEmit
<1>7. ThenIn(s, e, TRUE) = Place(Here + 1, "go")
  BY <1>3, ReadyFacts DEF Thens
<1>8. PICK cs : cs = Emit(bbs, cur, e)
  OBVIOUS
<1>9. BlocksFit(s, at, cs) /\ Bare(cs, {cur}) /\ After(s, at[cur], cs[cur].code) = Place(Here + 1, "go")
  BY <1>6, <1>7, <1>8 DEF Coded, Good, Ends
<1>10. NestFits(s, at, nest) /\ LabelsFit(s, at, labels, N)
  BY Stays DEF Over
<1>11. Follows(s, at, Here + 1, cs, cur, nest, labels)
  BY <1>9, <1>10 DEF Follows, NestFits, LabelsFit
<1>12. cs = bbs' /\ cur' = cur /\ nest' = nest /\ labels' = labels
  BY <1>2, <1>8 DEF Simple
<1> QED BY <1>11, <1>12

\* The insert point returns.
LEMMA FollowReturn ==
  ASSUME NEW s, NEW at, NEW x, Ready(s, at, x), Return, x = Word("return")
  PROVE  \E as : Follows(s, as, Here + 1, bbs', cur', nest', labels')
<1>1. x.k = "return"
  BY DEF Word
<1>2. /\ cur \in 1..Len(bbs) /\ Good(s, at, bbs, {cur}) /\ bbs[cur].term = None /\ N = Len(bbs) /\ N \in Nat
      /\ Ends(s, at, bbs, cur) = Place(Here, "go")
  BY ReadyFacts
<1>3. ~SilentIn(s, Place(Here, "go"))
  BY <1>1, ReadyFacts DEF Leads
<1>4. TermFits(s, at, Ends(s, at, bbs, cur), bbs[cur].code, Ret)
  <2>1. Place(Here, "go").part = "go"
    BY DEF Place
  <2>2. Ends(s, at, bbs, cur).part = "go" /\ ~SilentIn(s, Ends(s, at, bbs, cur))
    BY <1>2, <1>3, <2>1
  <2> QED BY <2>2 DEF TermFits
<1>5. Ret \in Term /\ Ret.k # "none"
  BY Terms
<1>6. PICK cs : cs = [bbs EXCEPT ![cur].term = Ret]
  OBVIOUS
<1>7. Shut(s, at, cs, bbs, cur, {})
  BY <1>2, <1>4, <1>5, <1>6, GoodTerm
<1>8. Good(s, at, cs, {}) /\ Len(cs) = N
  BY <1>2, <1>7 DEF Shut, SameBut
<1>9. LabelsFit(s, at, labels, N)
  BY Stays DEF Over
<1>10. Left(s, at, at, cs, labels)
  BY <1>2, <1>8, <1>9 DEF Left, Over
<1>11. \E as : Follows(s, as, Here + 1, Fresh(cs, 1), N + 1, nest, labels)
  BY <1>8, <1>10, Dead
<1>12. Fresh(cs, 1) = bbs' /\ cur' = N + 1 /\ nest' = nest /\ labels' = labels
  BY <1>6 DEF Return
<1> QED BY <1>11, <1>12

-----------------------------------------------------------------------------
(* What opens.                                                               *)

\* Blocks bs as many as there are, of which only the insert point may have code.
Base(s, at, bs) == Good(s, at, bs, {cur}) /\ Len(bs) = N /\ bs[cur].term = None

\* With n new blocks, which begin at x, y and z.
Made(s, as, at, bs, n, x, y, z) ==
  /\ Good(s, as, Fresh(bs, n), {cur}) /\ Len(Fresh(bs, n)) = N + n
  /\ as[N + 1] = x /\ (n >= 2 => as[N + 2] = y) /\ (n >= 3 => as[N + 3] = z)
  /\ Fresh(bs, n)[cur] = bs[cur] /\ Ends(s, as, Fresh(bs, n), cur) = Ends(s, at, bs, cur)
  /\ \A b \in (N + 1)..(N + n) : Fresh(bs, n)[b] = EmptyBlock
  /\ NestFits(s, as, nest) /\ LabelsFit(s, as, labels, N) /\ Over(as, at, N)

\* New blocks in a step that reads an item.
LEMMA Make ==
  ASSUME NEW s, NEW at, NEW i, Ready(s, at, i), NEW bs, Base(s, at, bs), NEW n \in 1..3,
         NEW x \in PlacesIn(s), NEW y \in PlacesIn(s), NEW z \in PlacesIn(s)
  PROVE  \E as : Made(s, as, at, bs, n, x, y, z)
<1>1. Good(s, at, bs, {cur}) /\ Len(bs) = N /\ bs \in Seq(Block)
  BY DEF Base, Good
<1>2. N \in Nat /\ cur \in 1..N /\ n \in Nat
  BY ReadyFacts
<1>3. PICK as : GoodNew(s, as, at, bs, n, {cur}, x, y, z)
  BY <1>1, GoodFresh
<1>4. FreshBlocks(bs, n)
  BY <1>1, <1>2, FreshAre
<1>5. Over(as, at, N) /\ as[cur] = at[cur]
  BY <1>1, <1>2, <1>3 DEF GoodNew, Over
<1>6. /\ Good(s, as, Fresh(bs, n), {cur}) /\ as[N + 1] = x
      /\ (n >= 2 => as[N + 2] = y) /\ (n >= 3 => as[N + 3] = z)
  BY <1>1, <1>3 DEF GoodNew
<1>7. /\ Fresh(bs, n)[cur] = bs[cur] /\ Len(Fresh(bs, n)) = N + n
      /\ \A b \in (N + 1)..(N + n) : Fresh(bs, n)[b] = EmptyBlock
  BY <1>1, <1>2, <1>4 DEF FreshBlocks
<1>8. Ends(s, as, Fresh(bs, n), cur) = Ends(s, at, bs, cur)
  BY <1>5, <1>7 DEF Ends
<1>9. NestFits(s, as, nest) /\ LabelsFit(s, as, labels, N)
  BY <1>5, Stays
<1> QED BY <1>5, <1>6, <1>7, <1>8, <1>9 DEF Made

\* A new block is open and without code.
LEMMA Empties == EmptyBlock.term = None /\ EmptyBlock.code = <<>>
BY DEF EmptyBlock

\* One more construct.
LEMMA MoreNest ==
  ASSUME NEW s, NEW as, NEW ns \in Seq(Frame), NestFits(s, as, ns), NEW f \in Frame, FrameFits(s, as, f)
  PROVE  NestFits(s, as, Append(ns, f))
<1>1. ASSUME NEW i \in DOMAIN Append(ns, f) PROVE FrameFits(s, as, Append(ns, f)[i])
  <2>1. Len(ns) \in Nat /\ DOMAIN Append(ns, f) = 1..(Len(ns) + 1) /\ DOMAIN ns = 1..Len(ns)
    BY AppendFacts
  <2>2. CASE i = Len(ns) + 1
    BY <2>2, AppendFacts
  <2>3. CASE i # Len(ns) + 1
    <3>1. i \in 1..Len(ns)
      BY <2>1, <2>3
    <3>2. Append(ns, f)[i] = ns[i]
      BY <3>1, AppendFacts
    <3> QED BY <2>1, <3>1, <3>2 DEF NestFits
  <2> QED BY <2>2, <2>3
<1> QED BY <1>1 DEF NestFits

\* The frame of a construct.
Frm(k, p, back, end, other) == [k |-> k, p |-> p, back |-> back, end |-> end, other |-> other]

\* genIf at its start: the blocks then, end and else, and the condition.
LEMMA FollowOpenIf ==
  ASSUME NEW s, NEW at, NEW x, Ready(s, at, x), NEW k \in {"if", "ifelse"}, OpenIf(k), x = Word(k)
  PROVE  \E as : Follows(s, as, Here + 1, bbs', cur', nest', labels')
<1>1. x.k = k /\ Opens(x)
  BY DEF Word, Opens
<1>2. PICK else : else = IF k = "ifelse" THEN N + 3 ELSE N + 2
  OBVIOUS
<1>3. PICK n : n = IF k = "ifelse" THEN 3 ELSE 2
  OBVIOUS
<1>4. /\ Len(s) \in Nat /\ N \in Nat /\ Here \in Nat /\ Here \in 1..Len(s) /\ s[Here] = x /\ cur \in 1..N
      /\ N = Len(bbs) /\ Good(s, at, bbs, {cur}) /\ bbs[cur].term = None
      /\ Ends(s, at, bbs, cur) = Place(Here, "go") /\ nest \in Seq(Frame)
  BY ReadyFacts DEF Ready, Typed, NestIn
<1>5. PICK y : y = Place(CloserIn(s, Here) + 1, "go")
  OBVIOUS
<1>6. PICK z : z = IF k = "ifelse" THEN Place(ElseIn(s, Here) + 1, "go") ELSE y
  OBVIOUS
<1>7. /\ CloserIn(s, Here) \in 1..Len(s)
      /\ k = "ifelse" => ElseIn(s, Here) \in 1..Len(s)
  <2>1. Belongs(s, Here)
    BY ReadyFacts
  <2> QED BY <1>1, <1>4, <2>1 DEF Belongs
<1>8. Place(Here + 1, "go") \in PlacesIn(s) /\ y \in PlacesIn(s) /\ z \in PlacesIn(s)
  BY <1>4, <1>5, <1>6, <1>7, ReadyFacts
<1>9. Base(s, at, bbs) /\ n \in 1..3
  BY <1>3, <1>4 DEF Base
<1>10. PICK as : Made(s, as, at, bbs, n, Place(Here + 1, "go"), y, z)
  BY <1>8, <1>9, Make
<1>11. PICK cs : cs = Fresh(bbs, n)
  OBVIOUS
<1>12. /\ Good(s, as, cs, {cur}) /\ Len(cs) = N + n /\ Ends(s, as, cs, cur) = Place(Here, "go")
       /\ as[N + 1] = Place(Here + 1, "go") /\ as[N + 2] = y /\ (k = "ifelse" => as[else] = z)
       /\ cs[N + 1] = EmptyBlock /\ NestFits(s, as, nest) /\ LabelsFit(s, as, labels, N)
  <2>1. n \in 2..3 /\ n >= 2 /\ (k = "ifelse" => n >= 3 /\ else = N + 3) /\ N + 1 \in (N + 1)..(N + n)
    BY <1>2, <1>3, <1>4
  <2>2. /\ Good(s, as, cs, {cur}) /\ Len(cs) = N + n /\ Ends(s, as, cs, cur) = Ends(s, at, bbs, cur)
        /\ as[N + 1] = Place(Here + 1, "go") /\ (n >= 2 => as[N + 2] = y) /\ (n >= 3 => as[N + 3] = z)
        /\ NestFits(s, as, nest) /\ LabelsFit(s, as, labels, N)
    BY <1>10, <1>11 DEF Made
  <2>3. \A b \in (N + 1)..(N + n) : cs[b] = EmptyBlock
    BY <1>10, <1>11 DEF Made
  <2> QED BY <1>4, <2>1, <2>2, <2>3
<1>13. cur \in 1..Len(cs) /\ N + 1 \in 1..Len(cs) /\ else \in 1..Len(cs) /\ N + 1 # cur /\ n = else - N
  BY <1>2, <1>3, <1>4, <1>12
<1>14. /\ ~SilentIn(s, Place(Here, "cond"))
       /\ SilentIn(s, Place(Here, "go")) /\ LeadIn(s, Place(Here, "go")) = Place(Here, "cond")
  BY <1>1, <1>4, ReadyFacts DEF Leads
<1>15. as[N + 1] = ThenIn(s, Place(Here, "cond"), TRUE) /\ as[else] = ThenIn(s, Place(Here, "cond"), FALSE)
  BY <1>1, <1>2, <1>4, <1>5, <1>6, <1>12, ReadyFacts DEF Thens
<1>16. PICK ds : ds = Branch(cs, cur, Here, N + 1, else)
  OBVIOUS
<1>17. Shut(s, as, ds, cs, cur, {})
  BY <1>4, <1>12, <1>13, <1>14, <1>15, <1>16, GoodBranch
<1>18. Good(s, as, ds, {}) /\ N + 1 \in 1..Len(ds) /\ ds[N + 1].term = None
  <2>1. Good(s, as, ds, {}) /\ Len(ds) = Len(cs) /\ ds[N + 1] = cs[N + 1]
    BY <1>13, <1>17 DEF Shut, SameBut
  <2>2. ds[N + 1] = EmptyBlock
    BY <1>12, <2>1
  <2>3. N + 1 \in 1..Len(ds)
    BY <1>13, <2>1
  <2> QED BY <2>1, <2>2, <2>3, Empties
<1>19. PICK f : f = Frm(k, Here, 0, N + 2, else)
  OBVIOUS
<1>20. f \in Frame /\ f.k = k /\ f.p = Here /\ f.end = N + 2 /\ f.other = else
  BY <1>2, <1>4, <1>19 DEF Frm, Frame
<1>21. FrameFits(s, as, f)
  BY <1>5, <1>6, <1>12, <1>20 DEF FrameFits
<1>22. NestFits(s, as, Append(nest, f))
  BY <1>4, <1>12, <1>20, <1>21, MoreNest
<1>23. Follows(s, as, Here + 1, ds, N + 1, Append(nest, f), labels)
  BY <1>12, <1>18, <1>22, Come
<1>24. bbs' = ds /\ cur' = N + 1 /\ nest' = Append(nest, f) /\ labels' = labels
  BY <1>2, <1>11, <1>13, <1>16, <1>19 DEF OpenIf, Open, Frm
<1> QED BY <1>23, <1>24


\* The places after a loop that opens here.
LEMMA LoopPlaces ==
  ASSUME NEW s, NEW at, NEW x, Ready(s, at, x), x.k \in Loops
  PROVE  /\ Place(Here + 1, "go") \in PlacesIn(s) /\ Place(CloserIn(s, Here) + 1, "go") \in PlacesIn(s)
         /\ Place(Here, "cond") \in PlacesIn(s) /\ Place(CloserIn(s, Here), "cond") \in PlacesIn(s)
<1>1. Opens(x) /\ Here \in 1..Len(s) /\ s[Here] = x /\ Len(s) \in Nat
  BY ReadyFacts DEF Opens
<1>2. CloserIn(s, Here) \in 1..Len(s)
  BY <1>1, ReadyFacts DEF Belongs
<1>3. Place(CloserIn(s, Here), "cond") \in PlacesIn(s)
  BY <1>1, <1>2 DEF Place, PlacesIn
<1> QED BY <1>1, <1>2, <1>3, ReadyFacts

\* How the insert point gets to the condition.
Enters(s, at, bs) ==
  \/ Passes(s, Ends(s, at, bs, cur), Place(Here, "cond"))
  \/ bs[cur].code # <<>> /\ Ends(s, at, bs, cur) = Place(Here, "cond")

\* A loop with its condition first: the blocks cond, body and end.
LEMMA EnterLoop ==
  ASSUME NEW s, NEW at, NEW x, Ready(s, at, x), NEW k \in {"while", "for", "forever"}, x.k = k,
         NEW bs, Base(s, at, bs), Enters(s, at, bs),
         NEW ds, ds = IF k = "forever" THEN Br(Br(Fresh(bs, 3), cur, N + 1), N + 1, N + 2)
                      ELSE Branch(Br(Fresh(bs, 3), cur, N + 1), N + 1, Here, N + 2, N + 3),
         NEW f, f = Frm(k, Here, N + 1, N + 3, 0)
  PROVE  \E as : Follows(s, as, Here + 1, ds, N + 2, Append(nest, f), labels)
<1>1. /\ Len(s) \in Nat /\ N \in Nat /\ Here \in Nat /\ Here \in 1..Len(s) /\ s[Here] = x /\ cur \in 1..N
      /\ N = Len(bbs) /\ nest \in Seq(Frame) /\ k \in Loops
  BY ReadyFacts DEF Ready, Typed, NestIn, Loops
<1>2. PICK y : y = Place(CloserIn(s, Here) + 1, "go")
  OBVIOUS
<1>3. Place(Here + 1, "go") \in PlacesIn(s) /\ y \in PlacesIn(s) /\ Place(Here, "cond") \in PlacesIn(s)
  BY <1>1, <1>2, LoopPlaces
<1>4. PICK as : Made(s, as, at, bs, 3, Place(Here, "cond"), Place(Here + 1, "go"), y)
  BY <1>3, Make
<1>5. PICK cs : cs = Fresh(bs, 3)
  OBVIOUS
<1>6. /\ Good(s, as, cs, {cur}) /\ Len(cs) = N + 3 /\ cs[cur] = bs[cur]
      /\ Ends(s, as, cs, cur) = Ends(s, at, bs, cur)
      /\ as[N + 1] = Place(Here, "cond") /\ as[N + 2] = Place(Here + 1, "go") /\ as[N + 3] = y
      /\ NestFits(s, as, nest) /\ LabelsFit(s, as, labels, N)
  <2>1. 3 >= 2 /\ 3 >= 3
    OBVIOUS
  <2>2. /\ Good(s, as, cs, {cur}) /\ Len(cs) = N + 3 /\ cs[cur] = bs[cur]
        /\ Ends(s, as, cs, cur) = Ends(s, at, bs, cur) /\ as[N + 1] = Place(Here, "cond")
        /\ (3 >= 2 => as[N + 2] = Place(Here + 1, "go")) /\ (3 >= 3 => as[N + 3] = y)
        /\ NestFits(s, as, nest) /\ LabelsFit(s, as, labels, N)
    BY <1>4, <1>5, Zenon DEF Made
  <2> QED BY <2>1, <2>2
<1>7. cs[N + 1] = EmptyBlock /\ cs[N + 2] = EmptyBlock
  <2>1. \A b \in (N + 1)..(N + 3) : cs[b] = EmptyBlock
    BY <1>4, <1>5 DEF Made
  <2> QED BY <1>1, <2>1
<1>8. /\ cur \in 1..Len(cs) /\ N + 1 \in 1..Len(cs) /\ N + 2 \in 1..Len(cs) /\ N + 3 \in 1..Len(cs)
      /\ N + 1 # cur /\ N + 2 # cur /\ N + 1 # N + 2
  BY <1>1, <1>6
<1>9. Passes(s, Ends(s, as, cs, cur), as[N + 1]) \/ (cs[cur].code # <<>> /\ as[N + 1] = Ends(s, as, cs, cur))
  BY <1>6 DEF Enters
<1>10. PICK es : es = Br(cs, cur, N + 1)
  OBVIOUS
<1>11. Shut(s, as, es, cs, cur, {})
  BY <1>6, <1>8, <1>9, <1>10, GoodBr
<1>12. /\ Good(s, as, es, {}) /\ Len(es) = Len(cs)
       /\ es[N + 1] = EmptyBlock /\ es[N + 2] = EmptyBlock
  BY <1>7, <1>8, <1>11 DEF Shut, SameBut
<1>13. Good(s, as, es, {N + 1})
  BY <1>12, GoodMore
<1>14. Ends(s, as, es, N + 1) = Place(Here, "cond")
  BY <1>6, <1>12, Empties DEF Ends, After
<1>15. Shut(s, as, ds, es, N + 1, {})
  <2>1. CASE k = "forever"
    <3>1. ds = Br(es, N + 1, N + 2)
      BY <1>5, <1>10, <2>1
    <3>2. Passes(s, Place(Here, "cond"), Place(Here + 1, "go"))
      <4>1. Leads(s, Here) /\ s[Here].k = "forever"
        BY <1>1, <2>1, ReadyFacts
      <4> QED BY <4>1 DEF Leads, Passes
    <3> QED BY <1>6, <1>8, <1>12, <1>13, <1>14, <3>1, <3>2, GoodBr
  <2>2. CASE k # "forever"
    <3>1. ds = Branch(es, N + 1, Here, N + 2, N + 3)
      BY <1>5, <1>10, <2>2
    <3>2. ~SilentIn(s, Place(Here, "cond"))
      <4>1. Leads(s, Here) /\ s[Here].k # "forever"
        BY <1>1, <2>2, ReadyFacts
      <4> QED BY <4>1 DEF Leads
    <3>3. as[N + 2] = ThenIn(s, Place(Here, "cond"), TRUE) /\ as[N + 3] = ThenIn(s, Place(Here, "cond"), FALSE)
      <4>1. Thens(s, Here) /\ s[Here].k \in {"while", "for"}
        BY <1>1, <2>2, ReadyFacts
      <4> QED BY <1>2, <1>6, <4>1 DEF Thens
    <3> QED BY <1>1, <1>8, <1>12, <1>13, <1>14, <3>1, <3>2, <3>3, GoodBranch
  <2> QED BY <2>1, <2>2
<1>16. Good(s, as, ds, {}) /\ N + 2 \in 1..Len(ds) /\ ds[N + 2].term = None
  <2>1. Good(s, as, ds, {}) /\ Len(ds) = Len(es) /\ ds[N + 2] = es[N + 2]
    BY <1>8, <1>12, <1>15 DEF Shut, SameBut
  <2>2. ds[N + 2] = EmptyBlock
    BY <1>12, <2>1
  <2> QED BY <1>8, <1>12, <2>1, <2>2, Empties
<1>17. f \in Frame /\ f.k = k /\ f.p = Here /\ f.end = N + 3 /\ f.back = N + 1
  BY <1>1 DEF Frm, Frame, Loops
<1>18. FrameFits(s, as, f)
  BY <1>2, <1>6, <1>17 DEF FrameFits
<1>19. NestFits(s, as, Append(nest, f))
  BY <1>1, <1>6, <1>17, <1>18, MoreNest
<1>20. Follows(s, as, Here + 1, ds, N + 2, Append(nest, f), labels)
  BY <1>6, <1>16, <1>19, Come
<1> QED BY <1>20

\* genWhile at its start.
LEMMA FollowOpenWhile ==
  ASSUME NEW s, NEW at, NEW x, Ready(s, at, x), OpenWhile, x = Word("while")
  PROVE  \E as : Follows(s, as, Here + 1, bbs', cur', nest', labels')
<1>1. x.k = "while"
  BY DEF Word
<1>2. /\ Good(s, at, bbs, {cur}) /\ bbs[cur].term = None /\ N = Len(bbs) /\ s[Here] = x
      /\ Ends(s, at, bbs, cur) = Place(Here, "go") /\ Leads(s, Here)
  BY ReadyFacts
<1>3. Base(s, at, bbs)
  BY <1>2 DEF Base
<1>4. Enters(s, at, bbs)
  <2>1. SilentIn(s, Place(Here, "go")) /\ LeadIn(s, Place(Here, "go")) = Place(Here, "cond")
    BY <1>1, <1>2 DEF Leads
  <2> QED BY <1>2, <2>1 DEF Enters, Passes
<1>5. PICK ds : ds = Branch(Br(Fresh(bbs, 3), cur, N + 1), N + 1, Here, N + 2, N + 3)
  OBVIOUS
<1>6. PICK f : f = Frm("while", Here, N + 1, N + 3, 0)
  OBVIOUS
<1>7. PICK k : k = "while"
  OBVIOUS
<1>8. \E as : Follows(s, as, Here + 1, ds, N + 2, Append(nest, f), labels)
  BY <1>1, <1>3, <1>4, <1>5, <1>6, EnterLoop
<1>9. bbs' = ds /\ cur' = N + 2 /\ nest' = Append(nest, f) /\ labels' = labels
  BY <1>5, <1>6 DEF OpenWhile, Open, Frm
<1> QED BY <1>8, <1>9

\* genFor at its start, the init in the block before.
LEMMA FollowOpenFor ==
  ASSUME NEW s, NEW at, NEW x, Ready(s, at, x), NEW k \in {"for", "forever"}, OpenFor(k), x = Word(k)
  PROVE  \E as : Follows(s, as, Here + 1, bbs', cur', nest', labels')
<1>1. x.k = k /\ k \in {"while", "for", "forever"}
  BY DEF Word
<1>2. /\ Good(s, at, bbs, {cur}) /\ bbs[cur].term = None /\ N = Len(bbs) /\ s[Here] = x /\ cur \in 1..Len(bbs)
      /\ Ends(s, at, bbs, cur) = Place(Here, "go") /\ Leads(s, Here) /\ Thens(s, Here) /\ Here \in Nat /\ Here \in 1..Len(s)
  BY ReadyFacts
<1>3. PICK e : e = Event(Here, "init")
  OBVIOUS
<1>4. e = Place(Here, "init") /\ e \in Code /\ Plain(s, e)
  BY <1>2, <1>3 DEF Event, Place, Code, Parts, Plain
<1>5. SilentIn(s, Place(Here, "go")) /\ LeadIn(s, Place(Here, "go")) = e
  BY <1>1, <1>2, <1>4 DEF Leads
<1>6. PICK bs : bs = Emit(bbs, cur, e)
  OBVIOUS
<1>7. Coded(s, at, bs, bbs, cur, e)
  BY <1>2, <1>4, <1>5, <1>6, GoodEmit
<1>8. ThenIn(s, e, TRUE) = Place(Here, "cond")
  BY <1>2, <1>4 DEF Thens
<1>9. Base(s, at, bs) /\ Enters(s, at, bs)
  BY <1>2, <1>7, <1>8 DEF Coded, Base, Enters, SameBut
<1>10. PICK ds : ds = IF k = "forever" THEN Br(Br(Fresh(bs, 3), cur, N + 1), N + 1, N + 2)
                      ELSE Branch(Br(Fresh(bs, 3), cur, N + 1), N + 1, Here, N + 2, N + 3)
  OBVIOUS
<1>11. PICK f : f = Frm(k, Here, N + 1, N + 3, 0)
  OBVIOUS
<1>12. \E as : Follows(s, as, Here + 1, ds, N + 2, Append(nest, f), labels)
  BY <1>1, <1>9, <1>10, <1>11, EnterLoop
<1>13. bbs' = ds /\ cur' = N + 2 /\ nest' = Append(nest, f) /\ labels' = labels
  <2>1. bbs' = ds
    BY <1>3, <1>6, <1>10 DEF OpenFor
  <2> QED BY <1>11, <2>1 DEF OpenFor, Open, Frm
<1> QED BY <1>12, <1>13

\* genDoWhile at its start: the body first.
LEMMA FollowOpenDo ==
  ASSUME NEW s, NEW at, NEW x, Ready(s, at, x), OpenDo, x = Word("do")
  PROVE  \E as : Follows(s, as, Here + 1, bbs', cur', nest', labels')
<1>1. x.k = "do" /\ x.k \in Loops
  BY DEF Word, Loops
<1>2. /\ Good(s, at, bbs, {cur}) /\ bbs[cur].term = None /\ N = Len(bbs) /\ N \in Nat /\ s[Here] = x /\ cur \in 1..N
      /\ Ends(s, at, bbs, cur) = Place(Here, "go") /\ Leads(s, Here) /\ Here \in Nat /\ nest \in Seq(Frame)
  BY ReadyFacts DEF Ready, Typed, NestIn
<1>3. Base(s, at, bbs)
  BY <1>2 DEF Base
<1>4. PICK y : y = Place(CloserIn(s, Here) + 1, "go")
  OBVIOUS
<1>5. PICK z : z = Place(CloserIn(s, Here), "cond")
  OBVIOUS
<1>6. Place(Here + 1, "go") \in PlacesIn(s) /\ y \in PlacesIn(s) /\ z \in PlacesIn(s)
  BY <1>1, <1>4, <1>5, LoopPlaces
<1>7. PICK as : Made(s, as, at, bbs, 3, Place(Here + 1, "go"), z, y)
  BY <1>3, <1>6, Make
<1>8. PICK cs : cs = Fresh(bbs, 3)
  OBVIOUS
<1>9. /\ Good(s, as, cs, {cur}) /\ Len(cs) = N + 3 /\ Ends(s, as, cs, cur) = Place(Here, "go")
      /\ as[N + 1] = Place(Here + 1, "go") /\ as[N + 2] = z /\ as[N + 3] = y
      /\ NestFits(s, as, nest) /\ LabelsFit(s, as, labels, N)
  <2>1. 3 >= 2 /\ 3 >= 3
    OBVIOUS
  <2>2. /\ Good(s, as, cs, {cur}) /\ Len(cs) = N + 3
        /\ Ends(s, as, cs, cur) = Ends(s, at, bbs, cur) /\ as[N + 1] = Place(Here + 1, "go")
        /\ (3 >= 2 => as[N + 2] = z) /\ (3 >= 3 => as[N + 3] = y)
        /\ NestFits(s, as, nest) /\ LabelsFit(s, as, labels, N)
    BY <1>7, <1>8, Zenon DEF Made
  <2> QED BY <1>2, <2>1, <2>2
<1>10. cs[N + 1] = EmptyBlock
  <2>1. \A b \in (N + 1)..(N + 3) : cs[b] = EmptyBlock
    BY <1>7, <1>8 DEF Made
  <2> QED BY <1>2, <2>1
<1>11. cur \in 1..Len(cs) /\ N + 1 \in 1..Len(cs) /\ N + 1 # cur
  BY <1>2, <1>9
<1>12. Passes(s, Ends(s, as, cs, cur), as[N + 1])
  <2>1. SilentIn(s, Place(Here, "go")) /\ LeadIn(s, Place(Here, "go")) = Place(Here + 1, "go")
    BY <1>1, <1>2 DEF Leads
  <2> QED BY <1>9, <2>1 DEF Passes
<1>13. PICK ds : ds = Br(cs, cur, N + 1)
  OBVIOUS
<1>14. Shut(s, as, ds, cs, cur, {})
  BY <1>9, <1>11, <1>12, <1>13, GoodBr
<1>15. Good(s, as, ds, {}) /\ N + 1 \in 1..Len(ds) /\ ds[N + 1].term = None
  <2>1. Good(s, as, ds, {}) /\ Len(ds) = Len(cs) /\ ds[N + 1] = cs[N + 1]
    BY <1>11, <1>14 DEF Shut, SameBut
  <2>2. ds[N + 1] = EmptyBlock
    BY <1>10, <2>1
  <2> QED BY <1>11, <2>1, <2>2, Empties
<1>16. PICK f : f = Frm("do", Here, N + 1, N + 3, N + 2)
  OBVIOUS
<1>17. f \in Frame /\ f.k = "do" /\ f.p = Here /\ f.end = N + 3 /\ f.back = N + 1 /\ f.other = N + 2
  BY <1>2, <1>16 DEF Frm, Frame, Loops
<1>18. FrameFits(s, as, f)
  BY <1>4, <1>5, <1>9, <1>17 DEF FrameFits
<1>19. NestFits(s, as, Append(nest, f))
  BY <1>2, <1>9, <1>17, <1>18, MoreNest
<1>20. Follows(s, as, Here + 1, ds, N + 1, Append(nest, f), labels)
  BY <1>9, <1>15, <1>19, Come
<1>21. bbs' = ds /\ cur' = N + 1 /\ nest' = Append(nest, f) /\ labels' = labels
  BY <1>8, <1>13, <1>16 DEF OpenDo, Open, Frm
<1> QED BY <1>20, <1>21

-----------------------------------------------------------------------------
(* What closes.                                                              *)

\* A block that will be moved to, and is not the insert point.
Waits(s, at, b) == b \in 1..N /\ b # cur /\ bbs[b].term = None /\ bbs[b].code = <<>> /\ Ends(s, at, bbs, b) = at[b]

Ending(s, at) ==
  /\ Top \in Frame /\ FrameFits(s, at, Top) /\ Waits(s, at, Top.end)
  /\ Top.k \in Loops => Top.back \in 1..N
  /\ HasOther(Top) => Waits(s, at, Top.other) /\ Top.other # Top.end
  /\ Top.p \in 1..Len(s) /\ Top.p \in Nat /\ KindFits(s, Top)
  /\ Top = nest[Len(nest)] /\ nest \in Seq(Frame)

\* What is known of the innermost construct.
LEMMA EndingFacts ==
  ASSUME NEW s, NEW at, NEW x, Ready(s, at, x), nest # <<>>
  PROVE  Ending(s, at)
<1>1. /\ N \in Nat /\ N = Len(bbs) /\ Good(s, at, bbs, {cur}) /\ nest \in Seq(Frame) /\ Typed /\ Separate
      /\ Nested(src, nest) /\ Shaped(src, nest) /\ src \in Seq(Item)
  BY ReadyFacts DEF Ready, Typed, NestIn, Flags
<1>2. /\ Top = nest[Len(nest)] /\ Top \in Frame /\ Top.end \in 1..N /\ Top.end \in Own(Top)
      /\ (Top.k \in Loops => Top.back \in 1..N)
      /\ (HasOther(Top) => Top.other \in 1..N /\ Top.other \in Own(Top) /\ Top.other # Top.end)
      /\ Own(Top) \subseteq Ahead(nest)
  BY <1>1, TopFacts
<1>3. ASSUME NEW b \in Own(Top), b \in 1..N PROVE Waits(s, at, b)
  <2>1. b \in OpenOf(bbs) /\ b # cur
    BY <1>1, <1>2 DEF Separate
  <2>2. bbs[b].term = None /\ b \in DOMAIN bbs
    BY <2>1 DEF OpenOf
  <2>3. bbs[b].code = <<>>
    BY <1>1, <2>1, <2>2 DEF Good, Bare
  <2>4. Ends(s, at, bbs, b) = at[b]
    BY <2>3 DEF Ends, After
  <2> QED BY <1>3, <2>1, <2>2, <2>3, <2>4 DEF Waits
<1>4. Len(nest) \in DOMAIN nest
  BY <1>1
<1>5. FrameFits(s, at, Top)
  BY <1>2, <1>4 DEF Ready, Follows
<1>6. Top.p \in DOMAIN src /\ KindFits(src, Top)
  BY <1>1, <1>2, <1>4 DEF Nested, Shaped
<1>7. Top.p \in 1..Len(src) /\ Top.p \in Nat
  BY <1>1, <1>2, <1>6 DEF Frame
<1>8. s[Top.p] = src[Top.p] /\ Top.p \in 1..Len(s)
  BY <1>7, ReadyFacts
<1>9. KindFits(s, Top)
  BY <1>6, <1>8 DEF KindFits
<1> QED BY <1>1, <1>2, <1>3, <1>5, <1>7, <1>8, <1>9 DEF Ending

\* One construct less.
LEMMA LessNest ==
  ASSUME NEW s, NEW as, NEW ns \in Seq(Frame), ns # <<>>, NestFits(s, as, ns)
  PROVE  NestFits(s, as, SubSeq(ns, 1, Len(ns) - 1))
<1>1. PICK ms : ms = SubSeq(ns, 1, Len(ns) - 1)
  OBVIOUS
<1>2. Len(ns) \in Nat /\ DOMAIN ns = 1..Len(ns) /\ Len(ns) > 0
  OBVIOUS
<1>3. DOMAIN ms = 1..(Len(ns) - 1) /\ \A i \in 1..(Len(ns) - 1) : ms[i] = ns[i]
  BY <1>1, <1>2
<1>4. ASSUME NEW i \in DOMAIN ms PROVE FrameFits(s, as, ms[i])
  <2>1. ms[i] = ns[i] /\ i \in DOMAIN ns
    BY <1>2, <1>3
  <2> QED BY <2>1 DEF NestFits
<1> QED BY <1>1, <1>4 DEF NestFits

\* The construct that ends here.
LEMMA Closed ==
  ASSUME NEW s, NEW at, NEW x, Ready(s, at, x), nest # <<>>, Closes(x)
  PROVE  /\ CloserIn(s, Top.p) = Here /\ OpenerIn(s, Here) = Top.p
         /\ at[Top.end] = Place(Here + 1, "go")
         /\ NestFits(s, at, SubSeq(nest, 1, Len(nest) - 1)) /\ LabelsFit(s, at, labels, N)
<1>1. /\ src \in Seq(Item) /\ x \in Item /\ nest \in Seq(Frame) /\ Nested(src, nest) /\ Shaped(src, nest)
      /\ s \in Seq(Item) /\ Begins(s, Append(src, x))
  BY DEF Ready, Typed, Flags, NestIn
<1>2. CloserIn(s, nest[Len(nest)].p) = Len(src) + 1 /\ OpenerIn(s, Len(src) + 1) = nest[Len(nest)].p
  BY <1>1, CloserFound
<1>3. CloserIn(s, Top.p) = Here /\ OpenerIn(s, Here) = Top.p
  BY <1>2 DEF Top, Here
<1>4. at[Top.end] = Place(Here + 1, "go")
  BY <1>3, EndingFacts DEF Ending, FrameFits
<1>5. NestFits(s, at, nest) /\ LabelsFit(s, at, labels, N)
  BY Stays DEF Over
<1> QED BY <1>1, <1>3, <1>4, <1>5, LessNest

\* The insert point leaves for block c, which is where the body goes next.
LEMMA LeaveFor ==
  ASSUME NEW s, NEW at, NEW x, Ready(s, at, x), NEW c \in 1..N, Passes(s, Place(Here, "go"), at[c])
  PROVE  /\ Shut(s, at, BrIfOpen(bbs, cur, c), bbs, cur, {})
         /\ Good(s, at, BrIfOpen(bbs, cur, c), {}) /\ Len(BrIfOpen(bbs, cur, c)) = N
         /\ \A b \in 1..N : b # cur => BrIfOpen(bbs, cur, c)[b] = bbs[b]
<1>1. /\ N = Len(bbs) /\ Good(s, at, bbs, {cur}) /\ bbs[cur].term = None /\ cur \in 1..Len(bbs)
      /\ Ends(s, at, bbs, cur) = Place(Here, "go")
  BY ReadyFacts
<1>2. BrIfOpen(bbs, cur, c) = Br(bbs, cur, c)
  BY <1>1 DEF BrIfOpen
<1>3. Shut(s, at, Br(bbs, cur, c), bbs, cur, {})
  BY <1>1, GoodBr
<1> QED BY <1>1, <1>2, <1>3 DEF Shut, SameBut

\* A construct ends, and code goes on at its end.
LEMMA EndThere ==
  ASSUME NEW s, NEW at, NEW x, Ready(s, at, x), nest # <<>>, Closes(x),
         NEW bs, Good(s, at, bs, {}), Len(bs) = N, bs[Top.end] = bbs[Top.end]
  PROVE  Follows(s, at, Here + 1, bs, Top.end, SubSeq(nest, 1, Len(nest) - 1), labels)
<1>1. Waits(s, at, Top.end)
  BY EndingFacts DEF Ending
<1>2. Top.end \in 1..Len(bs) /\ bs[Top.end].term = None
  BY <1>1 DEF Waits
<1>3. /\ at[Top.end] = Place(Here + 1, "go")
      /\ NestFits(s, at, SubSeq(nest, 1, Len(nest) - 1)) /\ LabelsFit(s, at, labels, N)
  BY Closed
<1> QED BY <1>2, <1>3, Come

\* genIf at its end.
LEMMA FollowEndIf ==
  ASSUME NEW s, NEW at, NEW x, Ready(s, at, x), EndIf, x = Word("endif")
  PROVE  \E as : Follows(s, as, Here + 1, bbs', cur', nest', labels')
<1>1. x.k = "endif" /\ Closes(x) /\ nest # <<>>
  BY DEF Word, Closes, EndIf, Inside
<1>2. Waits(s, at, Top.end) /\ at[Top.end] = Place(Here + 1, "go")
  BY <1>1, EndingFacts, Closed DEF Ending
<1>3. SilentIn(s, Place(Here, "go")) /\ LeadIn(s, Place(Here, "go")) = Place(Here + 1, "go")
  BY <1>1, ReadyFacts DEF Leads
<1>4. Passes(s, Place(Here, "go"), at[Top.end]) /\ Top.end \in 1..N /\ Top.end # cur
  BY <1>2, <1>3 DEF Passes, Waits
<1>5. PICK bs : bs = BrIfOpen(bbs, cur, Top.end)
  OBVIOUS
<1>6. Good(s, at, bs, {}) /\ Len(bs) = N /\ bs[Top.end] = bbs[Top.end]
  BY <1>4, <1>5, LeaveFor
<1>7. Follows(s, at, Here + 1, bs, Top.end, SubSeq(nest, 1, Len(nest) - 1), labels)
  BY <1>1, <1>6, EndThere
<1>8. bbs' = bs /\ cur' = Top.end /\ nest' = SubSeq(nest, 1, Len(nest) - 1) /\ labels' = labels
  BY <1>5 DEF EndIf, Pop
<1> QED BY <1>7, <1>8

\* genWhile at its end goes back to the condition.
LEMMA FollowEndWhile ==
  ASSUME NEW s, NEW at, NEW x, Ready(s, at, x), EndWhile, x = Word("endwhile")
  PROVE  \E as : Follows(s, as, Here + 1, bbs', cur', nest', labels')
<1>1. x.k = "endwhile" /\ Closes(x) /\ nest # <<>> /\ Top.k = "while"
  BY DEF Word, Closes, EndWhile, Inside
<1>2. Ending(s, at) /\ OpenerIn(s, Here) = Top.p /\ s \in Seq(Item)
  BY <1>1, EndingFacts, Closed DEF Ready
<1>3. /\ Waits(s, at, Top.end) /\ Top.back \in 1..N /\ at[Top.back] = Place(Top.p, "cond")
      /\ Top.p \in 1..Len(s) /\ s[Top.p].k = "while"
  BY <1>1, <1>2 DEF Ending, FrameFits, Loops, KindFits
<1>4. SilentIn(s, Place(Here, "go")) /\ LeadIn(s, Place(Here, "go")) = Place(Top.p, "go")
  <2>1. Leads(s, Here) /\ s[Here].k = "endwhile"
    BY <1>1, ReadyFacts
  <2> QED BY <1>2, <2>1 DEF Leads
<1>5. SilentIn(s, Place(Top.p, "go")) /\ LeadIn(s, Place(Top.p, "go")) = Place(Top.p, "cond")
  BY <1>2, <1>3, LeadsAre DEF Leads
<1>6. Passes(s, Place(Here, "go"), at[Top.back])
  BY <1>3, <1>4, <1>5 DEF Passes
<1>7. PICK bs : bs = BrIfOpen(bbs, cur, Top.back)
  OBVIOUS
<1>8. Good(s, at, bs, {}) /\ Len(bs) = N /\ bs[Top.end] = bbs[Top.end]
  BY <1>3, <1>6, <1>7, LeaveFor DEF Waits
<1>9. Follows(s, at, Here + 1, bs, Top.end, SubSeq(nest, 1, Len(nest) - 1), labels)
  BY <1>1, <1>8, EndThere
<1>10. bbs' = bs /\ cur' = Top.end /\ nest' = SubSeq(nest, 1, Len(nest) - 1) /\ labels' = labels
  BY <1>7 DEF EndWhile, Pop
<1> QED BY <1>9, <1>10

\* genFor at its end: the post, and back to the condition.
LEMMA FollowEndFor ==
  ASSUME NEW s, NEW at, NEW x, Ready(s, at, x), EndFor, x = Word("endfor")
  PROVE  \E as : Follows(s, as, Here + 1, bbs', cur', nest', labels')
<1>1. x.k = "endfor" /\ Closes(x) /\ nest # <<>> /\ Top.k \in {"for", "forever"}
  BY DEF Word, Closes, EndFor, Inside
<1>2. Ending(s, at) /\ OpenerIn(s, Here) = Top.p /\ s \in Seq(Item)
  BY <1>1, EndingFacts, Closed DEF Ready
<1>3. /\ Waits(s, at, Top.end) /\ Top.back \in 1..N /\ at[Top.back] = Place(Top.p, "cond")
      /\ Top.p \in 1..Len(s) /\ Top.p \in Nat
  BY <1>1, <1>2 DEF Ending, FrameFits, Loops
<1>4. /\ N = Len(bbs) /\ Good(s, at, bbs, {cur}) /\ bbs[cur].term = None /\ cur \in 1..Len(bbs)
      /\ Ends(s, at, bbs, cur) = Place(Here, "go")
  BY ReadyFacts
<1>5. PICK e : e = Event(Top.p, "post")
  OBVIOUS
<1>6. e = Place(Top.p, "post") /\ e \in Code /\ Plain(s, e)
  BY <1>3, <1>5 DEF Event, Place, Code, Parts, Plain
<1>7. SilentIn(s, Place(Here, "go")) /\ LeadIn(s, Place(Here, "go")) = e
  <2>1. Leads(s, Here) /\ s[Here].k = "endfor"
    BY <1>1, ReadyFacts
  <2> QED BY <1>2, <1>6, <2>1 DEF Leads
<1>8. PICK cs : cs = Emit(bbs, cur, e)
  OBVIOUS
<1>9. Coded(s, at, cs, bbs, cur, e)
  BY <1>4, <1>6, <1>7, <1>8, GoodEmit
<1>10. Ends(s, at, cs, cur) = at[Top.back]
  <2>1. Thens(s, Top.p)
    BY ThensAre
  <2> QED BY <1>3, <1>6, <1>9, <2>1 DEF Coded, Thens
<1>11. Good(s, at, cs, {cur}) /\ Len(cs) = N /\ cs[cur].code # <<>> /\ cs[Top.end] = bbs[Top.end] /\ Top.end # cur
  BY <1>3, <1>4, <1>9 DEF Coded, SameBut, Waits
<1>12. PICK bs : bs = Br(cs, cur, Top.back)
  OBVIOUS
<1>13. Shut(s, at, bs, cs, cur, {})
  BY <1>3, <1>4, <1>10, <1>11, <1>12, GoodBr
<1>14. Good(s, at, bs, {}) /\ Len(bs) = N /\ bs[Top.end] = bbs[Top.end]
  BY <1>3, <1>11, <1>13 DEF Shut, SameBut, Waits
<1>15. Follows(s, at, Here + 1, bs, Top.end, SubSeq(nest, 1, Len(nest) - 1), labels)
  BY <1>1, <1>14, EndThere
<1>16. bbs' = bs /\ cur' = Top.end /\ nest' = SubSeq(nest, 1, Len(nest) - 1) /\ labels' = labels
  BY <1>4, <1>5, <1>8, <1>12 DEF EndFor, Pop
<1> QED BY <1>15, <1>16

\* genDoWhile at its end: the condition, which goes back or on.
LEMMA FollowEndDo ==
  ASSUME NEW s, NEW at, NEW x, Ready(s, at, x), EndDo, x = Word("enddo")
  PROVE  \E as : Follows(s, as, Here + 1, bbs', cur', nest', labels')
<1>1. x.k = "enddo" /\ Closes(x) /\ nest # <<>> /\ Top.k = "do"
  BY DEF Word, Closes, EndDo, Inside
<1>2. /\ Ending(s, at) /\ OpenerIn(s, Here) = Top.p /\ CloserIn(s, Top.p) = Here
      /\ at[Top.end] = Place(Here + 1, "go")
  BY <1>1, EndingFacts, Closed
<1>3. /\ Waits(s, at, Top.end) /\ Top.back \in 1..N /\ at[Top.back] = Place(Top.p + 1, "go")
      /\ Waits(s, at, Top.other) /\ Top.other # Top.end /\ at[Top.other] = Place(Here, "cond")
  BY <1>1, <1>2 DEF Ending, FrameFits, Loops, HasOther
<1>4. Leads(s, Here) /\ Thens(s, Here) /\ s[Here].k = "enddo" /\ Here \in 1..Len(s) /\ Here \in Nat /\ N \in Nat
  BY <1>1, ReadyFacts
<1>5. Passes(s, Place(Here, "go"), at[Top.other])
  BY <1>3, <1>4 DEF Leads, Passes
<1>6. PICK cs : cs = BrIfOpen(bbs, cur, Top.other)
  OBVIOUS
<1>7. /\ Good(s, at, cs, {}) /\ Len(cs) = N
      /\ cs[Top.end] = bbs[Top.end] /\ cs[Top.other] = bbs[Top.other]
  BY <1>3, <1>5, <1>6, LeaveFor DEF Waits
<1>8. Good(s, at, cs, {Top.other})
  BY <1>7, GoodMore
<1>9. Ends(s, at, cs, Top.other) = Place(Here, "cond")
  BY <1>3, <1>7 DEF Ends, After, Waits
<1>10. /\ ~SilentIn(s, Place(Here, "cond"))
       /\ at[Top.back] = ThenIn(s, Place(Here, "cond"), TRUE) /\ at[Top.end] = ThenIn(s, Place(Here, "cond"), FALSE)
  BY <1>2, <1>3, <1>4 DEF Leads, Thens
<1>11. /\ Top.other \in 1..Len(cs) /\ Top.back \in 1..Len(cs) /\ Top.end \in 1..Len(cs)
  BY <1>3, <1>7 DEF Waits
<1>12. PICK bs : bs = Branch(cs, Top.other, Here, Top.back, Top.end)
  OBVIOUS
<1>13. Shut(s, at, bs, cs, Top.other, {})
  BY <1>4, <1>8, <1>9, <1>10, <1>11, <1>12, GoodBranch
<1>14. Good(s, at, bs, {}) /\ Len(bs) = N /\ bs[Top.end] = bbs[Top.end]
  BY <1>3, <1>7, <1>11, <1>13 DEF Shut, SameBut
<1>15. Follows(s, at, Here + 1, bs, Top.end, SubSeq(nest, 1, Len(nest) - 1), labels)
  BY <1>1, <1>14, EndThere
<1>16. bbs' = bs /\ cur' = Top.end /\ nest' = SubSeq(nest, 1, Len(nest) - 1) /\ labels' = labels
  BY <1>6, <1>12 DEF EndDo, Pop
<1> QED BY <1>15, <1>16

\* genIf at its else: what comes before it goes on at the end.
LEMMA FollowElse ==
  ASSUME NEW s, NEW at, NEW x, Ready(s, at, x), Else, x = Word("else")
  PROVE  \E as : Follows(s, as, Here + 1, bbs', cur', nest', labels')
<1>1. x.k = "else" /\ nest # <<>> /\ Top.k = "ifelse"
  BY DEF Word, Else, Inside
<1>2. /\ src \in Seq(Item) /\ x \in Item /\ nest \in Seq(Frame) /\ Nested(src, nest) /\ Shaped(src, nest)
      /\ s \in Seq(Item) /\ Begins(s, Append(src, x)) /\ Ending(s, at)
  BY <1>1, EndingFacts DEF Ready, Typed, Flags, NestIn
<1>3. ElseIn(s, Top.p) = Here /\ CloserIn(s, Top.p) = CloserIn(s, Here)
  <2>1. nest[Len(nest)].k = "ifelse"
    BY <1>1 DEF Top
  <2>2. ElseIn(s, nest[Len(nest)].p) = Len(src) + 1 /\ CloserIn(s, nest[Len(nest)].p) = CloserIn(s, Len(src) + 1)
    BY <1>1, <1>2, <2>1, ElseFound
  <2> QED BY <2>2 DEF Top, Here
<1>4. /\ Waits(s, at, Top.end) /\ Waits(s, at, Top.other) /\ FrameFits(s, at, Top)
      /\ at[Top.end] = Place(CloserIn(s, Here) + 1, "go") /\ at[Top.other] = Place(Here + 1, "go")
  BY <1>1, <1>2, <1>3 DEF Ending, FrameFits, HasOther
<1>5. CloserIn(s, Here) \in 1..Len(s) /\ s[CloserIn(s, Here)].k = "endif"
  BY <1>1, ReadyFacts DEF Belongs
<1>6. SilentIn(s, Place(Here, "go")) /\ LeadIn(s, Place(Here, "go")) = Place(CloserIn(s, Here), "go")
  BY <1>1, ReadyFacts DEF Leads
<1>7. /\ SilentIn(s, Place(CloserIn(s, Here), "go"))
      /\ LeadIn(s, Place(CloserIn(s, Here), "go")) = Place(CloserIn(s, Here) + 1, "go")
  <2>1. Leads(s, CloserIn(s, Here))
    BY <1>2, <1>5, LeadsAre
  <2> QED BY <1>5, <2>1 DEF Leads
<1>8. Passes(s, Place(Here, "go"), at[Top.end])
  BY <1>4, <1>6, <1>7 DEF Passes
<1>9. PICK bs : bs = BrIfOpen(bbs, cur, Top.end)
  OBVIOUS
<1>10. Good(s, at, bs, {}) /\ Len(bs) = N /\ bs[Top.other] = bbs[Top.other]
  BY <1>4, <1>8, <1>9, LeaveFor DEF Waits
<1>11. Top.other \in 1..Len(bs) /\ bs[Top.other].term = None
  BY <1>4, <1>10 DEF Waits
<1>12. PICK ms : ms = [nest EXCEPT ![Len(nest)].k = "if"]
  OBVIOUS
<1>13. NestFits(s, at, nest) /\ LabelsFit(s, at, labels, N)
  BY Stays DEF Over
<1>14. ASSUME NEW i \in DOMAIN ms PROVE FrameFits(s, at, ms[i])
  <2>1. i \in DOMAIN nest /\ nest[i] \in Frame /\ FrameFits(s, at, nest[i])
    BY <1>2, <1>12, <1>13 DEF NestFits
  <2>2. CASE i # Len(nest)
    BY <1>12, <2>1, <2>2
  <2>3. CASE i = Len(nest)
    <3>1. ms[i] = [nest[i] EXCEPT !.k = "if"]
      BY <1>12, <2>1, <2>3
    <3>2. ms[i].end = nest[i].end /\ ms[i].p = nest[i].p /\ ms[i].k = "if"
      BY <2>1, <3>1 DEF Frame
    <3> QED BY <2>1, <3>2 DEF FrameFits
  <2> QED BY <2>2, <2>3
<1>15. NestFits(s, at, ms)
  BY <1>14 DEF NestFits
<1>16. Follows(s, at, Here + 1, bs, Top.other, ms, labels)
  BY <1>4, <1>10, <1>11, <1>13, <1>15, Come
<1>17. bbs' = bs /\ cur' = Top.other /\ nest' = ms /\ labels' = labels
  BY <1>9, <1>12 DEF Else
<1> QED BY <1>16, <1>17

-----------------------------------------------------------------------------
(* What jumps.                                                               *)

\* A break is in a loop if the body has no errors, and leads to its end.
LEMMA BreakLeads ==
  ASSUME NEW s, NEW at, NEW x, Ready(s, at, x), Told, BreaksFit(breaks, nest), x.k = "break"
  PROVE  breaks # <<>> /\ BreakTarget \in 1..N /\ Passes(s, Place(Here, "go"), at[BreakTarget])
<1>1. /\ src \in Seq(Item) /\ x \in Item /\ nest \in Seq(Frame) /\ Nested(src, nest) /\ Shaped(src, nest)
      /\ s \in Seq(Item) /\ Begins(s, Append(src, x)) /\ Whole(s) /\ breaks \in Seq(Nat)
      /\ \A i \in DOMAIN breaks : breaks[i] \in 1..N
  BY DEF Ready, Typed, Flags, NestIn, StackIn, N
<1>2. Append(src, x) \in Seq(Item)
  BY <1>1
<1>3. /\ Len(breaks) = Cardinality(LoopsOf(nest)) /\ Cardinality(LoopsOf(nest)) \in Nat
      /\ Cardinality(LoopsOf(nest)) = 0 <=> LoopsOf(nest) = {}
  BY <1>1, LoopsCounted DEF Told
<1>4. LoopsOf(nest) # {}
  <2>1. SUFFICES ASSUME LoopsOf(nest) = {} PROVE FALSE
    OBVIOUS
  <2>2. PICK t : t = Append(src, x)
    OBVIOUS
  <2>3. Lost(t)
    BY <1>1, <2>1, <2>2, LostOfNew
  <2>4. Lost(s)
    BY <1>1, <1>2, <2>2, <2>3, PrefixErrors
  <2> QED BY <1>1, <2>4 DEF Whole
<1>5. breaks # <<>> /\ Len(breaks) \in DOMAIN breaks
  BY <1>1, <1>3, <1>4
<1>6. LoopsOf(nest) \subseteq 1..Len(nest) /\ Len(nest) \in Nat
  BY <1>1 DEF LoopsOf
<1>7. PICK i \in LoopsOf(nest) : \A j \in LoopsOf(nest) : j <= i
  <2>1. LastOf(LoopsOf(nest)) \in LoopsOf(nest) /\ \A j \in LoopsOf(nest) : LastOf(LoopsOf(nest)) >= j
    BY <1>4, <1>6, LastIn
  <2>2. \A j \in LoopsOf(nest) : j <= LastOf(LoopsOf(nest))
    BY <1>6, <2>1
  <2> QED BY <2>1, <2>2
<1>8. Rank(nest, i) = Len(breaks)
  BY <1>1, <1>3, <1>7, Ranked
<1>9. BreakTarget = nest[i].end
  BY <1>8 DEF BreaksFit, BreakTarget
<1>10. at[BreakTarget] = Place(CloserIn(s, nest[i].p) + 1, "go")
  <2>1. i \in DOMAIN nest
    BY <1>7 DEF LoopsOf
  <2>2. FrameFits(s, at, nest[i])
    BY <2>1 DEF Ready, Follows
  <2> QED BY <1>9, <2>2 DEF FrameFits
<1>11. LoopIn(s, Here) = nest[i].p
  <2>1. LoopIn(s, Len(src) + 1) = nest[i].p
    BY <1>1, <1>7, LoopFound
  <2> QED BY <2>1 DEF Here
<1>12. SilentIn(s, Place(Here, "go")) /\ LeadIn(s, Place(Here, "go")) = Place(CloserIn(s, LoopIn(s, Here)) + 1, "go")
  BY ReadyFacts DEF Leads
<1>13. Passes(s, Place(Here, "go"), at[BreakTarget])
  BY <1>10, <1>11, <1>12 DEF Passes
<1>14. BreakTarget \in 1..N
  BY <1>1, <1>5 DEF BreakTarget
<1> QED BY <1>5, <1>13, <1>14

\* break goes on at the end of the innermost loop.
LEMMA FollowBreak ==
  ASSUME NEW s, NEW at, NEW x, Ready(s, at, x), Told, BreaksFit(breaks, nest), Break, x = Word("break")
  PROVE  \E as : Follows(s, as, Here + 1, bbs', cur', nest', labels')
<1>1. x.k = "break"
  BY DEF Word
<1>2. breaks # <<>> /\ BreakTarget \in 1..N /\ Passes(s, Place(Here, "go"), at[BreakTarget])
  BY <1>1, BreakLeads
<1>3. PICK cs : cs = BrIfOpen(bbs, cur, BreakTarget)
  OBVIOUS
<1>4. Good(s, at, cs, {}) /\ Len(cs) = N /\ N \in Nat /\ N = Len(bbs) /\ bbs[cur].term = None
  BY <1>2, <1>3, LeaveFor, ReadyFacts
<1>5. LabelsFit(s, at, labels, N)
  BY Stays DEF Over
<1>6. Left(s, at, at, cs, labels)
  BY <1>4, <1>5 DEF Left, Over
<1>7. \E as : Follows(s, as, Here + 1, Fresh(cs, 1), N + 1, nest, labels)
  BY <1>4, <1>6, Dead
<1>8. Fresh(cs, 1) = bbs' /\ cur' = N + 1 /\ nest' = nest /\ labels' = labels
  BY <1>2, <1>3, <1>4 DEF Break, BrIfOpen
<1> QED BY <1>7, <1>8

\* The block of the label l, made now or before.
Named(s, as, at, l) ==
  /\ Good(s, as, WithBlock(l), {cur}) /\ Over(as, at, N) /\ N <= Len(WithBlock(l)) /\ Len(WithBlock(l)) \in Nat
  /\ LabelsFit(s, as, labels', Len(WithBlock(l)))
  /\ LabelBlock(l) \in 1..Len(WithBlock(l)) /\ as[LabelBlock(l)] = Place(LabelIn(s, l) + 1, "go")
  /\ Ends(s, as, WithBlock(l), cur) = Place(Here, "go")
  /\ cur \in 1..Len(WithBlock(l)) /\ WithBlock(l)[cur].term = None
  /\ l \notin DOMAIN labels => WithBlock(l)[LabelBlock(l)] = EmptyBlock /\ LabelBlock(l) # cur
  /\ l \in DOMAIN labels => WithBlock(l) = bbs

\* getLabelBlock gives the label a block that begins after the label.
LEMMA NameMade ==
  ASSUME NEW s, NEW at, NEW x, Ready(s, at, x), NEW l \in Labels, getLabelBlock(l), LabelIn(s, l) \in 1..Len(s)
  PROVE  \E as : Named(s, as, at, l)
<1>1. Typed /\ Separate
  BY DEF Ready
<1>2. /\ WithBlock(l) \in Seq(Block) /\ Len(WithBlock(l)) \in Nat
      /\ Len(WithBlock(l)) \in N..(N + 1) /\ LabelBlock(l) \in 1..Len(WithBlock(l))
  BY <1>1, WithFacts
<1>3. /\ DOMAIN labels' = DOMAIN labels \cup {l} /\ labels'[l] = LabelBlock(l)
      /\ \A m \in DOMAIN labels : labels'[m] = labels[m]
      /\ \A m \in DOMAIN labels' : labels'[m] \in 1..Len(WithBlock(l))
  BY <1>1, TableFacts
<1>4. /\ N \in Nat /\ N = Len(bbs) /\ cur \in 1..N /\ Good(s, at, bbs, {cur})
      /\ Ends(s, at, bbs, cur) = Place(Here, "go") /\ bbs[cur].term = None
  BY ReadyFacts
<1>5. PICK y : y = Place(LabelIn(s, l) + 1, "go")
  OBVIOUS
<1>6. y \in PlacesIn(s)
  BY <1>5, ReadyFacts
<1>7. LabelsFit(s, at, labels, N)
  BY Stays DEF Over
<1>8. cur \in 1..Len(WithBlock(l)) /\ N <= Len(WithBlock(l))
  BY <1>2, <1>4
<1>9. CASE l \in DOMAIN labels
  <2>1. WithBlock(l) = bbs /\ LabelBlock(l) = labels[l]
    BY <1>9 DEF WithBlock, LabelBlock
  <2>2. at[LabelBlock(l)] = y
    BY <1>5, <1>7, <1>9, <2>1 DEF LabelsFit
  <2>3. \A m \in DOMAIN labels' : at[labels'[m]] = Place(LabelIn(s, m) + 1, "go")
    BY <1>3, <1>7, <1>9 DEF LabelsFit
  <2>4. LabelsFit(s, at, labels', Len(WithBlock(l)))
    BY <1>3, <2>3 DEF LabelsFit
  <2>5. Named(s, at, at, l)
    BY <1>2, <1>4, <1>5, <1>8, <1>9, <2>1, <2>2, <2>4 DEF Named, Over
  <2> QED BY <2>5
<1>10. CASE l \notin DOMAIN labels
  <2>1. WithBlock(l) = Fresh(bbs, 1) /\ LabelBlock(l) = N + 1
    BY <1>10 DEF WithBlock, LabelBlock
  <2>2. Base(s, at, bbs)
    BY <1>4 DEF Base
  <2>3. PICK as : Made(s, as, at, bbs, 1, y, y, y)
    BY <1>6, <2>2, Make
  <2>4. PICK cs : cs = Fresh(bbs, 1)
    OBVIOUS
  <2>5. /\ Good(s, as, cs, {cur}) /\ Len(cs) = N + 1 /\ as[N + 1] = y
        /\ cs[cur] = bbs[cur] /\ Ends(s, as, cs, cur) = Place(Here, "go")
        /\ LabelsFit(s, as, labels, N)
    BY <1>4, <2>3, <2>4 DEF Made
  <2>6. cs[N + 1] = EmptyBlock
    <3>1. \A b \in (N + 1)..(N + 1) : cs[b] = EmptyBlock
      BY <2>3, <2>4 DEF Made
    <3> QED BY <1>4, <3>1
  <2>7. Over(as, at, N)
    BY <2>3 DEF Made
  <2>8. \A m \in DOMAIN labels' : as[labels'[m]] = Place(LabelIn(s, m) + 1, "go")
    BY <1>3, <1>5, <2>1, <2>5 DEF LabelsFit
  <2>9. LabelsFit(s, as, labels', Len(WithBlock(l)))
    BY <1>3, <2>8 DEF LabelsFit
  <2>10. LabelBlock(l) # cur
    BY <1>4, <2>1
  <2>11. Named(s, as, at, l)
    BY <1>2, <1>4, <1>5, <1>8, <1>10, <2>1, <2>4, <2>5, <2>6, <2>7, <2>9, <2>10 DEF Named
  <2> QED BY <2>11
<1> QED BY <1>9, <1>10

\* The insert point leaves for the block of a label.
LEMMA LeaveNamed ==
  ASSUME NEW s, NEW as, NEW at, NEW l, Named(s, as, at, l), Passes(s, Place(Here, "go"), as[LabelBlock(l)]),
         NEW cs, cs = Br(WithBlock(l), cur, LabelBlock(l))
  PROVE  Shut(s, as, cs, WithBlock(l), cur, {}) /\ Left(s, as, at, cs, labels') /\ Len(cs) = Len(WithBlock(l))
<1>1. PICK bs : bs = WithBlock(l)
  OBVIOUS
<1>2. PICK c : c = LabelBlock(l)
  OBVIOUS
<1>3. /\ Good(s, as, bs, {cur}) /\ Over(as, at, N) /\ N <= Len(bs) /\ LabelsFit(s, as, labels', Len(bs))
      /\ c \in 1..Len(bs) /\ cur \in 1..Len(bs) /\ Ends(s, as, bs, cur) = Place(Here, "go")
  BY <1>1, <1>2 DEF Named
<1>4. Passes(s, Ends(s, as, bs, cur), as[c]) /\ cs = Br(bs, cur, c)
  BY <1>1, <1>2, <1>3
<1>5. Shut(s, as, cs, bs, cur, {})
  BY <1>3, <1>4, GoodBr
<1>6. Len(cs) = Len(bs) /\ Left(s, as, at, cs, labels')
  BY <1>3, <1>5 DEF Shut, SameBut, Left
<1> QED BY <1>1, <1>5, <1>6

\* goto goes on after its label, which may come later.
LEMMA FollowGoto ==
  ASSUME NEW s, NEW at, NEW x, Ready(s, at, x), NEW l \in Labels, Goto(l), x = [k |-> "goto", l |-> l]
  PROVE  \E as : Follows(s, as, Here + 1, bbs', cur', nest', labels')
<1>1. x.k = "goto" /\ x.l = l
  OBVIOUS
<1>2. s \in Seq(Item) /\ Whole(s) /\ Here \in 1..Len(s) /\ s[Here] = x /\ Here \in DOMAIN s /\ Leads(s, Here)
  <2>1. s \in Seq(Item) /\ Whole(s) /\ Here \in 1..Len(s) /\ s[Here] = x /\ Leads(s, Here)
    BY ReadyFacts DEF Ready
  <2> QED BY <2>1
<1>3. LabelIn(s, l) \in 1..Len(s) /\ s[LabelIn(s, l)].k = "label"
  BY <1>1, <1>2, GotoFound
<1>4. PICK as : Named(s, as, at, l)
  BY <1>3, NameMade DEF Goto
<1>5. SilentIn(s, Place(Here, "go")) /\ LeadIn(s, Place(Here, "go")) = Place(LabelIn(s, l), "go")
  BY <1>1, <1>2 DEF Leads
<1>6. SilentIn(s, Place(LabelIn(s, l), "go")) /\ LeadIn(s, Place(LabelIn(s, l), "go")) = Place(LabelIn(s, l) + 1, "go")
  <2>1. Leads(s, LabelIn(s, l))
    BY <1>2, <1>3, LeadsAre
  <2> QED BY <1>3, <2>1 DEF Leads
<1>7. Passes(s, Place(Here, "go"), as[LabelBlock(l)])
  BY <1>4, <1>5, <1>6 DEF Passes, Named
<1>8. PICK cs : cs = Br(WithBlock(l), cur, LabelBlock(l))
  OBVIOUS
<1>9. Left(s, as, at, cs, labels') /\ Len(cs) = Len(WithBlock(l))
  BY <1>4, <1>7, <1>8, LeaveNamed
<1>10. PICK ls : ls = labels'
  OBVIOUS
<1>11. \E a : Follows(s, a, Here + 1, Fresh(cs, 1), Len(cs) + 1, nest, ls)
  BY <1>9, <1>10, Dead
<1>12. Fresh(cs, 1) = bbs' /\ cur' = Len(cs) + 1 /\ nest' = nest /\ labels' = ls
  BY <1>8, <1>9, <1>10 DEF Goto
<1> QED BY <1>11, <1>12

\* A label goes on in its block.
LEMMA FollowLabel ==
  ASSUME NEW s, NEW at, NEW x, Ready(s, at, x), Told, NEW l \in Labels, Label(l), x = [k |-> "label", l |-> l]
  PROVE  \E as : Follows(s, as, Here + 1, bbs', cur', nest', labels')
<1>1. x.k = "label" /\ x.l = l
  OBVIOUS
<1>2. /\ s \in Seq(Item) /\ Whole(s) /\ Here \in 1..Len(s) /\ s[Here] = x /\ Leads(s, Here)
      /\ x \in Item /\ src \in Seq(Item) /\ Begins(s, Append(src, x)) /\ Typed /\ Separate /\ N = Len(bbs)
  BY ReadyFacts DEF Ready, Typed, Flags
<1>3. l \notin Met(src) /\ ~Duplicate(l)
  <2>1. SUFFICES ASSUME l \in Met(src) PROVE FALSE
    BY DEF Duplicate, Told
  <2>2. PICK t : t = Append(src, x)
    OBVIOUS
  <2>3. \E q \in DOMAIN src : src[q] = x
    BY <2>1 DEF Met
  <2>4. Twice(t)
    BY <1>1, <1>2, <2>2, <2>3, LabelsOfNew
  <2>5. t \in Seq(Item) /\ Begins(s, t)
    BY <1>2, <2>2
  <2>6. Twice(s)
    BY <1>2, <2>4, <2>5, PrefixErrors
  <2> QED BY <1>2, <2>6 DEF Whole
<1>4. LabelIn(s, l) = Here
  <2>1. LabelIn(s, l) = Len(src) + 1
    BY <1>2, <1>3, LabelFound
  <2> QED BY <2>1 DEF Here
<1>5. getLabelBlock(l) /\ bbs' = BrIfOpen(WithBlock(l), cur, LabelBlock(l)) /\ cur' = LabelBlock(l) /\ nest' = nest
  BY <1>3 DEF Label
<1>6. PICK as : Named(s, as, at, l)
  BY <1>2, <1>4, <1>5, NameMade
<1>7. Passes(s, Place(Here, "go"), as[LabelBlock(l)])
  <2>1. SilentIn(s, Place(Here, "go")) /\ LeadIn(s, Place(Here, "go")) = Place(Here + 1, "go")
    BY <1>1, <1>2 DEF Leads
  <2> QED BY <1>4, <1>6, <2>1 DEF Passes, Named
<1>8. PICK cs : cs = Br(WithBlock(l), cur, LabelBlock(l))
  OBVIOUS
<1>9. /\ Shut(s, as, cs, WithBlock(l), cur, {}) /\ Left(s, as, at, cs, labels') /\ Len(cs) = Len(WithBlock(l))
  BY <1>6, <1>7, <1>8, LeaveNamed
<1>10. WithBlock(l)[LabelBlock(l)].term = None /\ LabelBlock(l) # cur
  <2>1. CASE l \notin DOMAIN labels
    BY <1>6, <2>1, Empties DEF Named
  <2>2. CASE l \in DOMAIN labels
    <3>1. labels[l] \in Pending
      BY <1>3, <2>2 DEF Pending, Duplicate
    <3>2. labels[l] \in OpenOf(bbs) /\ labels[l] # cur
      BY <1>2, <3>1 DEF Separate
    <3>3. WithBlock(l) = bbs /\ LabelBlock(l) = labels[l]
      BY <2>2 DEF WithBlock, LabelBlock
    <3> QED BY <3>2, <3>3 DEF OpenOf
  <2> QED BY <2>1, <2>2
<1>11. /\ Good(s, as, cs, {}) /\ LabelBlock(l) \in 1..Len(cs) /\ cs[LabelBlock(l)].term = None
       /\ as[LabelBlock(l)] = Place(Here + 1, "go")
  BY <1>4, <1>6, <1>9, <1>10 DEF Shut, SameBut, Named
<1>12. NestFits(s, as, nest)
  BY <1>6, Stays DEF Named
<1>13. PICK ls : ls = labels'
  OBVIOUS
<1>14. LabelsFit(s, as, ls, Len(cs))
  BY <1>9, <1>13 DEF Left
<1>15. Follows(s, as, Here + 1, cs, LabelBlock(l), nest, ls)
  BY <1>11, <1>12, <1>14, Come
<1>16. bbs' = cs
  BY <1>5, <1>6, <1>8 DEF Named, BrIfOpen
<1> QED BY <1>5, <1>13, <1>15, <1>16


\* In the end the insert point returns.
LEMMA FollowFinish ==
  ASSUME IInv, Told, Sim, finishFn
  PROVE  Sim'
<1>1. /\ phase = "gen" /\ phase' = "done" /\ src' = src
      /\ src \in Seq(Item) /\ bbs \in Seq(Block) /\ cur \in 1..Len(bbs) /\ Separate
  BY DEF finishFn, IInv, Typed, Flags, Blocks
<1>2. SUFFICES ASSUME Whole(src) PROVE \E at : BlocksFit(src, at, bbs')
  BY <1>1 DEF Sim
<1>3. Begins(src, src)
  BY <1>1 DEF Begins
<1>4. PICK at : Follows(src, at, Here, bbs, cur, nest, labels)
  BY <1>1, <1>2, <1>3 DEF Sim
<1>5. DOMAIN labels \ labelsDefined = {}
  <2>1. SUFFICES ASSUME NEW l \in DOMAIN labels \ labelsDefined PROVE FALSE
    OBVIOUS
  <2>2. l \in Asked(src) /\ l \notin Met(src)
    BY <2>1 DEF Told
  <2>3. PICK p \in DOMAIN src : src[p] = [k |-> "goto", l |-> l]
    BY <2>2 DEF Asked
  <2>4. src[p].k = "goto" /\ src[p].l = l /\ l \in Labels
    BY <2>2, <2>3 DEF Asked
  <2>5. ~\E q \in DOMAIN src : src[q] = [k |-> "label", l |-> src[p].l]
    BY <2>2, <2>4 DEF Met
  <2>6. Unmet(src)
    BY <2>4, <2>5 DEF Unmet
  <2> QED BY <1>2, <2>6 DEF Whole
<1>6. bbs' = [b \in DOMAIN bbs |-> IF bbs[b].term = None /\ b \in {cur} THEN [bbs[b] EXCEPT !.term = Ret] ELSE bbs[b]]
  <2>1. {labels[l] : l \in DOMAIN labels \ labelsDefined} \cup {cur} = {cur}
    BY <1>5
  <2> QED BY <2>1 DEF finishFn
<1>7. bbs[cur].term = None
  BY <1>1 DEF Separate, OpenOf
<1>8. bbs' = [bbs EXCEPT ![cur].term = Ret]
  BY <1>1, <1>6, <1>7
<1>9. BlocksFit(src, at, bbs) /\ After(src, at[cur], bbs[cur].code) = Place(Here, "go")
  BY <1>4 DEF Follows
<1>10. Place(Here, "go").part = "go" /\ ~SilentIn(src, Place(Here, "go"))
  BY <1>1 DEF Place, SilentIn, Here
<1>11. TermFits(src, at, After(src, at[cur], bbs[cur].code), bbs[cur].code, Ret)
  BY <1>9, <1>10 DEF TermFits
<1>12. Ret \in Term
  BY Terms
<1>13. BlocksFit(src, at, bbs')
  BY <1>1, <1>8, <1>9, <1>11, <1>12, TermStep
<1> QED BY <1>13

\* A step that reads the item x.
Reads(x) == x \in Item /\ src' = Append(src, x) /\ phase = "gen" /\ phase' = "gen"

\* A step after which the blocks follow every body that goes on from here keeps Sim.
LEMMA FollowsOn ==
  ASSUME IInv, Told, Shaped(src, nest), Sim, NEW x, Reads(x),
         \A s, at : Ready(s, at, x) => \E as : Follows(s, as, Here + 1, bbs', cur', nest', labels')
  PROVE  Sim'
<1>1. /\ phase = "gen" /\ phase' = "gen" /\ x \in Item /\ src' = Append(src, x)
      /\ src \in Seq(Item) /\ Typed /\ Separate /\ Nested(src, nest)
  BY DEF Reads, IInv, Typed, Flags, Told
<1>2. Here' = Here + 1
  <2>1. Len(Append(src, x)) = Len(src) + 1
    BY <1>1, AppendFacts
  <2>2. Len(src') = Len(src) + 1
    BY <1>1, <2>1
  <2> QED BY <2>2 DEF Here
<1>3. SUFFICES ASSUME NEW s \in Seq(Item), Begins(s, src'), Whole(s)
               PROVE  \E as : Follows(s, as, Here', bbs', cur', nest', labels')
  BY <1>1 DEF Sim
<1>4. Begins(s, Append(src, x)) /\ Begins(s, src)
  <2>1. Begins(s, Append(src, x))
    BY <1>1, <1>3
  <2> QED BY <1>1, <2>1, BeginsLess
<1>5. PICK at : Follows(s, at, Here, bbs, cur, nest, labels)
  BY <1>1, <1>3, <1>4 DEF Sim
<1>6. Ready(s, at, x)
  BY <1>1, <1>3, <1>4, <1>5 DEF Ready
<1> QED BY <1>2, <1>6

\* Every step.
LEMMA NextSim == IInv /\ Told /\ Shaped(src, nest) /\ BreaksFit(breaks, nest) /\ Sim /\ [Next]_vars => Sim'
<1> SUFFICES ASSUME IInv, Told, Shaped(src, nest), BreaksFit(breaks, nest), Sim, [Next]_vars PROVE Sim'
  OBVIOUS
<1>1. \A k \in Words : Word(k) \in Item
  BY WordFacts
<1>2. CASE Simple
  <2>1. Reads(Word("stmt"))
    BY <1>1, <1>2 DEF Simple, Room, Read, Reads, Words
  <2> QED BY <1>2, <2>1, FollowSimple, FollowsOn
<1>3. CASE Break
  <2>1. Reads(Word("break"))
    BY <1>1, <1>3 DEF Break, Room, Read, Reads, Words
  <2> QED BY <1>3, <2>1, FollowBreak, FollowsOn
<1>4. CASE Return
  <2>1. Reads(Word("return"))
    BY <1>1, <1>4 DEF Return, Room, Read, Reads, Words
  <2> QED BY <1>4, <2>1, FollowReturn, FollowsOn
<1>5. ASSUME NEW l \in Labels, Goto(l) PROVE Sim'
  <2>1. PICK x : x = [k |-> "goto", l |-> l]
    OBVIOUS
  <2>2. Reads(x)
    BY <1>5, <2>1, WordFacts DEF Goto, Room, Read, Reads
  <2> QED BY <1>5, <2>1, <2>2, FollowGoto, FollowsOn
<1>6. ASSUME NEW l \in Labels, Label(l) PROVE Sim'
  <2>1. PICK x : x = [k |-> "label", l |-> l]
    OBVIOUS
  <2>2. Reads(x)
    BY <1>6, <2>1, WordFacts DEF Label, Room, Read, Reads
  <2> QED BY <1>6, <2>1, <2>2, FollowLabel, FollowsOn
<1>7. ASSUME NEW k \in {"if", "ifelse"}, OpenIf(k) PROVE Sim'
  <2>1. Reads(Word(k))
    BY <1>1, <1>7 DEF OpenIf, Room, Read, Reads, Words
  <2> QED BY <1>7, <2>1, FollowOpenIf, FollowsOn
<1>8. CASE Else
  <2>1. Reads(Word("else"))
    BY <1>1, <1>8 DEF Else, Inside, Read, Reads, Words
  <2> QED BY <1>8, <2>1, FollowElse, FollowsOn
<1>9. CASE EndIf
  <2>1. Reads(Word("endif"))
    BY <1>1, <1>9 DEF EndIf, Inside, Read, Reads, Words
  <2> QED BY <1>9, <2>1, FollowEndIf, FollowsOn
<1>10. CASE OpenWhile
  <2>1. Reads(Word("while"))
    BY <1>1, <1>10 DEF OpenWhile, Room, Read, Reads, Words, Loops
  <2> QED BY <1>10, <2>1, FollowOpenWhile, FollowsOn
<1>11. CASE EndWhile
  <2>1. Reads(Word("endwhile"))
    BY <1>1, <1>11 DEF EndWhile, Inside, Read, Reads, Words
  <2> QED BY <1>11, <2>1, FollowEndWhile, FollowsOn
<1>12. CASE OpenDo
  <2>1. Reads(Word("do"))
    BY <1>1, <1>12 DEF OpenDo, Room, Read, Reads, Words, Loops
  <2> QED BY <1>12, <2>1, FollowOpenDo, FollowsOn
<1>13. CASE EndDo
  <2>1. Reads(Word("enddo"))
    BY <1>1, <1>13 DEF EndDo, Inside, Read, Reads, Words
  <2> QED BY <1>13, <2>1, FollowEndDo, FollowsOn
<1>14. ASSUME NEW k \in {"for", "forever"}, OpenFor(k) PROVE Sim'
  <2>1. Reads(Word(k))
    BY <1>1, <1>14 DEF OpenFor, Room, Read, Reads, Words, Loops
  <2> QED BY <1>14, <2>1, FollowOpenFor, FollowsOn
<1>15. CASE EndFor
  <2>1. Reads(Word("endfor"))
    BY <1>1, <1>15 DEF EndFor, Inside, Read, Reads, Words
  <2> QED BY <1>15, <2>1, FollowEndFor, FollowsOn
<1>16. CASE finishFn
  BY <1>16, FollowFinish
<1>17. CASE UNCHANGED vars
  BY <1>17 DEF vars, Sim, Here
<1> QED BY <1>2, <1>3, <1>4, <1>5, <1>6, <1>7, <1>8, <1>9, <1>10, <1>11, <1>12, <1>13, <1>14, <1>15, <1>16, <1>17 DEF Next

\* One empty block follows a body of which nothing was read.
LEMMA InitSim == Init => Shaped(src, nest) /\ BreaksFit(breaks, nest) /\ Sim
<1> SUFFICES ASSUME Init PROVE Shaped(src, nest) /\ BreaksFit(breaks, nest) /\ Sim
  OBVIOUS
<1>1. /\ src = <<>> /\ nest = <<>> /\ bbs = <<EmptyBlock>> /\ cur = 1 /\ breaks = <<>>
      /\ labels = [l \in {} |-> 0] /\ phase = "gen"
  BY DEF Init
<1>2. Shaped(src, nest) /\ BreaksFit(breaks, nest)
  BY <1>1 DEF Shaped, BreaksFit, LoopsOf
<1>3. ASSUME NEW s \in Seq(Item) PROVE \E at : Follows(s, at, Here, bbs, cur, nest, labels)
  <2>1. PICK at : at = [b \in 1..1 |-> Place(1, "go")]
    OBVIOUS
  <2>2. at[1] = Place(1, "go") /\ DOMAIN at = 1..1
    BY <2>1
  <2>3. Len(bbs) = 1 /\ bbs[1] = EmptyBlock /\ DOMAIN bbs = 1..1 /\ Here = 1
    BY <1>1 DEF Here
  <2>4. Place(1, "go") \in PlacesIn(s)
    BY DEF Place, PlacesIn
  <2>5. bbs[1].code = <<>> /\ bbs[1].term = None
    BY <2>3, Empties
  <2>6. After(s, at[1], bbs[1].code) = Place(1, "go")
    BY <2>2, <2>5 DEF After
  <2>7. BlockFits(s, at, at[1], bbs[1])
    BY <2>5 DEF BlockFits, CodeFits, TermFits
  <2>8. BlocksFit(s, at, bbs)
    BY <2>1, <2>2, <2>3, <2>4, <2>7 DEF BlocksFit
  <2>9. Bare(bbs, {cur})
    BY <2>3, <2>5 DEF Bare
  <2>10. Follows(s, at, Here, bbs, cur, nest, labels)
    BY <1>1, <2>3, <2>6, <2>8, <2>9 DEF Follows
  <2> QED BY <2>10
<1>4. Sim
  BY <1>1, <1>3 DEF Sim
<1> QED BY <1>2, <1>4

-----------------------------------------------------------------------------
(* What the source means, and what the blocks do.                            *)

\* The operators of the model are those on a body, at src.
LEMMA SameWords ==
  /\ Places = PlacesIn(src)
  /\ \A c : IsSilent(c) <=> SilentIn(src, c)
  /\ \A c : Lead(c) = LeadIn(src, c)
  /\ \A e, yes : Then(e, yes) = ThenIn(src, e, yes)
<1>1. \A p : Depth(p) = DepthIn(src, p)
  BY DEF Depth, DepthIn, OpenersTo, ClosersTo
<1>2. \A p : CloserOf(p) = CloserIn(src, p)
  BY <1>1 DEF CloserOf, CloserIn, ClosersOf
<1>3. \A p : OpenerOf(p) = OpenerIn(src, p)
  BY <1>1 DEF OpenerOf, OpenerIn, OpenersOf
<1>4. \A p : ElseOf(p) = ElseIn(src, p)
  BY <1>1 DEF ElseOf, ElseIn, ElsesOf
<1>5. \A p : LoopAround(p) = LoopIn(src, p)
  BY <1>2 DEF LoopAround, LoopIn, LoopsAbout
<1>6. \A l : LabelAt(l) = LabelIn(src, l)
  BY DEF LabelAt, LabelIn, LabelsOf
<1>7. Places = PlacesIn(src)
  BY DEF Places, PlacesIn
<1>8. \A c : IsSilent(c) <=> SilentIn(src, c)
  BY DEF IsSilent, SilentIn
<1>9. ASSUME NEW c PROVE Lead(c) = LeadIn(src, c)
  BY <1>2, <1>3, <1>5, <1>6 DEF Lead, LeadIn
<1>10. ASSUME NEW e, NEW yes PROVE Then(e, yes) = ThenIn(src, e, yes)
  BY <1>2, <1>3, <1>4 DEF Then, ThenIn
<1> QED BY <1>7, <1>8, <1>9, <1>10

\* The search that the recursion stands for.
LEMMA ChosenTells ==
  ASSUME NEW D, NEW S, S \subseteq D, IsFiniteSet(S), NEW L \in [S -> D], NEW V, V = [d \in D |-> V[d]], NEW z,
         NEW m \in Nat, Cardinality(S) < m \/ S = D,
         NEW g, g = CHOOSE h : h = Search(h, D, S, L, V, z, m)
  PROVE  Tells(g[m], D, S, L, V, z)
<1>1. PICK Vals : Vals = {V[d] : d \in D} \cup {z}
  OBVIOUS
<1>2. V \in [D -> Vals] /\ z \in Vals
  BY <1>1
<1>3. Searchable(Vals, D, S, L, V, z, m)
  BY <1>2, SearchExists
<1>4. \E h : h = Search(h, D, S, L, V, z, m)
  BY <1>3 DEF Searchable
<1>5. g = Search(g, D, S, L, V, z, m)
  BY <1>4
<1>6. Searches(g, D, S, L, V, z, m)
  BY <1>5, SearchStep
<1> QED BY <1>6, SearchTells

\* The places where nothing runs are less than 3 per item.
SilentPlaces(s) == {c \in PlacesIn(s) : SilentIn(s, c)}

\* There are at most two per item.
LEMMA FewSilent ==
  ASSUME NEW s, Len(s) \in Nat
  PROVE  IsFiniteSet(SilentPlaces(s)) /\ Cardinality(SilentPlaces(s)) < 3 * (Len(s) + 1)
<1>1. PICK T : T = 0..(2 * Len(s))
  OBVIOUS
<1>2. PICK f : f = [c \in SilentPlaces(s) |-> IF c.part = "go" THEN 2 * c.p ELSE 2 * c.p - 1]
  OBVIOUS
<1>3. ASSUME NEW c \in SilentPlaces(s) PROVE c.p \in 1..Len(s) /\ c.part \in {"go", "cond"} /\ c = Place(c.p, c.part)
  <2>1. c \in [p : 1..(Len(s) + 1), part : {"go", "run", "init", "cond", "post"}]
    BY DEF SilentPlaces, PlacesIn
  <2>2. SilentIn(s, c)
    BY DEF SilentPlaces
  <2>3. c.p \in 1..Len(s) /\ c.part \in {"go", "cond"}
    BY <2>1, <2>2 DEF SilentIn
  <2>4. c = Place(c.p, c.part)
    BY <2>1 DEF Place
  <2> QED BY <2>3, <2>4
<1>4. ASSUME NEW c \in SilentPlaces(s) PROVE f[c] \in T
  BY <1>1, <1>2, <1>3
<1>5. ASSUME NEW c \in SilentPlaces(s), NEW d \in SilentPlaces(s), f[c] = f[d] PROVE c = d
  <2>1. PICK i \in 1..Len(s), j \in 1..Len(s) : i = c.p /\ j = d.p
    BY <1>3
  <2>2. /\ f[c] = IF c.part = "go" THEN 2 * i ELSE 2 * i - 1
        /\ f[d] = IF d.part = "go" THEN 2 * j ELSE 2 * j - 1
    BY <1>2, <2>1
  <2>3. \A n, m \in Nat : 2 * n # 2 * m - 1
    OBVIOUS
  <2>4. c.part = "go" <=> d.part = "go"
    <3>1. i \in Nat /\ j \in Nat
      OBVIOUS
    <3> QED BY <1>5, <2>2, <2>3, <3>1
  <2>5. c.part = d.part
    BY <1>3, <2>4
  <2>6. i = j
    <3>1. i \in Nat /\ j \in Nat
      OBVIOUS
    <3>2. CASE c.part = "go"
      <4>1. 2 * i = 2 * j
        BY <1>5, <2>2, <2>4, <3>2
      <4> QED BY <3>1, <4>1
    <3>3. CASE c.part # "go"
      <4>1. 2 * i - 1 = 2 * j - 1
        BY <1>5, <2>2, <2>4, <3>3
      <4> QED BY <3>1, <4>1
    <3> QED BY <3>2, <3>3
  <2> QED BY <1>3, <2>1, <2>5, <2>6
<1>6. f \in Injection(SilentPlaces(s), T)
  <2>1. f \in [SilentPlaces(s) -> T]
    BY <1>2, <1>4
  <2> QED BY <1>5, <2>1 DEF Injection, IsInjective
<1>7. IsFiniteSet(T) /\ Cardinality(T) = 2 * Len(s) + 1
  <2>1. 0 \in Int /\ 2 * Len(s) \in Int /\ 2 * Len(s) >= 0
    OBVIOUS
  <2> QED BY <1>1, <2>1, FS_Interval
<1>8. IsFiniteSet(SilentPlaces(s)) /\ Cardinality(SilentPlaces(s)) <= Cardinality(T)
  BY <1>6, <1>7, FS_Injection
<1>9. Cardinality(SilentPlaces(s)) \in Nat
  BY <1>8, FS_CardinalityType
<1> QED BY <1>7, <1>8, <1>9

\* What Settled tells: the place itself if something runs there, else what it
\* tells where the place leads, and Spin where the body goes round.
Settles(s) ==
  /\ \A c \in PlacesIn(s) : ~SilentIn(s, c) => Settled(c) = IF c.part = "go" THEN End ELSE c
  /\ \A c \in PlacesIn(s) : SilentIn(s, c) => Settled(c) = Settled(LeadIn(s, c))
  /\ \A X \in SUBSET PlacesIn(s) :
       (\A x \in X : SilentIn(s, x) /\ LeadIn(s, x) \in X) => \A x \in X : Settled(x) = Spin

\* Settled is the search through the places.
LEMMA SettledTells ==
  ASSUME src \in Seq(Item), Whole(src)
  PROVE  Settles(src)
<1>1. PICK D : D = PlacesIn(src)
  OBVIOUS
<1>2. PICK S : S = SilentPlaces(src)
  OBVIOUS
<1>3. PICK L : L = [d \in S |-> LeadIn(src, d)]
  OBVIOUS
<1>4. PICK V : V = [d \in D |-> IF d.part = "go" THEN End ELSE d]
  OBVIOUS
<1>5. Len(src) \in Nat /\ Steps \in Nat
  BY DEF Steps
<1>6. S \subseteq D /\ IsFiniteSet(S) /\ Cardinality(S) < Steps
  <2>1. IsFiniteSet(S) /\ Cardinality(S) < Steps
    BY <1>2, <1>5, FewSilent DEF Steps
  <2> QED BY <1>1, <1>2, <2>1 DEF SilentPlaces
<1>7. L \in [S -> D]
  <2>1. \A d \in S : LeadIn(src, d) \in D
    BY <1>1, <1>2, LeadStays DEF SilentPlaces
  <2> QED BY <1>3, <2>1
<1>8. V = [d \in D |-> V[d]]
  BY <1>4
<1>9. PICK g : g = CHOOSE h : h = Search(h, D, S, L, V, Spin, Steps)
  OBVIOUS
<1>10. Tells(g[Steps], D, S, L, V, Spin)
  BY <1>5, <1>6, <1>7, <1>8, <1>9, ChosenTells
<1>11. ASSUME NEW h
       PROVE  [n \in 0..Steps |-> [d \in Places |-> IF ~IsSilent(d) THEN (IF d.part = "go" THEN End ELSE d)
                                                    ELSE IF n = 0 THEN Spin ELSE h[n - 1][Lead(d)]]]
                = Search(h, D, S, L, V, Spin, Steps)
  <2>1. ASSUME NEW n \in 0..Steps, NEW d \in D
        PROVE  (IF ~IsSilent(d) THEN (IF d.part = "go" THEN End ELSE d)
                ELSE IF n = 0 THEN Spin ELSE h[n - 1][Lead(d)])
                 = IF d \notin S THEN V[d] ELSE IF n = 0 THEN Spin ELSE h[n - 1][L[d]]
    <3>1. IsSilent(d) <=> d \in S
      BY <1>1, <1>2, SameWords DEF SilentPlaces
    <3>2. V[d] = IF d.part = "go" THEN End ELSE d
      BY <1>4
    <3>3. d \in S => L[d] = Lead(d)
      BY <1>3, SameWords
    <3> QED BY <3>1, <3>2, <3>3
  <2>2. Places = D
    BY <1>1, SameWords
  <2> QED BY <2>1, <2>2 DEF Search
<1>12. g = CHOOSE h : h = [n \in 0..Steps |->
                            [d \in Places |-> IF ~IsSilent(d) THEN (IF d.part = "go" THEN End ELSE d)
                                              ELSE IF n = 0 THEN Spin ELSE h[n - 1][Lead(d)]]]
  BY <1>9, <1>11, Zenon
<1>13. \A c : Settled(c) = g[Steps][c]
  BY <1>12 DEF Settled
<1>14. ASSUME NEW c \in PlacesIn(src), ~SilentIn(src, c) PROVE Settled(c) = IF c.part = "go" THEN End ELSE c
  <2>1. c \in D /\ c \notin S
    BY <1>1, <1>2, <1>14 DEF SilentPlaces
  <2> QED BY <1>4, <1>10, <1>13, <2>1 DEF Tells
<1>15. ASSUME NEW c \in PlacesIn(src), SilentIn(src, c) PROVE Settled(c) = Settled(LeadIn(src, c))
  <2>1. c \in S
    BY <1>2, <1>15 DEF SilentPlaces
  <2> QED BY <1>3, <1>10, <1>13, <2>1 DEF Tells
<1>16. ASSUME NEW X \in SUBSET PlacesIn(src), \A x \in X : SilentIn(src, x) /\ LeadIn(src, x) \in X, NEW y \in X
       PROVE  Settled(y) = Spin
  <2>1. X \in SUBSET S /\ \A x \in X : L[x] \in X
    BY <1>2, <1>3, <1>16 DEF SilentPlaces
  <2> QED BY <1>10, <1>13, <1>16, <2>1 DEF Tells
<1> QED BY <1>14, <1>15, <1>16 DEF Settles


\* The blocks that run nothing and go on.
Going == {b \in DOMAIN bbs : bbs[b].code = <<>> /\ bbs[b].term.k \notin {"cond", "ret"}}

\* What Runs tells of the blocks, as Settled tells it of the places.
RunsTell ==
  /\ \A b \in DOMAIN bbs : bbs[b].code # <<>> => Runs(b) = bbs[b].code[1]
  /\ \A b \in DOMAIN bbs : bbs[b].code = <<>> /\ bbs[b].term.k = "cond" => Runs(b) = Event(bbs[b].term.p, "cond")
  /\ \A b \in DOMAIN bbs : bbs[b].code = <<>> /\ bbs[b].term.k = "ret" => Runs(b) = End
  /\ \A b \in Going : Runs(b) = Runs(bbs[b].term.to[1])
  /\ \A X \in SUBSET Going : (\A x \in X : bbs[x].term.to[1] \in X) => \A x \in X : Runs(x) = Spin

\* What a block runs first, if it does not go on.
FirstRun(b) ==
  CASE bbs[b].code # <<>> -> bbs[b].code[1]
    [] bbs[b].code = <<>> /\ bbs[b].term.k = "cond" -> Event(bbs[b].term.p, "cond")
    [] bbs[b].code = <<>> /\ bbs[b].term.k = "ret" -> End
    [] OTHER -> Spin

\* Runs is the search through the blocks.
LEMMA RunsAre ==
  ASSUME bbs \in Seq(Block), \A b \in Going : bbs[b].term.to[1] \in DOMAIN bbs
  PROVE  RunsTell
<1>1. PICK D : D = DOMAIN bbs
  OBVIOUS
<1>2. PICK S : S = Going
  OBVIOUS
<1>3. PICK L : L = [d \in S |-> bbs[d].term.to[1]]
  OBVIOUS
<1>4. PICK V : V = [d \in D |-> FirstRun(d)]
  OBVIOUS
<1>5. PICK m : m = Len(bbs)
  OBVIOUS
<1>6. m \in Nat /\ D = 1..m
  BY <1>1, <1>5
<1>7. S \subseteq D
  BY <1>1, <1>2 DEF Going
<1>8. IsFiniteSet(S) /\ (Cardinality(S) < m \/ S = D)
  <2>1. IsFiniteSet(D) /\ Cardinality(D) = m
    <3>1. 1 \in Int /\ m \in Int /\ (IF 1 > m THEN 0 ELSE m - 1 + 1) = m
      BY <1>6
    <3> QED BY <1>6, <3>1, FS_Interval
  <2>2. IsFiniteSet(S) /\ Cardinality(S) <= Cardinality(D) /\ (Cardinality(D) = Cardinality(S) => D = S)
    BY <1>7, <2>1, FS_Subset
  <2>3. Cardinality(S) \in Nat
    BY <2>2, FS_CardinalityType
  <2> QED BY <1>6, <2>1, <2>2, <2>3
<1>9. L \in [S -> D]
  BY <1>1, <1>2, <1>3
<1>10. V = [d \in D |-> V[d]]
  BY <1>4
<1>11. PICK g : g = CHOOSE h : h = Search(h, D, S, L, V, Spin, m)
  OBVIOUS
<1>12. Tells(g[m], D, S, L, V, Spin)
  <2>1. m \in Nat
    BY <1>6
  <2> QED BY ONLY <1>7, <1>8, <1>9, <1>10, <1>11, <2>1, ChosenTells
<1>13. ASSUME NEW h
       PROVE  [n \in 0..Len(bbs) |->
                 [d \in DOMAIN bbs |->
                    CASE bbs[d].code # <<>> -> bbs[d].code[1]
                      [] bbs[d].code = <<>> /\ bbs[d].term.k = "cond" -> Event(bbs[d].term.p, "cond")
                      [] bbs[d].code = <<>> /\ bbs[d].term.k = "ret" -> End
                      [] OTHER -> IF n = 0 THEN Spin ELSE h[n - 1][bbs[d].term.to[1]]]]
                = Search(h, D, S, L, V, Spin, m)
  <2>1. ASSUME NEW n \in 0..m, NEW d \in D
        PROVE  (CASE bbs[d].code # <<>> -> bbs[d].code[1]
                  [] bbs[d].code = <<>> /\ bbs[d].term.k = "cond" -> Event(bbs[d].term.p, "cond")
                  [] bbs[d].code = <<>> /\ bbs[d].term.k = "ret" -> End
                  [] OTHER -> IF n = 0 THEN Spin ELSE h[n - 1][bbs[d].term.to[1]])
                 = IF d \notin S THEN V[d] ELSE IF n = 0 THEN Spin ELSE h[n - 1][L[d]]
    <3>1. d \in S <=> bbs[d].code = <<>> /\ bbs[d].term.k \notin {"cond", "ret"}
      BY <1>1, <1>2 DEF Going
    <3>2. V[d] = FirstRun(d)
      BY <1>4
    <3>3. d \in S => L[d] = bbs[d].term.to[1]
      BY <1>3
    <3>4. CASE d \in S
      BY <3>1, <3>3, <3>4
    <3>5. CASE d \notin S
      <4>1. CASE bbs[d].code # <<>>
        BY <3>2, <3>5, <4>1 DEF FirstRun
      <4>2. CASE bbs[d].code = <<>> /\ bbs[d].term.k = "cond"
        BY <3>2, <3>5, <4>2 DEF FirstRun
      <4>3. CASE bbs[d].code = <<>> /\ bbs[d].term.k = "ret"
        BY <3>2, <3>5, <4>3 DEF FirstRun
      <4> QED BY <3>1, <3>5, <4>1, <4>2, <4>3
    <3> QED BY <3>4, <3>5
  <2> QED BY <1>1, <1>5, <2>1 DEF Search
<1>14. g = CHOOSE h : h = [n \in 0..Len(bbs) |->
                            [d \in DOMAIN bbs |->
                               CASE bbs[d].code # <<>> -> bbs[d].code[1]
                                 [] bbs[d].code = <<>> /\ bbs[d].term.k = "cond" -> Event(bbs[d].term.p, "cond")
                                 [] bbs[d].code = <<>> /\ bbs[d].term.k = "ret" -> End
                                 [] OTHER -> IF n = 0 THEN Spin ELSE h[n - 1][bbs[d].term.to[1]]]]
  BY <1>11, <1>13, Zenon
<1>15. \A b : Runs(b) = g[m][b]
  BY <1>5, <1>14 DEF Runs
<1>16. ASSUME NEW b \in D, b \notin S PROVE Runs(b) = FirstRun(b)
  BY <1>4, <1>12, <1>15, <1>16 DEF Tells
<1>17. ASSUME NEW b \in DOMAIN bbs, bbs[b].code # <<>> PROVE Runs(b) = bbs[b].code[1]
  BY <1>1, <1>2, <1>16, <1>17 DEF Going, FirstRun
<1>18. ASSUME NEW b \in DOMAIN bbs, bbs[b].code = <<>>, bbs[b].term.k = "cond"
       PROVE  Runs(b) = Event(bbs[b].term.p, "cond")
  BY <1>1, <1>2, <1>16, <1>18 DEF Going, FirstRun
<1>19. ASSUME NEW b \in DOMAIN bbs, bbs[b].code = <<>>, bbs[b].term.k = "ret" PROVE Runs(b) = End
  BY <1>1, <1>2, <1>16, <1>19 DEF Going, FirstRun
<1>20. ASSUME NEW b \in Going PROVE Runs(b) = Runs(bbs[b].term.to[1])
  BY <1>2, <1>3, <1>12, <1>15 DEF Tells
<1>21. ASSUME NEW X \in SUBSET Going, \A x \in X : bbs[x].term.to[1] \in X, NEW y \in X PROVE Runs(y) = Spin
  <2>1. X \in SUBSET S /\ \A x \in X : L[x] \in X
    BY <1>2, <1>3, <1>21
  <2> QED BY <1>12, <1>15, <1>21, <2>1 DEF Tells
<1> QED BY <1>17, <1>18, <1>19, <1>20, <1>21 DEF RunsTell


\* All blocks are shut and follow the body, which has no errors.
Fitting(at) ==
  /\ src \in Seq(Item) /\ Whole(src) /\ bbs \in Seq(Block) /\ OpenOf(bbs) = {}
  /\ BlocksFit(src, at, bbs) /\ Settles(src)

\* A step without an event tells nothing new.
LEMMA PassesTell ==
  ASSUME NEW at, Fitting(at), NEW c \in PlacesIn(src), NEW d, Passes(src, c, d)
  PROVE  Settled(c) = Settled(d)
<1>1. Settles(src) /\ src \in Seq(Item) /\ Whole(src)
  BY DEF Fitting
<1>2. SilentIn(src, c)
  BY DEF Passes
<1>3. Settled(c) = Settled(LeadIn(src, c)) /\ LeadIn(src, c) \in PlacesIn(src)
  BY <1>1, <1>2, LeadStays DEF Settles
<1>4. CASE LeadIn(src, c) = d
  BY <1>3, <1>4
<1>5. CASE SilentIn(src, LeadIn(src, c)) /\ LeadIn(src, LeadIn(src, c)) = d
  BY <1>1, <1>3, <1>5 DEF Settles
<1> QED BY <1>4, <1>5 DEF Passes

\* A place at which a condition is met.
LEMMA CondTells ==
  ASSUME NEW at, Fitting(at), NEW e \in PlacesIn(src), NEW p \in 1..Len(src), ~SilentIn(src, Place(p, "cond")),
         e = Place(p, "cond") \/ (SilentIn(src, e) /\ LeadIn(src, e) = Place(p, "cond"))
  PROVE  Settled(e) = Event(p, "cond")
<1>1. Settles(src) /\ Len(src) \in Nat
  BY DEF Fitting
<1>2. Place(p, "cond") \in PlacesIn(src) /\ Place(p, "cond").part # "go" /\ Place(p, "cond") = Event(p, "cond")
  BY <1>1 DEF Place, PlacesIn, Event
<1>3. Settled(Place(p, "cond")) = Event(p, "cond")
  BY <1>1, <1>2 DEF Settles
<1> QED BY <1>1, <1>3 DEF Settles

\* A piece of code is the event itself, and the place after it is one.
LEMMA PlainTells ==
  ASSUME NEW at, Fitting(at), NEW e, e \in Code, Plain(src, e)
  PROVE  Settled(e) = e /\ ThenIn(src, e, TRUE) \in PlacesIn(src)
<1>1. Settles(src) /\ Len(src) \in Nat
  BY DEF Fitting
<1>2. PICK p \in 1..Len(src), part \in {"run", "init", "post"} : e.p = p /\ e.part = part
  BY DEF Plain
<1>3. e = Place(p, part)
  BY <1>2 DEF Code, Place
<1>4. e \in PlacesIn(src) /\ ~SilentIn(src, e) /\ e.part # "go"
  BY <1>1, <1>2, <1>3 DEF PlacesIn, Place, SilentIn
<1>5. Settled(e) = e
  BY <1>1, <1>4 DEF Settles
<1>6. ThenIn(src, e, TRUE) = IF part = "run" THEN Place(p + 1, "go") ELSE Place(p, "cond")
  <2>1. Thens(src, p)
    BY ThensAre
  <2> QED BY <1>3, <2>1 DEF Thens
<1>7. Place(p + 1, "go") \in PlacesIn(src) /\ Place(p, "cond") \in PlacesIn(src)
  BY <1>1 DEF Place, PlacesIn
<1> QED BY <1>5, <1>6, <1>7

\* How a block ends.
Finish(at, b) ==
  LET e == Ends(src, at, bbs, b)
      t == bbs[b].term
  IN /\ e \in PlacesIn(src)
     /\ t.k \in {"br", "cond", "ret"}
     /\ t.k = "ret" => Settled(e) = End
     /\ t.k = "br" => /\ t.to[1] \in DOMAIN bbs /\ Settled(e) = Settled(at[t.to[1]])
                      /\ bbs[b].code = <<>> => Passes(src, e, at[t.to[1]])
     /\ t.k = "cond" => /\ Settled(e) = Event(t.p, "cond") /\ t.p \in 1..Len(src)
                        /\ t.to[1] \in DOMAIN bbs /\ t.to[2] \in DOMAIN bbs
                        /\ at[t.to[1]] = ThenIn(src, Event(t.p, "cond"), TRUE)
                        /\ at[t.to[2]] = ThenIn(src, Event(t.p, "cond"), FALSE)

\* By cases of the terminator.
LEMMA FinishAre ==
  ASSUME NEW at, Fitting(at), NEW b \in DOMAIN bbs
  PROVE  Finish(at, b)
<1>1. /\ DOMAIN at = DOMAIN bbs /\ at[b] \in PlacesIn(src) /\ bbs[b] \in Block
      /\ BlockFits(src, at, at[b], bbs[b])
  BY DEF Fitting, BlocksFit
<1>2. PICK e : e = Ends(src, at, bbs, b)
  OBVIOUS
<1>3. PICK t : t = bbs[b].term
  OBVIOUS
<1>4. PICK k : k = bbs[b].code
  OBVIOUS
<1>5. k \in Seq(Code) /\ CodeFits(src, at[b], k) /\ TermFits(src, at, e, k, t)
  BY <1>1, <1>2, <1>3, <1>4 DEF Block, BlockFits, Ends
<1>6. e \in PlacesIn(src)
  <2>1. CASE k = <<>>
    BY <1>1, <1>2, <1>4, <2>1 DEF Ends, After
  <2>2. CASE k # <<>>
    <3>1. Len(k) \in 1..Len(k) /\ k[Len(k)] \in Code
      BY <1>5, <2>2
    <3>2. Plain(src, k[Len(k)])
      BY <1>5, <3>1 DEF CodeFits
    <3>3. e = ThenIn(src, k[Len(k)], TRUE)
      BY <1>2, <1>4, <2>2 DEF Ends, After
    <3> QED BY <3>1, <3>2, <3>3, PlainTells
  <2> QED BY <2>1, <2>2
<1>7. t # None
  BY <1>3 DEF Fitting, OpenOf
<1>8. CASE t = Ret /\ e.part = "go" /\ ~SilentIn(src, e)
  <2>1. t.k = "ret"
    BY <1>8 DEF Ret
  <2>2. Settled(e) = End
    BY <1>6, <1>8 DEF Fitting, Settles
  <2> QED BY <1>2, <1>3, <1>6, <2>1, <2>2 DEF Finish
<1>9. ASSUME NEW c \in DOMAIN at, t = To(c), Passes(src, e, at[c]) \/ (k # <<>> /\ at[c] = e)
      PROVE  Finish(at, b)
  <2>1. t.k = "br" /\ t.to[1] = c
    BY <1>9 DEF To
  <2>2. Settled(e) = Settled(at[c])
    BY <1>6, <1>9, PassesTell
  <2>3. bbs[b].code = <<>> => Passes(src, e, at[c])
    BY <1>4, <1>9
  <2> QED BY <1>1, <1>2, <1>3, <1>6, <2>1, <2>2, <2>3 DEF Finish
<1>10. ASSUME NEW p \in 1..Len(src), NEW c \in DOMAIN at, NEW d \in DOMAIN at,
              t = Cond(p, c, d), ~SilentIn(src, Place(p, "cond")),
              e = Place(p, "cond") \/ (SilentIn(src, e) /\ LeadIn(src, e) = Place(p, "cond")),
              at[c] = ThenIn(src, Place(p, "cond"), TRUE), at[d] = ThenIn(src, Place(p, "cond"), FALSE)
       PROVE  Finish(at, b)
  <2>1. t.k = "cond" /\ t.p = p /\ t.to[1] = c /\ t.to[2] = d
    BY <1>10 DEF Cond
  <2>2. Settled(e) = Event(p, "cond")
    BY <1>6, <1>10, CondTells
  <2>3. Place(p, "cond") = Event(p, "cond")
    BY DEF Place, Event
  <2> QED BY <1>1, <1>2, <1>3, <1>6, <1>10, <2>1, <2>2, <2>3 DEF Finish
<1> QED BY <1>5, <1>7, <1>8, <1>9, <1>10 DEF TermFits

\* The blocks tell what the places tell at which they begin.
LEMMA RunsSettle ==
  ASSUME NEW at, Fitting(at)
  PROVE  RunsTell /\ \A b \in DOMAIN bbs : Runs(b) = Settled(at[b])
<1>1. \A b \in DOMAIN bbs : Finish(at, b)
  BY FinishAre
<1>2. /\ DOMAIN at = DOMAIN bbs /\ bbs \in Seq(Block) /\ Settles(src) /\ src \in Seq(Item) /\ Whole(src)
      /\ \A b \in DOMAIN bbs : at[b] \in PlacesIn(src) /\ bbs[b] \in Block /\ BlockFits(src, at, at[b], bbs[b])
  BY DEF Fitting, BlocksFit
<1>3. ASSUME NEW b \in DOMAIN bbs, bbs[b].code = <<>> PROVE Ends(src, at, bbs, b) = at[b]
  BY <1>3 DEF Ends, After
<1>4. ASSUME NEW b \in Going
      PROVE  bbs[b].term.to[1] \in DOMAIN bbs /\ Passes(src, at[b], at[bbs[b].term.to[1]])
  <2>1. b \in DOMAIN bbs /\ bbs[b].code = <<>> /\ bbs[b].term.k \notin {"cond", "ret"}
    BY DEF Going
  <2>2. bbs[b].term.k = "br"
    BY <1>1, <2>1 DEF Finish
  <2> QED BY <1>1, <1>3, <2>1, <2>2 DEF Finish
<1>5. RunsTell
  BY <1>2, <1>4, RunsAre
<1>6. ASSUME NEW b \in DOMAIN bbs, b \notin Going PROVE Runs(b) = Settled(at[b])
  <2>1. CASE bbs[b].code # <<>>
    <3>1. Runs(b) = bbs[b].code[1]
      BY <1>5, <2>1 DEF RunsTell
    <3>2. bbs[b].code \in Seq(Code) /\ 1 \in 1..Len(bbs[b].code) /\ bbs[b].code[1] \in Code
      BY <1>2, <2>1 DEF Block
    <3>3. SilentIn(src, at[b]) /\ LeadIn(src, at[b]) = bbs[b].code[1] /\ Plain(src, bbs[b].code[1])
      BY <1>2, <2>1, <3>2 DEF BlockFits, CodeFits
    <3>4. Settled(at[b]) = Settled(bbs[b].code[1])
      BY <1>2, <3>3 DEF Settles
    <3> QED BY <3>1, <3>2, <3>3, <3>4, PlainTells
  <2>2. CASE bbs[b].code = <<>>
    <3>1. Ends(src, at, bbs, b) = at[b]
      BY <1>3, <2>2
    <3>2. bbs[b].term.k \in {"cond", "ret"}
      BY <1>6, <2>2 DEF Going
    <3> QED BY <1>1, <1>5, <2>2, <3>1, <3>2 DEF Finish, RunsTell
  <2> QED BY <2>1, <2>2
<1>7. PICK X : X = {b \in Going : Runs(b) # Settled(at[b])}
  OBVIOUS
<1>8. ASSUME NEW b \in X PROVE bbs[b].term.to[1] \in X
  <2>1. b \in Going /\ b \in DOMAIN bbs /\ Runs(b) # Settled(at[b])
    BY <1>7 DEF Going
  <2>2. PICK c : c = bbs[b].term.to[1]
    OBVIOUS
  <2>3. c \in DOMAIN bbs /\ Passes(src, at[b], at[c])
    BY <1>4, <2>1, <2>2
  <2>4. Settled(at[b]) = Settled(at[c])
    BY <1>2, <2>1, <2>3, PassesTell
  <2>5. Runs(b) = Runs(c)
    BY <1>5, <2>1, <2>2 DEF RunsTell
  <2>6. Runs(c) # Settled(at[c])
    BY <2>1, <2>4, <2>5
  <2> QED BY <1>6, <1>7, <2>2, <2>3, <2>6
<1>9. \A b \in X : Runs(b) = Spin
  <2>1. X \in SUBSET Going
    BY <1>7
  <2> QED BY <1>5, <1>8, <2>1 DEF RunsTell
<1>10. PICK Y : Y = {at[b] : b \in X} \cup {LeadIn(src, at[b]) : b \in X}
  OBVIOUS
<1>11. ASSUME NEW b \in X
       PROVE  /\ at[b] \in PlacesIn(src) /\ SilentIn(src, at[b]) /\ LeadIn(src, at[b]) \in Y
              /\ LeadIn(src, at[b]) \in PlacesIn(src) /\ SilentIn(src, LeadIn(src, at[b]))
              /\ LeadIn(src, LeadIn(src, at[b])) \in Y
  <2>1. b \in Going /\ b \in DOMAIN bbs
    BY <1>7 DEF Going
  <2>2. PICK c : c = bbs[b].term.to[1]
    OBVIOUS
  <2>3. c \in X /\ Passes(src, at[b], at[c])
    BY <1>4, <1>8, <2>1, <2>2
  <2>4. c \in Going /\ c \in DOMAIN bbs
    BY <1>7, <2>3 DEF Going
  <2>5. SilentIn(src, at[b]) /\ SilentIn(src, at[c])
    BY <1>4, <2>1, <2>4 DEF Passes
  <2>6. at[b] \in PlacesIn(src) /\ LeadIn(src, at[b]) \in PlacesIn(src)
    BY <1>2, <2>1, <2>5, LeadStays
  <2>7. LeadIn(src, at[b]) \in Y /\ LeadIn(src, at[c]) \in Y /\ at[c] \in Y
    BY <1>10, <2>3
  <2>8. CASE LeadIn(src, at[b]) = at[c]
    BY <2>5, <2>6, <2>7, <2>8
  <2>9. CASE SilentIn(src, LeadIn(src, at[b])) /\ LeadIn(src, LeadIn(src, at[b])) = at[c]
    BY <2>5, <2>6, <2>7, <2>9
  <2> QED BY <2>3, <2>8, <2>9 DEF Passes
<1>12. \A y \in Y : Settled(y) = Spin
  <2>1. Y \in SUBSET PlacesIn(src)
    BY <1>10, <1>11
  <2>2. \A y \in Y : SilentIn(src, y) /\ LeadIn(src, y) \in Y
    BY <1>10, <1>11
  <2> QED BY <1>2, <2>1, <2>2 DEF Settles
<1>13. X = {}
  <2>1. SUFFICES ASSUME NEW b \in X PROVE FALSE
    OBVIOUS
  <2>2. at[b] \in Y
    BY <1>10
  <2>3. Settled(at[b]) = Spin /\ Runs(b) = Spin
    BY <1>9, <1>12, <2>2
  <2> QED BY <1>7, <2>3
<1>14. ASSUME NEW b \in DOMAIN bbs PROVE Runs(b) = Settled(at[b])
  <2>1. b \in Going => Runs(b) = Settled(at[b])
    BY <1>7, <1>13
  <2> QED BY <1>6, <2>1
<1> QED BY <1>5, <1>14


\* After every piece of code of a block.
LEMMA AfterCode ==
  ASSUME NEW at, Fitting(at), NEW b \in DOMAIN bbs, NEW i \in DOMAIN bbs[b].code
  PROVE  RunsAfter(b, i) = Settled(Then(bbs[b].code[i], TRUE))
<1>1. /\ bbs[b] \in Block /\ BlockFits(src, at, at[b], bbs[b]) /\ Settles(src)
      /\ RunsTell /\ (\A d \in DOMAIN bbs : Runs(d) = Settled(at[d])) /\ Finish(at, b)
  BY RunsSettle, FinishAre DEF Fitting, BlocksFit
<1>2. PICK k : k = bbs[b].code
  OBVIOUS
<1>3. k \in Seq(Code) /\ CodeFits(src, at[b], k) /\ Len(k) \in Nat /\ i \in 1..Len(k) /\ k # <<>>
  BY <1>1, <1>2 DEF Block, BlockFits
<1>4. PICK d : d = ThenIn(src, k[i], TRUE)
  OBVIOUS
<1>5. Then(k[i], TRUE) = d
  BY <1>4, SameWords
<1>6. \A j \in 1..Len(k) : k[j] \in Code /\ Plain(src, k[j])
  BY <1>3 DEF CodeFits
<1>7. d \in PlacesIn(src)
  BY <1>3, <1>4, <1>6, PlainTells
<1>8. CASE i < Len(k)
  <2>1. i \in 1..(Len(k) - 1) /\ i + 1 \in 1..Len(k)
    BY <1>3, <1>8
  <2>2. SilentIn(src, d) /\ LeadIn(src, d) = k[i + 1]
    BY <1>3, <1>4, <2>1 DEF CodeFits
  <2>3. Settled(d) = Settled(k[i + 1])
    BY <1>1, <1>7, <2>2 DEF Settles
  <2>4. Settled(k[i + 1]) = k[i + 1]
    BY <1>6, <2>1, PlainTells
  <2>5. RunsAfter(b, i) = k[i + 1]
    BY <1>2, <1>3, <1>8 DEF RunsAfter
  <2> QED BY <1>2, <1>5, <2>3, <2>4, <2>5
<1>9. CASE i = Len(k)
  <2>1. Ends(src, at, bbs, b) = d
    BY <1>2, <1>3, <1>4, <1>9 DEF Ends, After
  <2>2. PICK t : t = bbs[b].term
    OBVIOUS
  <2>3. /\ t.k \in {"br", "cond", "ret"}
        /\ t.k = "ret" => Settled(d) = End
        /\ t.k = "br" => t.to[1] \in DOMAIN bbs /\ Settled(d) = Settled(at[t.to[1]])
        /\ t.k = "cond" => Settled(d) = Event(t.p, "cond")
    BY <1>1, <2>1, <2>2 DEF Finish
  <2>4. /\ t.k = "cond" => RunsAfter(b, i) = Event(t.p, "cond")
        /\ t.k = "ret" => RunsAfter(b, i) = End
        /\ t.k = "br" => RunsAfter(b, i) = Runs(t.to[1])
    BY <1>2, <1>3, <1>9, <2>2 DEF RunsAfter
  <2>5. RunsAfter(b, i) = Settled(d)
    BY <1>1, <2>3, <2>4
  <2> QED BY <1>2, <1>5, <2>5
<1>10. i < Len(k) \/ i = Len(k)
  <2>1. Len(k) \in Nat /\ i \in 1..Len(k)
    BY <1>3
  <2> QED BY ONLY <2>1
<1> QED BY <1>8, <1>9, <1>10

\* Blocks that follow the body do what it says.
LEMMA FittingFollows ==
  ASSUME NEW at, Fitting(at), 1 \in DOMAIN bbs
  PROVE  LoweringFollows
<1>1. /\ \A b \in DOMAIN bbs : Runs(b) = Settled(at[b])
      /\ at[1] = Place(1, "go")
  BY RunsSettle DEF Fitting, BlocksFit
<1>2. Runs(1) = Settled(Place(1, "go"))
  BY <1>1
<1>3. ASSUME NEW b \in DOMAIN bbs, NEW i \in DOMAIN bbs[b].code
      PROVE  RunsAfter(b, i) = Settled(Then(bbs[b].code[i], TRUE))
  BY AfterCode
<1>4. ASSUME NEW b \in DOMAIN bbs, bbs[b].term.k = "cond", NEW o \in {1, 2}
      PROVE  Runs(bbs[b].term.to[o]) = Settled(Then(Event(bbs[b].term.p, "cond"), o = 1))
  <2>1. PICK t : t = bbs[b].term
    OBVIOUS
  <2>2. /\ t.to[1] \in DOMAIN bbs /\ t.to[2] \in DOMAIN bbs
        /\ at[t.to[1]] = ThenIn(src, Event(t.p, "cond"), TRUE)
        /\ at[t.to[2]] = ThenIn(src, Event(t.p, "cond"), FALSE)
    BY <1>4, <2>1, FinishAre DEF Finish
  <2>3. CASE o = 1
    <3>1. (o = 1) = TRUE
      BY <2>3
    <3> QED BY <1>1, <2>1, <2>2, <2>3, <3>1, SameWords
  <2>4. CASE o = 2
    <3>1. (o = 1) = FALSE
      BY <2>4
    <3> QED BY <1>1, <2>1, <2>2, <2>4, <3>1, SameWords
  <2> QED BY <2>3, <2>4
<1> QED BY <1>2, <1>3, <1>4 DEF LoweringFollows

\* What holds all along: with the invariants above, the shape of what is open, the
\* blocks that break leads to, and blocks that follow the body.
Follow == Shaped(src, nest) /\ BreaksFit(breaks, nest) /\ Sim

\* In a body without errors the blocks do what the source says, for bodies of any
\* length: after every piece of code and after both outcomes of every condition,
\* also where the source goes round without an event (genStmt, genIf, genWhile,
\* genDoWhile, genFor, getLabelBlock, finishFn).
THEOREM BlocksFollowTheSource == Spec => []LoweringFollows
<1>1. Init => IInv /\ Told /\ Follow
  BY InitIInv, InitTold, InitSim DEF Follow
<1>2. IInv /\ Told /\ Follow /\ [Next]_vars => (IInv /\ Told /\ Follow)'
  BY NextIInv, NextTold, NextShaped, NextBreaks, NextSim DEF Follow
<1>3. IInv /\ Told /\ Follow => LoweringFollows
  <2>1. SUFFICES ASSUME IInv, Told, Follow, phase = "done", ~hadError_ PROVE LoweringFollows
    BY DEF LoweringFollows
  <2>2. Whole(src)
    BY <2>1, WholeAtEnd DEF Follow
  <2>3. PICK at : BlocksFit(src, at, bbs)
    BY <2>1, <2>2 DEF Follow, Sim
  <2>4. src \in Seq(Item) /\ bbs \in Seq(Block) /\ OpenOf(bbs) = {} /\ 1 \in DOMAIN bbs
    BY <2>1 DEF IInv, Typed, Flags, Blocks
  <2>5. Fitting(at)
    BY <2>2, <2>3, <2>4, SettledTells DEF Fitting
  <2> QED BY <2>4, <2>5, FittingFollows
<1> QED BY <1>1, <1>2, <1>3, PTL DEF Spec

\* While code is generated, break leads to the end of the innermost loop that is
\* open, and the one under it on the stack to that of the loop about it, for loops
\* nested to any depth (break_targets_ of genWhile, genDoWhile, genFor).
THEOREM BreakLeadsOut == Spec => [](BreaksFit(breaks, nest))
<1>1. Init => IInv /\ Told /\ BreaksFit(breaks, nest)
  BY InitIInv, InitTold, InitSim
<1>2. IInv /\ Told /\ BreaksFit(breaks, nest) /\ [Next]_vars => (IInv /\ Told /\ BreaksFit(breaks, nest))'
  BY NextIInv, NextTold, NextBreaks
<1> QED BY <1>1, <1>2, PTL DEF Spec
=============================================================================
