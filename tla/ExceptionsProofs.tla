-------------------------- MODULE ExceptionsProofs --------------------------
(* Proofs about Exceptions.tla, for every program and every bound. *)
EXTENDS Exceptions, SeqLemmas, TLAPS

-----------------------------------------------------------------------------
(* The shape of a nest of constructs and its frame chain *)

\* Constructs of an inner activation come after those of the outer ones.
Ordered(c) ==
  \A i, j \in 1..Len(c) : i < j =>
    c[i].d <= c[j].d /\ (c[j].k = "call" => c[i].d < c[j].d)

\* No two try bodies being executed share a frame.
Distinct(c) ==
  \A i, j \in 1..Len(c) :
    i < j /\ c[i].k = "try" /\ c[j].k = "try" => FrameOf(c[i]) # FrameOf(c[j])

Rooted(c) == Len(c) > 0 /\ c[1].k = "call"

Good(c, top, F) == Rooted(c) /\ Ordered(c) /\ Distinct(c) /\ Chained(c, top, F)

\* TopIs and the jump buffers only depend on the constructs they are about.
LEMMA TopIsOfPrefix ==
  ASSUME NEW c \in Seq(Entry), NEW b \in Seq(Entry), NEW n \in Nat, NEW p,
         n <= Len(c), n <= Len(b), \A i \in 1..n : b[i] = c[i],
         TopIs(c, n, p)
  PROVE  TopIs(b, n, p)
  BY DEF TopIs

\* The innermost try body stays the innermost one past a construct of another
\* kind.
LEMMA TopIsPastOther ==
  ASSUME NEW c \in Seq(Entry), NEW n \in Nat, NEW p,
         n + 1 <= Len(c), c[n + 1].k # "try", TopIs(c, n, p)
  PROVE  TopIs(c, n + 1, p)
  BY DEF TopIs

\* Frames of the first n constructs are still linked when those constructs and
\* the contents of their frames are unchanged.
LEMMA LinkedOfPrefix ==
  ASSUME NEW c \in Seq(Entry), NEW b \in Seq(Entry), NEW n \in Nat,
         n <= Len(c), n <= Len(b), \A i \in 1..n : b[i] = c[i],
         NEW F, NEW G, NEW i \in 1..n, Linked(c, i, F),
         FrameOf(c[i]) \in DOMAIN G, G[FrameOf(c[i])] = F[FrameOf(c[i])]
  PROVE  Linked(b, i, G)
  <1>1. i - 1 \in Nat /\ i - 1 <= n
    OBVIOUS
  <1>2. SubSeq(c, 1, i - 1) = SubSeq(b, 1, i - 1)
    BY <1>1, SamePrefix
  <1>3. TopIs(c, i - 1, F[FrameOf(c[i])].prev)
    BY DEF Linked
  <1>4. TopIs(b, i - 1, F[FrameOf(c[i])].prev)
    BY <1>1, <1>3, TopIsOfPrefix
  <1>. QED
    BY <1>2, <1>4 DEF Linked

\* Dropping inner constructs, with their frames, leaves a good chain when the
\* head is moved to the innermost try body that remains.
LEMMA TruncateGood ==
  ASSUME NEW c \in Seq(Entry), NEW top, NEW F, Good(c, top, F),
         NEW n \in 1..Len(c), NEW top2, TopIs(c, n, top2), NEW G,
         \A i \in 1..n : c[i].k = "try" =>
           FrameOf(c[i]) \in DOMAIN G /\ G[FrameOf(c[i])] = F[FrameOf(c[i])]
  PROVE  Good(SubSeq(c, 1, n), top2, G)
  <1> DEFINE b == SubSeq(c, 1, n)
  <1>1. b \in Seq(Entry) /\ Len(b) = n /\ \A i \in 1..n : b[i] = c[i]
    BY PrefixFacts
  <1> HIDE DEF b
  <1>2. Rooted(b) /\ Ordered(b) /\ Distinct(b)
    BY <1>1 DEF Good, Rooted, Ordered, Distinct
  <1>3. TopIs(b, Len(b), top2)
    BY <1>1, TopIsOfPrefix
  <1>4. ASSUME NEW i \in 1..Len(b), b[i].k = "try"
        PROVE  Linked(b, i, G)
    <2>1. Linked(c, i, F)
      BY <1>1, <1>4 DEF Good, Chained
    <2>. QED
      BY <1>1, <1>4, <2>1, LinkedOfPrefix
  <1>. QED
    BY <1>2, <1>3, <1>4 DEF Good, Chained, b

\* A call or a catch body goes on top of a good chain.
LEMMA PushOtherGood ==
  ASSUME NEW c \in Seq(Entry), NEW top, NEW F, Good(c, top, F),
         NEW e \in Entry, e.k # "try",
         \A i \in 1..Len(c) : c[i].d <= e.d /\ (e.k = "call" => c[i].d < e.d)
  PROVE  Good(Append(c, e), top, F)
  <1> DEFINE b == Append(c, e)
  <1>1. /\ b \in Seq(Entry) /\ Len(b) = Len(c) + 1 /\ b[Len(c) + 1] = e
        /\ \A i \in 1..Len(c) : b[i] = c[i]
    BY AppendFacts
  <1> HIDE DEF b
  <1>2. Rooted(b) /\ Ordered(b) /\ Distinct(b)
    BY <1>1 DEF Good, Rooted, Ordered, Distinct
  <1>3. TopIs(b, Len(b), top)
    <2>1. TopIs(b, Len(c), top)
      BY <1>1, TopIsOfPrefix DEF Good, Chained
    <2>. QED
      BY <1>1, <2>1, TopIsPastOther
  <1>4. ASSUME NEW i \in 1..Len(b), b[i].k = "try"
        PROVE  Linked(b, i, F)
    <2>1. i \in 1..Len(c) /\ c[i].k = "try"
      BY <1>1, <1>4
    <2>2. Linked(c, i, F)
      BY <2>1 DEF Good, Chained
    <2>3. FrameOf(c[i]) \in DOMAIN F
      BY <2>2 DEF Linked
    <2>. QED
      BY <1>1, <2>1, <2>2, <2>3, LinkedOfPrefix
  <1>. QED
    BY <1>2, <1>3, <1>4 DEF Good, Chained, b

\* HC_TryPush of a frame no open try body uses puts its try body on top of a
\* good chain.
LEMMA PushTryGood ==
  ASSUME NEW c \in Seq(Entry), NEW top, NEW F, Good(c, top, F),
         NEW e \in Entry, e.k = "try",
         \A i \in 1..Len(c) : c[i].d <= e.d,
         \A i \in 1..Len(c) : c[i].k = "try" => FrameOf(c[i]) # FrameOf(e),
         NEW G, DOMAIN G = DOMAIN F \cup {FrameOf(e)},
         G[FrameOf(e)] = [prev |-> top, jb |-> c],
         \A a \in DOMAIN F : a # FrameOf(e) => G[a] = F[a]
  PROVE  Good(Append(c, e), FrameOf(e), G)
  <1> DEFINE b == Append(c, e)
  <1>1. /\ b \in Seq(Entry) /\ Len(b) = Len(c) + 1 /\ b[Len(c) + 1] = e
        /\ \A i \in 1..Len(c) : b[i] = c[i]
    BY AppendFacts
  <1> HIDE DEF b
  <1>2. Rooted(b) /\ Ordered(b) /\ Distinct(b)
    BY <1>1 DEF Good, Rooted, Ordered, Distinct
  <1>3. TopIs(b, Len(b), FrameOf(e))
    BY <1>1 DEF TopIs
  <1>4. ASSUME NEW i \in 1..Len(b), b[i].k = "try"
        PROVE  Linked(b, i, G)
    <2>1. CASE i \in 1..Len(c)
      <3>1. c[i].k = "try"
        BY <1>1, <1>4, <2>1
      <3>2. Linked(c, i, F)
        BY <2>1, <3>1 DEF Good, Chained
      <3>3. FrameOf(c[i]) \in DOMAIN F
        BY <3>2 DEF Linked
      <3>4. FrameOf(c[i]) \in DOMAIN G /\ G[FrameOf(c[i])] = F[FrameOf(c[i])]
        BY <2>1, <3>1, <3>3
      <3>5. Len(c) \in Nat /\ Len(c) <= Len(c) /\ Len(c) <= Len(b)
        BY <1>1
      <3>. QED
        BY <1>1, <2>1, <3>2, <3>4, <3>5, LinkedOfPrefix
    <2>2. CASE i = Len(c) + 1
      <3>1. SubSeq(b, 1, Len(c)) = SubSeq(c, 1, Len(c))
        BY <1>1, SamePrefix
      <3>2. SubSeq(c, 1, Len(c)) = c
        BY PrefixFacts, SameSeq
      <3>3. TopIs(b, Len(c), top)
        BY <1>1, TopIsOfPrefix DEF Good, Chained
      <3>4. i - 1 = Len(c) /\ b[i] = e
        BY <1>1, <2>2
      <3>. QED
        BY <3>1, <3>2, <3>3, <3>4 DEF Linked
    <2>. QED
      BY <1>1, <2>1, <2>2
  <1>. QED
    BY <1>2, <1>3, <1>4 DEF Good, Chained, b
-----------------------------------------------------------------------------
(* Types *)

\* The type invariant alone is not inductive: the depth of a new construct is
\* read off the innermost one, so the nest, and every nest saved in a jump
\* buffer, must not be empty.
TypeInv ==
  /\ TypeOK
  /\ phase = "running" => Rooted(ctl)
  /\ \A f \in DOMAIN frames : Rooted(frames[f].jb)

\* Pushing on a control stack keeps the call of __HC_startup at its bottom.
LEMMA PushRooted ==
  ASSUME NEW c \in Seq(Entry), Rooted(c), NEW e \in Entry
  PROVE  Append(c, e) \in Seq(Entry) /\ Rooted(Append(c, e))
  BY AppendFacts DEF Rooted

\* So does cutting it back to a prefix that is not empty.
LEMMA PrefixRooted ==
  ASSUME NEW c \in Seq(Entry), Rooted(c), NEW n \in 1..Len(c)
  PROVE  SubSeq(c, 1, n) \in Seq(Entry) /\ Rooted(SubSeq(c, 1, n))
  BY PrefixFacts DEF Rooted

\* The innermost construct being executed is an entry of the control stack.
LEMMA TopType ==
  ASSUME TypeInv, phase = "running"
  PROVE  /\ ctl \in Seq(Entry) /\ Len(ctl) \in Nat /\ Len(ctl) > 0
         /\ Top \in Entry /\ Depth \in Nat
         /\ Top.k # "call" => Len(ctl) - 1 \in 1..Len(ctl)
  <1>1. ctl \in Seq(Entry) /\ Len(ctl) \in Nat /\ Len(ctl) > 0 /\ ctl[1].k = "call"
    BY DEF TypeInv, TypeOK, Rooted
  <1>2. Top \in Entry
    BY <1>1 DEF Top
  <1>3. Depth \in Nat
    BY <1>2 DEF Depth, Entry
  <1>4. ASSUME Top.k # "call"
        PROVE  Len(ctl) - 1 \in 1..Len(ctl)
    <2>1. Len(ctl) # 1
      BY <1>1, <1>4 DEF Top
    <2>2. \A n \in Nat : n > 0 /\ n # 1 => n - 1 \in 1..n
      OBVIOUS
    <2>. QED
      BY <1>1, <2>1, <2>2
  <1>. QED
    BY <1>1, <1>2, <1>3, <1>4

\* Dropping dead frames keeps the type of the frames that remain.
LEMMA KeepSomeFrames ==
  ASSUME TypeInv, NEW K \in SUBSET DOMAIN frames,
         frames' = [a \in K |-> frames[a]]
  PROVE  /\ DOMAIN frames' \subseteq Addr
         /\ frames' \in [DOMAIN frames' -> Frame]
         /\ \A f \in DOMAIN frames' : Rooted(frames'[f].jb)
  BY DEF TypeInv, TypeOK

\* What the code pushes on the control stack are entries.
LEMMA EntryTypes ==
  ASSUME NEW d \in Nat
  PROVE  /\ \A f \in Funs : CallEntry(f, d) \in Entry /\ CallEntry(f, d).k = "call"
                            /\ CallEntry(f, d).d = d
         /\ \A t \in Tries : TryEntry(t, d) \in Entry /\ TryEntry(t, d).k = "try"
                             /\ TryEntry(t, d).d = d
                             /\ FrameOf(TryEntry(t, d)) = <<d, t>>
         /\ \A t \in Tries :
              CatchEntry(t, d) \in Entry /\ CatchEntry(t, d).k = "catch"
              /\ CatchEntry(t, d).d = d /\ CatchEntry(t, d).x = t
  BY DEF CallEntry, TryEntry, CatchEntry, Entry, FrameOf

\* What HC_Throw leaves behind, whichever frame it jumps to.
LEMMA ThrowType ==
  ASSUME TypeInv, phase = "running", NEW ch \in Nat, HC_Throw(ch)
  PROVE  /\ phase' \in {"running", "unhandled", "undefined"}
         /\ ctl' \in Seq(Entry) /\ Rooted(ctl')
         /\ hc_try_top' \in Addr \cup {NULL}
         /\ DOMAIN frames' \subseteq Addr
         /\ frames' \in [DOMAIN frames' -> Frame]
         /\ \A f \in DOMAIN frames' : Rooted(frames'[f].jb)
         /\ Fs' \in [except_ch : Nat, catch_except : BOOLEAN]
         /\ claimed' \subseteq Nat
  <1>1. CASE hc_try_top \in DOMAIN frames /\ hc_try_top' = frames[hc_try_top].prev
             /\ LongJmp(hc_try_top, ch) /\ phase' = phase
    <2> DEFINE f == hc_try_top
    <2>1. f[1] \in Nat /\ f[2] \in Tries
      BY <1>1 DEF TypeInv, TypeOK, Addr
    <2>2. frames[f] \in Frame /\ frames[f].jb \in Seq(Entry) /\ Rooted(frames[f].jb)
      BY <1>1 DEF TypeInv, TypeOK, Frame
    <2>3. ctl' \in Seq(Entry) /\ Rooted(ctl')
      BY <1>1, <2>1, <2>2, EntryTypes, PushRooted DEF LongJmp
    <2>4. /\ DOMAIN frames' \subseteq Addr
          /\ frames' \in [DOMAIN frames' -> Frame]
          /\ \A g \in DOMAIN frames' : Rooted(frames'[g].jb)
      BY <1>1, KeepSomeFrames DEF LongJmp
    <2>5. frames[f].prev \in Addr \cup {NULL}
      BY <2>2 DEF Frame
    <2>. QED
      BY <1>1, <2>3, <2>4, <2>5 DEF TypeInv, TypeOK, LongJmp, HC_CatchEnter
  <1>2. CASE ctl' = ctl /\ hc_try_top' = hc_try_top /\ frames' = frames
             /\ claimed' = claimed /\ phase' \in {"unhandled", "undefined"}
             /\ (Fs' = Fs \/ Fs' = [Fs EXCEPT !.except_ch = ch])
    BY <1>2 DEF TypeInv, TypeOK
  <1>. QED
    BY <1>1, <1>2 DEF HC_Throw

\* Every action of the generated code and the runtime keeps the types.
LEMMA TypeStep ==
  ASSUME TypeInv, [Next]_vars
  PROVE  TypeInv'
  <1> USE DEF run, hist
  <1>1. ASSUME phase = "running", NEW f \in Funs, Call(f)
        PROVE  TypeInv'
    <2>1. CallEntry(f, Depth + 1) \in Entry
      BY <1>1, TopType, EntryTypes
    <2>2. ctl' \in Seq(Entry) /\ Rooted(ctl')
      BY <1>1, <2>1, TopType, PushRooted DEF Call, TypeInv
    <2>. QED
      BY <1>1, <2>2, BoundsAssumption DEF Call, Counted, TypeInv, TypeOK
  <1>2. ASSUME phase = "running", Return
        PROVE  TypeInv'
    <2>1. PICK c \in 1..Len(ctl) :
            /\ ctl' = Prefix(c - 1)
            /\ frames' = [a \in {b \in DOMAIN frames : b[1] < ctl[c].d} |-> frames[a]]
            /\ phase' = IF c = 1 THEN "done" ELSE phase
            /\ claimed' = {i \in claimed : i < c}
            /\ escaped' \in BOOLEAN /\ left' \in BOOLEAN
            /\ UNCHANGED <<runs, steps, hc_try_top, Fs>>
      BY <1>2 DEF Return, Uncounted
    <2>2. ctl' \in Seq(Entry)
      BY <2>1, PrefixFacts DEF Prefix, TypeInv, TypeOK
    <2>3. c # 1 => Rooted(ctl')
      <3>1. c # 1 => c - 1 \in 1..Len(ctl)
        BY <2>1 DEF TypeInv, TypeOK
      <3>. QED
        BY <1>2, <2>1, <3>1, PrefixRooted DEF Prefix, TypeInv, TypeOK
    <2>4. /\ DOMAIN frames' \subseteq Addr
          /\ frames' \in [DOMAIN frames' -> Frame]
          /\ \A g \in DOMAIN frames' : Rooted(frames'[g].jb)
      BY <2>1, KeepSomeFrames
    <2>. QED
      BY <2>1, <2>2, <2>3, <2>4 DEF TypeInv, TypeOK
  <1>3. ASSUME phase = "running", NEW t \in Tries, TryEnter(t)
        PROVE  TypeInv'
    <2>1. TryEntry(t, Depth) \in Entry
      BY <1>3, TopType, EntryTypes
    <2>2. ctl' \in Seq(Entry) /\ Rooted(ctl')
      BY <1>3, <2>1, TopType, PushRooted DEF TryEnter, TypeInv
    <2>3. <<Depth, t>> \in Addr
      BY <1>3, TopType DEF Addr
    <2>4. [prev |-> hc_try_top, jb |-> ctl] \in Frame /\ Rooted(ctl)
      BY <1>3 DEF TypeInv, TypeOK, Frame
    <2>5. /\ DOMAIN frames' \subseteq Addr
          /\ frames' \in [DOMAIN frames' -> Frame]
          /\ \A g \in DOMAIN frames' : Rooted(frames'[g].jb)
      BY <1>3, <2>3, <2>4 DEF TryEnter, HC_TryPush, TypeInv, TypeOK
    <2>6. hc_try_top' \in Addr
      BY <1>3, <2>3 DEF TryEnter, HC_TryPush
    <2>. QED
      BY <1>3, <2>2, <2>5, <2>6, BoundsAssumption
      DEF TryEnter, Counted, TypeInv, TypeOK
  <1>4. ASSUME phase = "running", Top.k # "call", ctl' = Prefix(Len(ctl) - 1),
               phase' \in {"running", "undefined"}
        PROVE  ctl' \in Seq(Entry) /\ Rooted(ctl')
    BY <1>4, TopType, PrefixRooted DEF Prefix, TypeInv, TypeOK
  <1>5. ASSUME phase = "running", TryEnd
        PROVE  TypeInv'
    <2>1. phase' \in {"running", "undefined"} /\ hc_try_top' \in Addr \cup {NULL}
      BY <1>5 DEF TryEnd, HC_TryPop, TypeInv, TypeOK, Frame
    <2>2. ctl' \in Seq(Entry) /\ Rooted(ctl')
      BY <1>4, <1>5, <2>1 DEF TryEnd
    <2>. QED
      BY <1>5, <2>1, <2>2 DEF TryEnd, Uncounted, TypeInv, TypeOK
  <1>6. ASSUME phase = "running", LeaveTry
        PROVE  TypeInv'
    <2>1. ctl' \in Seq(Entry) /\ Rooted(ctl')
      BY <1>4, <1>6 DEF LeaveTry
    <2>. QED
      BY <1>6, <2>1 DEF LeaveTry, Uncounted, TypeInv, TypeOK
  <1>7. ASSUME phase = "running", NEW ch \in Chars, Throw(ch)
        PROVE  TypeInv'
    <2>1. ch \in Nat /\ HC_Throw(ch)
      BY <1>7, CharsAssumption DEF Throw
    <2>2. runs' = runs /\ escaped' = escaped /\ left' = left /\ steps' \in 0..MaxSteps
      BY <1>7, BoundsAssumption DEF Throw, Counted, TypeInv, TypeOK
    <2>. QED
      BY <1>7, <2>1, <2>2, ThrowType DEF TypeInv, TypeOK
  <1>8. ASSUME phase = "running", Claim
        PROVE  TypeInv'
    <2>1. claimed' \subseteq Nat
      BY <1>8 DEF Claim, TypeInv, TypeOK
    <2>2. Fs' \in [except_ch : Nat, catch_except : BOOLEAN]
      BY <1>8 DEF Claim, HC_PutExcept, TypeInv, TypeOK
    <2>3. steps' \in 0..MaxSteps
      BY <1>8, BoundsAssumption DEF Claim, Counted, TypeInv, TypeOK
    <2>4. UNCHANGED <<phase, runs, ctl, hc_try_top, frames, escaped, left>>
      BY <1>8 DEF Claim
    <2>. QED
      BY <2>1, <2>2, <2>3, <2>4 DEF TypeInv, TypeOK
  <1>9. ASSUME phase = "running", CatchEnd
        PROVE  TypeInv'
    <2>1. runs' = runs /\ escaped' = escaped /\ left' = left /\ steps' = steps
      BY <1>9 DEF CatchEnd, Uncounted
    <2>2. CASE HC_Throw(Fs.except_ch)
      <3>1. Fs.except_ch \in Nat
        BY DEF TypeInv, TypeOK
      <3>. QED
        BY <1>9, <2>1, <2>2, <3>1, ThrowType DEF TypeInv, TypeOK
    <2>3. CASE ~HC_Throw(Fs.except_ch)
      <3>1. /\ Fs' = [Fs EXCEPT !.catch_except = FALSE]
            /\ ctl' = Prefix(Len(ctl) - 1)
            /\ claimed' = claimed \ {Len(ctl)}
            /\ UNCHANGED <<phase, hc_try_top, frames>>
        BY <1>9, <2>3 DEF CatchEnd, HC_CatchDone
      <3>2. ctl' \in Seq(Entry) /\ Rooted(ctl')
        BY <1>4, <1>9, <3>1 DEF CatchEnd
      <3>. QED
        BY <2>1, <3>1, <3>2 DEF TypeInv, TypeOK
    <2>. QED
      BY <2>2, <2>3
  <1>10. ASSUME phase = "running", LeaveCatch
         PROVE  TypeInv'
    <2>1. ctl' \in Seq(Entry) /\ Rooted(ctl')
      BY <1>4, <1>10 DEF LeaveCatch
    <2>. QED
      BY <1>10, <2>1 DEF LeaveCatch, Uncounted, TypeInv, TypeOK
  <1>11. ASSUME StartProgram
         PROVE  TypeInv'
    <2>1. CallEntry(Startup, 1) \in Entry /\ CallEntry(Startup, 1).k = "call"
      BY EntryTypes, FunsAssumption
    <2>2. ctl' \in Seq(Entry) /\ Rooted(ctl')
      BY <1>11, <2>1 DEF StartProgram, Rooted
    <2>. QED
      BY <1>11, <2>2, BoundsAssumption DEF StartProgram, Uncounted, TypeInv, TypeOK
  <1>12. CASE UNCHANGED vars
    BY <1>12 DEF vars, TypeInv, TypeOK
  <1>. QED
    BY <1>1, <1>2, <1>3, <1>5, <1>6, <1>7, <1>8, <1>9, <1>10, <1>11, <1>12
    DEF Next, Running, Finished

\* The types hold when the first program starts.
LEMMA TypeInit ==
  ASSUME Init
  PROVE  TypeInv
  <1>1. CallEntry(Startup, 1) \in Entry /\ CallEntry(Startup, 1).k = "call"
    BY EntryTypes, FunsAssumption
  <1>2. ctl \in Seq(Entry) /\ Rooted(ctl)
    BY <1>1 DEF Init, Rooted
  <1>3. /\ DOMAIN frames = {}
        /\ frames \in [DOMAIN frames -> Frame]
    BY DEF Init
  <1>4. Fs \in [except_ch : Nat, catch_except : BOOLEAN]
    BY DEF Init
  <1>5. runs \in 1..MaxRuns /\ steps \in 0..MaxSteps
    BY BoundsAssumption DEF Init
  <1>. QED
    BY <1>2, <1>3, <1>4, <1>5 DEF Init, TypeInv, TypeOK

\* Every variable keeps its type, whatever the program does.
THEOREM TypeCorrect == Spec => []TypeOK
  <1>1. Init => TypeInv
    BY TypeInit
  <1>2. TypeInv /\ [Next]_vars => TypeInv'
    BY TypeStep
  <1>3. TypeInv => TypeOK
    BY DEF TypeInv
  <1>. QED
    BY <1>1, <1>2, <1>3, PTL DEF Spec
-----------------------------------------------------------------------------
(* The frame chain *)

\* The chain property itself says nothing of two open try bodies sharing a
\* frame, nor of which activation dies first: Good adds both.
ChainInv ==
  /\ phase = "running" /\ ~escaped => Good(ctl, hc_try_top, frames)
  /\ CleanHandoff
  /\ NoDeadJump

\* The head of a good chain is null or the live frame of the innermost try body.
LEMMA HeadOfGood ==
  ASSUME NEW c \in Seq(Entry), NEW top, NEW F, Good(c, top, F)
  PROVE  \/ top = NULL /\ \A j \in 1..Len(c) : c[j].k # "try"
         \/ \E i \in 2..Len(c) :
              /\ c[i].k = "try" /\ top = FrameOf(c[i]) /\ top \in DOMAIN F
              /\ \A j \in 1..Len(c) : j > i => c[j].k # "try"
              /\ F[top].jb = SubSeq(c, 1, i - 1)
              /\ TopIs(c, i - 1, F[top].prev)
  <1>1. CASE \E i \in 1..Len(c) :
               /\ c[i].k = "try" /\ top = FrameOf(c[i])
               /\ \A j \in 1..Len(c) : j > i => c[j].k # "try"
    <2>1. PICK i \in 1..Len(c) :
               /\ c[i].k = "try" /\ top = FrameOf(c[i])
               /\ \A j \in 1..Len(c) : j > i => c[j].k # "try"
      BY <1>1
    <2>2. Linked(c, i, F)
      BY <2>1 DEF Good, Chained
    <2>3. c[1].k = "call"
      BY DEF Good, Rooted
    <2>4. i # 1
      BY <2>1, <2>3
    <2>5. i \in 2..Len(c)
      BY <2>4
    <2>. QED
      BY <2>1, <2>2, <2>5 DEF Linked
  <1>. QED
    BY <1>1 DEF Good, Chained, TopIs

\* HC_Throw from a good chain lands in the catch of the innermost try body, and
\* leaves a good chain; it never jumps to a dead frame.
LEMMA ThrowGood ==
  ASSUME TypeInv, phase = "running", Good(ctl, hc_try_top, frames),
         NEW ch \in Nat, HC_Throw(ch)
  PROVE  \/ /\ phase' = "unhandled" /\ ctl' = ctl
            /\ \A j \in 1..Len(ctl) : ctl[j].k # "try"
         \/ /\ phase' = "running" /\ Good(ctl', hc_try_top', frames')
            /\ \E i \in 2..Len(ctl) :
                 /\ ctl[i].k = "try"
                 /\ \A j \in 1..Len(ctl) : j > i => ctl[j].k # "try"
                 /\ ctl' = Append(Prefix(i - 1), CatchEntry(ctl[i].x, ctl[i].d))
  <1>0. ctl \in Seq(Entry)
    BY DEF TypeInv, TypeOK
  <1>1. CASE hc_try_top = NULL /\ \A j \in 1..Len(ctl) : ctl[j].k # "try"
    <2>1. hc_try_top \notin DOMAIN frames
      BY <1>1, NullAssumption DEF TypeInv, TypeOK, Addr
    <2>. QED
      BY <1>1, <2>1 DEF HC_Throw
  <1>2. CASE ~(hc_try_top = NULL /\ \A j \in 1..Len(ctl) : ctl[j].k # "try")
    <2> DEFINE f == hc_try_top
    <2>1. PICK i \in 2..Len(ctl) :
            /\ ctl[i].k = "try" /\ f = FrameOf(ctl[i]) /\ f \in DOMAIN frames
            /\ \A j \in 1..Len(ctl) : j > i => ctl[j].k # "try"
            /\ frames[f].jb = SubSeq(ctl, 1, i - 1)
            /\ TopIs(ctl, i - 1, frames[f].prev)
      BY <1>0, <1>2, HeadOfGood
    <2>2. f # NULL
      BY <2>1, NullAssumption DEF TypeInv, TypeOK, Addr
    <2>3. /\ hc_try_top' = frames[f].prev /\ LongJmp(f, ch) /\ phase' = phase
      BY <2>1, <2>2 DEF HC_Throw
    <2>4. f[1] = ctl[i].d /\ f[2] = ctl[i].x
      BY <2>1 DEF FrameOf
    <2>5. f[1] \in Nat /\ f[2] \in Tries
      BY <2>1 DEF TypeInv, TypeOK, Addr
    <2>6. i - 1 \in 1..Len(ctl)
      BY <1>0
    <2>7. \A j \in 1..(i - 1) : ctl[j].d <= ctl[i].d
      BY <1>0 DEF Good, Ordered
    <2>8. \A j \in 1..(i - 1) : ctl[j].k = "try" =>
            /\ FrameOf(ctl[j]) \in DOMAIN frames'
            /\ frames'[FrameOf(ctl[j])] = frames[FrameOf(ctl[j])]
      <3>1. ASSUME NEW j \in 1..(i - 1), ctl[j].k = "try"
            PROVE  FrameOf(ctl[j]) \in DOMAIN frames /\ FrameOf(ctl[j])[1] <= f[1]
        <4>1. j \in 1..Len(ctl)
          BY <1>0
        <4>2. Linked(ctl, j, frames)
          BY <3>1, <4>1 DEF Good, Chained
        <4>. QED
          BY <2>4, <2>7, <3>1, <4>2 DEF Linked, FrameOf
      <3>. QED
        BY <2>3, <3>1 DEF LongJmp
    <2>9. Good(Prefix(i - 1), hc_try_top', frames')
      BY <1>0, <2>1, <2>3, <2>6, <2>8, TruncateGood DEF Prefix
    <2>10. /\ Prefix(i - 1) \in Seq(Entry) /\ Len(Prefix(i - 1)) = i - 1
           /\ \A j \in 1..(i - 1) : Prefix(i - 1)[j] = ctl[j]
      BY <1>0, <2>6, PrefixFacts DEF Prefix
    <2>11. LET e == CatchEntry(ctl[i].x, ctl[i].d)
           IN e \in Entry /\ e.k = "catch" /\ e.d = ctl[i].d
      BY <2>4, <2>5, EntryTypes
    <2>12. ctl' = Append(Prefix(i - 1), CatchEntry(ctl[i].x, ctl[i].d))
      BY <2>1, <2>3, <2>4 DEF LongJmp, Prefix
    <2>13. Good(ctl', hc_try_top', frames')
      BY <2>7, <2>9, <2>10, <2>11, <2>12, PushOtherGood
    <2>. QED
      BY <2>1, <2>3, <2>12, <2>13
  <1>. QED
    BY <1>1, <1>2

\* Leaving a body that is not a try body changes neither head nor frames.
LEMMA DropOtherGood ==
  ASSUME TypeInv, phase = "running", Good(ctl, hc_try_top, frames), Top.k = "catch"
  PROVE  Good(Prefix(Len(ctl) - 1), hc_try_top, frames)
  <1>1. ctl \in Seq(Entry) /\ Len(ctl) - 1 \in 1..Len(ctl)
    BY TopType
  <1>2. TopIs(ctl, Len(ctl) - 1, hc_try_top)
    BY <1>1 DEF Good, Chained, TopIs, Top
  <1>3. \A i \in 1..(Len(ctl) - 1) : ctl[i].k = "try" => FrameOf(ctl[i]) \in DOMAIN frames
    BY <1>1 DEF Good, Chained, Linked
  <1>. QED
    BY <1>1, <1>2, <1>3, TruncateGood DEF Prefix

\* Every action keeps the chain good until a try body is escaped from.
LEMMA ChainStep ==
  ASSUME TypeInv, ChainInv, [Next]_vars
  PROVE  ChainInv'
  <1> USE DEF hist
  <1>0. ctl \in Seq(Entry)
    BY DEF TypeInv, TypeOK
  \* Each action in turn, from a good chain
  <1>1. ASSUME phase = "running", ~escaped, NEW f \in Funs, Call(f)
        PROVE  ChainInv'
    <2>1. Good(ctl, hc_try_top, frames)
      BY <1>1 DEF ChainInv
    <2> DEFINE e == CallEntry(f, Depth + 1)
    <2>2. e \in Entry /\ e.k = "call" /\ e.d = Depth + 1 /\ Depth \in Nat
      BY <1>1, TopType, EntryTypes
    <2>3. ctl' = Append(ctl, e)
      BY <1>1 DEF Call
    <2> HIDE DEF e
    <2>4. \A i \in 1..Len(ctl) : ctl[i].d <= e.d /\ (e.k = "call" => ctl[i].d < e.d)
      <3>1. ASSUME NEW i \in 1..Len(ctl)
            PROVE  ctl[i].d \in Nat
        <4>1. ctl[i] \in Entry
          BY <1>0, <3>1
        <4>. QED
          BY <4>1 DEF Entry
      <3>2. ASSUME NEW i \in 1..Len(ctl)
            PROVE  ctl[i].d <= Depth
        <4>1. CASE i = Len(ctl)
          BY <2>2, <4>1 DEF Depth, Top
        <4>2. CASE i < Len(ctl)
          BY <1>0, <1>1, <2>1, <4>2, TopType DEF Good, Ordered, Depth, Top
        <4>. QED
          BY <1>0, <4>1, <4>2
      <3>. QED
        BY <2>2, <3>1, <3>2
    <2>5. Good(ctl', hc_try_top, frames)
      BY <1>0, <2>1, <2>2, <2>3, <2>4, PushOtherGood
    <2>. QED
      BY <1>1, <2>5 DEF Call, ChainInv, CleanHandoff, NoDeadJump
  <1>2. ASSUME phase = "running", ~escaped, Return
        PROVE  ChainInv'
    <2>1. Good(ctl, hc_try_top, frames)
      BY <1>2 DEF ChainInv
    <2>2. PICK c \in 1..Len(ctl) :
            /\ ctl[c].k = "call"
            /\ ctl' = Prefix(c - 1)
            /\ frames' = [a \in {b \in DOMAIN frames : b[1] < ctl[c].d} |-> frames[a]]
            /\ phase' = IF c = 1 THEN "done" ELSE phase
            /\ escaped' = (escaped \/ \E j \in {j \in 1..Len(ctl) : j > c} :
                                        ctl[j].k = "try")
            /\ hc_try_top' = hc_try_top
      BY <1>2 DEF Return
    <2>3. CASE escaped'
      BY <1>2, <2>2, <2>3 DEF ChainInv, CleanHandoff, NoDeadJump
    <2>4. CASE ~escaped'
      <3>1. \A j \in 1..Len(ctl) : j > c => ctl[j].k # "try"
        BY <2>2, <2>4
      <3>2. \A j \in 1..Len(ctl) : j >= c => ctl[j].k # "try"
        BY <1>0, <2>2, <3>1
      <3>3. CASE c = 1
        <4>1. hc_try_top = NULL
          BY <1>0, <2>1, <3>2, <3>3 DEF Good, Chained, TopIs
        <4>. QED
          BY <2>2, <3>3, <4>1 DEF ChainInv, CleanHandoff, NoDeadJump
      <3>4. CASE c # 1
        <4>1. c - 1 \in 1..Len(ctl)
          BY <1>0, <3>4
        <4>2. TopIs(ctl, c - 1, hc_try_top)
          BY <1>0, <2>1, <3>2, <4>1 DEF Good, Chained, TopIs
        <4>3. \A i \in 1..(c - 1) : ctl[i].k = "try" =>
                /\ FrameOf(ctl[i]) \in DOMAIN frames'
                /\ frames'[FrameOf(ctl[i])] = frames[FrameOf(ctl[i])]
          <5>1. ASSUME NEW i \in 1..(c - 1), ctl[i].k = "try"
                PROVE  FrameOf(ctl[i]) \in DOMAIN frames /\ FrameOf(ctl[i])[1] < ctl[c].d
            <6>1. i \in 1..Len(ctl) /\ i < c
              BY <1>0
            <6>2. Linked(ctl, i, frames)
              BY <2>1, <5>1, <6>1 DEF Good, Chained
            <6>3. ctl[i].d < ctl[c].d
              BY <2>1, <2>2, <6>1 DEF Good, Ordered
            <6>. QED
              BY <6>2, <6>3 DEF Linked, FrameOf
          <5>. QED
            BY <2>2, <5>1
        <4>4. Good(ctl', hc_try_top', frames')
          BY <1>0, <2>1, <2>2, <4>1, <4>2, <4>3, TruncateGood DEF Prefix
        <4>. QED
          BY <1>2, <2>2, <3>4, <4>4 DEF ChainInv, CleanHandoff, NoDeadJump
      <3>. QED
        BY <3>3, <3>4
    <2>. QED
      BY <2>3, <2>4
  <1>3. ASSUME phase = "running", ~escaped, NEW t \in Tries, TryEnter(t)
        PROVE  ChainInv'
    <2>1. Good(ctl, hc_try_top, frames)
      BY <1>3 DEF ChainInv
    <2> DEFINE e == TryEntry(t, Depth)
    <2>2. e \in Entry /\ e.k = "try" /\ e.d = Depth /\ FrameOf(e) = <<Depth, t>>
      BY <1>3, TopType, EntryTypes
    <2>3. \A i \in 1..Len(ctl) : ctl[i].d <= Depth
      BY <1>0, <1>3, <2>1, TopType DEF Good, Ordered, Depth, Top, Entry
    <2>4. \A i \in 1..Len(ctl) : ctl[i].k = "try" => FrameOf(ctl[i]) # <<Depth, t>>
      BY <1>3 DEF TryEnter, FrameOf
    <2>5. /\ DOMAIN frames' = DOMAIN frames \cup {<<Depth, t>>}
          /\ frames'[<<Depth, t>>] = [prev |-> hc_try_top, jb |-> ctl]
          /\ \A a \in DOMAIN frames : a # <<Depth, t>> => frames'[a] = frames[a]
          /\ hc_try_top' = <<Depth, t>> /\ ctl' = Append(ctl, e)
      BY <1>3 DEF TryEnter, HC_TryPush
    <2> HIDE DEF e
    <2>6. Good(ctl', hc_try_top', frames')
      BY <1>0, <2>1, <2>2, <2>3, <2>4, <2>5, PushTryGood
    <2>. QED
      BY <1>3, <2>6 DEF TryEnter, ChainInv, CleanHandoff, NoDeadJump
  <1>4. ASSUME phase = "running", ~escaped, TryEnd
        PROVE  ChainInv'
    <2>1. Good(ctl, hc_try_top, frames)
      BY <1>4 DEF ChainInv
    <2>2. Len(ctl) - 1 \in 1..Len(ctl) /\ ctl[Len(ctl)].k = "try" /\ Len(ctl) \in Nat
      BY <1>4, TopType DEF TryEnd, Top
    <2>3. PICK i \in 2..Len(ctl) :
            /\ ctl[i].k = "try" /\ hc_try_top \in DOMAIN frames
            /\ \A j \in 1..Len(ctl) : j > i => ctl[j].k # "try"
            /\ TopIs(ctl, i - 1, frames[hc_try_top].prev)
      BY <1>0, <2>1, <2>2, HeadOfGood
    <2>4. i = Len(ctl)
      BY <2>2, <2>3
    <2>5. hc_try_top # NULL
      BY <2>3, NullAssumption DEF TypeInv, TypeOK, Addr
    <2>6. /\ hc_try_top' = frames[hc_try_top].prev /\ phase' = phase /\ frames' = frames
          /\ ctl' = Prefix(Len(ctl) - 1) /\ escaped' = escaped
      BY <1>4, <2>3, <2>5 DEF TryEnd, HC_TryPop
    <2>7. \A j \in 1..(Len(ctl) - 1) : ctl[j].k = "try" => FrameOf(ctl[j]) \in DOMAIN frames
      BY <2>1, <2>2 DEF Good, Chained, Linked
    <2>8. Good(ctl', hc_try_top', frames')
      BY <1>0, <2>1, <2>2, <2>3, <2>4, <2>6, <2>7, TruncateGood DEF Prefix
    <2>. QED
      BY <1>4, <2>6, <2>8 DEF ChainInv, CleanHandoff, NoDeadJump
  <1>5. ASSUME phase = "running", ~escaped, NEW ch \in Nat, HC_Throw(ch),
               escaped' = escaped
        PROVE  ChainInv'
    BY <1>5, ThrowGood DEF ChainInv, CleanHandoff, NoDeadJump
  <1>6. ASSUME phase = "running", ~escaped, Claim
        PROVE  ChainInv'
    BY <1>6 DEF Claim, ChainInv, CleanHandoff, NoDeadJump
  <1>7. ASSUME phase = "running", ~escaped, Top.k = "catch",
               ctl' = Prefix(Len(ctl) - 1),
               UNCHANGED <<phase, hc_try_top, frames, escaped>>
        PROVE  ChainInv'
    BY <1>7, DropOtherGood DEF ChainInv, CleanHandoff, NoDeadJump
  <1>8. ASSUME phase = "running", ~escaped, CatchEnd
        PROVE  ChainInv'
    <2>1. Fs.except_ch \in Nat
      BY DEF TypeInv, TypeOK
    <2>. QED
      BY <1>5, <1>7, <1>8, <2>1 DEF CatchEnd, HC_CatchDone
  <1>9. ASSUME StartProgram, ~escaped
        PROVE  ChainInv'
    <2>1. hc_try_top = NULL
      BY <1>9 DEF ChainInv, CleanHandoff, StartProgram
    <2>2. ctl' = <<CallEntry(Startup, 1)>> /\ CallEntry(Startup, 1).k = "call"
      BY <1>9, EntryTypes, FunsAssumption DEF StartProgram
    <2>3. Len(ctl') = 1 /\ ctl'[1].k = "call"
      BY <2>2
    <2>4. Good(ctl', NULL, frames)
      BY <2>3 DEF Good, Rooted, Ordered, Distinct, Chained, TopIs
    <2>. QED
      BY <1>9, <2>1, <2>4 DEF StartProgram, ChainInv, CleanHandoff, NoDeadJump
  <1>10. CASE UNCHANGED vars
    BY <1>10 DEF vars, ChainInv, CleanHandoff, NoDeadJump
  \* Nothing is said once a try body has been escaped from
  <1>11. ASSUME escaped'
         PROVE  ChainInv'
    BY <1>11 DEF ChainInv, CleanHandoff, NoDeadJump
  <1>12. ASSUME escaped, Next
         PROVE  escaped'
    BY <1>12 DEF Next, Running, Call, Return, TryEnter, TryEnd, LeaveTry, Throw, Claim,
                 CatchEnd, LeaveCatch, StartProgram, Finished, vars
  <1>13. ASSUME ~escaped, Next
         PROVE  ChainInv'
    <2>1. ASSUME phase = "running", NEW ch \in Chars, Throw(ch)
          PROVE  ChainInv'
      BY <1>5, <1>13, <2>1, CharsAssumption DEF Throw
    <2>2. ASSUME phase = "running", LeaveCatch
          PROVE  ChainInv'
      BY <1>7, <1>13, <2>2 DEF LeaveCatch
    <2>3. ASSUME LeaveTry
          PROVE  ChainInv'
      BY <1>11, <2>3 DEF LeaveTry
    <2>. QED
      BY <1>1, <1>2, <1>3, <1>4, <1>6, <1>8, <1>9, <1>10, <1>13, <2>1, <2>2, <2>3
      DEF Next, Running, Finished
  <1>. QED
    BY <1>10, <1>11, <1>12, <1>13

\* The chain is good, and empty, when the first program starts.
LEMMA ChainInit ==
  ASSUME Init
  PROVE  ChainInv
  <1>1. ctl = <<CallEntry(Startup, 1)>> /\ CallEntry(Startup, 1).k = "call"
    BY EntryTypes, FunsAssumption DEF Init
  <1>2. Len(ctl) = 1 /\ ctl[1].k = "call"
    BY <1>1
  <1>3. Good(ctl, NULL, frames)
    BY <1>2 DEF Good, Rooted, Ordered, Distinct, Chained, TopIs
  <1>. QED
    BY <1>3 DEF Init, ChainInv, CleanHandoff, NoDeadJump

IInv == TypeInv /\ ChainInv

\* The inductive invariant: types, and the chain mirrors the nesting.
LEMMA Inductive == Spec => []IInv
  <1>1. Init => IInv
    BY TypeInit, ChainInit DEF IInv
  <1>2. IInv /\ [Next]_vars => IInv'
    BY TypeStep, ChainStep DEF IInv
  <1>. QED
    BY <1>1, <1>2, PTL DEF Spec

\* HC_TryPush, HC_TryPop and HC_Throw keep the frame chain equal to the nesting
\* of open try bodies in every program that never breaks, jumps or returns out
\* of a try body, and up to the first time in the others.
THEOREM ChainCorrect == Spec => []ChainMirrorsNesting
  <1>1. IInv => ChainMirrorsNesting
    BY DEF IInv, ChainInv, ChainMirrorsNesting, Good
  <1>. QED
    BY <1>1, Inductive, PTL

\* No longjmp to, and no read of, a frame of a function that has returned.
THEOREM NoDeadJumpEver == Spec => []NoDeadJump
  <1>1. IInv => NoDeadJump
    BY DEF IInv, ChainInv
  <1>. QED
    BY <1>1, Inductive, PTL

\* An #exe{} snippet that ends normally leaves no handler to the next program.
THEOREM HandoffIsClean == Spec => []CleanHandoff
  <1>1. IInv => CleanHandoff
    BY DEF IInv, ChainInv
  <1>. QED
    BY <1>1, Inductive, PTL
-----------------------------------------------------------------------------
(* The claim of a handler *)

\* The innermost handler being executed is one that claimed its exception.
Handled(c, S) ==
  \E m \in 1..Len(c) :
    /\ c[m].k = "catch" /\ m \in S
    /\ \A j \in 1..Len(c) : j > m => c[j].k # "catch"

\* The flag catch_except is one word for all the handlers that are open: while
\* no catch body is left early it is set only for the innermost of them, and it
\* is not set when the next program of the process starts.
ClaimInv ==
  /\ phase = "running" /\ ~left /\ Fs.catch_except => Handled(ctl, claimed)
  /\ phase = "done" /\ ~left => ~Fs.catch_except

\* A call or a try body inside a handler leaves the handler the innermost one.
LEMMA PushKeepsHandled ==
  ASSUME NEW c \in Seq(Entry), NEW e \in Entry, e.k # "catch", NEW S, Handled(c, S)
  PROVE  Handled(Append(c, e), S)
  <1>1. PICK m \in 1..Len(c) : /\ c[m].k = "catch" /\ m \in S
                               /\ \A j \in 1..Len(c) : j > m => c[j].k # "catch"
    BY DEF Handled
  <1> DEFINE b == Append(c, e)
  <1>2. /\ Len(b) = Len(c) + 1 /\ b[Len(c) + 1] = e
        /\ \A j \in 1..Len(c) : b[j] = c[j]
    BY AppendFacts
  <1> HIDE DEF b
  <1>3. Len(c) \in Nat
    OBVIOUS
  <1>4. \A j \in 1..Len(b) : j > m => b[j].k # "catch"
    BY <1>1, <1>2, <1>3
  <1>5. m \in 1..Len(b) /\ b[m] = c[m]
    BY <1>2, <1>3
  <1>6. Handled(b, S)
    BY <1>1, <1>4, <1>5 DEF Handled
  <1>. QED
    BY <1>6 DEF b

\* So does leaving what is open inside it, when that holds no other handler.
LEMMA CutKeepsHandled ==
  ASSUME NEW c \in Seq(Entry), NEW n \in 0..Len(c), NEW S, NEW T,
         \A j \in 1..Len(c) : j > n => c[j].k # "catch",
         \A i \in S : i <= n => i \in T, Handled(c, S)
  PROVE  Handled(SubSeq(c, 1, n), T)
  <1>1. PICK m \in 1..Len(c) : /\ c[m].k = "catch" /\ m \in S
                               /\ \A j \in 1..Len(c) : j > m => c[j].k # "catch"
    BY DEF Handled
  <1> DEFINE b == SubSeq(c, 1, n)
  <1>2. Len(b) = n /\ \A j \in 1..n : b[j] = c[j]
    BY PrefixFacts
  <1> HIDE DEF b
  <1>3. Len(c) \in Nat /\ n \in Nat
    OBVIOUS
  <1>4. m <= n
    BY <1>1, <1>3
  <1>5. \A j \in 1..Len(b) : j > m => b[j].k # "catch"
    BY <1>1, <1>2, <1>3
  <1>6. m \in 1..Len(b) /\ b[m] = c[m] /\ m \in T
    BY <1>1, <1>2, <1>3, <1>4
  <1>7. Handled(b, T)
    BY <1>1, <1>5, <1>6 DEF Handled
  <1>. QED
    BY <1>7 DEF b

\* HC_Throw ends the program or enters a handler with no claim in it.
LEMMA ThrowClears ==
  ASSUME NEW ch, phase = "running", HC_Throw(ch)
  PROVE  phase' # "done" /\ (phase' = "running" => ~Fs'.catch_except)
  BY DEF HC_Throw, LongJmp, HC_CatchEnter

\* Each action in turn.
LEMMA ClaimStep ==
  ASSUME TypeInv, ClaimInv, [Next]_vars
  PROVE  ClaimInv'
  <1>0. /\ ctl \in Seq(Entry) /\ Len(ctl) \in Nat
        /\ Fs \in [except_ch : Nat, catch_except : BOOLEAN]
    BY DEF TypeInv, TypeOK
  <1>1. ASSUME phase = "running", NEW f \in Funs, Call(f)
        PROVE  ClaimInv'
    <2>1. CallEntry(f, Depth + 1) \in Entry /\ CallEntry(f, Depth + 1).k # "catch"
      BY <1>1, TopType, EntryTypes
    <2>2. Handled(ctl, claimed) => Handled(ctl', claimed)
      BY <1>0, <1>1, <2>1, PushKeepsHandled DEF Call
    <2>. QED
      BY <1>1, <2>2 DEF Call, ClaimInv, hist
  <1>2. ASSUME phase = "running", Return
        PROVE  ClaimInv'
    <2>1. PICK c \in 1..Len(ctl) :
            /\ \A j \in {j \in 1..Len(ctl) : j > c} :
                 ctl[j].k = "try" \/ ctl[j].k = "catch"
            /\ ctl[c].k = "call"
            /\ ctl' = Prefix(c - 1)
            /\ phase' = IF c = 1 THEN "done" ELSE phase
            /\ claimed' = {i \in claimed : i < c}
            /\ left' = (left \/ \E j \in {j \in 1..Len(ctl) : j > c} : ctl[j].k = "catch")
            /\ Fs' = Fs
      BY <1>2 DEF Return
    <2>2. CASE left'
      BY <2>2 DEF ClaimInv
    <2>3. CASE ~left'
      <3>1. ~left /\ \A j \in 1..Len(ctl) : j > c - 1 => ctl[j].k # "catch"
        <4>1. ~left /\ \A j \in 1..Len(ctl) : j > c => ctl[j].k # "catch"
          BY <2>1, <2>3
        <4>2. \A j \in 1..Len(ctl) : j > c - 1 => j = c \/ j > c
          BY <1>0
        <4>. QED
          BY <2>1, <4>1, <4>2
      <3>2. c - 1 \in 0..Len(ctl) /\ \A i \in claimed : i <= c - 1 => i \in claimed'
        BY <1>0, <2>1 DEF TypeInv, TypeOK
      <3>3. Handled(ctl, claimed) => Handled(ctl', claimed')
        BY <1>0, <2>1, <3>1, <3>2, CutKeepsHandled DEF Prefix
      <3>4. c = 1 => ~Handled(ctl, claimed)
        BY <1>0, <3>1 DEF Handled
      <3>. QED
        BY <1>2, <2>1, <3>1, <3>3, <3>4 DEF ClaimInv
    <2>. QED
      BY <2>2, <2>3
  <1>3. ASSUME phase = "running", NEW t \in Tries, TryEnter(t)
        PROVE  ClaimInv'
    <2>1. TryEntry(t, Depth) \in Entry /\ TryEntry(t, Depth).k # "catch"
      BY <1>3, TopType, EntryTypes
    <2>2. Handled(ctl, claimed) => Handled(ctl', claimed)
      BY <1>0, <1>3, <2>1, PushKeepsHandled DEF TryEnter
    <2>. QED
      BY <1>3, <2>2 DEF TryEnter, ClaimInv, hist
  <1>4. ASSUME phase = "running", TryEnd \/ LeaveTry
        PROVE  ClaimInv'
    <2>1. /\ Top.k = "try" /\ ctl' = Prefix(Len(ctl) - 1)
          /\ Fs' = Fs /\ claimed' = claimed /\ left' = left /\ phase' # "done"
      BY <1>4 DEF TryEnd, LeaveTry, HC_TryPop, hist
    <2>2. /\ Len(ctl) - 1 \in 0..Len(ctl)
          /\ \A j \in 1..Len(ctl) : j > Len(ctl) - 1 => ctl[j].k # "catch"
      BY <1>0, <1>4, <2>1, TopType DEF Top
    <2>3. Handled(ctl, claimed) => Handled(ctl', claimed)
      BY <1>0, <2>1, <2>2, CutKeepsHandled DEF Prefix
    <2>. QED
      BY <1>4, <2>1, <2>3 DEF ClaimInv
  <1>5. ASSUME phase = "running", NEW ch \in Chars, Throw(ch)
        PROVE  ClaimInv'
    BY <1>5, ThrowClears DEF Throw, ClaimInv
  <1>6. ASSUME phase = "running", Claim
        PROVE  ClaimInv'
    <2>1. PICK m \in 1..Len(ctl) :
            /\ ctl[m].k = "catch"
            /\ \A j \in 1..Len(ctl) : j > m => ctl[j].k # "catch"
            /\ claimed' = claimed \cup {m}
      BY <1>6 DEF Claim
    <2>2. ctl' = ctl /\ phase' = "running"
      BY <1>6 DEF Claim
    <2>3. Handled(ctl', claimed')
      BY <2>1, <2>2 DEF Handled
    <2>. QED
      BY <2>2, <2>3 DEF ClaimInv
  <1>7. ASSUME phase = "running", CatchEnd
        PROVE  ClaimInv'
    <2>1. CASE ~Fs.catch_except
      BY <1>7, <2>1, ThrowClears DEF CatchEnd, HC_CatchDone, ClaimInv
    <2>2. CASE Fs.catch_except
      BY <1>0, <1>7, <2>2 DEF CatchEnd, HC_CatchDone, ClaimInv
    <2>. QED
      BY <2>1, <2>2
  <1>8. ASSUME phase = "running", LeaveCatch
        PROVE  ClaimInv'
    BY <1>8 DEF LeaveCatch, ClaimInv
  <1>9. ASSUME StartProgram
        PROVE  ClaimInv'
    BY <1>9 DEF StartProgram, ClaimInv, hist
  <1>10. ASSUME UNCHANGED vars
         PROVE  ClaimInv'
    BY <1>10 DEF vars, ClaimInv
  <1>. QED
    BY <1>1, <1>2, <1>3, <1>4, <1>5, <1>6, <1>7, <1>8, <1>9, <1>10
    DEF Next, Running, Finished

\* A handler that nobody claimed the exception for never ends the search: the
\* execution passes HC_CatchDone only after a claim made by, or for, the very
\* handler that ends, however many try statements ran inside it.
THEOREM SearchStopsOnlyWhenClaimed == Spec => StopsOnlyWhenClaimed
  <1>1. Init => ClaimInv
    BY DEF Init, ClaimInv
  <1>2. IInv /\ ClaimInv /\ [Next]_vars => ClaimInv'
    BY ClaimStep DEF IInv
  <1>3. ASSUME IInv, ClaimInv
        PROVE  phase = "running" /\ CatchEnd /\ ~left /\ Len(ctl) \notin claimed => Rethrow
    <2> SUFFICES ASSUME phase = "running", CatchEnd, ~left, Len(ctl) \notin claimed,
                        Fs.catch_except
                 PROVE  FALSE
      BY DEF Rethrow
    <2>1. Len(ctl) \in Nat /\ Len(ctl) > 0 /\ ctl[Len(ctl)].k = "catch"
      BY <1>3, TopType DEF IInv, CatchEnd, Top
    <2>2. PICK m \in 1..Len(ctl) :
            m \in claimed /\ \A j \in 1..Len(ctl) : j > m => ctl[j].k # "catch"
      BY <1>3 DEF ClaimInv, Handled
    <2>3. m = Len(ctl)
      BY <2>1, <2>2
    <2>. QED
      BY <2>2, <2>3
  <1>. QED
    BY <1>1, <1>2, <1>3, Inductive, PTL DEF Spec, StopsOnlyWhenClaimed
-----------------------------------------------------------------------------
(* The search for a handler *)

\* A throw leaves the constructs around the innermost try body as they were and
\* puts its catch body in its place.
LEMMA LandsInCatch ==
  ASSUME TypeInv, NEW i \in 2..Len(ctl), ctl[i].k = "try", NEW ch \in Nat,
         ctl' = Append(Prefix(i - 1), CatchEntry(ctl[i].x, ctl[i].d))
  PROVE  /\ Len(ctl') = i
         /\ \A j \in 1..(i - 1) : ctl'[j] = ctl[j]
         /\ ctl'[i].k = "catch" /\ ctl'[i].x = ctl[i].x
  <1>1. ctl \in Seq(Entry) /\ i - 1 \in 0..Len(ctl) /\ i \in Nat
    BY DEF TypeInv, TypeOK
  <1>2. /\ Prefix(i - 1) \in Seq(Entry) /\ Len(Prefix(i - 1)) = i - 1
        /\ \A j \in 1..(i - 1) : Prefix(i - 1)[j] = ctl[j]
    BY <1>1, PrefixFacts DEF Prefix
  <1> DEFINE e == CatchEntry(ctl[i].x, ctl[i].d)
             b == Prefix(i - 1)
  <1>3. e.k = "catch" /\ e.x = ctl[i].x
    BY DEF CatchEntry
  <1>4. b \in Seq(Entry \cup {e}) /\ e \in Entry \cup {e}
    BY <1>2
  <1>5. ctl' = Append(b, e)
    OBVIOUS
  <1>6. Len(b) = i - 1 /\ \A j \in 1..(i - 1) : b[j] = ctl[j]
    BY <1>2
  <1> HIDE DEF e, b
  <1>7. /\ Len(ctl') = Len(b) + 1 /\ ctl'[Len(b) + 1] = e
        /\ \A j \in 1..Len(b) : ctl'[j] = b[j]
    BY <1>4, <1>5, AppendFacts
  <1>. QED
    BY <1>1, <1>3, <1>6, <1>7

\* HC_CatchDone's rethrow ends the program or goes to the catch of a try body
\* that encloses the handler, for as long as no try body was escaped from.
THEOREM SearchGoesOutward == Spec => RethrowMovesOutward
  <1>1. ASSUME IInv, [Next]_vars
        PROVE  [~escaped => MovesOutward]_vars
    <2> SUFFICES ASSUME ~escaped, Rethrow
                 PROVE  \/ phase' = "unhandled"
                        \/ LET n == Len(ctl')
                           IN n < Len(ctl) /\ ctl[n].k = "try" /\ ctl'[n].x = ctl[n].x
      BY DEF MovesOutward
    <2>1. /\ TypeInv /\ phase = "running" /\ Good(ctl, hc_try_top, frames)
          /\ Fs.except_ch \in Nat /\ HC_Throw(Fs.except_ch) /\ Top.k = "catch"
      BY <1>1 DEF IInv, ChainInv, TypeInv, TypeOK, Rethrow, CatchEnd, HC_CatchDone
    <2>2. CASE phase' # "unhandled"
      <3>1. PICK i \in 2..Len(ctl) :
              /\ ctl[i].k = "try"
              /\ ctl' = Append(Prefix(i - 1), CatchEntry(ctl[i].x, ctl[i].d))
        BY <2>1, <2>2, ThrowGood
      <3>2. Len(ctl') = i /\ ctl'[i].x = ctl[i].x
        BY <2>1, <3>1, LandsInCatch
      <3>3. ctl[Len(ctl)].k = "catch" /\ Len(ctl) \in Nat
        BY <2>1, TopType DEF Top
      <3>4. i < Len(ctl)
        BY <3>1, <3>3
      <3>. QED
        BY <3>1, <3>2, <3>4
    <2>. QED
      BY <2>2
  <1>. QED
    BY <1>1, Inductive, PTL DEF Spec, RethrowMovesOutward

\* The detailed throw is the abstract one.
LEMMA ThrowRefines ==
  ASSUME IInv, phase = "running", ~escaped, NEW ch \in Nat, HC_Throw(ch),
         escaped' = escaped
  PROVE  Search!Raise
  <1>1. TypeInv /\ Good(ctl, hc_try_top, frames)
    BY DEF IInv, ChainInv
  <1>2. CASE /\ phase' = "unhandled" /\ ctl' = ctl
             /\ \A j \in 1..Len(ctl) : ctl[j].k # "try"
    BY <1>2 DEF Search!Raise
  <1>3. CASE /\ phase' = "running"
             /\ \E i \in 2..Len(ctl) :
                 /\ ctl[i].k = "try"
                 /\ \A j \in 1..Len(ctl) : j > i => ctl[j].k # "try"
                 /\ ctl' = Append(Prefix(i - 1), CatchEntry(ctl[i].x, ctl[i].d))
    <2>1. PICK i \in 2..Len(ctl) :
                 /\ ctl[i].k = "try"
                 /\ \A j \in 1..Len(ctl) : j > i => ctl[j].k # "try"
                 /\ ctl' = Append(Prefix(i - 1), CatchEntry(ctl[i].x, ctl[i].d))
      BY <1>3
    <2>2. /\ Len(ctl') = i
          /\ \A j \in 1..(i - 1) : ctl'[j] = ctl[j]
          /\ ctl'[i].k = "catch" /\ ctl'[i].x = ctl[i].x
      BY <1>1, <2>1, LandsInCatch
    <2>3. i \in 1..Len(ctl) /\ Search!Innermost(i)
      BY <2>1 DEF Search!Innermost
    <2>. QED
      BY <1>3, <2>2, <2>3 DEF Search!Raise
  <1>. QED
    BY <1>1, <1>2, <1>3, ThrowGood

\* Every action is a step of the abstract handler search, or none.
LEMMA StepRefines ==
  ASSUME IInv, [Next]_vars
  PROVE  [Search!Next]_(Search!vars)
  <1> USE DEF hist
  <1>0. TypeInv /\ ctl \in Seq(Entry)
    BY DEF IInv, TypeInv, TypeOK
  <1>1. ASSUME phase = "running", UNCHANGED <<phase, escaped>>,
               NEW e \in Entry, e.k \in {"call", "try"}, ctl' = Append(ctl, e)
        PROVE  Search!Next
    <2>1. /\ Len(ctl') = Len(ctl) + 1 /\ ctl'[Len(ctl) + 1] = e
          /\ \A i \in 1..Len(ctl) : ctl'[i] = ctl[i]
      BY <1>0, <1>1, AppendFacts
    <2>. QED
      BY <1>1, <2>1 DEF Search!Next, Search!Enter
  <1>2. ASSUME phase = "running", NEW f \in Funs, Call(f)
        PROVE  Search!Next
    <2>1. CallEntry(f, Depth + 1) \in Entry /\ CallEntry(f, Depth + 1).k = "call"
      BY <1>0, <1>2, TopType, EntryTypes
    <2>. QED
      BY <1>1, <1>2, <2>1 DEF Call
  <1>3. ASSUME phase = "running", NEW t \in Tries, TryEnter(t)
        PROVE  Search!Next
    <2>1. TryEntry(t, Depth) \in Entry /\ TryEntry(t, Depth).k = "try"
      BY <1>0, <1>3, TopType, EntryTypes
    <2>. QED
      BY <1>1, <1>3, <2>1 DEF TryEnter
  <1>4. ASSUME phase = "running", ctl' = Prefix(Len(ctl) - 1),
               Top.k \in {"try", "catch"}, UNCHANGED <<phase, escaped>>
        PROVE  Search!Next
    <2>1. ctl # <<>>
      BY <1>0, <1>4, TopType
    <2>. QED
      BY <1>4, <2>1 DEF Search!Next, Search!Leave, Prefix, Top
  <1>5. ASSUME phase = "running", Return, ~escaped, ~escaped'
        PROVE  Search!Next
    <2>1. PICK c \in 1..Len(ctl) :
            /\ ctl[c].k = "call"
            /\ \A j \in {j \in 1..Len(ctl) : j > c} : ctl[j].k \in {"try", "catch"}
            /\ ctl' = Prefix(c - 1)
            /\ phase' = IF c = 1 THEN "done" ELSE phase
            /\ escaped' = (escaped \/ \E j \in {j \in 1..Len(ctl) : j > c} :
                                        ctl[j].k = "try")
      BY <1>5 DEF Return
    <2>2. \A j \in 1..Len(ctl) : j > c => ctl[j].k = "catch"
      BY <1>5, <2>1
    <2>3. escaped \in BOOLEAN /\ escaped' \in BOOLEAN
      BY <1>0, <2>1 DEF TypeInv, TypeOK
    <2>4. escaped' = escaped
      BY <1>5, <2>3, Zenon
    <2>5. Search!Return
      BY <2>1, <2>2, <2>4 DEF Search!Return, Prefix
    <2>. QED
      BY <1>5, <2>5 DEF Search!Next
  <1>6. ASSUME phase = "running", ~escaped, TryEnd
        PROVE  Search!Next
    <2>1. ChainInv'
      BY <1>0, ChainStep DEF IInv
    <2>2. phase' = phase /\ escaped' = escaped
      BY <1>6, <2>1 DEF ChainInv, NoDeadJump, TryEnd, HC_TryPop
    <2>. QED
      BY <1>4, <1>6, <2>2 DEF TryEnd
  <1>7. ASSUME phase = "running", ~escaped, NEW ch \in Nat, HC_Throw(ch),
               escaped' = escaped
        PROVE  Search!Next
    BY <1>7, ThrowRefines DEF Search!Next
  <1>8. ASSUME phase = "running", ~escaped, CatchEnd
        PROVE  Search!Next
    <2>1. Fs.except_ch \in Nat
      BY <1>0 DEF TypeInv, TypeOK
    <2>. QED
      BY <1>4, <1>7, <1>8, <2>1 DEF CatchEnd, HC_CatchDone
  <1>9. ASSUME StartProgram
        PROVE  Search!Next
    <2>1. ctl' = <<CallEntry(Startup, 1)>> /\ CallEntry(Startup, 1).k = "call"
      BY <1>9, EntryTypes, FunsAssumption DEF StartProgram
    <2>2. Len(ctl') = 1 /\ ctl'[1].k = "call"
      BY <2>1
    <2>. QED
      BY <1>9, <2>2 DEF StartProgram, Search!Next, Search!Restart
  <1>10. ASSUME UNCHANGED <<phase, ctl, escaped>>
         PROVE  UNCHANGED Search!vars
    BY <1>10 DEF Search!vars
  <1>11. ASSUME escaped' = TRUE
         PROVE  Search!Next
    BY <1>11 DEF Search!Next, Search!Escape
  <1>12. ASSUME escaped, Next
         PROVE  Search!Next
    BY <1>11, <1>12 DEF Next, Running, Call, Return, TryEnter, TryEnd, LeaveTry, Throw,
                        Claim, CatchEnd, LeaveCatch, StartProgram, Finished, vars
  <1>13. ASSUME ~escaped, Next
         PROVE  [Search!Next]_(Search!vars)
    <2>1. ASSUME phase = "running", NEW ch \in Chars, Throw(ch)
          PROVE  Search!Next
      BY <1>7, <1>13, <2>1, CharsAssumption DEF Throw
    <2>2. ASSUME phase = "running", LeaveCatch
          PROVE  Search!Next
      BY <1>4, <2>2 DEF LeaveCatch
    <2>3. ASSUME LeaveTry
          PROVE  Search!Next
      BY <1>11, <2>3 DEF LeaveTry
    <2>4. ASSUME Claim
          PROVE  UNCHANGED Search!vars
      BY <1>10, <2>4 DEF Claim
    <2>5. ASSUME Finished
          PROVE  UNCHANGED Search!vars
      BY <1>10, <2>5 DEF Finished, vars
    <2>6. ASSUME phase = "running", Return
          PROVE  Search!Next
      <3>1. escaped' \in BOOLEAN
        BY <2>6 DEF Return
      <3>. QED
        BY <1>5, <1>11, <1>13, <2>6, <3>1
    <2>. QED
      BY <1>2, <1>3, <1>6, <1>8, <1>9, <1>13, <2>1, <2>2, <2>3, <2>4, <2>5, <2>6
      DEF Next, Running
  <1>. QED
    BY <1>10, <1>12, <1>13 DEF vars

\* The frame chain, the jump buffers and HC_CatchDone implement the search
\* through the nest of open try bodies that HandlerSearch specifies.
THEOREM Refinement == Spec => ImplementsHandlerSearch
  <1>1. Init => Search!Init
    <2> SUFFICES ASSUME Init PROVE Search!Init
      OBVIOUS
    <2>1. ctl = <<CallEntry(Startup, 1)>> /\ CallEntry(Startup, 1).k = "call"
      BY EntryTypes, FunsAssumption DEF Init
    <2>2. Len(ctl) = 1 /\ ctl[1].k = "call"
      BY <2>1
    <2>. QED
      BY <2>2 DEF Init, Search!Init
  <1>2. IInv /\ [Next]_vars => [Search!Next]_(Search!vars)
    BY StepRefines
  <1>. QED
    BY <1>1, <1>2, Inductive, PTL DEF Spec, ImplementsHandlerSearch, Search!Spec
=============================================================================
