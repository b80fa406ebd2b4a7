---------------------------- MODULE RuntimeProofs ----------------------------
(***************************************************************************)
(* For every program and every heap: no call of the runtime loses a block  *)
(* or gives one back twice.                                                *)
(***************************************************************************)
EXTENDS Runtime, SeqLemmas, TLAPS

Fields == {"st", "size", "magic", "text"}
IsBlock(r) == r = [f \in Fields |-> r[f]]

\* h is a heap: every block has its four fields.
IsHeap(h) ==
  /\ h = [b \in Blocks |-> h[b]]
  /\ \A b \in Blocks : /\ IsBlock(h[b])
                       /\ h[b].st \in {"free", "mem", "c"}
                       /\ h[b].magic \in BOOLEAN

MemBlocks(h) == {b \in Blocks : h[b].st = "mem"}
CBlocks(h)   == {b \in Blocks : h[b].st = "c"}

\* The magic word is in the blocks of HC_MAlloc that are in use, and in no other.
Sealed(h) == \A b \in Blocks : h[b].magic <=> h[b].st = "mem"

\* h is a heap in which HC_MAlloc's blocks in use are M and malloc's own C.
Heap(h, M, C) == IsHeap(h) /\ Sealed(h) /\ MemBlocks(h) = M /\ CBlocks(h) = C

-----------------------------------------------------------------------------
\* malloc takes a free block.
LEMMA TakeableIsFree ==
  ASSUME NEW h
  PROVE  Takeable(h) \subseteq FreeBlocks(h) /\ FreeBlocks(h) \subseteq Blocks
<1>1. FreeBlocks(h) \subseteq Blocks
  BY DEF FreeBlocks
<1> DEFINE fresh == FreeBlocks(h) \ Range(vars)
<1>2. ASSUME fresh # {} PROVE Min(fresh) \in fresh
  <2>1. fresh \subseteq Nat
    BY <1>1, RuntimeAssumption
  <2> HIDE DEF fresh
  <2>2. \E x \in fresh : \A y \in fresh : x <= y
    BY <1>2, <2>1, LeastNumber
  <2> QED
    BY <2>2 DEF Min
<1> QED
  BY <1>1, <1>2 DEF Takeable

\* A free block belongs to nobody.
LEMMA FreeIsNobodys ==
  ASSUME NEW h, NEW M, NEW C, Heap(h, M, C)
  PROVE  FreeBlocks(h) \cap (M \cup C) = {} /\ M \subseteq Blocks /\ C \subseteq Blocks /\ M \cap C = {}
  BY DEF Heap, FreeBlocks, MemBlocks, CBlocks

\* Block b becomes r, whose magic word fits its state.
LEMMA BlockChanged ==
  ASSUME NEW h, NEW M, NEW C, Heap(h, M, C), NEW b \in Blocks, NEW r, IsBlock(r),
         r.st \in {"free", "mem", "c"}, r.magic \in BOOLEAN, r.magic <=> r.st = "mem"
  PROVE  Heap([h EXCEPT ![b] = r], IF r.st = "mem" THEN M \cup {b} ELSE M \ {b},
                                   IF r.st = "c" THEN C \cup {b} ELSE C \ {b})
<1> DEFINE g == [h EXCEPT ![b] = r]
<1>1. IsHeap(h) /\ Sealed(h) /\ M = MemBlocks(h) /\ C = CBlocks(h)
  BY DEF Heap
<1>2. g = [c \in Blocks |-> IF c = b THEN r ELSE h[c]]
  BY <1>1 DEF IsHeap
<1> HIDE DEF g
<1>3. g[b] = r /\ \A c \in Blocks : c # b => g[c] = h[c]
  BY <1>2
<1>4. g = [c \in Blocks |-> g[c]]
  BY <1>2
<1>5. IsHeap(g)
  BY <1>1, <1>3, <1>4 DEF IsHeap
<1>6. Sealed(g)
  BY <1>1, <1>3 DEF Sealed
<1>7. MemBlocks(g) = IF r.st = "mem" THEN M \cup {b} ELSE M \ {b}
  BY <1>1, <1>3 DEF MemBlocks
<1>8. CBlocks(g) = IF r.st = "c" THEN C \cup {b} ELSE C \ {b}
  BY <1>1, <1>3 DEF CBlocks
<1>9. Heap(g, IF r.st = "mem" THEN M \cup {b} ELSE M \ {b}, IF r.st = "c" THEN C \cup {b} ELSE C \ {b})
  BY <1>5, <1>6, <1>7, <1>8 DEF Heap
<1> QED
  BY <1>9 DEF g

\* What a heap says of one block.
LEMMA HeapBlock ==
  ASSUME NEW h, NEW M, NEW C, Heap(h, M, C), NEW b \in Blocks
  PROVE  /\ DOMAIN h = Blocks /\ IsBlock(h[b])
         /\ h[b].st \in {"free", "mem", "c"} /\ h[b].magic \in BOOLEAN
         /\ h[b].magic <=> h[b].st = "mem"
         /\ b \in M <=> h[b].st = "mem"
         /\ b \in C <=> h[b].st = "c"
  BY DEF Heap, IsHeap, Sealed, MemBlocks, CBlocks

\* An update of fields makes a block.
Renew(r, s, n, t) == [r EXCEPT !.st = s, !.size = n, !.text = t]

LEMMA Renewed ==
  ASSUME NEW r, IsBlock(r), NEW s, NEW n, NEW t, NEW q, q = Renew(r, s, n, t)
  PROVE  IsBlock(q) /\ q.st = s /\ q.magic = r.magic
<1>1. q = [f \in Fields |-> IF f = "text" THEN t ELSE IF f = "size" THEN n ELSE IF f = "st" THEN s ELSE r[f]]
  BY DEF IsBlock, Fields, Renew
<1> QED
  BY <1>1 DEF IsBlock, Fields

LEMMA Marked ==
  ASSUME NEW r, IsBlock(r), NEW m, NEW q, q = [r EXCEPT !.magic = m]
  PROVE  IsBlock(q) /\ q.st = r.st /\ q.magic = m
<1>1. q = [f \in Fields |-> IF f = "magic" THEN m ELSE r[f]]
  BY DEF IsBlock, Fields
<1> QED
  BY <1>1 DEF IsBlock, Fields

LEMMA Overwritten ==
  ASSUME NEW r, IsBlock(r), NEW t, NEW q, q = [r EXCEPT !.text = t]
  PROVE  IsBlock(q) /\ q.st = r.st /\ q.magic = r.magic
<1>1. q = [f \in Fields |-> IF f = "text" THEN t ELSE r[f]]
  BY DEF IsBlock, Fields
<1> QED
  BY <1>1 DEF IsBlock, Fields

\* malloc and realloc hand out a block that HC_MAlloc does not have.
LEMMA GiveFacts ==
  ASSUME NEW h, NEW M, NEW C, Heap(h, M, C), NEW b \in Blocks, b \notin M, NEW n, NEW t
  PROVE  Heap(Give(h, b, "c", n, t), M, C \cup {b})
<1>0. PICK r : r = Renew(h[b], "c", n, t)
  OBVIOUS
<1>1. Give(h, b, "c", n, t) = [h EXCEPT ![b] = r]
  BY <1>0, HeapBlock DEF Give, Renew
<1>2. h[b].magic \in BOOLEAN /\ ~h[b].magic /\ IsBlock(h[b])
  BY HeapBlock
<1>3. IsBlock(r) /\ r.st = "c" /\ r.magic = h[b].magic
  BY <1>0, <1>2, Renewed
<1>4. Heap([h EXCEPT ![b] = r], M \ {b}, C \cup {b})
  BY <1>2, <1>3, BlockChanged
<1>5. M \ {b} = M
  OBVIOUS
<1> QED
  BY <1>1, <1>4, <1>5

\* HC_MAlloc.
LEMMA MAllocFacts ==
  ASSUME NEW h, NEW M, NEW C, Heap(h, M, C), NEW b \in Blocks, NEW n, NEW t
  PROVE  Heap(MAllocAt(h, b, n, t), M \cup {b}, C \ {b})
<1>0. PICK q : q = Renew(h[b], "mem", Clamped(n), t)
  OBVIOUS
<1> DEFINE r == [q EXCEPT !.magic = TRUE]
           g == Give(h, b, "mem", Clamped(n), t)
<1>1. DOMAIN h = Blocks /\ IsBlock(h[b])
  BY HeapBlock
<1>2. g = [h EXCEPT ![b] = q]
  BY <1>0, <1>1 DEF Give, Renew
<1>3. IsBlock(q) /\ q.st = "mem"
  BY <1>0, <1>1, Renewed
<1>4. IsBlock(r) /\ r.st = "mem" /\ r.magic = TRUE
  BY <1>3, Marked, Zenon
<1> HIDE DEF g
<1>5. DOMAIN g = Blocks /\ g[b] = q
  BY <1>1, <1>2
<1>6. [g EXCEPT ![b].magic = TRUE] = [g EXCEPT ![b] = r]
  BY <1>5
<1> HIDE DEF r
<1>7. [g EXCEPT ![b] = r] = [h EXCEPT ![b] = r]
  BY <1>1, <1>2
<1>8. Heap([h EXCEPT ![b] = r], M \cup {b}, C \ {b})
  BY <1>4, BlockChanged
<1> QED
  BY <1>6, <1>7, <1>8 DEF MAllocAt, g

\* free() of a buffer, or of NULL.
LEMMA GiveBackFacts ==
  ASSUME NEW h, NEW M, NEW C, Heap(h, M, C), NEW b \in Blocks \cup {Nil}, b \notin M
  PROVE  Heap(GiveBack(h, b), M, C \ {b})
<1>1. CASE b = Nil
  <2>1. b \notin Blocks
    BY <1>1, RuntimeAssumption DEF Nil
  <2>2. C \ {b} = C
    BY <2>1 DEF Heap, CBlocks
  <2> QED
    BY <1>1, <2>2 DEF GiveBack
<1>2. CASE b # Nil
  <2>0. PICK r : r = Renew(h[b], "free", 0, Garbage)
    OBVIOUS
  <2>1. b \in Blocks
    BY <1>2
  <2>2. GiveBack(h, b) = [h EXCEPT ![b] = r]
    BY <1>2, <2>0, <2>1, HeapBlock DEF GiveBack, Renew
  <2>3. h[b].magic \in BOOLEAN /\ ~h[b].magic /\ IsBlock(h[b])
    BY <2>1, HeapBlock
  <2>4. IsBlock(r) /\ r.st = "free" /\ r.magic = h[b].magic
    BY <2>0, <2>3, Renewed
  <2>5. Heap([h EXCEPT ![b] = r], M \ {b}, C \ {b})
    BY <2>1, <2>3, <2>4, BlockChanged
  <2>6. M \ {b} = M
    OBVIOUS
  <2> QED
    BY <2>2, <2>5, <2>6
<1> QED
  BY <1>1, <1>2

\* HC_Free of a block: the magic word goes before the block does.
LEMMA FreeFacts ==
  ASSUME NEW h, NEW M, NEW C, Heap(h, M, C), NEW b \in Blocks
  PROVE  Heap(FreeAt(h, b), M \ {b}, C \ {b})
<1> DEFINE q == [h[b] EXCEPT !.magic = FALSE]
           g == [h EXCEPT ![b].magic = FALSE]
<1>1. DOMAIN h = Blocks /\ IsBlock(h[b]) /\ b # Nil
  BY HeapBlock, RuntimeAssumption DEF Nil
<1>2. g = [h EXCEPT ![b] = q]
  BY <1>1
<1>3. IsBlock(q) /\ q.magic = FALSE
  BY <1>1, Marked, Zenon
<1> HIDE DEF q
<1>0. PICK r : r = Renew(q, "free", 0, Garbage)
  OBVIOUS
<1>4. IsBlock(r) /\ r.st = "free" /\ r.magic = FALSE
  BY <1>0, <1>3, Renewed
<1> HIDE DEF g
<1>5. DOMAIN g = Blocks /\ g[b] = q
  BY <1>1, <1>2
<1>6. GiveBack(g, b) = [g EXCEPT ![b] = r]
  BY <1>0, <1>1, <1>5 DEF GiveBack, Renew
<1>7. [g EXCEPT ![b] = r] = [h EXCEPT ![b] = r]
  BY <1>1, <1>2
<1>8. Heap([h EXCEPT ![b] = r], M \ {b}, C \ {b})
  BY <1>4, BlockChanged
<1> QED
  BY <1>6, <1>7, <1>8 DEF FreeAt, g

\* Writing into a block.
LEMMA WriteFacts ==
  ASSUME NEW h, NEW M, NEW C, Heap(h, M, C), NEW b \in Blocks, NEW t
  PROVE  Heap([h EXCEPT ![b].text = t], M, C)
<1> DEFINE r == [h[b] EXCEPT !.text = t]
<1>1. /\ DOMAIN h = Blocks /\ IsBlock(h[b])
      /\ h[b].st \in {"free", "mem", "c"} /\ h[b].magic \in BOOLEAN
      /\ h[b].magic <=> h[b].st = "mem"
      /\ b \in M <=> h[b].st = "mem"
      /\ b \in C <=> h[b].st = "c"
  BY HeapBlock
<1>2. [h EXCEPT ![b].text = t] = [h EXCEPT ![b] = r]
  BY <1>1
<1>3. IsBlock(r) /\ r.st = h[b].st /\ r.magic = h[b].magic
  BY <1>1, Overwritten, Zenon
<1> HIDE DEF r
<1>4. Heap([h EXCEPT ![b] = r], IF r.st = "mem" THEN M \cup {b} ELSE M \ {b},
                                IF r.st = "c" THEN C \cup {b} ELSE C \ {b})
  BY <1>1, <1>3, BlockChanged
<1>5. (IF r.st = "mem" THEN M \cup {b} ELSE M \ {b}) = M
  BY <1>1, <1>3
<1>6. (IF r.st = "c" THEN C \cup {b} ELSE C \ {b}) = C
  BY <1>1, <1>3
<1> QED
  BY <1>2, <1>4, <1>5, <1>6

-----------------------------------------------------------------------------
(* The inductive invariant *)

CallFields == {"fn", "pc", "dst", "slot", "fmt", "args", "p", "ai", "shown", "tmp", "n", "want"}
IsCall(c) == c = [f \in CallFields |-> c[f]]

FormatFns == {"Print", "StrPrint", "CatPrint", "StrPrintJoin", "MStrPrint", "StreamPrint"}
InputFns  == {"GetStr", "GetI64", "GetF64", "YorN"}

\* The buffers in use; no block is two of them.
Buffers == {out.buf, hc_stream.buf, sub.buf} \ {Nil}
Apart == /\ out.buf \in {hc_stream.buf, sub.buf} => out.buf = Nil
         /\ sub.buf = hc_stream.buf => sub.buf = Nil

\* Where a call of the Print family may be.
FormatPcs == {"format", "sub", "drop", "return"}

\* What the call under way is, and what it works on.
CallOK ==
  /\ IsCall(call) /\ call.pc \in {"idle", "getline", "line", "read"} \cup FormatPcs
  /\ call.pc \notin FormatPcs => out.buf = Nil
  /\ call.pc \notin {"sub", "drop"} => sub.buf = Nil
  /\ call.pc \in FormatPcs =>
       /\ call.fn \in FormatFns /\ call.slot \in Slots /\ call.dst \in owned \cup {Nil}
       /\ call.fn = "Print" => out.buf = Nil
       /\ call.fn = "StreamPrint" => hc_stream.buf = Nil
  /\ call.pc \in {"getline", "line"} => call.fn \in InputFns /\ call.slot \in Slots
  /\ call.pc = "read" => call.fn = "FileRead" /\ call.slot \in Slots

\* Every block in use is somebody's: the program's, the call's, or a buffer's.
Books ==
  /\ CallOK
  /\ vars \in [Slots -> Blocks \cup {Nil}]
  /\ Heap(heap, owned \cup Held, Buffers)
  /\ owned \cap Held = {}
  /\ Apart

IInv == FreesOnce /\ (status = "running" => Books)

-----------------------------------------------------------------------------
\* The fields of results and calls that the invariant looks at.
LEMMA ReturnedFacts ==
  ASSUME NEW f, NEW g, NEW w
  PROVE  Returned(f, g, w).fn = f /\ Returned(f, g, w).got = g /\ Returned(f, g, w).want = w
<1>1. Returned(f, g, w) = [x \in {"fn", "got", "want", "of"} |->
        IF x = "want" THEN w ELSE IF x = "got" THEN g ELSE IF x = "fn" THEN f ELSE NoResult[x]]
  BY DEF Returned, NoResult
<1> QED
  BY <1>1

LEMMA NoResultFacts == NoResult.fn = "none" /\ \A x : [NoResult EXCEPT !.of = x].fn = "none"
<1>1. \A x : [NoResult EXCEPT !.of = x] = [y \in {"fn", "got", "want", "of"} |-> IF y = "of" THEN x ELSE NoResult[y]]
  BY DEF NoResult
<1> QED
  BY <1>1 DEF NoResult

LEMMA NoCallFacts == /\ IsCall(NoCall) /\ NoCall.pc = "idle" /\ NoCall.tmp = Nil
                     /\ NoCall.slot \in Slots
<1>1. (CHOOSE v \in Slots : TRUE) \in Slots
  BY RuntimeAssumption
<1> QED
  BY <1>1 DEF NoCall, IsCall, CallFields

\* Between calls.
LEMMA Idle ==
  ASSUME IInv, Ready
  PROVE  /\ Books /\ out.buf = Nil /\ sub.buf = Nil /\ Held = {}
         /\ Heap(heap, owned, {hc_stream.buf} \ {Nil})
<1>1. Books /\ call.pc = "idle"
  BY DEF IInv, Ready
<1>2. out.buf = Nil /\ sub.buf = Nil /\ Held = {}
  BY <1>1 DEF Books, CallOK, FormatPcs, Held
<1>3. Buffers = {hc_stream.buf} \ {Nil}
  BY <1>2 DEF Buffers
<1> QED
  BY <1>1, <1>2, <1>3 DEF Books

\* The books when no call of the Print family is under way.
LEMMA OutsideFormat ==
  ASSUME IsCall(call'), call'.pc \in {"idle", "getline", "line", "read"},
         call'.pc \in {"getline", "line"} => call'.fn \in InputFns /\ call'.slot \in Slots,
         call'.pc = "read" => call'.fn = "FileRead" /\ call'.slot \in Slots,
         out'.buf = Nil, sub'.buf = Nil, vars' \in [Slots -> Blocks \cup {Nil}],
         Heap(heap', owned' \cup Held', {hc_stream'.buf} \ {Nil}), owned' \cap Held' = {}
  PROVE  Books'
<1>1. Apart' /\ Buffers' = {hc_stream'.buf} \ {Nil}
  BY DEF Apart, Buffers
<1>2. CallOK'
  BY DEF CallOK, FormatPcs
<1> QED
  BY <1>1, <1>2 DEF Books

\* ... and between calls.
LEMMA AtRest ==
  ASSUME IsCall(call'), call'.pc = "idle", out'.buf = Nil, sub'.buf = Nil,
         vars' \in [Slots -> Blocks \cup {Nil}],
         Heap(heap', owned', {hc_stream'.buf} \ {Nil})
  PROVE  Books'
<1>1. Held' = {} /\ owned' \cup Held' = owned' /\ owned' \cap Held' = {}
  BY DEF Held
<1> QED
  BY <1>1, OutsideFormat

\* A call that is over at once and leaves the heap and the books alone.
LEMMA Untouched ==
  ASSUME IInv, Ready, UNCHANGED <<heap, owned, hc_stream, out, sub, call>>,
         vars' \in [Slots -> Blocks \cup {Nil}]
  PROVE  Books'
<1>1. IsCall(call') /\ call'.pc = "idle"
  BY Idle DEF Ready, Books, CallOK
<1> QED
  BY <1>1, Idle, AtRest

\* A call that stops the process.
LEMMA Stopped ==
  ASSUME status' # "running", status' # "corrupt", last'.fn # "Free"
  PROVE  IInv'
  BY DEF IInv, FreesOnce

\* A call that is over and gives the program block b.
LEMMA HandedAtOnce ==
  ASSUME IInv, Ready, NEW v \in Slots, NEW b \in Takeable(heap), NEW n, NEW t,
         heap' = MAllocAt(heap, b, n, t), Hand(v, b), UNCHANGED <<hc_stream, out, sub, call>>
  PROVE  Books'
<1>1. b \in Blocks /\ b \in FreeBlocks(heap)
  BY TakeableIsFree
<1>2. Heap(heap', owned \cup {b}, ({hc_stream.buf} \ {Nil}) \ {b})
  BY <1>1, Idle, MAllocFacts
<1>3. ({hc_stream.buf} \ {Nil}) \ {b} = {hc_stream.buf} \ {Nil}
  BY <1>1, Idle, FreeIsNobodys
<1>4. IsCall(call') /\ call'.pc = "idle" /\ owned' = owned \cup {b}
  BY Idle DEF Ready, Books, CallOK, Hand
<1>5. Heap(heap', owned', {hc_stream'.buf} \ {Nil})
  BY <1>2, <1>3, <1>4
<1>6. vars' \in [Slots -> Blocks \cup {Nil}]
  BY <1>1, Idle DEF Books, Hand
<1> QED
  BY <1>4, <1>5, <1>6, Idle, AtRest

-----------------------------------------------------------------------------
(* The calls that are over at once *)

\* IInv when the process goes on and the last call was not Free.
LEMMA GoesOn ==
  ASSUME status = "running", status' = status, last'.fn # "Free", Books'
  PROVE  IInv'
  BY DEF IInv, FreesOnce

LEMMA MAllocStep ==
  ASSUME IInv, NEW v \in Slots, NEW size, NEW clear \in BOOLEAN, MAlloc(v, size, clear)
  PROVE  IInv'
<1>1. Ready /\ UNCHANGED <<hc_stream, out, sub, call>> /\ status = "running"
  BY DEF MAlloc, AtOnce, Ready
<1>2. last'.fn # "Free"
  BY ReturnedFacts DEF MAlloc
<1>3. CASE OutOfMemory
  BY <1>2, <1>3, Stopped DEF OutOfMemory, Ended
<1>4. CASE \E b \in Takeable(heap) :
            /\ heap' = MAllocAt(heap, b, size, IF clear /\ size > 0 THEN <<>> ELSE Garbage)
            /\ Hand(v, b)
            /\ status' = IF clear /\ size < 0 THEN "crash" ELSE status
  <2>1. Books'
    BY <1>1, <1>4, HandedAtOnce
  <2> QED
    BY <1>1, <1>2, <1>4, <2>1, Stopped, GoesOn
<1> QED
  BY <1>3, <1>4 DEF MAlloc

LEMMA MAllocIdentStep ==
  ASSUME IInv, NEW v \in Slots, NEW w \in Slots, MAllocIdent(v, w)
  PROVE  IInv'
<1>1. Ready /\ UNCHANGED <<hc_stream, out, sub, call>> /\ status = "running"
  BY DEF MAllocIdent, AtOnce, Ready
<1>2. last'.fn # "Free"
  BY ReturnedFacts DEF MAllocIdent
<1>3. CASE OutOfMemory
  BY <1>2, <1>3, Stopped DEF OutOfMemory, Ended
<1>4. CASE vars' = [vars EXCEPT ![v] = Nil] /\ UNCHANGED <<heap, owned, status>>
  <2>1. Books'
    BY <1>1, <1>4, Idle, Untouched DEF Books
  <2> QED
    BY <1>1, <1>2, <1>4, <2>1, GoesOn
<1>5. CASE \E b \in Takeable(heap) :
             /\ \E n, t : heap' = MAllocAt(heap, b, n, t)
             /\ Hand(v, b)
             /\ UNCHANGED status
  <2>1. Books'
    BY <1>1, <1>5, HandedAtOnce
  <2> QED
    BY <1>1, <1>2, <1>5, <2>1, GoesOn
<1> QED
  BY <1>3, <1>4, <1>5 DEF MAllocIdent

LEMMA StrNewStep ==
  ASSUME IInv, NEW v \in Slots, NEW s, StrNew(v, s)
  PROVE  IInv'
<1>1. Ready /\ UNCHANGED <<hc_stream, out, sub, call>> /\ status = "running"
  BY DEF StrNew, AtOnce, Ready
<1>2. last'.fn # "Free"
  BY ReturnedFacts, NoResultFacts DEF StrNew
<1>3. CASE OutOfMemory
  BY <1>2, <1>3, Stopped DEF OutOfMemory, Ended
<1>4. CASE \E b \in Takeable(heap) :
             heap' = MAllocAt(heap, b, Len(s) + 1, s) /\ Hand(v, b) /\ UNCHANGED status
  <2>1. Books'
    BY <1>1, <1>4, HandedAtOnce
  <2> QED
    BY <1>1, <1>2, <1>4, <2>1, GoesOn
<1> QED
  BY <1>3, <1>4 DEF StrNew

\* Between calls the magic word marks the program's blocks: Free refuses no block
\* of the program and takes no other.
LEMMA FreeStep ==
  ASSUME IInv, NEW v \in Slots, Free(v)
  PROVE  IInv'
<1> DEFINE p == vars[v]
           owes == <<IF p = Nil \/ p \in owned THEN "freed" ELSE "refused">>
<1>1. Ready /\ UNCHANGED <<hc_stream, out, sub, call, vars>> /\ status = "running"
  BY DEF Free, AtOnce, Ready
<1>2. p \in Blocks \cup {Nil} /\ Heap(heap, owned, {hc_stream.buf} \ {Nil})
  BY <1>1, Idle DEF Books
<1>3. CASE p = Nil
  <2>1. last' = Returned("Free", <<"freed">>, owes) /\ UNCHANGED <<heap, owned, status>>
    BY <1>3 DEF Free
  <2>2. Books'
    BY <1>1, <2>1, Idle, Untouched DEF Books
  <2> QED
    BY <1>1, <1>3, <2>1, <2>2, ReturnedFacts DEF IInv, FreesOnce
<1>4. CASE p # Nil /\ ~heap[p].magic
  <2>1. last' = Returned("Free", <<"refused">>, owes) /\ status' = "bad_free"
    BY <1>4 DEF Free, Ended
  <2>2. p \notin owned
    BY <1>2, <1>4, HeapBlock
  <2> QED
    BY <1>4, <2>1, <2>2, ReturnedFacts DEF IInv, FreesOnce
<1>5. CASE p # Nil /\ heap[p].magic
  <2>1. /\ last' = Returned("Free", <<"freed">>, owes)
        /\ status' = IF heap[p].st = "free" THEN "corrupt" ELSE status
        /\ heap' = FreeAt(heap, p) /\ owned' = owned \ {p}
    BY <1>5 DEF Free
  <2>2. p \in Blocks
    BY <1>2, <1>5
  <2>3. p \in owned /\ heap[p].st = "mem"
    BY <1>2, <1>5, <2>2, HeapBlock
  <2>4. Heap(heap', owned \ {p}, ({hc_stream.buf} \ {Nil}) \ {p})
    BY <1>2, <2>1, <2>2, FreeFacts
  <2>5. ({hc_stream.buf} \ {Nil}) \ {p} = {hc_stream.buf} \ {Nil}
    BY <1>2, <2>3, FreeIsNobodys
  <2>6. IsCall(call') /\ call'.pc = "idle" /\ vars' \in [Slots -> Blocks \cup {Nil}]
    BY <1>1, Idle DEF Ready, Books, CallOK
  <2> HIDE DEF p
  <2>7. Heap(heap', owned', {hc_stream'.buf} \ {Nil})
    BY <1>1, <2>1, <2>4, <2>5
  <2>8. Books'
    BY <1>1, <2>6, <2>7, Idle, AtRest
  <2> QED
    BY <1>1, <2>1, <2>3, <2>8, ReturnedFacts DEF IInv, FreesOnce
<1> QED
  BY <1>3, <1>4, <1>5

\* HC_StreamGet: the compiler frees the buffer.
LEMMA StreamGetStep ==
  ASSUME IInv, StreamGet
  PROVE  IInv'
<1>1. Ready /\ UNCHANGED <<out, sub, call, vars, owned, status>> /\ status = "running"
  BY DEF StreamGet, Ready
<1>2. hc_stream'.buf = Nil /\ heap' = GiveBack(heap, hc_stream.buf)
  BY DEF StreamGet, NoOut
<1>3. last'.fn # "Free"
  BY ReturnedFacts DEF StreamGet
<1>4. Heap(heap, owned, {hc_stream.buf} \ {Nil})
  BY <1>1, Idle
<1>5. hc_stream.buf \in Blocks \cup {Nil} /\ hc_stream.buf \notin owned
  BY <1>4, FreeIsNobodys, RuntimeAssumption DEF Nil
<1>6. Heap(heap', owned, ({hc_stream.buf} \ {Nil}) \ {hc_stream.buf})
  BY <1>2, <1>4, <1>5, GiveBackFacts
<1>7. ({hc_stream.buf} \ {Nil}) \ {hc_stream.buf} = {hc_stream'.buf} \ {Nil}
  BY <1>2
<1>8. IsCall(call') /\ call'.pc = "idle" /\ vars' \in [Slots -> Blocks \cup {Nil}]
  BY <1>1, Idle DEF Ready, Books, CallOK
<1>9. Books'
  BY <1>1, <1>6, <1>7, <1>8, Idle, AtRest
<1> QED
  BY <1>1, <1>3, <1>9, GoesOn

\* GetChar and FileWrite leave the heap alone.
LEMMA GetCharStep ==
  ASSUME IInv, GetChar
  PROVE  IInv'
<1>1. Ready /\ UNCHANGED <<heap, vars, owned, hc_stream, out, sub, call, status>> /\ status = "running"
  BY DEF GetChar, Ready
<1>2. last'.fn # "Free"
  BY NoResultFacts DEF GetChar
<1>3. Books'
  BY <1>1, Idle, Untouched DEF Books
<1> QED
  BY <1>1, <1>2, <1>3, GoesOn

LEMMA FileWriteStep ==
  ASSUME IInv, NEW v \in Slots, FileWrite(v)
  PROVE  IInv'
<1>1. Ready /\ UNCHANGED <<heap, vars, owned, hc_stream, out, sub, call, status>> /\ status = "running"
  BY DEF FileWrite, AtOnce, Ready
<1>2. last'.fn # "Free"
  BY NoResultFacts DEF FileWrite
<1>3. Books'
  BY <1>1, Idle, Untouched DEF Books
<1> QED
  BY <1>1, <1>2, <1>3, GoesOn

-----------------------------------------------------------------------------
(* The Print family *)

\* A call under way, by its fields.
CallOf(f, pc, d, v, x, y, t, n, w) ==
  [fn |-> f, pc |-> pc, dst |-> d, slot |-> v, fmt |-> x, args |-> y, p |-> 1, ai |-> 0,
   shown |-> <<>>, tmp |-> t, n |-> n, want |-> w]

LEMMA StartedFacts ==
  ASSUME NEW f, NEW pc, NEW d, NEW v, NEW x, NEW y, NEW t, NEW n, NEW w,
         NEW c, c = CallOf(f, pc, d, v, x, y, t, n, w)
  PROVE  IsCall(c) /\ c.fn = f /\ c.pc = pc /\ c.dst = d /\ c.slot = v /\ c.tmp = t
  BY DEF CallOf, IsCall, CallFields

LEMMA StartFormatStep ==
  ASSUME IInv, NEW fn \in FormatFns, NEW v \in Slots, NEW dst, NEW tc, StartFormat(fn, dst, v, tc),
         fn \in {"Print", "MStrPrint", "StreamPrint"} => dst = Nil
  PROVE  IInv'
<1>1. Ready /\ UNCHANGED <<heap, vars, owned, sub, status>> /\ status = "running"
  BY DEF StartFormat, Ready
<1>2. PICK x, y, w : call' = CallOf(fn, "format", dst, v, x, y, Nil, 0, w)
  <2>1. PICK x, y, w : call' = [NoCall EXCEPT !.fn = fn, !.pc = "format", !.dst = dst, !.slot = v,
                                              !.fmt = x, !.args = y, !.want = w]
    BY DEF StartFormat
  <2>2. call' = CallOf(fn, "format", dst, v, x, y, Nil, 0, w)
    BY <2>1 DEF NoCall, CallOf
  <2> QED
    BY <2>2
<1>3. IsCall(call') /\ call'.fn = fn /\ call'.pc = "format" /\ call'.dst = dst /\ call'.slot = v
  BY <1>2, StartedFacts
<1>4. dst \in owned \cup {Nil}
  BY DEF StartFormat, IsString, FormatFns
<1>5. /\ fn = "StreamPrint" => out' = hc_stream /\ hc_stream'.buf = Nil
      /\ fn # "StreamPrint" => out'.buf = Nil /\ hc_stream' = hc_stream
  BY DEF StartFormat, NoOut
<1>6. last'.fn # "Free"
  BY NoResultFacts DEF StartFormat
<1>7. sub.buf = Nil /\ vars \in [Slots -> Blocks \cup {Nil}] /\ Heap(heap, owned, {hc_stream.buf} \ {Nil})
  BY <1>1, Idle DEF Books
<1>8. Held' = {} /\ Apart' /\ Buffers' = {hc_stream.buf} \ {Nil}
  BY <1>1, <1>3, <1>5, <1>7 DEF Held, Buffers, Apart
<1>9. CallOK'
  BY <1>1, <1>3, <1>4, <1>5, <1>7 DEF CallOK, FormatPcs
<1>10. owned' \cup Held' = owned /\ owned' \cap Held' = {}
  BY <1>1, <1>8
<1>11. Books'
  BY <1>1, <1>7, <1>8, <1>9, <1>10 DEF Books
<1> QED
  BY <1>1, <1>6, <1>11, GoesOn

\* out_emit into buffer o: o is in a block that is free or its own, or the process ends.
LEMMA OutEmitFacts ==
  ASSUME NEW M, NEW C, Heap(heap, M, C), NEW o, o.buf \in C \cup {Nil}, NEW t, NEW after,
         out_emit(o, t, after)
  PROVE  \/ status' = "crash"
         \/ /\ status' = status
            /\ after.buf \in Blocks /\ after.buf \notin M \cup (C \ {o.buf})
            /\ Heap(heap', M, (C \ {o.buf}) \cup {after.buf})
<1>1. CASE Ended("crash")
  BY <1>1 DEF Ended
<1>2. CASE (\E b \in Places(o, t) : heap' = Written(o, t, b).heap /\ after = Written(o, t, b).out)
           /\ UNCHANGED status
  <2>1. PICK b \in Places(o, t) : heap' = Written(o, t, b).heap /\ after = Written(o, t, b).out
    BY <1>2
  <2>2. PICK n, x : heap' = Give(GiveBack(heap, o.buf), b, "c", n, x)
    BY <2>1 DEF Written
  <2>3. after.buf = b
    BY <2>1 DEF Written
  <2>4. M \subseteq Blocks /\ C \subseteq Blocks /\ M \cap C = {}
    BY FreeIsNobodys
  <2>5. Nil \notin Blocks
    BY RuntimeAssumption DEF Nil
  <2>6. o.buf \in Blocks \cup {Nil} /\ o.buf \notin M
    BY <2>4, <2>5
  <2>7. b \in FreeBlocks(heap) \/ (b = o.buf /\ b # Nil)
    BY TakeableIsFree DEF Places, Outgrown
  <2>8. b \in Blocks /\ b \notin M \cup (C \ {o.buf})
    <3>1. CASE b \in FreeBlocks(heap)
      BY <3>1, FreeIsNobodys, TakeableIsFree
    <3>2. CASE b = o.buf /\ b # Nil
      BY <3>2, <2>4
    <3> QED
      BY <2>7, <3>1, <3>2
  <2>9. Heap(GiveBack(heap, o.buf), M, C \ {o.buf})
    BY <2>6, GiveBackFacts
  <2>10. PICK h : h = GiveBack(heap, o.buf)
    OBVIOUS
  <2>11. Heap(Give(h, b, "c", n, x), M, (C \ {o.buf}) \cup {b})
    BY <2>8, <2>9, <2>10, GiveFacts
  <2> QED
    BY <1>2, <2>2, <2>3, <2>8, <2>10, <2>11
<1> QED
  BY <1>1, <1>2 DEF out_emit

\* A call of the Print family goes on.
LEMMA StaysBooked ==
  ASSUME Books, call.pc \in FormatPcs, IsCall(call'), call'.fn = call.fn, call'.dst = call.dst,
         call'.slot = call.slot, call'.pc \in FormatPcs, UNCHANGED <<vars, owned, hc_stream>>,
         call'.pc \notin {"sub", "drop"} => sub'.buf = Nil, call.fn = "Print" => out'.buf = Nil,
         Apart', Heap(heap', owned, Buffers')
  PROVE  Books'
<1>1. Held' = {} /\ owned' \cup Held' = owned /\ owned' \cap Held' = {}
  BY DEF Held, FormatPcs
<1>2. CallOK'
  BY DEF Books, CallOK, FormatPcs
<1> QED
  BY <1>1, <1>2 DEF Books

\* What a call of the Print family works with.
LEMMA Formatting ==
  ASSUME IInv, status = "running", call.pc \in FormatPcs
  PROVE  /\ Books /\ IsCall(call) /\ Apart /\ Heap(heap, owned, Buffers)
         /\ call.fn \in FormatFns /\ call.slot \in Slots /\ call.dst \in owned \cup {Nil}
         /\ vars \in [Slots -> Blocks \cup {Nil}]
         /\ call.pc \notin {"sub", "drop"} => sub.buf = Nil
         /\ call.fn = "Print" => out.buf = Nil
         /\ call.fn = "StreamPrint" => hc_stream.buf = Nil
<1>1. Books
  BY DEF IInv
<1>2. Held = {} /\ owned \cup Held = owned
  BY DEF Held, FormatPcs
<1> QED
  BY <1>1, <1>2 DEF Books, CallOK

\* A call that goes on, or stops the process, says nothing of Free.
LEMMA Proceeds ==
  ASSUME IInv, status = "running", UNCHANGED <<status, last>>, Books'
  PROVE  IInv'
  BY DEF IInv, FreesOnce

LEMMA Breaks ==
  ASSUME IInv, status' # "running", status' # "corrupt", UNCHANGED last
  PROVE  IInv'
  BY DEF IInv, FreesOnce

\* The loop over the format moves four fields of the call.
Along(c, pc, n, p, i) == [c EXCEPT !.pc = pc, !.n = n, !.p = p, !.ai = i]

LEMMA AlongFacts ==
  ASSUME NEW k, IsCall(k), NEW pc, NEW n, NEW p, NEW i, NEW c, c = Along(k, pc, n, p, i)
  PROVE  IsCall(c) /\ c.fn = k.fn /\ c.pc = pc /\ c.dst = k.dst /\ c.slot = k.slot
<1>1. c = [f \in CallFields |-> IF f = "ai" THEN i ELSE IF f = "p" THEN p
                               ELSE IF f = "n" THEN n ELSE IF f = "pc" THEN pc ELSE k[f]]
  BY DEF Along, IsCall, CallFields
<1> QED
  BY <1>1 DEF IsCall, CallFields

\* The same call, at another place of the format.
MovesTo(c, pcs) == \E n, p, i, pc : pc \in pcs /\ c = Along(call, pc, n, p, i)

LEMMA MovesFacts ==
  ASSUME IsCall(call), NEW pcs, NEW c, MovesTo(c, pcs)
  PROVE  IsCall(c) /\ c.fn = call.fn /\ c.pc \in pcs /\ c.dst = call.dst /\ c.slot = call.slot
<1>1. PICK n, p, i, pc : pc \in pcs /\ c = Along(call, pc, n, p, i)
  BY DEF MovesTo
<1> QED
  BY <1>1, AlongFacts

LEMMA MovesAre ==
  ASSUME IsCall(call), NEW pc, NEW p
  PROVE  /\ MovesTo([call EXCEPT !.pc = pc], {pc})
         /\ MovesTo([call EXCEPT !.p = p], {call.pc})
         /\ MovesTo([call EXCEPT !.n = @ + 1], {call.pc})
         /\ MovesTo(Past, {"format"})
<1>1. [call EXCEPT !.pc = pc] = Along(call, pc, call.n, call.p, call.ai)
  BY DEF IsCall, CallFields, Along
<1>2. [call EXCEPT !.p = p] = Along(call, call.pc, call.n, p, call.ai)
  BY DEF IsCall, CallFields, Along
<1>3. [call EXCEPT !.n = @ + 1] = Along(call, call.pc, call.n + 1, call.p, call.ai)
  BY DEF IsCall, CallFields, Along
<1>4. Past = Along(call, "format", 0, Here.at + 1, call.ai + Takes(Here.code))
  BY DEF Past, Along
<1> QED
  BY <1>1, <1>2, <1>3, <1>4 DEF MovesTo

\* The call moves on and nothing else happens.
LEMMA OnlyMoves ==
  ASSUME IInv, status = "running", call.pc = "format", NEW pcs, MovesTo(call', pcs), pcs \subseteq FormatPcs,
         UNCHANGED <<heap, vars, owned, hc_stream, out, sub, status, last>>
  PROVE  IInv'
<1>1. call.pc \in FormatPcs
  BY DEF FormatPcs
<1>2. IsCall(call') /\ call'.fn = call.fn /\ call'.dst = call.dst /\ call'.slot = call.slot /\ call'.pc \in FormatPcs
  BY <1>1, Formatting, MovesFacts
<1>3. sub'.buf = Nil /\ (call.fn = "Print" => out'.buf = Nil)
  BY <1>1, Formatting
<1>4. Apart' /\ Heap(heap', owned, Buffers')
  BY <1>1, Formatting DEF Apart, Buffers
<1>5. Books'
  BY <1>1, <1>2, <1>3, <1>4, Formatting, StaysBooked
<1> QED
  BY <1>5, Proceeds

\* A text goes to stdout or to the call's buffer, and the call moves on as c.
LEMMA EmitStep ==
  ASSUME IInv, status = "running", call.pc \in {"format", "sub"}, NEW t, NEW c, Emit(t, c),
         NEW pcs, MovesTo(c, pcs), pcs \subseteq FormatPcs,
         pcs \subseteq {"sub", "drop"} \/ sub.buf = Nil,
         UNCHANGED <<vars, owned, hc_stream, sub, last>>
  PROVE  IInv'
<1>1. call.pc \in FormatPcs
  BY DEF FormatPcs
<1>2. IsCall(c) /\ c.fn = call.fn /\ c.dst = call.dst /\ c.slot = call.slot /\ c.pc \in pcs /\ c.pc \in FormatPcs
  BY <1>1, Formatting, MovesFacts
<1>3. c.pc \notin {"sub", "drop"} => sub'.buf = Nil
  BY <1>2
<1>4. CASE call.fn = "Print" /\ call' = [c EXCEPT !.shown = @ \o t] /\ UNCHANGED <<heap, out, status>>
  <2>1. call' = [x \in CallFields |-> IF x = "shown" THEN c.shown \o t ELSE c[x]]
    BY <1>2, <1>4 DEF IsCall, CallFields
  <2>2. IsCall(call') /\ call'.fn = call.fn /\ call'.dst = call.dst /\ call'.slot = call.slot
          /\ call'.pc = c.pc
    BY <1>2, <2>1 DEF IsCall, CallFields
  <2>3. out'.buf = Nil
    BY <1>1, <1>4, Formatting
  <2>4. Apart' /\ Heap(heap', owned, Buffers')
    BY <1>1, <1>4, Formatting DEF Apart, Buffers
  <2>5. Books'
    BY <1>1, <1>2, <1>3, <2>2, <2>3, <2>4, Formatting, StaysBooked
  <2> QED
    BY <1>4, <2>5, Proceeds
<1>5. CASE call.fn # "Print" /\ out_emit(out, t, out') /\ call' = c
  <2>1. Heap(heap, owned, Buffers) /\ out.buf \in Buffers \cup {Nil}
    BY <1>1, Formatting DEF Buffers
  <2>2. \/ status' = "crash"
        \/ /\ status' = status
           /\ out'.buf \in Blocks /\ out'.buf \notin owned \cup (Buffers \ {out.buf})
           /\ Heap(heap', owned, (Buffers \ {out.buf}) \cup {out'.buf})
    BY <1>5, <2>1, OutEmitFacts
  <2>3. CASE status' = "crash"
    BY <2>3, Breaks
  <2>4. CASE /\ status' = status
             /\ out'.buf \in Blocks /\ out'.buf \notin owned \cup (Buffers \ {out.buf})
             /\ Heap(heap', owned, (Buffers \ {out.buf}) \cup {out'.buf})
    <3>1. out'.buf # Nil
      BY <2>4, RuntimeAssumption DEF Nil
    <3>2. Apart
      BY <1>1, Formatting
    <3>3. Apart' /\ Buffers' = (Buffers \ {out.buf}) \cup {out'.buf}
      BY <2>4, <3>1, <3>2 DEF Apart, Buffers
    <3>4. Books'
      BY <1>1, <1>2, <1>3, <1>5, <2>4, <3>3, Formatting, StaysBooked
    <3> QED
      BY <2>4, <3>4, Proceeds
  <2> QED
    BY <2>2, <2>3, <2>4
<1> QED
  BY <1>4, <1>5 DEF Emit

LEMMA FormatStep ==
  ASSUME IInv, hc_format
  PROVE  IInv'
<1>1. /\ status = "running" /\ call.pc = "format"
      /\ UNCHANGED <<vars, owned, hc_stream, sub, last>>
  BY DEF hc_format
<1>2. IsCall(call) /\ sub.buf = Nil
  BY <1>1, Formatting DEF FormatPcs
<1>3. \/ call' = [call EXCEPT !.pc = "return"] /\ UNCHANGED <<heap, out, status>>
      \/ status' = "astray"
      \/ call' = [call EXCEPT !.pc = "sub"] /\ UNCHANGED <<heap, out, status>>
      \/ call' = Past /\ UNCHANGED <<heap, out, status>>
      \/ Emit(<<call.fmt[call.p]>>, [call EXCEPT !.p = call.p + 1])
      \/ Emit(<<"%">>, [call EXCEPT !.p = call.p + 2])
      \/ Emit(Rendered(Here, Word(1), Word(2), <<>>), Past)
  BY Zenon DEF hc_format, Ended
<1>4. /\ {"return"} \subseteq FormatPcs /\ {"sub"} \subseteq FormatPcs /\ {"format"} \subseteq FormatPcs
  BY DEF FormatPcs
<1>5. CASE call' = [call EXCEPT !.pc = "return"] /\ UNCHANGED <<heap, out, status>>
  <2>1. MovesTo(call', {"return"})
    BY <1>2, <1>5, MovesAre
  <2> QED
    BY <1>1, <1>4, <1>5, <2>1, OnlyMoves
<1>6. CASE status' = "astray"
  BY <1>1, <1>6, Breaks
<1>7. CASE call' = [call EXCEPT !.pc = "sub"] /\ UNCHANGED <<heap, out, status>>
  <2>1. MovesTo(call', {"sub"})
    BY <1>2, <1>7, MovesAre
  <2> QED
    BY <1>1, <1>4, <1>7, <2>1, OnlyMoves
<1>8. CASE call' = Past /\ UNCHANGED <<heap, out, status>>
  <2>1. MovesTo(call', {"format"})
    BY <1>2, <1>8, MovesAre
  <2> QED
    BY <1>1, <1>4, <1>8, <2>1, OnlyMoves
<1>9. CASE Emit(<<call.fmt[call.p]>>, [call EXCEPT !.p = call.p + 1])
  <2>1. PICK t, c : Emit(t, c) /\ MovesTo(c, {"format"})
    BY <1>1, <1>2, <1>9, MovesAre
  <2> QED
    BY <1>1, <1>2, <1>4, <2>1, EmitStep
<1>10. CASE Emit(<<"%">>, [call EXCEPT !.p = call.p + 2])
  <2>1. PICK t, c : Emit(t, c) /\ MovesTo(c, {"format"})
    BY <1>1, <1>2, <1>10, MovesAre
  <2> QED
    BY <1>1, <1>2, <1>4, <2>1, EmitStep
<1>11. CASE Emit(Rendered(Here, Word(1), Word(2), <<>>), Past)
  <2>1. PICK t, c : Emit(t, c) /\ MovesTo(c, {"format"})
    BY <1>2, <1>11, MovesAre
  <2> QED
    BY <1>1, <1>2, <1>4, <2>1, EmitStep
<1> QED
  BY <1>3, <1>5, <1>6, <1>7, <1>8, <1>9, <1>10, <1>11

\* %c and %q: the directive's own buffer is filled ...
LEMMA FillSubStep ==
  ASSUME IInv, FillSub
  PROVE  IInv'
<1>1. /\ status = "running" /\ call.pc = "sub" /\ call.pc \in FormatPcs
      /\ UNCHANGED <<vars, owned, hc_stream, out, last>>
      /\ call' = [call EXCEPT !.n = @ + 1]
  BY DEF FillSub, FormatPcs
<1>2. PICK t : out_emit(sub, t, sub')
  BY DEF FillSub
<1>3. MovesTo(call', {"sub"})
  BY <1>1, Formatting, MovesAre
<1>4. IsCall(call') /\ call'.fn = call.fn /\ call'.dst = call.dst /\ call'.slot = call.slot /\ call'.pc = "sub"
  BY <1>1, <1>3, Formatting, MovesFacts
<1>5. Heap(heap, owned, Buffers) /\ sub.buf \in Buffers \cup {Nil}
  BY <1>1, Formatting DEF Buffers
<1>6. \/ status' = "crash"
      \/ /\ status' = status
         /\ sub'.buf \in Blocks /\ sub'.buf \notin owned \cup (Buffers \ {sub.buf})
         /\ Heap(heap', owned, (Buffers \ {sub.buf}) \cup {sub'.buf})
  BY <1>2, <1>5, OutEmitFacts
<1>7. CASE status' = "crash"
  BY <1>1, <1>7, Breaks
<1>8. CASE /\ status' = status
           /\ sub'.buf \in Blocks /\ sub'.buf \notin owned \cup (Buffers \ {sub.buf})
           /\ Heap(heap', owned, (Buffers \ {sub.buf}) \cup {sub'.buf})
  <2>1. sub'.buf # Nil
    BY <1>8, RuntimeAssumption DEF Nil
  <2>2. Apart
    BY <1>1, Formatting
  <2>3. Apart' /\ Buffers' = (Buffers \ {sub.buf}) \cup {sub'.buf}
    BY <1>1, <1>8, <2>1, <2>2 DEF Apart, Buffers
  <2>4. call.fn = "Print" => out'.buf = Nil
    BY <1>1, Formatting
  <2>5. Books'
    BY <1>1, <1>4, <1>8, <2>3, <2>4, Formatting, StaysBooked
  <2> QED
    BY <1>1, <1>8, <2>5, Proceeds
<1> QED
  BY <1>6, <1>7, <1>8

\* ... emitted as a field ...
LEMMA EmitSubStep ==
  ASSUME IInv, EmitSub
  PROVE  IInv'
<1>1. /\ status = "running" /\ call.pc = "sub" /\ call.pc \in FormatPcs
      /\ UNCHANGED <<vars, owned, hc_stream, sub, last>>
  BY DEF EmitSub, FormatPcs
<1>2. PICK t, c : Emit(t, c) /\ c = [call EXCEPT !.pc = "drop"]
  BY DEF EmitSub
<1>3. MovesTo(c, {"drop"})
  BY <1>1, <1>2, Formatting, MovesAre
<1>4. {"drop"} \subseteq FormatPcs
  BY DEF FormatPcs
<1> QED
  BY <1>1, <1>2, <1>3, <1>4, EmitStep

\* ... and freed.
LEMMA FreeSubStep ==
  ASSUME IInv, FreeSub
  PROVE  IInv'
<1>1. /\ status = "running" /\ call.pc = "drop" /\ call.pc \in FormatPcs
      /\ UNCHANGED <<vars, owned, hc_stream, out, status, last>>
      /\ call' = Past /\ heap' = GiveBack(heap, sub.buf) /\ sub'.buf = Nil
  BY DEF FreeSub, FormatPcs, NoOut
<1>2. MovesTo(call', {"format"})
  BY <1>1, Formatting, MovesAre
<1>3. IsCall(call') /\ call'.fn = call.fn /\ call'.dst = call.dst /\ call'.slot = call.slot
      /\ call'.pc = "format" /\ call'.pc \in FormatPcs
  BY <1>1, <1>2, Formatting, MovesFacts DEF FormatPcs
<1>4. Heap(heap, owned, Buffers) /\ Apart
  BY <1>1, Formatting
<1>5. sub.buf \in Blocks \cup {Nil} /\ sub.buf \notin owned
  BY <1>4, FreeIsNobodys, RuntimeAssumption DEF Buffers, Nil
<1>6. Heap(heap', owned, Buffers \ {sub.buf})
  BY <1>1, <1>4, <1>5, GiveBackFacts
<1>7. Apart' /\ Buffers' = Buffers \ {sub.buf}
  BY <1>1, <1>4 DEF Apart, Buffers
<1>8. call.fn = "Print" => out'.buf = Nil
  BY <1>1, Formatting
<1>9. Books'
  BY <1>1, <1>3, <1>6, <1>7, <1>8, Formatting, StaysBooked
<1> QED
  BY <1>1, <1>9, Proceeds

\* The call under way returns and leaves the program with the blocks M.
LEMMA Returns ==
  ASSUME IInv, status = "running", UNCHANGED <<status, hc_stream, sub>>, call.fn # "Free", sub.buf = Nil,
         NEW got, Return(got), out'.buf = Nil, vars' \in [Slots -> Blocks \cup {Nil}],
         Heap(heap', owned', {hc_stream.buf} \ {Nil})
  PROVE  IInv'
<1>1. call' = NoCall /\ last'.fn # "Free"
  BY DEF Return
<1>2. Books'
  BY <1>1, NoCallFacts, AtRest
<1> QED
  BY <1>1, <1>2, GoesOn

\* The call has its text in its buffer, which is not the stream's.
LEMMA Finished ==
  ASSUME IInv, NEW fns, Returning(fns)
  PROVE  /\ Books /\ status = "running" /\ call.fn \in FormatFns /\ call.fn # "Free" /\ sub.buf = Nil
         /\ call.slot \in Slots /\ call.dst \in owned \cup {Nil} /\ vars \in [Slots -> Blocks \cup {Nil}]
         /\ Heap(heap, owned, {out.buf, hc_stream.buf} \ {Nil})
         /\ owned \subseteq Blocks /\ out.buf \in Blocks \cup {Nil} /\ out.buf \notin owned
         /\ call.fn = "StreamPrint" => hc_stream.buf = Nil
         /\ ({out.buf, hc_stream.buf} \ {Nil}) \ {out.buf} = {hc_stream.buf} \ {Nil}
<1>1. status = "running" /\ call.pc = "return" /\ call.pc \in FormatPcs
  BY DEF Returning, FormatPcs
<1>2. sub.buf = Nil /\ Apart
  BY <1>1, Formatting
<1>3. Buffers = {out.buf, hc_stream.buf} \ {Nil}
  BY <1>2 DEF Buffers
<1>4. Heap(heap, owned, {out.buf, hc_stream.buf} \ {Nil})
  BY <1>1, <1>3, Formatting
<1>5. Nil \notin Blocks
  BY RuntimeAssumption DEF Nil
<1>6. owned \subseteq Blocks /\ out.buf \in Blocks \cup {Nil} /\ out.buf \notin owned
  BY <1>4, <1>5, FreeIsNobodys
<1>7. ({out.buf, hc_stream.buf} \ {Nil}) \ {out.buf} = {hc_stream.buf} \ {Nil}
  BY <1>2 DEF Apart
<1> QED
  BY <1>1, <1>2, <1>4, <1>6, <1>7, Formatting DEF FormatFns

LEMMA PrintDoneStep ==
  ASSUME IInv, PrintDone
  PROVE  IInv'
<1>1. Returning({"Print"}) /\ UNCHANGED <<heap, vars, owned, hc_stream, out, sub, status>> /\ Return(call.shown)
  BY DEF PrintDone
<1>2. out.buf = Nil
  BY <1>1, Finished DEF Returning, Books, CallOK, FormatPcs
<1>3. {out.buf, hc_stream.buf} \ {Nil} = {hc_stream.buf} \ {Nil}
  BY <1>2
<1> QED
  BY <1>1, <1>2, <1>3, Finished, Returns

LEMMA NewStringStep ==
  ASSUME IInv, NewString
  PROVE  IInv'
<1> DEFINE C == {out.buf, hc_stream.buf} \ {Nil}
<1>1. Returning({"MStrPrint", "StrPrint", "StrPrintJoin"}) /\ UNCHANGED <<hc_stream, sub>>
  BY DEF NewString
<1>3. CASE Ended("nomem") /\ UNCHANGED last
  BY <1>3, Breaks DEF Ended
<1>4. CASE \E b \in Takeable(heap) :
            LET h == MAllocAt(heap, b, Len(Formed) + 1, Formed)
            IN  /\ heap' = GiveBack(h, out.buf)
                /\ Hand(call.slot, b)
                /\ out' = NoOut
                /\ Return(h[b].text)
                /\ UNCHANGED status
  <2>1. PICK b, h :
            /\ b \in Takeable(heap)
            /\ h = MAllocAt(heap, b, Len(Formed) + 1, Formed)
            /\ heap' = GiveBack(h, out.buf)
            /\ Hand(call.slot, b)
            /\ out' = NoOut
            /\ Return(h[b].text)
            /\ UNCHANGED status
    BY <1>4
  <2>2. b \in Blocks /\ b \in FreeBlocks(heap)
    BY <2>1, TakeableIsFree
  <2>3. Heap(heap, owned, C)
    BY <1>1, Finished
  <2>4. b \notin C /\ b # Nil
    BY <2>2, <2>3, FreeIsNobodys, RuntimeAssumption DEF Nil
  <2>5. C \ {b} = C /\ out.buf \notin owned \cup {b}
    BY <1>1, <2>4, Finished
  <2> HIDE DEF C
  <2>6. Heap(h, owned \cup {b}, C)
    BY <2>1, <2>2, <2>3, <2>5, MAllocFacts
  <2>7. Heap(heap', owned \cup {b}, C \ {out.buf})
    BY <1>1, <2>1, <2>5, <2>6, GiveBackFacts, Finished
  <2>8. C \ {out.buf} = {hc_stream.buf} \ {Nil}
    BY <1>1, Finished DEF C
  <2>9. vars' \in [Slots -> Blocks \cup {Nil}] /\ owned' = owned \cup {b}
    BY <1>1, <2>1, <2>2, Finished DEF Hand
  <2>10. out'.buf = Nil
    BY <2>1 DEF NoOut
  <2> QED
    BY <1>1, <2>1, <2>7, <2>8, <2>9, <2>10, Finished, Returns
<1> QED
  BY <1>3, <1>4 DEF NewString

LEMMA IntoPlaceStep ==
  ASSUME IInv, IntoPlace
  PROVE  IInv'
<1> DEFINE C == {out.buf, hc_stream.buf} \ {Nil}
<1>1. /\ Returning({"StrPrint", "CatPrint"}) /\ UNCHANGED <<owned, hc_stream, sub, status>>
      /\ vars' = [vars EXCEPT ![call.slot] = call.dst] /\ out' = NoOut
  BY DEF IntoPlace
<1>3. PICK text, h, got : /\ h = IF call.dst = Nil THEN heap ELSE [heap EXCEPT ![call.dst].text = text]
                          /\ heap' = GiveBack(h, out.buf)
                          /\ Return(got)
  BY DEF IntoPlace
<1>4. Heap(heap, owned, C)
  BY <1>1, Finished
<1>5. Heap(h, owned, C)
  <2>1. CASE call.dst = Nil
    BY <1>3, <1>4, <2>1
  <2>2. CASE call.dst # Nil
    <3>1. call.dst \in Blocks
      BY <1>1, <2>2, Finished
    <3> HIDE DEF C
    <3> QED
      BY <1>3, <1>4, <2>2, <3>1, WriteFacts
  <2> QED
    BY <2>1, <2>2
<1>6. Heap(heap', owned, C \ {out.buf})
  <2> HIDE DEF C
  <2> QED
    BY <1>1, <1>3, <1>5, GiveBackFacts, Finished
<1>7. C \ {out.buf} = {hc_stream.buf} \ {Nil}
  BY <1>1, Finished
<1>8. vars' \in [Slots -> Blocks \cup {Nil}]
  BY <1>1, Finished
<1>9. out'.buf = Nil
  BY <1>1 DEF NoOut
<1> HIDE DEF C
<1> QED
  BY <1>1, <1>3, <1>6, <1>7, <1>8, <1>9, Finished, Returns

\* The new string is made before the old one and the buffer are freed.
LEMMA StrPrintJoinStep ==
  ASSUME IInv, StrPrintJoin
  PROVE  IInv'
<1> DEFINE C == {out.buf, hc_stream.buf} \ {Nil}
<1>1. Returning({"StrPrintJoin"}) /\ UNCHANGED <<hc_stream, sub>> /\ call.dst # Nil
  BY DEF StrPrintJoin
<1>3. CASE Ended("nomem") /\ UNCHANGED last
  BY <1>3, Breaks DEF Ended
<1>4. CASE \E b \in Takeable(heap) :
            LET text == heap[call.dst].text \o Formed
                h == MAllocAt(heap, b, Len(text) + 1, text)
            IN  /\ heap' = GiveBack(FreeAt(h, call.dst), out.buf)
                /\ vars' = [vars EXCEPT ![call.slot] = b]
                /\ owned' = (owned \ {call.dst}) \cup {b}
                /\ out' = NoOut
                /\ Return(h[b].text)
                /\ UNCHANGED status
  <2>1. PICK b, text, h :
            /\ b \in Takeable(heap)
            /\ h = MAllocAt(heap, b, Len(text) + 1, text)
            /\ heap' = GiveBack(FreeAt(h, call.dst), out.buf)
            /\ vars' = [vars EXCEPT ![call.slot] = b]
            /\ owned' = (owned \ {call.dst}) \cup {b}
            /\ out' = NoOut
            /\ Return(h[b].text)
            /\ UNCHANGED status
    BY <1>4
  <2>2. b \in Blocks /\ b \in FreeBlocks(heap)
    BY <2>1, TakeableIsFree
  <2>3. Heap(heap, owned, C)
    BY <1>1, Finished
  <2>4. b \notin C /\ b \notin owned /\ b # Nil
    BY <2>2, <2>3, FreeIsNobodys, RuntimeAssumption DEF Nil
  <2>5. call.dst \in owned /\ call.dst \in Blocks /\ call.dst \notin C
    <3>1. call.dst \in owned /\ call.dst \in Blocks
      BY <1>1, Finished
    <3> HIDE DEF C
    <3> QED
      BY <2>3, <3>1, FreeIsNobodys
  <2>6. C \ {b} = C /\ C \ {call.dst} = C
    BY <2>4, <2>5
  <2>7. out.buf \notin owned' /\ (owned \cup {b}) \ {call.dst} = owned'
    BY <1>1, <2>1, <2>4, <2>5, Finished
  <2> HIDE DEF C
  <2>8. Heap(h, owned \cup {b}, C)
    BY <2>1, <2>2, <2>3, <2>6, MAllocFacts
  <2>9. Heap(FreeAt(h, call.dst), owned', C)
    BY <2>5, <2>6, <2>7, <2>8, FreeFacts
  <2>10. Heap(heap', owned', C \ {out.buf})
    BY <1>1, <2>1, <2>7, <2>9, GiveBackFacts, Finished
  <2>11. C \ {out.buf} = {hc_stream.buf} \ {Nil}
    BY <1>1, Finished DEF C
  <2>12. vars' \in [Slots -> Blocks \cup {Nil}]
    BY <1>1, <2>1, <2>2, Finished
  <2>13. out'.buf = Nil
    BY <2>1 DEF NoOut
  <2> QED
    BY <1>1, <2>1, <2>10, <2>11, <2>12, <2>13, Finished, Returns
<1> QED
  BY <1>3, <1>4 DEF StrPrintJoin

\* The buffer is the stream's again.
LEMMA StreamPrintStep ==
  ASSUME IInv, StreamPrint
  PROVE  IInv'
<1>1. /\ Returning({"StreamPrint"}) /\ UNCHANGED <<heap, vars, owned, sub, status>>
      /\ hc_stream' = out /\ out' = NoOut /\ Return(Formed)
  BY DEF StreamPrint
<1>2. call.fn = "StreamPrint"
  BY <1>1 DEF Returning
<1>3. call' = NoCall /\ last'.fn # "Free"
  BY <1>1, <1>2 DEF Return
<1>4. {out.buf, hc_stream.buf} \ {Nil} = {hc_stream'.buf} \ {Nil}
  BY <1>1, <1>2, Finished
<1>5. out'.buf = Nil /\ sub'.buf = Nil /\ vars' \in [Slots -> Blocks \cup {Nil}]
  BY <1>1, Finished DEF NoOut
<1>6. Heap(heap', owned', {hc_stream'.buf} \ {Nil})
  BY <1>1, <1>4, Finished
<1>7. Books'
  BY <1>3, <1>5, <1>6, NoCallFacts, AtRest
<1> QED
  BY <1>1, <1>3, <1>7, GoesOn, Finished

-----------------------------------------------------------------------------
(* The input calls *)

LEMMA StartInputStep ==
  ASSUME IInv, NEW fn \in InputFns, NEW v \in Slots, StartInput(fn, v)
  PROVE  IInv'
<1>1. Ready /\ UNCHANGED <<heap, vars, owned, hc_stream, out, sub, status>> /\ status = "running"
  BY DEF StartInput, Ready
<1>2. PICK w : call' = CallOf(fn, "getline", Nil, v, <<>>, <<>>, Nil, 0, w)
  BY DEF StartInput, NoCall, CallOf
<1>3. IsCall(call') /\ call'.fn = fn /\ call'.pc = "getline" /\ call'.slot = v
  BY <1>2, StartedFacts
<1>4. last'.fn # "Free"
  BY NoResultFacts DEF StartInput
<1>5. owned' \cup Held' = owned /\ owned' \cap Held' = {}
  BY <1>1, <1>3 DEF Held
<1>6. Heap(heap', owned' \cup Held', {hc_stream'.buf} \ {Nil})
  BY <1>1, <1>5, Idle
<1>7. Books'
  BY <1>1, <1>3, <1>5, <1>6, Idle, OutsideFormat DEF Books
<1> QED
  BY <1>1, <1>4, <1>7, GoesOn

\* An input call gets a line, or gives it up and asks again.
At(k, pc, t) == [k EXCEPT !.pc = pc, !.tmp = t]

LEMMA AtFacts ==
  ASSUME NEW k, IsCall(k), NEW pc, NEW t, NEW c, c = At(k, pc, t)
  PROVE  IsCall(c) /\ c.fn = k.fn /\ c.pc = pc /\ c.slot = k.slot /\ c.tmp = t
<1>1. c = [f \in CallFields |-> IF f = "tmp" THEN t ELSE IF f = "pc" THEN pc ELSE k[f]]
  BY DEF At, IsCall, CallFields
<1> QED
  BY <1>1 DEF IsCall, CallFields

\* What an input call works with.
LEMMA Asking ==
  ASSUME IInv, status = "running", call.pc \in {"getline", "line"}
  PROVE  /\ Books /\ IsCall(call) /\ call.fn \in InputFns /\ call.slot \in Slots
         /\ out.buf = Nil /\ sub.buf = Nil
         /\ vars \in [Slots -> Blocks \cup {Nil}]
         /\ call.pc = "getline" => Heap(heap, owned, {hc_stream.buf} \ {Nil})
         /\ call.pc = "line" => /\ Heap(heap, owned \cup {call.tmp}, {hc_stream.buf} \ {Nil})
                                /\ call.tmp \notin owned /\ call.tmp \in Blocks
                                /\ call.tmp # hc_stream.buf
<1>1. /\ Books /\ IsCall(call) /\ call.fn \in InputFns /\ call.slot \in Slots
      /\ out.buf = Nil /\ sub.buf = Nil /\ vars \in [Slots -> Blocks \cup {Nil}]
  BY DEF IInv, Books, CallOK, FormatPcs
<1>2. ASSUME call.pc = "getline" PROVE Heap(heap, owned, {hc_stream.buf} \ {Nil})
  BY <1>1, <1>2 DEF Books, Held, Buffers
<1>3. ASSUME call.pc = "line"
      PROVE  /\ Heap(heap, owned \cup {call.tmp}, {hc_stream.buf} \ {Nil})
             /\ call.tmp \notin owned /\ call.tmp \in Blocks
             /\ call.tmp # hc_stream.buf
  <2>1. Heap(heap, owned \cup {call.tmp}, {hc_stream.buf} \ {Nil}) /\ call.tmp \notin owned
    BY <1>1, <1>3 DEF Books, Held, Buffers
  <2>2. owned \cup {call.tmp} \subseteq Blocks /\ (owned \cup {call.tmp}) \cap ({hc_stream.buf} \ {Nil}) = {}
    BY <2>1, FreeIsNobodys
  <2> QED
    BY <2>1, <2>2, RuntimeAssumption DEF Nil
<1> QED
  BY <1>1, <1>2, <1>3

\* The line is in block c, and what getline took is free again.
LEMMA HasLine ==
  ASSUME IInv, status = "running", call.pc = "getline", NEW c, c \in FreeBlocks(heap),
         call' = At(call, "line", c), UNCHANGED <<vars, owned, hc_stream, out, sub, status, last>>,
         Heap(heap', owned \cup {c}, {hc_stream.buf} \ {Nil})
  PROVE  IInv'
<1>1. IsCall(call') /\ call'.fn = call.fn /\ call'.pc = "line" /\ call'.slot = call.slot /\ call'.tmp = c
  BY Asking, AtFacts
<1>2. Held' = {c} /\ c \notin owned
  BY <1>1, Asking, FreeIsNobodys DEF Held
<1>3. Books'
  BY <1>1, <1>2, Asking, OutsideFormat
<1> QED
  BY <1>3, Proceeds

LEMMA GetStrStep ==
  ASSUME IInv, GetStr
  PROVE  IInv'
<1> DEFINE C == {hc_stream.buf} \ {Nil}
<1>1. /\ status = "running" /\ call.pc = "getline"
      /\ UNCHANGED <<vars, owned, hc_stream, out, sub, last>>
  BY DEF GetStr
<1>2. Heap(heap, owned, C)
  BY <1>1, Asking
<1>3. CASE Ended("nomem")
  <2>1. status' = "nomem"
    BY <1>3 DEF Ended
  <2> QED
    BY <1>1, <2>1, Breaks
<1>4. CASE /\ \E c \in Takeable(heap) :
                /\ heap' = MAllocAt(heap, c, 1, <<>>)
                /\ call' = [call EXCEPT !.pc = "line", !.tmp = c]
           /\ UNCHANGED status
  <2>1. PICK c \in Takeable(heap) : heap' = MAllocAt(heap, c, 1, <<>>) /\ call' = At(call, "line", c)
    BY <1>4 DEF At
  <2>2. c \in Blocks /\ c \in FreeBlocks(heap)
    BY TakeableIsFree
  <2>3. C \ {c} = C
    BY <1>2, <2>2, FreeIsNobodys
  <2> HIDE DEF C
  <2>4. Heap(heap', owned \cup {c}, C)
    BY <1>2, <2>1, <2>2, <2>3, MAllocFacts
  <2> QED
    BY <1>1, <1>4, <2>1, <2>2, <2>4, HasLine DEF C
<1>5. CASE /\ \E b \in Takeable(heap) : \E c \in FreeBlocks(heap) \ {b} :
                LET line == Head(input.lines)
                    h == Give(heap, b, "c", Len(line.text) + 2, line.text)
                    s == Stripped(line.text)
                IN  /\ heap' = GiveBack(MAllocAt(h, c, Len(s) + 1, s), b)
                    /\ call' = [call EXCEPT !.pc = "line", !.tmp = c]
           /\ UNCHANGED status
  <2>1. PICK b, c, h, n, t, m, s :
           /\ b \in Takeable(heap) /\ c \in FreeBlocks(heap) \ {b}
           /\ h = Give(heap, b, "c", n, t)
           /\ heap' = GiveBack(MAllocAt(h, c, m, s), b)
           /\ call' = At(call, "line", c)
    BY <1>5 DEF At
  <2>2. b \in Blocks /\ b \in FreeBlocks(heap) /\ c \in Blocks /\ c \in FreeBlocks(heap) /\ b # c
    BY <2>1, TakeableIsFree
  <2>3. b \notin C /\ c \notin C /\ b \notin owned
    BY <1>2, <2>2, FreeIsNobodys
  <2>4. ((C \cup {b}) \ {c}) \ {b} = C
    BY <2>2, <2>3
  <2> HIDE DEF C
  <2>5. Heap(h, owned, C \cup {b})
    BY <1>2, <2>1, <2>2, <2>3, GiveFacts
  <2>6. Heap(MAllocAt(h, c, m, s), owned \cup {c}, (C \cup {b}) \ {c})
    BY <2>2, <2>5, MAllocFacts
  <2>7. Heap(heap', owned \cup {c}, C)
    BY <2>1, <2>2, <2>3, <2>4, <2>6, GiveBackFacts
  <2> QED
    BY <1>1, <1>5, <2>1, <2>2, <2>7, HasLine DEF C
<1> QED
  <2> HIDE DEF C
  <2> QED
    BY <1>3, <1>4, <1>5 DEF GetStr

LEMMA GetStrDoneStep ==
  ASSUME IInv, GetStrDone
  PROVE  IInv'
<1>1. /\ status = "running" /\ call.pc = "line" /\ call.fn = "GetStr"
      /\ UNCHANGED <<heap, hc_stream, out, sub, status>>
      /\ Hand(call.slot, call.tmp) /\ Return(TextOf(call.tmp))
  BY DEF GetStrDone, GotLine
<1>2. vars' \in [Slots -> Blocks \cup {Nil}] /\ owned' = owned \cup {call.tmp}
      /\ out'.buf = Nil /\ sub.buf = Nil
  BY <1>1, Asking DEF Hand
<1>3. Heap(heap', owned', {hc_stream.buf} \ {Nil})
  BY <1>1, <1>2, Asking
<1> QED
  BY <1>1, <1>2, <1>3, Returns

\* GetI64, GetF64 and YorN free the line, whatever they make of it.
LEMMA JudgeStep ==
  ASSUME IInv, status = "running", call.pc = "line", NEW answers, NEW got, Judge(answers, got)
  PROVE  IInv'
<1> DEFINE C == {hc_stream.buf} \ {Nil}
<1>1. heap' = FreeAt(heap, call.tmp) /\ UNCHANGED <<vars, owned, hc_stream, out, sub, status>>
  BY DEF Judge
<1>2. (owned \cup {call.tmp}) \ {call.tmp} = owned /\ C \ {call.tmp} = C
  BY Asking
<1>3. Heap(heap, owned \cup {call.tmp}, C) /\ call.tmp \in Blocks
  BY Asking
<1>4. Heap(heap', owned, C)
  <2> HIDE DEF C
  <2> QED
    BY <1>1, <1>2, <1>3, FreeFacts
<1>5. CASE Return(got)
  <2>1. call.fn # "Free"
    BY Asking DEF InputFns
  <2> QED
    BY <1>1, <1>4, <1>5, <2>1, Asking, Returns
<1>6. CASE call' = [call EXCEPT !.pc = "getline", !.tmp = Nil] /\ UNCHANGED last
  <2>1. call' = At(call, "getline", Nil)
    BY <1>6 DEF At
  <2>2. IsCall(call') /\ call'.fn = call.fn /\ call'.pc = "getline" /\ call'.slot = call.slot
    BY <2>1, Asking, AtFacts
  <2>3. owned' \cup Held' = owned /\ owned' \cap Held' = {}
    BY <1>1, <2>2 DEF Held
  <2>4. Heap(heap', owned' \cup Held', {hc_stream'.buf} \ {Nil})
    BY <1>1, <1>4, <2>3
  <2>5. Books'
    BY <1>1, <2>2, <2>3, <2>4, Asking, OutsideFormat
  <2> QED
    BY <1>1, <1>6, <2>5, Proceeds
<1> QED
  BY <1>5, <1>6 DEF Judge

-----------------------------------------------------------------------------
(* The files *)

LEMMA FileReadStep ==
  ASSUME IInv, NEW v \in Slots, FileRead(v)
  PROVE  IInv'
<1> DEFINE C == {hc_stream.buf} \ {Nil}
<1>1. Ready /\ UNCHANGED <<owned, hc_stream, out, sub>> /\ status = "running"
  BY DEF FileRead, Ready
<1>2. last'.fn # "Free"
  BY NoResultFacts DEF FileRead
<1>3. CASE vars' = [vars EXCEPT ![v] = Nil] /\ UNCHANGED <<heap, call, status>>
  <2>1. Books'
    BY <1>1, <1>3, Idle, Untouched DEF Books
  <2> QED
    BY <1>1, <1>2, <1>3, <2>1, GoesOn
<1>4. CASE Ended("nomem")
  BY <1>2, <1>4, Stopped DEF Ended
<1>5. CASE /\ \E b, n :
                /\ b \in Takeable(heap)
                /\ heap' = MAllocAt(heap, b, n + 1, Garbage)
                /\ call' = [NoCall EXCEPT !.fn = "FileRead", !.pc = "read", !.slot = v, !.tmp = b, !.n = n]
           /\ UNCHANGED <<vars, status>>
  <2>1. PICK b, n :
          /\ b \in Takeable(heap)
          /\ heap' = MAllocAt(heap, b, n + 1, Garbage)
          /\ call' = CallOf("FileRead", "read", Nil, v, <<>>, <<>>, b, n, <<>>)
    <3>1. PICK b, n :
            /\ b \in Takeable(heap)
            /\ heap' = MAllocAt(heap, b, n + 1, Garbage)
            /\ call' = [NoCall EXCEPT !.fn = "FileRead", !.pc = "read", !.slot = v, !.tmp = b, !.n = n]
      BY <1>5
    <3>2. call' = CallOf("FileRead", "read", Nil, v, <<>>, <<>>, b, n, <<>>)
      BY ONLY <3>1 DEF NoCall, CallOf
    <3> QED
      BY <3>1, <3>2
  <2>2. b \in Blocks /\ b \in FreeBlocks(heap)
    BY <2>1, TakeableIsFree
  <2>3. Heap(heap, owned, C)
    BY <1>1, Idle
  <2>4. C \ {b} = C /\ b \notin owned
    BY <2>2, <2>3, FreeIsNobodys
  <2>5. Heap(heap', owned \cup {b}, C)
    <3> HIDE DEF C
    <3> QED
      BY <2>1, <2>2, <2>3, <2>4, MAllocFacts
  <2>6. IsCall(call') /\ call'.fn = "FileRead" /\ call'.pc = "read" /\ call'.slot = v /\ call'.tmp = b
    BY <2>1, StartedFacts
  <2>7. Held' = {b} /\ owned' \cap Held' = {}
    BY <1>1, <2>4, <2>6 DEF Held
  <2>8. Heap(heap', owned' \cup Held', {hc_stream'.buf} \ {Nil})
    BY <1>1, <2>5, <2>7
  <2>9. Books'
    BY <1>1, <1>5, <2>6, <2>7, <2>8, Idle, OutsideFormat DEF Books
  <2> QED
    BY <1>1, <1>2, <1>5, <2>9, GoesOn
<1> QED
  <2> HIDE DEF C
  <2>1. \/ vars' = [vars EXCEPT ![v] = Nil] /\ UNCHANGED <<heap, call, status>>
        \/ Ended("nomem")
        \/ /\ \E b \in Takeable(heap) :
                LET n == IF file.kind = "file" THEN Len(file.text) ELSE -1
                IN /\ heap' = MAllocAt(heap, b, n + 1, Garbage)
                   /\ call' = [NoCall EXCEPT !.fn = "FileRead", !.pc = "read", !.slot = v, !.tmp = b, !.n = n]
           /\ UNCHANGED <<vars, status>>
    BY Zenon DEF FileRead
  <2> QED
    BY <1>3, <1>4, <1>5, <2>1

LEMMA FileReadDoneStep ==
  ASSUME IInv, FileReadDone
  PROVE  IInv'
<1>1. status = "running" /\ call.pc = "read" /\ UNCHANGED <<hc_stream, out, sub>>
  BY DEF FileReadDone
<1>2. /\ Books /\ call.slot \in Slots /\ out.buf = Nil /\ sub.buf = Nil /\ vars \in [Slots -> Blocks \cup {Nil}]
      /\ Heap(heap, owned \cup {call.tmp}, {hc_stream.buf} \ {Nil})
  <2>1. Books /\ call.slot \in Slots /\ out.buf = Nil /\ sub.buf = Nil
    BY <1>1 DEF IInv, Books, CallOK, FormatPcs
  <2>2. Held = {call.tmp} /\ Buffers = {hc_stream.buf} \ {Nil}
    BY <1>1, <2>1 DEF Held, Buffers
  <2> QED
    BY <2>1, <2>2 DEF Books
<1>3. CASE Ended("overrun") /\ UNCHANGED last
  BY <1>3, Breaks DEF Ended
<1>4. CASE /\ \E text : heap' = [heap EXCEPT ![call.tmp].text = text] /\ last' = Returned("FileRead", text, text)
           /\ Hand(call.slot, call.tmp)
           /\ call' = NoCall
           /\ UNCHANGED status
  <2>1. PICK text : heap' = [heap EXCEPT ![call.tmp].text = text] /\ last' = Returned("FileRead", text, text)
    BY <1>4
  <2>2. call.tmp \in Blocks
    BY <1>2, FreeIsNobodys
  <2>3. Heap(heap', owned \cup {call.tmp}, {hc_stream.buf} \ {Nil})
    BY <1>2, <2>1, <2>2, WriteFacts
  <2>4. last'.fn # "Free"
    BY <2>1, ReturnedFacts
  <2>5. vars' \in [Slots -> Blocks \cup {Nil}] /\ owned' = owned \cup {call.tmp}
    BY <1>2, <1>4, <2>2 DEF Hand
  <2>6. Heap(heap', owned', {hc_stream'.buf} \ {Nil})
    BY <1>1, <2>3, <2>5
  <2>8. Books'
    BY <1>1, <1>2, <1>4, <2>5, <2>6, NoCallFacts, AtRest
  <2> QED
    BY <1>1, <1>4, <2>4, <2>8, GoesOn
<1> QED
  BY <1>3, <1>4 DEF FileReadDone

LEMMA FileChangesStep ==
  ASSUME IInv, FileChanges
  PROVE  IInv'
<1>1. UNCHANGED <<heap, vars, owned, hc_stream, out, sub, call, status, last>>
  BY DEF FileChanges
<1> QED
  BY <1>1 DEF IInv, FreesOnce, Books, CallOK, Held, Buffers, Apart

-----------------------------------------------------------------------------
(* The theorems *)

LEMMA InitStep == Init => IInv
<1> SUFFICES ASSUME Init PROVE IInv
  OBVIOUS
<1> DEFINE b == CHOOSE c \in Blocks : TRUE
           mem(t) == [st |-> "mem", size |-> Len(t) + 1, magic |-> TRUE, text |-> t]
           fresh == [st |-> "free", size |-> 0, magic |-> FALSE, text |-> Garbage]
<1>1. b \in Blocks
  BY RuntimeAssumption
<1>2. PICK t : /\ heap = [c \in Blocks |-> IF c = b THEN mem(t) ELSE fresh]
               /\ vars = [w \in Slots |-> IF w = NoCall.slot THEN b ELSE Nil]
               /\ owned = {b}
  BY DEF Init
<1>3. hc_stream = NoOut /\ out = NoOut /\ sub = NoOut /\ call = NoCall /\ status = "running" /\ last = NoResult
  BY DEF Init
<1>4. IsBlock(mem(t)) /\ mem(t).st = "mem" /\ mem(t).magic = TRUE
  BY DEF IsBlock, Fields
<1>5. IsBlock(fresh) /\ fresh.st = "free" /\ fresh.magic = FALSE
  BY DEF IsBlock, Fields
<1> HIDE DEF b, mem, fresh
<1>6. IsHeap(heap)
  BY <1>2, <1>4, <1>5 DEF IsHeap
<1>7. Sealed(heap) /\ MemBlocks(heap) = {b} /\ CBlocks(heap) = {}
  BY <1>1, <1>2, <1>4, <1>5 DEF Sealed, MemBlocks, CBlocks
<1>8. Heap(heap, {b}, {})
  BY <1>6, <1>7 DEF Heap
<1>9. Held = {} /\ Buffers = {} /\ Apart
  BY <1>3, NoCallFacts DEF Held, Buffers, Apart, NoOut
<1>10. CallOK
  BY <1>3, NoCallFacts DEF CallOK, FormatPcs, NoOut
<1>11. vars \in [Slots -> Blocks \cup {Nil}]
  BY <1>1, <1>2
<1>12. Books
  BY <1>2, <1>8, <1>9, <1>10, <1>11 DEF Books
<1> QED
  BY <1>3, <1>12, NoResultFacts DEF IInv, FreesOnce

LEMMA CallStep ==
  ASSUME IInv, Call
  PROVE  IInv'
<1>1. NoCall.slot \in Slots
  BY NoCallFacts
<1>2. CASE \E v \in Slots, size \in Sizes, clear \in BOOLEAN : MAlloc(v, size, clear)
  BY <1>2, MAllocStep
<1>3. CASE \E v, w \in Slots : MAllocIdent(v, w)
  BY <1>3, MAllocIdentStep
<1>4. CASE \E v \in Slots, s \in Literals : StrNew(v, s)
  BY <1>4, StrNewStep
<1>5. CASE \E v \in Slots : Free(v)
  BY <1>5, FreeStep
<1>6. CASE \E v \in Slots, tc \in TextCalls, fn \in {"StrPrint", "CatPrint", "StrPrintJoin"} :
             StartFormat(fn, vars[v], v, tc)
  BY <1>6, StartFormatStep DEF FormatFns
<1>7. CASE \E v \in Slots, tc \in TextCalls : StartFormat("MStrPrint", Nil, v, tc)
  BY <1>7, StartFormatStep DEF FormatFns
<1>8. CASE \E tc \in TextCalls : StartFormat("StreamPrint", Nil, NoCall.slot, tc)
  BY <1>1, <1>8, StartFormatStep DEF FormatFns
<1>9. CASE \E tc \in PrintCalls : StartFormat("Print", Nil, NoCall.slot, tc)
  BY <1>1, <1>9, StartFormatStep DEF FormatFns
<1>10. CASE StreamGet
  BY <1>10, StreamGetStep
<1>11. CASE \E v \in Slots : StartInput("GetStr", v)
  BY <1>11, StartInputStep DEF InputFns
<1>12. CASE \E fn \in {"GetI64", "GetF64", "YorN"} : StartInput(fn, NoCall.slot)
  BY <1>1, <1>12, StartInputStep DEF InputFns
<1>13. CASE GetChar
  BY <1>13, GetCharStep
<1>14. CASE \E v \in Slots : FileRead(v)
  BY <1>14, FileReadStep
<1>15. CASE \E v \in Slots : FileWrite(v)
  BY <1>15, FileWriteStep
<1> QED
  BY <1>2, <1>3, <1>4, <1>5, <1>6, <1>7, <1>8, <1>9, <1>10, <1>11, <1>12, <1>13, <1>14, <1>15 DEF Call

LEMMA NextStep == IInv /\ [Next]_rtVars => IInv'
<1> SUFFICES ASSUME IInv, [Next]_rtVars PROVE IInv'
  OBVIOUS
<1>1. CASE Call
  BY <1>1, CallStep
<1>2. CASE Forming
  BY <1>2, FormatStep, FillSubStep, EmitSubStep, FreeSubStep, PrintDoneStep, NewStringStep, IntoPlaceStep, StrPrintJoinStep, StreamPrintStep
     DEF Forming
<1>3. CASE GetStr \/ GetStrDone
  BY <1>3, GetStrStep, GetStrDoneStep
<1>4. CASE GetI64 \/ GetF64 \/ YorN
  <2>1. status = "running" /\ call.pc = "line" /\ \E answers, got : Judge(answers, got)
    BY <1>4 DEF GetI64, GetF64, YorN, GotLine
  <2> QED
    BY <2>1, JudgeStep
<1>5. CASE FileReadDone
  BY <1>5, FileReadDoneStep
<1>6. CASE FileChanges
  BY <1>6, FileChangesStep
<1>7. CASE UNCHANGED rtVars
  BY <1>7 DEF rtVars, IInv, FreesOnce, Books, CallOK, Held, Buffers, Apart
<1> QED
  BY <1>1, <1>2, <1>3, <1>4, <1>5, <1>6, <1>7 DEF Next, Answering

LEMMA InvariantHolds == Spec => []IInv
  BY InitStep, NextStep, PTL DEF Spec

\* In every state of a process that runs, in the middle of a call too, every block in
\* use is the program's, held by the call under way, or one of three different
\* buffers; between calls it is the program's or the stream's.  Each path of MAlloc,
\* Free, StrNew, the Print family with its directives' own buffers, realloc that
\* moves a buffer, the input loops and the file calls frees what it took and nothing
\* else.
THEOREM NothingIsLost == Spec => []NothingLost
<1>1. IInv => NothingLost
  <2> SUFFICES ASSUME IInv, status = "running" PROVE NothingLost
    BY DEF NothingLost
  <2>1. Books
    BY DEF IInv
  <2>2. MemBlocks(heap) = owned \cup Held /\ CBlocks(heap) = Buffers
    BY <2>1 DEF Books, Heap
  <2>3. Apart /\ owned \cap Held = {}
    BY <2>1 DEF Books
  <2>4. call.pc = "idle" => out.buf = Nil /\ sub.buf = Nil
    BY <2>1 DEF Books, CallOK, FormatPcs
  <2> QED
    BY <2>2, <2>3, <2>4 DEF NothingLost, MemBlocks, CBlocks, Buffers, Apart
<1> QED
  BY <1>1, InvariantHolds, PTL

\* HC_Free's magic word tells the program's blocks from all others: Free refuses
\* none of them and takes no other, and free() never sees a block twice, however
\* long the program keeps a pointer and whoever has the memory since.
THEOREM FreesOnlyOnce == Spec => []FreesOnce
<1>1. IInv => FreesOnce
  BY DEF IInv
<1> QED
  BY <1>1, InvariantHolds, PTL
=============================================================================
