------------------------------- MODULE Runtime -------------------------------
(***************************************************************************)
(* src/runtime/hcrt.c as a program that calls it sees it: the heap behind  *)
(* MAlloc and Free, the Print family, the input calls, the files and the   *)
(* #exe stream.                                                            *)
(*                                                                         *)
(* The program keeps pointers in variables, may keep one past the Free of  *)
(* its block, and may Free it again.  It reads and writes only through     *)
(* pointers to live strings, and gives StrPrint and CatPrint room enough:  *)
(* what the runtime does beyond that is C's undefined behaviour.           *)
(*                                                                         *)
(* A call of the Print family takes one step per turn of hc_format's loop  *)
(* and one per piece of a text quoted or unpacked first, an input call one *)
(* per line read, FileRead one to measure the file and one to read it.     *)
(* Any free block may be the one malloc hands out next, and any buffer     *)
(* that grows may move.                                                    *)
(***************************************************************************)
EXTENDS Format, FiniteSets, FiniteSetsExt

CONSTANTS
    Blocks,      \* the places malloc can hand out
    Slots,       \* the program's pointer variables
    Sizes,       \* sizes asked of MAlloc and CAlloc
    Literals,    \* the program's string literals
    FirstTexts,  \* the strings the program may begin with
    TextCalls,   \* [fmt, args]: what the string functions are called with
    PrintCalls,  \* [fmt, args]: what Print is called with
    Worlds,      \* [input, file]: what may wait on stdin and be in the file
    Files,       \* what another process may make of the file
    InitCap,     \* the first capacity of a growing buffer (64)
    MaxCalls     \* bound on the calls of the program

ASSUME RuntimeAssumption ==
    /\ Blocks \subseteq Nat \ {0} /\ Blocks # {}
    /\ Slots # {}
    /\ Sizes \subseteq Int
    /\ InitCap \in Nat \ {0}
    /\ MaxCalls \in Nat

VARIABLES
    heap,        \* block -> who holds it, its size, its header's magic, its text
    vars,        \* slot -> block or 0 (NULL)
    owned,       \* the blocks the program was given and has not freed
    hc_stream,   \* the #exe output: an HCOut
    out,         \* the HCOut of the call under way
    sub,         \* the HCOut of the directive under way (%c, %q)
    call,        \* the call under way
    input,       \* stdin
    file,        \* the file FileRead and FileWrite name
    status,      \* "running", or how the process ended
    last,        \* the last call to return: what it gave and what it owed
    calls        \* the number of calls so far

rtVars == <<heap, vars, owned, hc_stream, out, sub, call, input, file, status, last, calls>>

Nil == 0
NoOut == [buf |-> Nil, len |-> 0, cap |-> 0]
Garbage == <<"garbage">>
NoCall == [fn |-> "none", pc |-> "idle", dst |-> Nil, slot |-> CHOOSE v \in Slots : TRUE,
           fmt |-> <<>>, args |-> <<>>, p |-> 1, ai |-> 0, shown |-> <<>>, tmp |-> Nil,
           n |-> 0, want |-> <<>>]
NoResult == [fn |-> "none", got |-> <<>>, want |-> <<>>, of |-> [fmt |-> <<>>, args |-> <<>>]]

Returned(f, g, w) == [NoResult EXCEPT !.fn = f, !.got = g, !.want = w]

\* The program has made its first string: v = StrNew(s).
Init ==
    /\ \E s \in FirstTexts : LET v == NoCall.slot
                                  b == CHOOSE c \in Blocks : TRUE IN
         /\ heap = [c \in Blocks |->
              IF c = b THEN [st |-> "mem", size |-> Len(s) + 1, magic |-> TRUE, text |-> s]
                       ELSE [st |-> "free", size |-> 0, magic |-> FALSE, text |-> Garbage]]
         /\ vars = [w \in Slots |-> IF w = v THEN b ELSE Nil]
         /\ owned = {b}
    /\ hc_stream = NoOut /\ out = NoOut /\ sub = NoOut
    /\ call = NoCall
    /\ \E w \in Worlds : input = w.input /\ file = w.file
    /\ status = "running"
    /\ last = NoResult
    /\ calls = 0

-----------------------------------------------------------------------------
(* The C library's malloc and free, and the header HC_MAlloc puts before a *)
(* block.  Memory handed out again keeps what was written there.           *)
FreeBlocks(h) == {b \in Blocks : h[b].st = "free"}
\* Any of them may be the one malloc takes; those no variable points at are
\* alike, and one stands for all.
Takeable(h) ==
    LET fresh == FreeBlocks(h) \ Range(vars)
    IN  (FreeBlocks(h) \cap Range(vars)) \cup (IF fresh = {} THEN {} ELSE {Min(fresh)})
Give(h, b, st, size, text) ==
    [h EXCEPT ![b].st = st, ![b].size = size, ![b].text = text]
GiveBack(h, b) == IF b = Nil THEN h ELSE [h EXCEPT ![b].st = "free", ![b].size = 0, ![b].text = Garbage]

Clamped(size) == IF size < 0 THEN 0 ELSE size
MAllocAt(h, b, size, text) ==
    [Give(h, b, "mem", Clamped(size), text) EXCEPT ![b].magic = TRUE]

\* Mutant: the magic word stays in the memory given back.
FreeAt_KeepsMagic(h, b) == GiveBack(h, b)

FreeAt(h, b) == GiveBack([h EXCEPT ![b].magic = FALSE], b)

MSizeOf(h, p) == IF p # Nil /\ h[p].magic THEN h[p].size ELSE 0

IsString(p) == p # Nil /\ p \in owned /\ heap[p].text # Garbage
TextOf(p) == IF p = Nil THEN <<>> ELSE heap[p].text

-----------------------------------------------------------------------------
Ready == status = "running" /\ call.pc = "idle" /\ calls < MaxCalls
Ended(how) == status' = how
NoMemory == FreeBlocks(heap) = {}

\* A call that is over at once and leaves the streams alone.
AtOnce ==
    /\ Ready
    /\ calls' = calls + 1
    /\ UNCHANGED <<hc_stream, out, sub, call, input>>

\* The program gets block b in variable v.
Hand(v, b) == vars' = [vars EXCEPT ![v] = b] /\ owned' = owned \cup {b}

OutOfMemory == Ended("nomem") /\ UNCHANGED <<heap, vars, owned, file>>

\* memset clears the size asked for, not the one allocated.
MAlloc(v, size, clear) ==
    /\ AtOnce
    /\ last' = Returned(IF clear THEN "CAlloc" ELSE "MAlloc", <<>>, <<>>)
    /\ \/ NoMemory /\ OutOfMemory
       \/ \E b \in Takeable(heap) :
            /\ heap' = MAllocAt(heap, b, size, IF clear /\ size > 0 THEN <<>> ELSE Garbage)
            /\ Hand(v, b)
            /\ status' = IF clear /\ size < 0 THEN "crash" ELSE status
            /\ UNCHANGED file

MAllocIdent(v, w) ==
    /\ AtOnce
    /\ last' = Returned("MAllocIdent", <<>>, <<>>)
    /\ LET src == vars[w]
           n == MSizeOf(heap, src)
       IN  IF src = Nil
           THEN vars' = [vars EXCEPT ![v] = Nil] /\ UNCHANGED <<heap, owned, status, file>>
           ELSE \/ NoMemory /\ OutOfMemory
                \/ \E b \in Takeable(heap) :
                     /\ heap' = MAllocAt(heap, b, n, IF n > 0 THEN heap[src].text ELSE Garbage)
                     /\ Hand(v, b)
                     /\ UNCHANGED <<status, file>>

\* NULL is the empty string.
StrNew(v, s) ==
    /\ AtOnce
    /\ \/ NoMemory /\ OutOfMemory /\ last' = NoResult
       \/ \E b \in Takeable(heap) :
            /\ heap' = MAllocAt(heap, b, Len(s) + 1, s)
            /\ Hand(v, b)
            /\ last' = Returned("StrNew", heap'[b].text, s)
            /\ UNCHANGED <<status, file>>

\* free() of a block that is already free is the end of malloc's own books.
Free(v) ==
    /\ AtOnce
    /\ UNCHANGED <<vars, file>>
    /\ LET p == vars[v]
           owes == <<IF p = Nil \/ p \in owned THEN "freed" ELSE "refused">>
       IN  CASE p = Nil ->
                  /\ last' = Returned("Free", <<"freed">>, owes)
                  /\ UNCHANGED <<heap, owned, status>>
             [] p # Nil /\ ~heap[p].magic ->
                  /\ Ended("bad_free")
                  /\ last' = Returned("Free", <<"refused">>, owes)
                  /\ UNCHANGED <<heap, owned>>
             [] p # Nil /\ heap[p].magic ->
                  /\ status' = IF heap[p].st = "free" THEN "corrupt" ELSE status
                  /\ heap' = FreeAt(heap, p)
                  /\ owned' = owned \ {p}
                  /\ last' = Returned("Free", <<"freed">>, owes)

-----------------------------------------------------------------------------
(* hc_format.  A format is a sequence of pieces: a character, "%%", a      *)
(* directive, or a directive the end of the string cuts short; Spelling is *)
(* the string the runtime is given.                                        *)
Lit(c) == [k |-> "lit", chars |-> <<c>>, flags |-> <<>>, width |-> 0, prec |-> -1, code |-> "none"]
Percent == [Lit("%") EXCEPT !.k = "pct"]
Dir(flags, width, prec, code) ==
    [k |-> "dir", chars |-> <<>>, flags |-> flags, width |-> width, prec |-> prec, code |-> code]
Cut(chars) == [Lit("%") EXCEPT !.k = "cut", !.chars = chars]

NumberSpelt(n) == IF n = 0 THEN <<>> ELSE DigitsOf(n, 10, HexChars)
Spelt(q) ==
    CASE q.k = "pct" -> <<"%", "%">>
      [] q.k = "dir" -> <<"%">> \o q.flags \o NumberSpelt(q.width)
                          \o (IF q.prec < 0 THEN <<>> ELSE <<".">> \o NumberSpelt(q.prec))
                          \o <<q.code>>
      [] OTHER -> q.chars
Spelling(f) == FlattenSeq([i \in 1 .. Len(f) |-> Spelt(f[i])])

Meaning(q) ==
    LET flags == Range(q.flags)
    IN  [left |-> "-" \in flags, zero |-> "0" \in flags, commas |-> "," \in flags,
         plus |-> "+" \in flags, width |-> q.width, prec |-> q.prec, code |-> q.code, at |-> 0]

ArgAt(args, i) == IF i <= Len(args) THEN args[i] ELSE [ref |-> Nil, word |-> Missing]
\* A string argument is read when its directive is reached.
WordNow(h, a) == IF a.ref = Nil THEN a.word ELSE [a.word EXCEPT !.s = h[a.ref].text]

ArgsBefore(f, i) ==
    FoldLeft(LAMBDA acc, q : acc + IF q.k = "dir" THEN Takes(q.code) ELSE 0, 0, SubSeq(f, 1, i - 1))

\* What the format means, piece by piece, for the arguments as they are now.  A
\* directive with an unknown code stands for itself.
Formatted(f, args) ==
    FlattenSeq([i \in 1 .. Len(f) |->
        CASE f[i].k = "lit" -> f[i].chars
          [] f[i].k = "pct" -> <<"%">>
          [] f[i].k = "dir" /\ f[i].code \notin Codes -> Spelt(f[i])
          [] f[i].k = "dir" /\ f[i].code \in Codes ->
               LET k == ArgsBefore(f, i)
                   a == WordNow(heap, ArgAt(args, k + 1))
               IN  Rendered(Meaning(f[i]), a, WordNow(heap, ArgAt(args, k + 2)),
                            FlattenSeq(Pieces(f[i].code, a)))
          [] OTHER -> <<>>])

\* Of an unknown directive the code keeps only the percent sign and the code.
Abbreviated(f) ==
    \E i \in 1 .. Len(f) : f[i].k = "dir" /\ f[i].code \notin Codes /\ Len(Spelt(f[i])) > 2

-----------------------------------------------------------------------------
(* out_emit: the buffer doubles until the text and its terminator fit.     *)
\* Mutant: the terminator is not counted.
Grown_NoTerminator(cap, need) ==
    LET start == IF cap = 0 THEN InitCap ELSE cap
    IN  CHOOSE c \in start .. (2 * (start + need)) :
            \E k \in 0 .. need : c = start * 2 ^ k /\ c >= need - 1 /\ (k = 0 \/ c < 2 * (need - 1))

Grown(cap, need) ==
    LET start == IF cap = 0 THEN InitCap ELSE cap
    IN  CHOOSE c \in start .. (2 * (start + need)) :
            \E k \in 0 .. need : c = start * 2 ^ k /\ c >= need /\ (k = 0 \/ c < 2 * need)

\* A buffer not made yet has no capacity.
Outgrown(o, t) == o.buf = Nil \/ o.len + Len(t) + 1 > o.cap

\* Where the text of o is after it grew: realloc leaves it in its block or moves
\* it to another.
Places(o, t) ==
    IF Outgrown(o, t) THEN Takeable(heap) \cup ({o.buf} \ {Nil}) ELSE {o.buf}

\* o and the heap after out_emit(o, t) into memory, with the text in block b.
Written(o, t, b) ==
    LET need == o.len + Len(t) + 1
        cap == IF Outgrown(o, t) THEN Grown(o.cap, need) ELSE o.cap
    IN  [out |-> [buf |-> b, len |-> o.len + Len(t), cap |-> cap],
         heap |-> Give(GiveBack(heap, o.buf), b, "c", cap, TextOf(o.buf) \o t)]

\* What realloc returns is not looked at: without memory NULL is written to.
out_emit(o, t, after) ==
    \/ /\ Outgrown(o, t) /\ NoMemory
       /\ Ended("crash") /\ after = o
       /\ UNCHANGED heap
    \/ /\ \E b \in Places(o, t) : heap' = Written(o, t, b).heap /\ after = Written(o, t, b).out
       /\ UNCHANGED status

\* Emit t to stdout or to the call's buffer and go on as call c.
Emit(t, c) ==
    \/ /\ call.fn = "Print"
       /\ call' = [c EXCEPT !.shown = @ \o t]
       /\ UNCHANGED <<heap, out, status>>
    \/ /\ call.fn # "Print"
       /\ out_emit(out, t, out')
       /\ call' = c

\* A call of the Print family: what it owes is fixed now, from the arguments
\* as they are and the text it adds to.  (Print leaves nothing behind that a
\* later call could see: no behaviour is followed past one.)  StreamPrint works
\* on hc_stream itself: until it returns, "out" stands for it.
StartFormat(fn, dst, v, tc) ==
    /\ Ready
    /\ calls' = IF fn = "Print" THEN MaxCalls ELSE calls + 1
    /\ LET args == [i \in 1 .. Len(tc.args) |->
                      [ref |-> IF tc.args[i].slot \in Slots THEN vars[tc.args[i].slot] ELSE Nil,
                       word |-> tc.args[i].word]]
           text == Formatted(tc.fmt, args)
           base == CASE fn \in {"CatPrint", "StrPrintJoin"} -> TextOf(dst)
                     [] fn = "StreamPrint" -> TextOf(hc_stream.buf)
                     [] OTHER -> <<>>
           room == Len(base \o text) + 1
       IN  /\ \A i \in 1 .. Len(args) : args[i].ref = Nil \/ IsString(args[i].ref)
           /\ fn = "StrPrint" /\ dst # Nil => dst \in owned /\ heap[dst].size >= room
           /\ fn = "CatPrint" /\ dst # Nil => IsString(dst) /\ heap[dst].size >= room
           /\ fn = "StrPrintJoin" /\ dst # Nil => IsString(dst)
           /\ call' = [NoCall EXCEPT !.fn = fn, !.pc = "format", !.dst = dst, !.slot = v,
                         !.fmt = Spelling(tc.fmt), !.args = args, !.want = base \o text]
           /\ last' = [NoResult EXCEPT !.of = [fmt |-> tc.fmt, args |-> args]]
    /\ out' = IF fn = "StreamPrint" THEN hc_stream ELSE NoOut
    /\ hc_stream' = IF fn = "StreamPrint" THEN NoOut ELSE hc_stream
    /\ UNCHANGED <<heap, vars, owned, sub, input, file, status>>

\* The directive the loop is at, its arguments, and the call once it is done.
Here == DirectiveAt(call.fmt, call.p + 1)
Word(i) == WordNow(heap, ArgAt(call.args, call.ai + i))
Past == [call EXCEPT !.pc = "format", !.n = 0, !.p = Here.at + 1, !.ai = @ + Takes(Here.code)]

\* One turn of the loop over the format.  Past a directive the end cuts short
\* the loop steps over the terminator and reads on.
hc_format ==
    /\ status = "running" /\ call.pc = "format"
    /\ LET f == call.fmt
           p == call.p
           directive == p < Len(f) /\ f[p] = "%" /\ f[p + 1] # "%"
       IN  \/ /\ p > Len(f) \/ (p = Len(f) /\ f[p] = "%")
              /\ call' = [call EXCEPT !.pc = "return"]
              /\ UNCHANGED <<heap, out, status>>
           \/ /\ p <= Len(f) /\ f[p] # "%"
              /\ Emit(<<f[p]>>, [call EXCEPT !.p = p + 1])
           \/ /\ p < Len(f) /\ f[p] = "%" /\ f[p + 1] = "%"
              /\ Emit(<<"%">>, [call EXCEPT !.p = p + 2])
           \/ /\ directive /\ Here.code = "nul"
              /\ Ended("astray") /\ UNCHANGED <<heap, out, call>>
           \/ /\ directive /\ Here.code \in Buffered
              /\ call' = [call EXCEPT !.pc = "sub"]
              /\ UNCHANGED <<heap, out, status>>
           \/ /\ directive /\ Here.code \notin Buffered \cup {"nul"}
              /\ IF Here.code = "z" /\ Word(2).z = NULL
                 THEN call' = Past /\ UNCHANGED <<heap, out, status>>
                 ELSE Emit(Rendered(Here, Word(1), Word(2), <<>>), Past)
    /\ UNCHANGED <<vars, owned, hc_stream, sub, input, file, last, calls>>

\* %c and %q: the text grows piece by piece in a buffer of the directive's own,
\* whatever the call prints to; the field is emitted from there.
FillSub ==
    /\ status = "running" /\ call.pc = "sub"
    /\ call.n < Len(Pieces(Here.code, Word(1)))
    /\ out_emit(sub, Pieces(Here.code, Word(1))[call.n + 1], sub')
    /\ call' = [call EXCEPT !.n = @ + 1]
    /\ UNCHANGED <<vars, owned, hc_stream, out, input, file, last, calls>>

EmitSub ==
    /\ status = "running" /\ call.pc = "sub"
    /\ call.n = Len(Pieces(Here.code, Word(1)))
    /\ Emit(Rendered(Here, Word(1), Word(2), TextOf(sub.buf)), [call EXCEPT !.pc = "drop"])
    /\ UNCHANGED <<vars, owned, hc_stream, sub, input, file, last, calls>>

\* Mutant: the buffer of the directive is not freed.
FreeSub_Keeps ==
    /\ status = "running" /\ call.pc = "drop"
    /\ sub' = NoOut
    /\ call' = Past
    /\ UNCHANGED <<heap, vars, owned, hc_stream, out, input, file, status, last, calls>>

FreeSub ==
    /\ status = "running" /\ call.pc = "drop"
    /\ heap' = GiveBack(heap, sub.buf)
    /\ sub' = NoOut
    /\ call' = Past
    /\ UNCHANGED <<vars, owned, hc_stream, out, input, file, status, last, calls>>

-----------------------------------------------------------------------------
(* What each function does with the formatted text.                        *)
Returning(fns) == status = "running" /\ call.pc = "return" /\ call.fn \in fns
Return(got) ==
    /\ call' = NoCall
    /\ last' = [fn |-> call.fn, got |-> got, want |-> call.want,
                of |-> IF call.fn = "Print" \/ Abbreviated(last.of.fmt) THEN last.of ELSE NoResult.of]
Formed == TextOf(out.buf)

PrintDone ==
    /\ Returning({"Print"})
    /\ Return(call.shown)
    /\ UNCHANGED <<heap, vars, owned, hc_stream, out, sub, input, file, status, calls>>

\* MStrPrint, and StrPrint and StrPrintJoin without a destination: a new string,
\* then the buffer is freed.
NewString ==
    /\ Returning({"MStrPrint", "StrPrint", "StrPrintJoin"})
    /\ call.dst = Nil
    /\ \/ NoMemory /\ Ended("nomem") /\ UNCHANGED <<heap, vars, owned, out, call, last>>
       \/ \E b \in Takeable(heap) :
            LET h == MAllocAt(heap, b, Len(Formed) + 1, Formed)
            IN  /\ heap' = GiveBack(h, out.buf)
                /\ Hand(call.slot, b)
                /\ out' = NoOut
                /\ Return(h[b].text)
                /\ UNCHANGED status
    /\ UNCHANGED <<hc_stream, sub, input, file, calls>>

\* StrPrint overwrites the destination, CatPrint adds to it unless it is NULL.
IntoPlace ==
    /\ Returning({"StrPrint", "CatPrint"})
    /\ call.fn = "StrPrint" => call.dst # Nil
    /\ LET text == IF call.fn = "StrPrint" THEN Formed ELSE TextOf(call.dst) \o Formed
           h == IF call.dst = Nil THEN heap ELSE [heap EXCEPT ![call.dst].text = text]
       IN  /\ heap' = GiveBack(h, out.buf)
           /\ Return(IF call.dst = Nil THEN call.want ELSE text)
    /\ vars' = [vars EXCEPT ![call.slot] = call.dst]
    /\ out' = NoOut
    /\ UNCHANGED <<owned, hc_stream, sub, input, file, status, calls>>

\* Mutant: the old string is freed before it is copied.
StrPrintJoin_FreesFirst ==
    /\ Returning({"StrPrintJoin"})
    /\ call.dst # Nil
    /\ \E b \in Takeable(FreeAt(heap, call.dst)) :
            LET freed == FreeAt(heap, call.dst)
                h == MAllocAt(freed, b, Len(TextOf(call.dst)) + Len(Formed) + 1,
                              freed[call.dst].text \o Formed)
            IN  /\ heap' = GiveBack(h, out.buf)
                /\ vars' = [vars EXCEPT ![call.slot] = b]
                /\ owned' = (owned \ {call.dst}) \cup {b}
                /\ out' = NoOut
                /\ Return(h[b].text)
                /\ UNCHANGED status
    /\ UNCHANGED <<hc_stream, sub, input, file, calls>>

StrPrintJoin ==
    /\ Returning({"StrPrintJoin"})
    /\ call.dst # Nil
    /\ \/ NoMemory /\ Ended("nomem") /\ UNCHANGED <<heap, vars, owned, out, call, last>>
       \/ \E b \in Takeable(heap) :
            LET text == heap[call.dst].text \o Formed
                h == MAllocAt(heap, b, Len(text) + 1, text)
            IN  /\ heap' = GiveBack(FreeAt(h, call.dst), out.buf)
                /\ vars' = [vars EXCEPT ![call.slot] = b]
                /\ owned' = (owned \ {call.dst}) \cup {b}
                /\ out' = NoOut
                /\ Return(h[b].text)
                /\ UNCHANGED status
    /\ UNCHANGED <<hc_stream, sub, input, file, calls>>

StreamPrint ==
    /\ Returning({"StreamPrint"})
    /\ hc_stream' = out /\ out' = NoOut
    /\ Return(Formed)
    /\ UNCHANGED <<heap, vars, owned, sub, input, file, status, calls>>

\* The compiler takes the #exe output, reads it and frees it with free().
StreamGet ==
    /\ Ready
    /\ calls' = calls + 1
    /\ heap' = GiveBack(heap, hc_stream.buf)
    /\ last' = Returned("StreamGet", TextOf(hc_stream.buf), TextOf(hc_stream.buf))
    /\ hc_stream' = NoOut
    /\ UNCHANGED <<vars, owned, out, sub, call, input, file, status>>

-----------------------------------------------------------------------------
(* Input.  A line is its text and whether a newline ends it; after the     *)
(* lines comes the end of the file, or a read that fails, which sets no    *)
(* end-of-file mark.                                                       *)
Stripped(text) ==
    LET keep == {i \in 1 .. Len(text) : text[i] # "cr"}
    IN  IF keep = {} THEN <<>> ELSE SubSeq(text, 1, Max(keep))

Digits == Range(DigitChars)
IsNumber(s) == s # <<>> /\ s[1] \in Digits
NumberAt(s) == IF IsNumber(s) THEN NumberIn(s, 1, SpanEnd(s, 1, Digits)) ELSE 0
\* strtoll: the digits the text begins with.

Dft == 7
Lo == 1
Hi == 5
InRange(s) == IsNumber(s) /\ NumberAt(s) \in Lo .. Hi
Yes(s) == s # <<>> /\ s[1] \in {"y", "Y"}
No(s) == s # <<>> /\ s[1] \in {"n", "N"}

\* What the call owes, said of the whole input: the line that decides, and the
\* answer; 0 lines decide when none does.
Deciding(fn, in, k) ==
    LET s == Stripped(in.lines[k].text)
        ends == ~in.lines[k].nl /\ in.end = "eof"
    IN  CASE fn \in {"GetStr", "GetF64"} -> TRUE
          [] fn = "GetI64" -> s = <<>> \/ InRange(s) \/ ends
          [] fn = "YorN" -> Yes(s) \/ No(s) \/ ends
Answer(fn, in) ==
    LET deciding == {k \in 1 .. Len(in.lines) : Deciding(fn, in, k)}
        s == IF deciding = {} THEN <<>> ELSE Stripped(in.lines[Min(deciding)].text)
    IN  CASE fn = "GetStr" -> s
          [] fn = "GetF64" -> <<IF s = <<>> THEN Dft ELSE NumberAt(s)>>
          [] fn = "GetI64" -> <<IF InRange(s) THEN NumberAt(s) ELSE Dft>>
          [] fn = "YorN" -> <<IF Yes(s) THEN 1 ELSE 0>>

StartInput(fn, v) ==
    /\ Ready
    /\ calls' = calls + 1
    /\ call' = [NoCall EXCEPT !.fn = fn, !.pc = "getline", !.slot = v, !.want = Answer(fn, input)]
    /\ last' = NoResult
    /\ UNCHANGED <<heap, vars, owned, hc_stream, out, sub, input, file, status>>

\* HC_GetStr: getline allocates the line, StrNew copies it, free() drops it; at
\* the end of the input the copy is the empty string.
GetStr ==
    /\ status = "running" /\ call.pc = "getline"
    /\ \/ /\ Cardinality(FreeBlocks(heap)) < (IF input.lines = <<>> THEN 1 ELSE 2)
          /\ Ended("nomem")
          /\ UNCHANGED <<heap, call, input>>
       \/ /\ input.lines = <<>>
          /\ \E c \in Takeable(heap) :
               /\ heap' = MAllocAt(heap, c, 1, <<>>)
               /\ call' = [call EXCEPT !.pc = "line", !.tmp = c]
          /\ input' = [input EXCEPT !.eof = (input.end = "eof")]
          /\ UNCHANGED status
       \/ /\ input.lines # <<>>
          /\ \E b \in Takeable(heap) : \E c \in FreeBlocks(heap) \ {b} :
               LET line == Head(input.lines)
                   h == Give(heap, b, "c", Len(line.text) + 2, line.text)
                   s == Stripped(line.text)
               IN  /\ heap' = GiveBack(MAllocAt(h, c, Len(s) + 1, s), b)
                   /\ call' = [call EXCEPT !.pc = "line", !.tmp = c]
                   /\ input' = [input EXCEPT !.lines = Tail(@),
                                             !.eof = ~line.nl /\ input.end = "eof"]
          /\ UNCHANGED status
    /\ UNCHANGED <<vars, owned, hc_stream, out, sub, file, last, calls>>

GotLine(fn) == status = "running" /\ call.pc = "line" /\ call.fn = fn

GetStrDone ==
    /\ GotLine("GetStr")
    /\ Hand(call.slot, call.tmp)
    /\ Return(TextOf(call.tmp))
    /\ UNCHANGED <<heap, hc_stream, out, sub, input, file, status, calls>>

\* The line is freed; the call answers, or asks again.
Judge(answers, got) ==
    /\ heap' = FreeAt(heap, call.tmp)
    /\ \/ answers /\ Return(got)
       \/ ~answers /\ call' = [call EXCEPT !.pc = "getline", !.tmp = Nil] /\ UNCHANGED last
    /\ UNCHANGED <<vars, owned, hc_stream, out, sub, input, file, status, calls>>

GetI64 ==
    /\ GotLine("GetI64")
    /\ LET s == TextOf(call.tmp)
           ok == IsNumber(s) /\ NumberAt(s) >= Lo /\ NumberAt(s) <= Hi
       IN  Judge(s = <<>> \/ ok \/ input.eof, <<IF ok THEN NumberAt(s) ELSE Dft>>)

GetF64 ==
    /\ GotLine("GetF64")
    /\ LET s == TextOf(call.tmp)
       IN  Judge(TRUE, <<IF s = <<>> THEN Dft ELSE NumberAt(s)>>)

\* Mutant: the end of the input is not looked for.
YorN_NoEof ==
    /\ GotLine("YorN")
    /\ LET s == TextOf(call.tmp)
       IN  Judge(Yes(s) \/ No(s), <<IF Yes(s) THEN 1 ELSE 0>>)

YorN ==
    /\ GotLine("YorN")
    /\ LET s == TextOf(call.tmp)
       IN  Judge(Yes(s) \/ No(s) \/ input.eof, <<IF Yes(s) THEN 1 ELSE 0>>)

\* GetChar and PressAKey: one byte, the newline of a line included.
GetChar ==
    /\ Ready
    /\ calls' = calls + 1
    /\ last' = NoResult
    /\ input' =
         CASE input.lines = <<>> -> [input EXCEPT !.eof = (input.end = "eof")]
           [] input.lines # <<>> /\ Head(input.lines).text # <<>> ->
                IF Len(Head(input.lines).text) = 1 /\ ~Head(input.lines).nl
                THEN [input EXCEPT !.lines = Tail(@)]
                ELSE [input EXCEPT !.lines[1].text = Tail(@)]
           [] OTHER -> [input EXCEPT !.lines = Tail(@)]
    /\ UNCHANGED <<heap, vars, owned, hc_stream, out, sub, call, file, status>>

-----------------------------------------------------------------------------
(* Files.  FileRead measures, allocates and reads; another process may     *)
(* change the file in between.  What cannot be sought is measured as -1.   *)
\* Mutant: no room for the terminator.
FileRead_NoTerminator(v) ==
    /\ Ready
    /\ calls' = calls + 1
    /\ file.kind # "none"
    /\ LET n == IF file.kind = "file" THEN Len(file.text) ELSE -1
       IN  \E b \in Takeable(heap) :
             /\ heap' = MAllocAt(heap, b, n, Garbage)
             /\ call' = [NoCall EXCEPT !.fn = "FileRead", !.pc = "read", !.slot = v, !.tmp = b, !.n = n]
    /\ last' = NoResult
    /\ UNCHANGED <<vars, owned, hc_stream, out, sub, input, file, status>>

FileRead(v) ==
    /\ Ready
    /\ calls' = calls + 1
    /\ last' = NoResult
    /\ LET n == IF file.kind = "file" THEN Len(file.text) ELSE -1
       IN  \/ /\ file.kind = "none"
              /\ vars' = [vars EXCEPT ![v] = Nil]
              /\ UNCHANGED <<heap, call, status>>
           \/ /\ file.kind # "none" /\ NoMemory
              /\ Ended("nomem") /\ UNCHANGED <<heap, vars, call>>
           \/ /\ file.kind # "none"
              /\ \E b \in Takeable(heap) :
                   /\ heap' = MAllocAt(heap, b, n + 1, Garbage)
                   /\ call' = [NoCall EXCEPT !.fn = "FileRead", !.pc = "read", !.slot = v,
                                             !.tmp = b, !.n = n]
              /\ UNCHANGED <<vars, status>>
    /\ UNCHANGED <<owned, hc_stream, out, sub, input, file>>

FileChanges ==
    /\ status = "running" /\ call.pc = "read"
    /\ \E g \in Files : g.kind = file.kind /\ g # file /\ file' = g
    /\ UNCHANGED <<heap, vars, owned, hc_stream, out, sub, call, input, status, last, calls>>

\* fread takes at most the size measured, -1 being the largest size there is.
FileReadDone ==
    /\ status = "running" /\ call.pc = "read"
    /\ LET limit == IF call.n = -1 THEN Len(file.text) ELSE call.n
           rd == IF Len(file.text) < limit THEN Len(file.text) ELSE limit
           text == SubSeq(file.text, 1, rd)
       IN  IF rd + 1 > heap[call.tmp].size
           THEN Ended("overrun") /\ UNCHANGED <<heap, vars, owned, call, last>>
           ELSE /\ heap' = [heap EXCEPT ![call.tmp].text = text]
                /\ Hand(call.slot, call.tmp)
                /\ call' = NoCall
                /\ last' = Returned("FileRead", text, text)
                /\ UNCHANGED status
    /\ UNCHANGED <<hc_stream, out, sub, input, file, calls>>

\* fopen empties the file; the disk may take only part of what is written.
FileWrite(v) ==
    /\ AtOnce
    /\ IsString(vars[v])
    /\ \E wr \in 0 .. Len(TextOf(vars[v])) :
         file' = [kind |-> "file", text |-> SubSeq(TextOf(vars[v]), 1, wr)]
    /\ last' = NoResult
    /\ UNCHANGED <<heap, vars, owned, status>>

-----------------------------------------------------------------------------
Call ==
    \/ \E v \in Slots, size \in Sizes, clear \in BOOLEAN : MAlloc(v, size, clear)
    \/ \E v, w \in Slots : MAllocIdent(v, w)
    \/ \E v \in Slots, s \in Literals : StrNew(v, s)
    \/ \E v \in Slots : Free(v)
    \/ \E v \in Slots, tc \in TextCalls, fn \in {"StrPrint", "CatPrint", "StrPrintJoin"} :
         StartFormat(fn, vars[v], v, tc)
    \/ \E v \in Slots, tc \in TextCalls : StartFormat("MStrPrint", Nil, v, tc)
    \/ \E tc \in TextCalls : StartFormat("StreamPrint", Nil, NoCall.slot, tc)
    \/ \E tc \in PrintCalls : calls = 0 /\ StartFormat("Print", Nil, NoCall.slot, tc)
    \/ StreamGet
    \/ \E v \in Slots : StartInput("GetStr", v)
    \/ \E fn \in {"GetI64", "GetF64", "YorN"} : StartInput(fn, NoCall.slot)
    \/ GetChar
    \/ \E v \in Slots : FileRead(v)
    \/ \E v \in Slots : FileWrite(v)

Forming ==
    \/ hc_format \/ FillSub \/ EmitSub \/ FreeSub
    \/ PrintDone \/ NewString \/ IntoPlace \/ StrPrintJoin \/ StreamPrint
Answering == GetStr \/ GetStrDone \/ GetI64 \/ GetF64 \/ YorN

Next == Call \/ Forming \/ Answering \/ FileReadDone \/ FileChanges

\* An input call goes on while it is under way.  The other loop, hc_format's,
\* moves along its format at every turn.
Spec == Init /\ [][Next]_rtVars /\ WF_rtVars(Answering)

-----------------------------------------------------------------------------
(* Properties.                                                             *)

\* As long as the process runs, in the middle of a call too, every block in use is
\* somebody's: those of HC_MAlloc are the program's or the line or file the call
\* under way holds, those of malloc are the buffers of #exe, of the call and of its
\* directive, three different ones; between calls the last two are not there.
\* Every path of the Print family, the input loops and the file calls frees what
\* it took and nothing else, also when realloc moves a buffer.
Held == IF call.pc \in {"line", "read"} THEN {call.tmp} ELSE {}
NothingLost ==
    status = "running" =>
        /\ {b \in Blocks : heap[b].st = "mem"} = owned \cup Held
        /\ owned \cap Held = {}
        /\ {b \in Blocks : heap[b].st = "c"} = {hc_stream.buf, out.buf, sub.buf} \ {Nil}
        /\ out.buf \in {hc_stream.buf, sub.buf} => out.buf = Nil
        /\ sub.buf = hc_stream.buf => sub.buf = Nil
        /\ call.pc = "idle" => out.buf = Nil /\ sub.buf = Nil

\* Every text lies within its block with room for its terminator, and a growing
\* buffer's length and capacity (out_emit) are those of the block behind it.
EveryTextFits ==
    /\ \A b \in Blocks : heap[b].st # "free" /\ heap[b].text # Garbage =>
                            Len(heap[b].text) < heap[b].size
    /\ \A o \in {out, hc_stream, sub} : o.buf # Nil =>
            /\ heap[o.buf].st = "c"
            /\ heap[o.buf].size = o.cap
            /\ Len(heap[o.buf].text) = o.len

\* A call delivers what it owes.  A string function returns the format's meaning
\* for the arguments as they were when it was called, after the text it adds to,
\* even where an argument is its own destination; an input call answers from the
\* first line that decides, and falls back to its default at the end of the input.
\* Of the unknown directives, which are to be printed as they are written, those
\* that hc_format abbreviates are left out.
DeliversRight == last.fn # "Free" /\ ~Abbreviated(last.of.fmt) => last.got = last.want

\* Free gives back exactly the blocks in use: it refuses a pointer whose block was
\* freed and not handed out again, it never refuses one of the program's blocks,
\* and free() never sees a block twice.
FreesOnce ==
    /\ status # "corrupt"
    /\ last.fn = "Free" => last.got = last.want

\* A number printed reads back as the number, with its sign, grouping, padding
\* and width as the flags say; a string as the string or its first characters, a
\* quoted one unquoted; a date reads back as its day, a time as its second.
FieldsRight ==
    last.fn = "Print" /\ Len(last.of.fmt) = 1 /\ last.of.fmt[1].k = "dir" =>
        LET d == Meaning(last.of.fmt[1])
            a == ArgAt(last.of.args, 1).word
        IN  /\ d.code \in {"d", "i", "u", "x", "X", "p", "P"} => NumberField(d, a.n, last.got)
            /\ d.code \in {"s", "q", "Q"} => TextField(d, a, last.got)
            /\ d.code \in {"D", "T"} => DateField(d.code, a, last.got)

\* The process goes wrong only where the code is known to let it: a format that
\* ends inside a directive, a CAlloc of a negative size, a buffer that cannot grow
\* for want of memory, a file that cannot be measured.
KnownFailures ==
    /\ status = "astray" => LET f == last.of.fmt
                            IN  f[Len(f)].k = "cut" /\ Len(f[Len(f)].chars) > 1
    /\ status = "crash" => last.fn = "CAlloc" \/ NoMemory
    /\ status = "overrun" => file.kind = "pipe"

\* An input call answers or ends the process, for every input that ends in an
\* end of file; YorN alone asks for ever when reading fails.
EveryQuestionEnds ==
    (call.pc \in {"getline", "line"} /\ ~(call.fn = "YorN" /\ input.end = "error"))
        ~> (call.pc = "idle" \/ status # "running")
=============================================================================
