----------------------------- MODULE Exceptions -----------------------------
(***************************************************************************)
(* try{}catch{}/throw: the code genTry emits (src/src/codegen.cpp) running *)
(* on the frame chain of the runtime (src/runtime/hcrt.c).                 *)
(*                                                                         *)
(* The program being run is abstracted to its nesting of calls, try bodies *)
(* and catch bodies.  A try{} is a static construct: genTry gives it one   *)
(* frame, an alloca in the entry block of its function, so the frame of    *)
(* try t in the activation at depth d is the address <<d, t>>, it is the   *)
(* same in every execution of t by that activation, and it is dead once    *)
(* the activation is gone.                                                 *)
(***************************************************************************)
EXTENDS Naturals, Sequences

CONSTANTS
  Funs,       \* the functions of the program
  Startup,    \* __HC_startup, the outermost function
  Tries,      \* the try{} statements of the program
  Encl,       \* Encl[t]: the construct whose body holds t, as [k, x]
  Chars,      \* the exception codes thrown
  NULL,       \* the null frame pointer
  TryExits,   \* how the program leaves try bodies early: "break", "return"
  CatchExits, \* the same for catch bodies
  MaxSteps,   \* bound on the calls, tries, throws and claims of a behaviour
  MaxRuns     \* bound on the programs run by one process

ASSUME FunsAssumption == Startup \in Funs
ASSUME NullAssumption == NULL \notin Nat \X Tries
ASSUME EnclAssumption ==
  \A t \in Tries : \/ Encl[t].k = "call" /\ Encl[t].x \in Funs
                   \/ Encl[t].k \in {"try", "catch"} /\ Encl[t].x \in Tries
ASSUME BoundsAssumption == MaxSteps \in Nat /\ MaxRuns \in Nat \ {0}
ASSUME ExitsAssumption == /\ TryExits \subseteq {"break", "return"}
                          /\ CatchExits \subseteq {"break", "return"}
ASSUME CharsAssumption == Chars \subseteq Nat

VARIABLES
  phase,      \* "running", "done", "unhandled" (exit(1)) or "undefined"
  runs,       \* programs started: #exe{} snippets, then the program itself
  steps,      \* steps taken of those MaxSteps bounds
  ctl,        \* the constructs being executed, outermost first
  hc_try_top, \* head of the frame chain, a static of the runtime
  frames,     \* the frames written and not dead: address -> [prev, jb]
  Fs,         \* the task's except_ch and catch_except
  claimed,    \* history: the positions of ctl whose catch claimed its exception
  escaped,    \* history: a try body was left by break, goto or return
  left        \* history: a catch body was left by break, goto or return

run  == <<phase, runs, steps>>
hist == <<claimed, escaped, left>>
vars == <<phase, runs, steps, ctl, hc_try_top, frames, Fs, claimed, escaped, left>>

Addr  == Nat \X Tries
Entry == [k : {"call", "try", "catch"}, x : Funs \cup Tries, d : Nat]
Frame == [prev : Addr \cup {NULL}, jb : Seq(Entry)]

TypeOK ==
  /\ phase \in {"running", "done", "unhandled", "undefined"}
  /\ runs \in 1..MaxRuns /\ steps \in 0..MaxSteps
  /\ ctl \in Seq(Entry)
  /\ hc_try_top \in Addr \cup {NULL}
  /\ DOMAIN frames \subseteq Addr
  /\ frames \in [DOMAIN frames -> Frame]
  /\ Fs \in [except_ch : Nat, catch_except : BOOLEAN]
  /\ claimed \subseteq Nat
  /\ escaped \in BOOLEAN /\ left \in BOOLEAN

Top   == ctl[Len(ctl)]
Depth == Top.d
CallEntry(f, d)  == [k |-> "call",  x |-> f, d |-> d]
TryEntry(t, d)   == [k |-> "try",   x |-> t, d |-> d]
CatchEntry(t, d) == [k |-> "catch", x |-> t, d |-> d]

Prefix(n) == SubSeq(ctl, 1, n)

\* A step the bound counts; one the program must be able to take again.
Counted   == steps < MaxSteps /\ steps' = steps + 1
Uncounted == steps' = steps

-----------------------------------------------------------------------------
(* The runtime, hcrt.c.  A definition named X_<fault> is X with a plausible   *)
(* bug in it; the properties below tell it from X.                            *)

HC_TryPush_NoLink(f) ==
  /\ frames' = [a \in DOMAIN frames \cup {f} |->
                  IF a = f THEN [prev |-> NULL, jb |-> ctl] ELSE frames[a]]
  /\ hc_try_top' = f

\* The frame's prev is the old head; the jump buffer is filled by the setjmp
\* that genTry emits right after the call, and holds the place of the try.
HC_TryPush(f) ==
  /\ frames' = [a \in DOMAIN frames \cup {f} |->
                  IF a = f THEN [prev |-> hc_try_top, jb |-> ctl] ELSE frames[a]]
  /\ hc_try_top' = f

HC_TryPop_Skipped == UNCHANGED <<hc_try_top, phase>>

\* The head is whatever is on top, and a dead frame's prev is any value.
HC_TryPop ==
  \/ /\ hc_try_top = NULL
     /\ UNCHANGED <<hc_try_top, phase>>
  \/ /\ hc_try_top \in DOMAIN frames
     /\ hc_try_top' = frames[hc_try_top].prev
     /\ UNCHANGED phase
  \/ /\ hc_try_top # NULL /\ hc_try_top \notin DOMAIN frames
     /\ phase' = "undefined"
     /\ UNCHANGED hc_try_top

HC_CatchEnter_NoReset(ch) == Fs' = [Fs EXCEPT !.except_ch = ch]

\* HC_Throw has put ch in except_ch; the catch starts with no claim.
HC_CatchEnter(ch) == Fs' = [except_ch |-> ch, catch_except |-> FALSE]

\* longjmp to a frame f: the control point is that of f's setjmp, in the catch
\* body, and the activations above f's are gone with their frames.
LongJmp(f, ch) ==
  /\ ctl' = Append(frames[f].jb, CatchEntry(f[2], f[1]))
  /\ frames' = [a \in {b \in DOMAIN frames : b[1] <= f[1]} |-> frames[a]]
  /\ claimed' = {i \in claimed : i <= Len(frames[f].jb)}
  /\ HC_CatchEnter(ch)

HC_Throw_KeepsHead(ch) ==
  \/ /\ hc_try_top = NULL
     /\ phase' = "unhandled"
     /\ Fs' = [Fs EXCEPT !.except_ch = ch]
     /\ UNCHANGED <<ctl, hc_try_top, frames, claimed>>
  \/ /\ hc_try_top \in DOMAIN frames
     /\ LongJmp(hc_try_top, ch)
     /\ UNCHANGED <<phase, hc_try_top>>

HC_Throw(ch) ==
  \/ /\ hc_try_top = NULL
     /\ phase' = "unhandled"
     /\ Fs' = [Fs EXCEPT !.except_ch = ch]
     /\ UNCHANGED <<ctl, hc_try_top, frames, claimed>>
  \/ /\ hc_try_top \in DOMAIN frames
     /\ hc_try_top' = frames[hc_try_top].prev
     /\ LongJmp(hc_try_top, ch)
     /\ UNCHANGED phase
  \/ /\ hc_try_top # NULL /\ hc_try_top \notin DOMAIN frames
     /\ phase' = "undefined"
     /\ UNCHANGED <<ctl, hc_try_top, frames, Fs, claimed>>

\* The body of the catch is over: rethrow, or go on after the try statement.
HC_CatchDone ==
  \/ /\ ~Fs.catch_except
     /\ HC_Throw(Fs.except_ch)
  \/ /\ Fs.catch_except
     /\ Fs' = [Fs EXCEPT !.catch_except = FALSE]
     /\ ctl' = Prefix(Len(ctl) - 1)
     /\ claimed' = claimed \ {Len(ctl)}
     /\ UNCHANGED <<phase, hc_try_top, frames>>

\* Fs->catch_except=TRUE in a handler, or HC_PutExcept(TRUE).
HC_PutExcept == Fs' = [Fs EXCEPT !.catch_except = TRUE]

-----------------------------------------------------------------------------
(* The generated code *)

Call(f) ==
  /\ Counted
  /\ ctl' = Append(ctl, CallEntry(f, Depth + 1))
  /\ UNCHANGED <<phase, runs, hc_try_top, frames, Fs, hist>>

\* Return from the activation whose call entry is c, by its last statement or
\* by a return statement inside the bodies open in it.  Nothing is popped.
Return ==
  \E c \in 1..Len(ctl) :
    LET open == {j \in 1..Len(ctl) : j > c}
        In(k) == \E j \in open : ctl[j].k = k
    IN /\ ctl[c].k = "call"
       /\ \A j \in open : \/ ctl[j].k = "try" /\ "return" \in TryExits
                          \/ ctl[j].k = "catch" /\ "return" \in CatchExits
       /\ ctl' = Prefix(c - 1)
       /\ frames' = [a \in {b \in DOMAIN frames : b[1] < ctl[c].d} |-> frames[a]]
       /\ phase' = IF c = 1 THEN "done" ELSE phase
       /\ claimed' = {i \in claimed : i < c}
       /\ escaped' = (escaped \/ In("try"))
       /\ left' = (left \/ In("catch"))
       /\ Uncounted /\ UNCHANGED <<runs, hc_try_top, Fs>>

\* The try statement t is reached; no statement is inside itself.
TryEnter(t) ==
  /\ Top.k = Encl[t].k /\ Top.x = Encl[t].x
  /\ \A i \in 1..Len(ctl) : ctl[i].k = "try" /\ ctl[i].x = t => ctl[i].d # Depth
  /\ Counted
  /\ HC_TryPush(<<Depth, t>>)
  /\ ctl' = Append(ctl, TryEntry(t, Depth))
  /\ UNCHANGED <<phase, runs, Fs, hist>>

\* The end of a try body falls through to HC_TryPop.
TryEnd ==
  /\ Top.k = "try"
  /\ HC_TryPop
  /\ ctl' = Prefix(Len(ctl) - 1)
  /\ Uncounted /\ UNCHANGED <<runs, frames, Fs, hist>>

\* break or goto out of a try body: a plain branch, HC_TryPop is not called.
LeaveTry ==
  /\ Top.k = "try" /\ "break" \in TryExits
  /\ ctl' = Prefix(Len(ctl) - 1)
  /\ escaped' = TRUE
  /\ Uncounted /\ UNCHANGED <<phase, runs, hc_try_top, frames, Fs, claimed, left>>

Throw(ch) ==
  /\ Counted
  /\ HC_Throw(ch)
  /\ UNCHANGED <<runs, escaped, left>>

\* A handler, or a function it calls, claims the exception being handled.
Claim ==
  /\ Counted
  /\ \E m \in 1..Len(ctl) :
       /\ ctl[m].k = "catch"
       /\ \A j \in 1..Len(ctl) : j > m => ctl[j].k # "catch"
       /\ claimed' = claimed \cup {m}
  /\ HC_PutExcept
  /\ UNCHANGED <<phase, runs, ctl, hc_try_top, frames, escaped, left>>

\* The end of a catch body falls through to HC_CatchDone.
CatchEnd ==
  /\ Top.k = "catch"
  /\ HC_CatchDone
  /\ Uncounted /\ UNCHANGED <<runs, escaped, left>>

\* break or goto out of a catch body: HC_CatchDone is not called.
LeaveCatch ==
  /\ Top.k = "catch" /\ "break" \in CatchExits
  /\ ctl' = Prefix(Len(ctl) - 1)
  /\ claimed' = claimed \ {Len(ctl)}
  /\ left' = TRUE
  /\ Uncounted /\ UNCHANGED <<phase, runs, hc_try_top, frames, Fs, escaped>>

\* runExeSnippet for every #exe{}, then runJIT, call __HC_startup in the one
\* process that is the compiler: the runtime's statics are not reset.
StartProgram ==
  /\ phase = "done" /\ runs < MaxRuns
  /\ phase' = "running" /\ runs' = runs + 1
  /\ ctl' = <<CallEntry(Startup, 1)>>
  /\ Uncounted /\ UNCHANGED <<hc_try_top, frames, Fs, hist>>

Over == \/ phase \in {"unhandled", "undefined"}
        \/ phase = "done" /\ runs = MaxRuns

Init ==
  /\ phase = "running" /\ runs = 1 /\ steps = 0
  /\ ctl = <<CallEntry(Startup, 1)>>
  /\ hc_try_top = NULL /\ frames = [a \in {} |-> NULL]
  /\ Fs = [except_ch |-> 0, catch_except |-> FALSE]
  /\ claimed = {} /\ escaped = FALSE /\ left = FALSE

Running ==
  \/ \E f \in Funs : Call(f)
  \/ Return
  \/ \E t \in Tries : TryEnter(t)
  \/ TryEnd
  \/ LeaveTry
  \/ \E ch \in Chars : Throw(ch)
  \/ Claim
  \/ CatchEnd
  \/ LeaveCatch

Finished == Over /\ UNCHANGED vars

Next == \/ phase = "running" /\ Running
        \/ StartProgram
        \/ Finished

Spec == Init /\ [][Next]_vars

\* One thread executes the program: it takes steps until it stops.
FairSpec == Spec /\ WF_vars(phase = "running" /\ Running) /\ WF_vars(StartProgram)
-----------------------------------------------------------------------------
(* Properties *)

FrameOf(e) == <<e.d, e.x>>

\* p is the frame of the innermost try body among the first n constructs of c.
TopIs(c, n, p) ==
  \/ /\ p = NULL
     /\ \A j \in 1..n : c[j].k # "try"
  \/ \E i \in 1..n :
       /\ c[i].k = "try" /\ p = FrameOf(c[i])
       /\ \A j \in 1..n : j > i => c[j].k # "try"

\* The try body at c[i] has a live frame in F, which leads to the frame of the
\* next try body out and jumps back to where the try statement stands.
Linked(c, i, F) ==
  /\ FrameOf(c[i]) \in DOMAIN F
  /\ F[FrameOf(c[i])].jb = SubSeq(c, 1, i - 1)
  /\ TopIs(c, i - 1, F[FrameOf(c[i])].prev)

Chained(c, top, F) ==
  /\ TopIs(c, Len(c), top)
  /\ \A i \in 1..Len(c) : c[i].k = "try" => Linked(c, i, F)

\* The frame chain is the nesting of the try bodies being executed: the head is
\* the innermost one's frame (HC_TryPush, HC_TryPop), every frame is live, leads
\* to the next one out, and jumps back to where its try statement stands.
ChainMirrorsNesting ==
  phase = "running" /\ ~escaped => Chained(ctl, hc_try_top, frames)

\* HC_Throw and HC_TryPop never follow a pointer into the stack of a function
\* that has returned, unless a try body was left by break, goto or return.
NoDeadJump == phase = "undefined" => escaped

\* A program that ends by returning from __HC_startup leaves no handler for the
\* next program of the process (runExeSnippet, then runJIT) to jump to.
CleanHandoff == phase = "done" /\ ~escaped => hc_try_top = NULL

Rethrow == phase = "running" /\ CatchEnd /\ ~Fs.catch_except

\* The search for a handler only goes outward: HC_CatchDone's rethrow ends the
\* program or enters the catch of a try body that encloses the handler.
MovesOutward ==
  Rethrow => \/ phase' = "unhandled"
             \/ LET n == Len(ctl')
                IN n < Len(ctl) /\ ctl[n].k = "try" /\ ctl'[n].x = ctl[n].x
RethrowMovesOutward == [][~escaped => MovesOutward]_vars
EveryRethrowMovesOutward == [][MovesOutward]_vars

\* A handler that nobody claimed the exception for never ends the search: past
\* HC_CatchDone, execution goes on after the try statement only after a claim.
\* A handler that was left by break, goto or return may have left its claim.
StopsOnlyWhenClaimed ==
  [][phase = "running" /\ CatchEnd /\ ~left /\ Len(ctl) \notin claimed => Rethrow]_vars

\* Every program comes to an end: no search for a handler goes on for ever.
EverySearchEnds == <>(Over \/ escaped)

\* The frame chain implements the search through the nest of open try bodies.
Search == INSTANCE HandlerSearch WITH nest <- ctl
ImplementsHandlerSearch == Search!Spec
=============================================================================
