---------------------------- MODULE Preprocessor ----------------------------
(***************************************************************************)
(* The directive layer of the lexer (src/src/lexer.cpp): rawNext,          *)
(* handleDirective, openInclude and handleExeBlock over the stack of       *)
(* sources, the stack of conditionals and the macro table.                 *)
(*                                                                         *)
(* A source is read one item at a time: a directive, a run of ordinary     *)
(* tokens, or its end.  What the source holds is chosen as it is read, so  *)
(* every text of at most MaxItems items is covered.  The value of an #if   *)
(* expression (evalCondExpr) is any value, with or without a diagnostic.   *)
(***************************************************************************)
EXTENDS Naturals, Sequences

CONSTANTS
  Macros,    \* the macro names that occur in the program
  JitMode,   \* jitMode_, which selects #ifjit over #ifaot
  MaxItems,  \* bound on the items read from all sources
  MaxDepth   \* bound on the sources open at once (the code has none)

ASSUME ModeAssumption == JitMode \in BOOLEAN
ASSUME BoundsAssumption == MaxItems \in Nat /\ MaxDepth \in Nat \ {0}

VARIABLES
  stack_,    \* the kinds of the open sources: "file", "include" or "exe"
  conds_,    \* the open conditionals: [active, taken, elseSeen]
  macros_,   \* the macros defined
  hadError_, \* an error was reported
  out,       \* the number of runs of tokens handed to the parser
  items,     \* the number of items read
  nest,      \* history: for each open conditional, its value and its branch
  misread    \* history: a # inside a string literal was taken for a directive

vars == <<stack_, conds_, macros_, hadError_, out, items, nest, misread>>

Cond == [active : BOOLEAN, taken : BOOLEAN, elseSeen : BOOLEAN]

TypeOK ==
  /\ stack_ \in Seq({"file", "include", "exe"})
  /\ conds_ \in Seq(Cond)
  /\ macros_ \subseteq Macros
  /\ hadError_ \in BOOLEAN /\ misread \in BOOLEAN
  /\ out \in Nat /\ items \in Nat
  /\ nest \in Seq([val : BOOLEAN, inElse : BOOLEAN])

-----------------------------------------------------------------------------
skippingConds == \E i \in 1..Len(conds_) : ~conds_[i].active

Popped(s)     == SubSeq(s, 1, Len(s) - 1)
error         == hadError_' = TRUE
NoError       == UNCHANGED hadError_
Diagnose(bad) == hadError_' = (hadError_ \/ bad)

\* #ifdef, #ifndef, #if, #ifjit and #ifaot all end in one push.  A conditional
\* inside a skipped region is not active, whatever its value.
OpenCond(val, takenWhenSkipped) ==
  /\ conds_' = Append(conds_, [active   |-> ~skippingConds /\ val,
                               taken    |-> IF skippingConds THEN takenWhenSkipped ELSE val,
                               elseSeen |-> FALSE])
  /\ nest' = Append(nest, [val |-> val, inElse |-> FALSE])
  /\ UNCHANGED <<stack_, macros_, out, misread>>

Ifdef(m)  == OpenCond(m \in macros_, TRUE) /\ NoError
Ifndef(m) == OpenCond(m \notin macros_, TRUE) /\ NoError

\* Not a single identifier: the value is that of an undefined name.
IfdefMalformed(neg) == OpenCond(neg, TRUE) /\ Diagnose(~skippingConds)

If(v, bad) == OpenCond(v, FALSE) /\ Diagnose(~skippingConds /\ bad)

IfMode(name) == OpenCond((name = "ifjit") = JitMode, FALSE) /\ NoError

\* The conditionals around it are not looked at.
FlipCond_IgnoresOuter ==
  LET n == Len(conds_)
      c == conds_[n]
  IN /\ conds_' = [conds_ EXCEPT ![n] =
                     [active |-> ~c.taken, taken |-> TRUE, elseSeen |-> TRUE]]
     /\ nest' = [nest EXCEPT ![n].inElse = TRUE]

\* What the conditional has taken already is not looked at.
FlipCond_IgnoresTaken ==
  LET n == Len(conds_)
      outerActive == \A i \in 1..(n - 1) : conds_[i].active
  IN /\ conds_' = [conds_ EXCEPT ![n] =
                     [active |-> outerActive, taken |-> TRUE, elseSeen |-> TRUE]]
     /\ nest' = [nest EXCEPT ![n].inElse = TRUE]

FlipCond ==
  LET n == Len(conds_)
      c == conds_[n]
      outerActive == \A i \in 1..(n - 1) : conds_[i].active
  IN /\ conds_' = [conds_ EXCEPT ![n] =
                     [active |-> outerActive /\ ~c.taken, taken |-> TRUE, elseSeen |-> TRUE]]
     /\ nest' = [nest EXCEPT ![n].inElse = TRUE]

CloseCond == conds_' = Popped(conds_) /\ nest' = Popped(nest)

Else ==
  /\ \/ conds_ = <<>> /\ error /\ UNCHANGED <<conds_, nest>>
     \/ conds_ # <<>> /\ FlipCond /\ Diagnose(conds_[Len(conds_)].elseSeen)
  /\ UNCHANGED <<stack_, macros_, out, misread>>

Endif ==
  /\ \/ conds_ = <<>> /\ error /\ UNCHANGED <<conds_, nest>>
     \/ conds_ # <<>> /\ CloseCond /\ NoError
  /\ UNCHANGED <<stack_, macros_, out, misread>>

-----------------------------------------------------------------------------
(* The directives that are inert in a skipped region *)

\* A macro with parameters is reported, and defined all the same.
Define(m) ==
  /\ macros_' = macros_ \cup {m} /\ hadError_' \in {hadError_, TRUE}
  /\ UNCHANGED <<stack_, out>>
Undef(m)  == macros_' = macros_ \ {m} /\ NoError /\ UNCHANGED <<stack_, out>>

openInclude ==
  /\ Len(stack_) < MaxDepth
  /\ stack_' = Append(stack_, "include")
  /\ NoError /\ UNCHANGED <<macros_, out>>

\* #exe{}: the hook ran the block and printed something, which becomes a source
\* on top of the stack; it printed nothing, or the block failed, which leaves
\* the lexer as it was; or there is no block, no end of it, or no hook.
handleExeBlock ==
  \/ /\ Len(stack_) < MaxDepth
     /\ stack_' = Append(stack_, "exe")
     /\ NoError /\ UNCHANGED <<macros_, out>>
  \/ NoError /\ UNCHANGED <<stack_, macros_, out>>
  \/ error /\ UNCHANGED <<stack_, macros_, out>>

\* A malformed #define, #undef or #include, a file that cannot be opened, an
\* unknown directive, an #assert of a bad expression.  (#assert of a false one
\* warns, #help_index and #help_file do nothing.)
Complain(bad) == Diagnose(bad) /\ UNCHANGED <<stack_, macros_, out>>

OtherDirective ==
  /\ \/ skippingConds /\ UNCHANGED <<stack_, macros_, hadError_, out>>
     \/ /\ ~skippingConds
        /\ \/ \E m \in Macros : Define(m) \/ Undef(m)
           \/ openInclude
           \/ handleExeBlock
           \/ \E bad \in BOOLEAN : Complain(bad)
  /\ UNCHANGED <<conds_, nest, misread>>

-----------------------------------------------------------------------------
(* rawNext *)

\* Ordinary tokens: handed over, or consumed by skipCondBlockLine.  A comment
\* or a literal that does not end is reported in both cases.
Text ==
  /\ out' = IF skippingConds THEN out ELSE out + 1
  /\ hadError_' \in {hadError_, TRUE}
  /\ UNCHANGED <<stack_, conds_, macros_, nest, misread>>

\* A string literal that holds the text of an #else or #endif.  lexToken reads
\* all of it.  skipCondBlockLine gives lexCharsInto the opening quote as the
\* first character, which ends the literal at once: what follows is read as
\* text, rawNext handles the # in it as a directive, and the closing quote
\* starts a literal on the rest of the line, which may be reported.
StringWithHash ==
  \/ /\ ~skippingConds
     /\ Text
  \/ /\ skippingConds
     /\ FlipCond \/ CloseCond
     /\ misread' = TRUE
     /\ hadError_' \in {hadError_, TRUE}
     /\ UNCHANGED <<stack_, macros_, out>>

\* Nothing is said of the conditionals that are still open.
EndOfSource_Silent ==
  /\ stack_' = Popped(stack_)
  /\ UNCHANGED <<conds_, macros_, hadError_, out, nest, misread>>

\* The end of the top source.  Open conditionals are reported at the end of the
\* last source only: an included file may leave its own open.
EndOfSource ==
  /\ stack_' = Popped(stack_)
  /\ Diagnose(conds_ # <<>> /\ Len(stack_) = 1)
  /\ UNCHANGED <<conds_, macros_, out, nest, misread>>

Item ==
  \/ \E m \in Macros : Ifdef(m) \/ Ifndef(m)
  \/ \E neg \in BOOLEAN : IfdefMalformed(neg)
  \/ \E v, bad \in BOOLEAN : If(v, bad)
  \/ \E name \in {"ifjit", "ifaot"} : IfMode(name)
  \/ Else
  \/ Endif
  \/ OtherDirective
  \/ Text
  \/ StringWithHash

\* The main file is opened first; the prelude, if any, goes on top of it.
Init ==
  /\ stack_ \in {<<"file">>, <<"file", "include">>}
  /\ conds_ = <<>> /\ nest = <<>>
  /\ macros_ = {} /\ hadError_ = FALSE /\ misread = FALSE
  /\ out = 0 /\ items = 0

Next ==
  \/ stack_ # <<>> /\ items < MaxItems /\ items' = items + 1 /\ Item
  \/ stack_ # <<>> /\ items' = items /\ EndOfSource
  \/ stack_ = <<>> /\ UNCHANGED vars

Spec == Init /\ [][Next]_vars

-----------------------------------------------------------------------------
(* Properties *)

\* The branch being read of each of the first n conditionals is the one its
\* condition selects.
Selected(n) == \A j \in 1..n : nest[j].val # nest[j].inElse

Faithful == ~hadError_ /\ ~misread

\* The flags of conds_ say of every open conditional, at every level, whether
\* the text being read is selected by it and by all those around it.
ActiveIsSelected ==
  Faithful =>
    /\ Len(nest) = Len(conds_)
    /\ \A i \in 1..Len(conds_) : conds_[i].active <=> Selected(i)

\* A region that some conditional around it does not select has no effect: no
\* token reaches the parser, no macro changes, no file is opened, no #exe runs.
SkippedIsInert ==
  [][Faithful /\ ~Selected(Len(nest))
       => /\ out' = out /\ macros_' = macros_ /\ Len(stack_') <= Len(stack_)]_vars

\* No compilation ends without error while a conditional is still open, however
\* the #if and #endif lines are spread over included files and #exe output.
EndsBalanced == stack_ = <<>> /\ ~hadError_ => conds_ = <<>>

=============================================================================
