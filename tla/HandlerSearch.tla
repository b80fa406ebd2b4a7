--------------------------- MODULE HandlerSearch ---------------------------
(***************************************************************************)
(* What try{}catch{} promises, with no frames and no jump buffers: a throw *)
(* is handled by the innermost try{} whose body is being executed, in this *)
(* activation or in a caller's, and a handler that does not keep the       *)
(* exception passes it outward.  The state is the nest of constructs being *)
(* executed, outermost first.  Exceptions.tla is shown to implement this.  *)
(*                                                                         *)
(* "escaped" records that some try{} body was left by break, goto or       *)
(* return.  Nothing is promised after that: generated code does not pop    *)
(* the frame of a body left that way.                                      *)
(***************************************************************************)
EXTENDS Naturals, Sequences

VARIABLES
  phase,    \* "running", "done", "unhandled" or "undefined"
  nest,     \* the constructs being executed: calls, try bodies, catch bodies
  escaped   \* a try{} body has been left by other means than its end or a throw

vars == <<phase, nest, escaped>>

\* Position m of the nest is the innermost try{} body being executed.
Innermost(m) ==
  /\ nest[m].k = "try"
  /\ \A j \in 1..Len(nest) : j > m => nest[j].k # "try"

Init == phase = "running" /\ Len(nest) = 1 /\ nest[1].k = "call" /\ escaped = FALSE

\* A call, or the body of a try{}, begins.
Enter ==
  /\ Len(nest') = Len(nest) + 1
  /\ \A i \in 1..Len(nest) : nest'[i] = nest[i]
  /\ nest'[Len(nest')].k \in {"call", "try"}
  /\ UNCHANGED <<phase, escaped>>

\* The innermost try or catch body ends, by its last statement.
Leave ==
  /\ nest # <<>> /\ nest[Len(nest)].k \in {"try", "catch"}
  /\ nest' = SubSeq(nest, 1, Len(nest) - 1)
  /\ UNCHANGED <<phase, escaped>>

\* The innermost call returns; the program ends with its outermost call.
Return ==
  /\ \E c \in 1..Len(nest) :
       /\ nest[c].k = "call"
       /\ \A j \in 1..Len(nest) : j > c => nest[j].k = "catch"
       /\ nest' = SubSeq(nest, 1, c - 1)
       /\ phase' = IF c = 1 THEN "done" ELSE phase
  /\ UNCHANGED escaped

\* An exception: the innermost try{} body becomes its catch body, or the
\* program stops because there is none.
Raise ==
  /\ \/ \E m \in 1..Len(nest) :
          /\ Innermost(m)
          /\ Len(nest') = m
          /\ \A i \in 1..(m - 1) : nest'[i] = nest[i]
          /\ nest'[m].k = "catch" /\ nest'[m].x = nest[m].x
          /\ phase' = phase
     \/ /\ \A m \in 1..Len(nest) : nest[m].k # "try"
        /\ phase' = "unhandled" /\ nest' = nest
  /\ UNCHANGED escaped

\* A further program starts in the same process.
Restart ==
  /\ phase = "done" /\ phase' = "running"
  /\ Len(nest') = 1 /\ nest'[1].k = "call"
  /\ UNCHANGED escaped

Escape == escaped' = TRUE

Next == \/ phase = "running" /\ (Enter \/ Leave \/ Return \/ Raise)
        \/ Restart
        \/ Escape

Spec == Init /\ [][Next]_vars
=============================================================================
