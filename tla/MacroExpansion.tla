--------------------------- MODULE MacroExpansion ---------------------------
(***************************************************************************)
(* Object-like macros in the lexer (src/src/lexer.cpp): next() and         *)
(* expandOrReturn() over the queue pending_, for a macro table and an      *)
(* input that do not change while they are read.  A token is a macro name  *)
(* or a token that is no macro's name.                                     *)
(*                                                                         *)
(* expanding_ is empty whenever expandOrReturn() is entered: it inserts    *)
(* the names it needs and erases them before it reads another token.  Its  *)
(* test of expanding_ at the top never succeeds and noExpand is never set, *)
(* so neither is part of the state.                                        *)
(***************************************************************************)
EXTENDS Integers, Sequences, SequencesExt

CONSTANTS
  Tokens,  \* what a body or an input is made of
  Names,   \* the macro names
  Tables,  \* the macro tables to consider: functions from names to bodies
  Inputs   \* the inputs to consider: sequences of tokens

ASSUME TablesAssumption ==
  /\ IsFiniteSet(Names)
  /\ \A table \in Tables : DOMAIN table \subseteq Names /\ \A m \in DOMAIN table : table[m] \in Seq(Tokens)

ASSUME InputsAssumption == Inputs \subseteq Seq(Tokens)

VARIABLES
  defs,      \* the macro table, macros_
  input,     \* the raw tokens still to be read
  pending_,  \* tokens of a substituted body, not handed over yet
  due        \* history: the tokens the parser has still to be given

lexVars == <<defs, input, pending_, due>>

-----------------------------------------------------------------------------
(* What a macro use stands for: bodies replace names until none is left. *)

Substitute(table, s) ==
  FlattenSeq([i \in 1..Len(s) |-> IF s[i] \in DOMAIN table THEN table[s[i]] ELSE <<s[i]>>])

Rounds(table, s, n) ==
  LET R[k \in 0..n] == IF k = 0 THEN s ELSE Substitute(table, R[k - 1])
  IN R[n]

\* No body leads back to its own name; then one round per name is enough.
Acyclic(table) ==
  \A m \in DOMAIN table :
    \A k \in 1..Cardinality(Names) :
      ~ \E i \in 1..Len(Rounds(table, table[m], k - 1)) : Rounds(table, table[m], k - 1)[i] = m

Meaning(table, s) == Rounds(table, s, Cardinality(Names))

-----------------------------------------------------------------------------
(* The lexer *)

\* The macros in a body are left to be expanded when they come out of the queue.
expand_Shallow(table) == table

\* The eager expansion of the body of m, while the macros in X are expanded: a
\* name that is one of them, or m, is copied as it is.
expand(table) ==
  LET E[X \in SUBSET DOMAIN table] ==
        [m \in DOMAIN table \ X |->
           FlattenSeq([i \in 1..Len(table[m]) |->
                         IF table[m][i] \in DOMAIN table \ (X \cup {m})
                         THEN E[X \cup {m}][table[m][i]]
                         ELSE <<table[m][i]>>])]
  IN E[{}]

\* The parser is given token t.
Deliver(t) == due' = IF due # <<>> /\ Head(due) = t THEN Tail(due) ELSE <<"wrong">>

\* t is not a macro: it is returned.  Its expansion is empty: another token is
\* read.  Otherwise the first token of it is returned and the rest is pending.
expandOrReturn(t, rest) ==
  \/ /\ t \notin DOMAIN defs
     /\ Deliver(t)
     /\ pending_' = rest
  \/ /\ t \in DOMAIN defs
     /\ LET out == expand(defs)[t]
        IN \/ out = <<>> /\ pending_' = rest /\ UNCHANGED due
           \/ out # <<>> /\ Deliver(out[1]) /\ pending_' = Tail(out) \o rest

\* The token stays in the queue.
FromPending_NoPop ==
  /\ pending_ # <<>>
  /\ expandOrReturn(Head(pending_), pending_)
  /\ UNCHANGED <<defs, input>>

\* Pending tokens come before the input, and are looked at again.
FromPending ==
  /\ pending_ # <<>>
  /\ expandOrReturn(Head(pending_), Tail(pending_))
  /\ UNCHANGED <<defs, input>>

FromInput ==
  /\ pending_ = <<>> /\ input # <<>>
  /\ expandOrReturn(Head(input), <<>>)
  /\ input' = Tail(input)
  /\ UNCHANGED defs

AtEof == pending_ = <<>> /\ input = <<>>

LexInit ==
  /\ defs \in Tables /\ input \in Inputs
  /\ pending_ = <<>>
  /\ due = IF Acyclic(defs) THEN Meaning(defs, input) ELSE <<>>

next == FromPending \/ FromInput
LexNext == next \/ (AtEof /\ UNCHANGED lexVars)

\* The parser calls next() until it is given Eof.
LexSpec == LexInit /\ [][LexNext]_lexVars /\ WF_lexVars(next)

-----------------------------------------------------------------------------
(* Properties *)

\* Whatever was handed over and whatever is still queued, the parser is given
\* exactly what the input stands for, in order, when no macro is recursive.
ExpansionCorrect ==
  Acyclic(defs) => due = Meaning(defs, pending_ \o input)

\* Reading comes to the end of the input: next() does not hand out tokens of a
\* substituted macro for ever.
EveryReadEnds == <>AtEof
=============================================================================
