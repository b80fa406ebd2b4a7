---------------------------- MODULE MCExceptions ----------------------------
(* A program of two functions for TLC: main has a try statement whose catch  *)
(* body holds another one, and g has one of its own.                         *)
EXTENDS Exceptions

CONSTANTS main, g, a, b, c

MCFuns  == {main, g}
MCTries == {a, b, c}
MCEncl  == [t \in MCTries |-> CASE t = a -> [k |-> "call",  x |-> main]
                                [] t = b -> [k |-> "catch", x |-> a]
                                [] t = c -> [k |-> "call",  x |-> g]]
=============================================================================
