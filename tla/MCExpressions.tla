---------------------------- MODULE MCExpressions ----------------------------
(* I64 of eight bits; a literal that is no legal shift count and overflows when *)
(* multiplied; a macro whose value is -1.                                       *)
EXTENDS Expressions

MCLiterals == [x \in {"0", "2", "9"} |-> CASE x = "0" -> 0 [] x = "2" -> 2 [] x = "9" -> 9]
MCBody == <<"(", "-", "9", "/", "9", ")">>
=============================================================================
