-------------------------- MODULE MCMacroExpansion --------------------------
(* Every macro table without recursion, with bodies of at most two tokens, and *)
(* every input of one or two tokens.                                           *)
EXTENDS MacroExpansion

CONSTANTS Plain, MaxInput

Bodies == UNION {[1..n -> Names \cup Plain] : n \in 0..2}
AllTables == UNION {[D -> Bodies] : D \in SUBSET Names}
AcyclicTables == {table \in AllTables : Acyclic(table)}
MCTokens == Names \cup Plain
MCInputs == UNION {[1..n -> Names \cup Plain] : n \in 1..MaxInput}
=============================================================================
