---------------------------- MODULE MCClassTable ----------------------------
(* Two class names; bodies that are empty, hold plain members, embed either   *)
(* class (itself included), hold arrays, repeat pad and repeat another name.  *)
(* Initialisers: lists of up to two parts, which may be lists themselves.     *)
EXTENDS Initialisers

CONSTANTS A, B

Plain(x, s)   == [n |-> x, len |-> 0, sz |-> s, cls |-> NoName]
Embeds(x, c)  == [n |-> x, len |-> 0, sz |-> 0, cls |-> c]
Array(m, l)   == [m EXCEPT !.len = l]
Bodies == {<<>>, <<Plain("x", 1)>>, <<Plain("x", 1), Plain("y", 2)>>,
           <<Embeds("a", A), Plain("x", 1)>>, <<Array(Embeds("b", B), 2), Plain("y", 1)>>,
           <<Array(Plain("buf", 1), 3), Plain("z", 2)>>,
           <<Plain("pad", 1), Plain("pad", 1)>>, <<Plain("x", 1), Plain("x", 2)>>}

Num(v)  == [k |-> "int", v |-> v]
Dyn(v)  == [k |-> "dyn", v |-> v]
Str(s)  == [k |-> "str", s |-> s]
Leaves  == {Num(6), Dyn(-3), Str(<<1>>), Str(<<1, 2, 3>>)}
ListsOf(S, m) == {[k |-> "list", kids |-> kids] : kids \in UNION {[1..l -> S] : l \in 0..m}}
Short   == Leaves \cup ListsOf({Num(6), Dyn(-3)}, 2)
\* Values that need more than a half word.
Wide    == {Num(-3), Num(27), Dyn(27)}
AllInits == Leaves \cup Wide \cup ListsOf(Short, 2) \cup ListsOf({Num(6)}, 4)
=============================================================================
