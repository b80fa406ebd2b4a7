----------------------------- MODULE MCRuntime -----------------------------
(***************************************************************************)
(* Instances of Runtime for TLC.                                           *)
(***************************************************************************)
EXTENDS Runtime

MCSizes == {-1, 5}
MCFirstTexts == {<<"a">>}
MCLiterals == {<<>>, <<"a", "b">>}

Number(n) == [slot |-> "none", word |-> [Missing EXCEPT !.n = n]]
Pointed(v) == [slot |-> v, word |-> Missing]
Chars(c) == [slot |-> "none", word |-> [Missing EXCEPT !.c = c]]
Date(day, frac) == [slot |-> "none", word |-> [Missing EXCEPT !.day = day, !.frac = frac]]
Text(s) == [slot |-> "none", word |-> [Missing EXCEPT !.s = s]]
List(z) == [slot |-> "none", word |-> [Missing EXCEPT !.z = z]]

S == Dir(<<>>, 0, -1, "s")
MCTextCalls == {
    [fmt |-> <<Lit("x"), S>>, args |-> <<Pointed("p")>>],
    [fmt |-> <<S, Percent>>, args |-> <<Pointed("q")>>],
    [fmt |-> <<Dir(<<>>, 0, -1, "q"), Dir(<<>>, 2, -1, "c")>>, args |-> <<Pointed("p"), Chars(<<"x", "nul">>)>>],
    [fmt |-> <<>>, args |-> <<>>]}

NumberCodes == {"d", "u", "x", "X", "p"}
NumberFlags == {<<>>, <<"-">>, <<"0">>, <<",">>, <<"+">>, <<",", "0">>, <<"0", "-">>, <<"+", ",", "0">>}
Numbers == {0, 7, 42, 999, 1000, 123456, 1234567, 8388607, -1, -8, -1000, -999999, -8388608}
NumberCalls ==
    {[fmt |-> <<Dir(fl, w, -1, c)>>, args |-> <<Number(n)>>] :
        fl \in NumberFlags, w \in {0, 1, 4, 7, 12}, c \in NumberCodes, n \in Numbers}

Days == {0, 1, 30, 31, 58, 59, 60, 365, 366, 1460, 36523, 36524, 36525, 146096, 146097,
         719527, 719528, 730484, 730485, 738580, 739000, -1, -366, -146097}
DateCalls ==
    {[fmt |-> <<Dir(<<>>, 0, -1, "D")>>, args |-> <<Date(d, 0)>>] : d \in Days}
    \cup {[fmt |-> <<Dir(<<>>, 0, -1, "T")>>, args |-> <<Date(0, f)>>] :
            f \in {0, 1, 682, 683, 8191, 8192, 16382, 16383}}

MixedCalls == {
    [fmt |-> <<Lit("a"), Percent, Dir(<<"-">>, 3, -1, "c"), Lit("b")>>, args |-> <<Chars(<<"x", "nul", "y">>)>>],
    [fmt |-> <<Dir(<<>>, 4, 2, "s"), Dir(<<>>, 0, -1, "d")>>, args |-> <<Text(<<"u", "v", "w">>), Number(5)>>],
    [fmt |-> <<S, S>>, args |-> <<Text(NULL)>>],
    [fmt |-> <<Dir(<<>>, 0, -1, "q")>>, args |-> <<Text(<<"\"", "newline", "a">>)>>],
    [fmt |-> <<Dir(<<>>, 0, -1, "z"), Dir(<<>>, 0, -1, "i")>>,
     args |-> <<Number(1), List(<<<<"o">>, <<"p", "q">>>>), Number(3)>>],
    [fmt |-> <<Dir(<<>>, 2, -1, "z")>>, args |-> <<Number(5), List(<<<<"o">>>>)>>],
    [fmt |-> <<Dir(<<>>, 0, -1, "z"), Lit("e")>>, args |-> <<Number(0)>>],
    [fmt |-> <<Lit("a"), Dir(<<>>, 0, -1, "k"), Dir(<<>>, 0, -1, "d")>>, args |-> <<Number(9)>>],
    [fmt |-> <<Dir(<<"-">>, 3, -1, "k")>>, args |-> <<Number(9)>>],
    [fmt |-> <<Lit("a"), Cut(<<"%">>)>>, args |-> <<>>],
    [fmt |-> <<Lit("a"), Cut(<<"%", "-", "5">>)>>, args |-> <<Number(9)>>]}

TextFieldCalls ==
    {[fmt |-> <<Dir(fl, w, pr, c)>>, args |-> <<Text(s)>>] :
        fl \in {<<>>, <<"-">>}, w \in {0, 3, 9}, pr \in {-1, 0, 2}, c \in {"s", "q"},
        s \in {NULL, <<>>, <<"a", "n", "b">>, <<"\"", "newline", "a", "\\">>}}

MCPrintCalls == NumberCalls \cup DateCalls \cup MixedCalls \cup TextFieldCalls

Line(t) == [text |-> t, nl |-> TRUE]
Typed(lines, e) == [lines |-> lines, end |-> e, eof |-> FALSE]
Asked == <<Line(<<"9">>), Line(<<"1", "cr">>), [text |-> <<"y">>, nl |-> FALSE]>>
MCFiles == {[kind |-> "file", text |-> <<>>], [kind |-> "file", text |-> <<"f", "g">>]}
MCWorlds == {
    [input |-> Typed(Asked, "eof"), file |-> [kind |-> "file", text |-> <<"f">>]],
    [input |-> Typed(Asked, "error"), file |-> [kind |-> "none", text |-> <<>>]],
    [input |-> Typed(<<Line(<<"q">>), Line(<<>>)>>, "eof"), file |-> [kind |-> "pipe", text |-> <<"f">>]]}
=============================================================================
