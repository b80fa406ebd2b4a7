------------------------------ MODULE MCParsing ------------------------------
(* Outlines of texts for TLC: each leads into one construct and goes on    *)
(* with every sequence of a few words.                                     *)
EXTENDS Grammar

Outline(b, w, n) == [begin |-> b, words |-> w, more |-> n]

PlainClass == <<"class", "C", "{", "I64", "x", ";", "}", ";">>

MCOutlines ==
    {Outline(<<"if", "(", "x", ")">>, {"if", "else", "x", ";", "{", "}"}, 5),
     Outline(<<"do">>, {"while", "x", "(", ")", ";"}, 7),
     Outline(<<"for", "(">>, {"x", ";", ",", ")"}, 7),
     Outline(<<>>, {"{", "}", "x", ";", ":", "lock"}, 5),
     Outline(<<"switch">>, {"case", ":", "3", "(", ")", "[", "]", ";"}, 6),
     Outline(<<"case">>, {"3", "...", ":", "x", ";"}, 5),
     Outline(<<"{">>, {"default", "start", "end", ":", ";", "}", "x"}, 4),
     Outline(<<"try", "{">>, {"try", "catch", "{", "}", ";"}, 6),
     Outline(<<>>, {"break", "goto", "return", "no_warn", "x", "3", ",", ";"}, 4),
     Outline(<<"{">>, {"continue", "typedef", "asm", "union", "{", "}", ";", "x"}, 5),
     Outline(<<>>, {"str", "emptystr", "chr", "emptychr", ",", ";", "+"}, 4),
     Outline(<<>>, {"I64", "x", "*", ",", "=", "3", ";"}, 5),
     Outline(<<"{", "I64">>, {"reg", "noreg", "x", ";", ",", "}"}, 5),
     Outline(<<"I64">>, {"reg", "noreg", "x", ";", ",", "*"}, 5),
     Outline(<<"I64", "(", "*">>, {"x", ")", "(", "I64", ",", "=", ";"}, 7),
     Outline(<<"{", "I64", "(", "*">>, {"x", ")", "(", ";", "}"}, 7),
     Outline(<<"I64", "x", "(">>, {"I64", "x", "*", ",", "...", ")", ";", "(", "[", "]"}, 6),
     Outline(<<"I64", "x", "(", "I64", "x">>, {",", "...", "=", "lastclass", "+", ")", ";", "{", "}"}, 5),
     Outline(<<"I64", "x", "(", "I64">>, {"reg", "noreg", "x", "(", ")", "*", ";"}, 5),
     Outline(<<"I64", "x", "[">>, {"3", "+", "*", "x", "(", ")", "]", ";"}, 5),
     Outline(<<"I64", "x", "[", "sizeof", "(">>, {"I64", "x", "*", ")", "]", ";"}, 5),
     Outline(<<"class", "C">>, {":", "C", "I64", "x", "{", "}", ";", ","}, 5),
     Outline(<<"class", "C", "{", "I64">>, {"x", "C", ",", "3", ";", "}", "reg", "*"}, 6),
     Outline(<<"class", "C", "{", "I64">>, {"x", "(", "*", ")", "$", ";", "}"}, 7),
     Outline(<<"class", "C", "{", "}">>, {"x", ",", "=", "3", ";", "*", "("}, 5),
     Outline(<<"I64", "union">>, {"C", ";", "{", "}", "x", "I64", "$"}, 5),
     Outline(<<>>, {"public", "_extern", "static", "I64", "x", ";", "="}, 5),
     Outline(<<"{", "static">>, {"I64", "x", "(", ";", "?", "{", "}", ":"}, 5),
     Outline(<<"x", "=", "sizeof", "(">>, {"x", "I64", "*", ".", ")", ";", "+"}, 5),
     Outline(<<"offset", "(">>, {"x", ".", ")", ";", "I64"}, 6),
     Outline(<<"class", "C", ";", "x", "=", "sizeof", "(">>, {"C", ".", "x", "*", ")", ";"}, 5),
     Outline(<<"class", "C", ";", "x", "=", "sizeof", "(">>, {"strC", "chrC", ".", "*", ")", ";", "+"}, 4),
     Outline(PlainClass \o <<"x", "=", "sizeof", "(">>, {"C", ".", "x", "end", "strC", ")", ";"}, 5),
     Outline(PlainClass \o <<"class", "C", ";", "x", "=", "sizeof", "(", "C", ".">>, {"x", "end", ")", ";"}, 3),
     Outline(PlainClass \o <<"class", "C", "{", "}", ";", "x", "=", "sizeof", "(", "C", ".">>, {"x", ")", ";"}, 3),
     Outline(PlainClass \o <<"class", "end", ":", "C", "{", "I64">>, {"x", ",", ";", "}"}, 5),
     Outline(PlainClass \o <<"class", "end", ":", "C", ";", "x", "=", "sizeof", "(", "end", ".">>,
             {"x", "C", ")", ";"}, 3),
     Outline(<<"{", "static">>, {"strI64", "strC", "str", "x", ";", "}"}, 4),
     Outline(<<"x", "=", "sizeof", "(">>, {"strI64", "*", "3", ".", ")", ";"}, 4),
     Outline(<<"x">>, {"(", ")", "I64", "*", "[", "]", "++", ".", ";"}, 4),
     Outline(<<"x", "(">>, {",", ")", "x", "I64", "*", ";"}, 5),
     Outline(<<"x", "=", "{">>, {"x", "{", "}", ",", "3", ";"}, 5),
     Outline(<<>>, {"x", "?", ":", "+", ";", "="}, 5),
     Outline(<<>>, {"I64", "*", "(", ")", ";", "3", "x"}, 4),
     Outline(<<"class", "C", ";">>, {"C", "*", "x", "(", ")", ";", "=", "{"}, 5)}
=============================================================================
