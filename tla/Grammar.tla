------------------------------ MODULE Grammar ------------------------------
(***************************************************************************)
(* The language the parser is meant to accept, as a context free grammar   *)
(* with the few rules that settle its ambiguities, independent of how the  *)
(* parser looks ahead, commits and recovers; and the properties that tie   *)
(* the parser of module Parsing to it.                                     *)
(***************************************************************************)
EXTENDS Parsing

ClassWords == {"class", "union"}

\* The terminals that stand for several tokens.
Kinds ==
    [name    |-> Idents,
     var     |-> Idents \ {"reg", "noreg"},
     operand |-> Idents \ {"sizeof", "offset"},
     first   |-> Idents \ ({"sizeof", "offset", "static"} \cup EarlyKw),
     newclass|-> Idents,
     qual    |-> Quals \ Aliasing,
     alias   |-> Aliasing,
     member  |-> Idents \ {"reg", "noreg"},
     string  |-> Strings,
     text    |-> Strings \cap NonEmpty,
     char    |-> Chars \cap NonEmpty,
     number  |-> {"3"} \cup Chars]

IsType(t, known) == t = "I64" \/ t \in DOMAIN known.classes

\* The token t can stand for the terminal s where the classes "known" are declared.
Matches(s, t, known) ==
    CASE s = "type" -> IsType(t, known)
      [] s = "localtype" -> IsType(t, known) /\ t \notin EarlyKw
      [] s = "uniontype" -> IsType(t, known) /\ t \notin ClassWords
      [] s \in {"known", "base"} -> t \in DOMAIN known.classes
      [] s = "label" -> /\ t \in Idents \ EarlyKw
                        /\ t \in {"default", "start", "end"} \/ ~IsType(t, known)
      [] s \in DOMAIN Kinds -> t \in Kinds[s]
      [] OTHER -> t = s

\* Tokens to look for from the start of a text; "*s" is a run of stars.
RECURSIVE Begins(_, _, _)
Begins(txt, shape, known) ==
    \/ shape = <<>>
    \/ /\ txt # <<>>
       /\ IF Head(shape) = "*s"
          THEN IF Head(txt) = "*" THEN Begins(Tail(txt), shape, known)
                                  ELSE Begins(txt, Tail(shape), known)
          ELSE /\ Matches(Head(shape), Head(txt), known)
               /\ Begins(Tail(txt), Tail(shape), known)

\* How the ambiguities are settled: a text that begins like this is taken like this.
Shapes ==
    [decl    |-> {<<"type", "*s", "name">>, <<"type", "*s", "(", "*">>},
     func    |-> {<<"type", "*s", "name", "(">>},
     class   |-> {<<"class">>, <<"union">>, <<"type", "class">>, <<"type", "union">>},
     twonames|-> {<<"name", "name">>},
     noname  |-> {<<t>> : t \in (Tokens \cup {Eof}) \ Idents},
     qual    |-> {<<q>> : q \in Quals},
     else    |-> {<<"else">>},
     string  |-> {<<"string">>},
     type    |-> {<<"type">>},
     dflt    |-> {<<"lastclass">>}]

Has(txt, s, known) == \E shape \in Shapes[s] : Begins(txt, shape, known)

\* Symbols of a production that read nothing: the rest of the text begins so, or does not.
Not == [decl |-> "~decl", func |-> "~func", class |-> "~class", twonames |-> "~twonames",
        noname |-> "~noname",
        qual |-> "~qual", else |-> "~else", string |-> "~string", type |-> "~type",
        dflt |-> "~dflt"]
Guards == {Not[s] : s \in DOMAIN Not}
Shape(g) == CHOOSE s \in DOMAIN Not : Not[s] = g

Productions ==
    [Program  |-> {<<>>, <<"Item", "Program">>},
     Item     |-> {<<"Qual", "Item1">>, <<"~qual", "Class">>, <<"~qual", "~class", "Global">>,
                   <<"~qual", "~class", "~decl", "Stmt">>},
     Item1    |-> {<<"Qual", "Item1">>, <<"~qual", "Class">>, <<"~qual", "~class", "Global">>},
     Qual     |-> {<<"qual">>, <<"alias", "name">>},
     Global   |-> {<<"type", "Stars", "name", "(", "Params", "Body">>,
                   <<"~func", "type", "Decl", "Decls", ";">>},
     Body     |-> {<<";">>, <<"{", "Stmts", "}">>},
     Stars    |-> {<<>>, <<"*", "Stars">>},

     Decl     |-> {<<"Mods", "var", "Dims", "Val">>, <<"Mods", "Pointer", "Val">>},
     Decls    |-> {<<>>, <<",", "Decl", "Decls">>},
     Mods     |-> {<<>>, <<"*", "Mods">>, <<"noreg", "Mods">>,
                   <<"reg", "name", "~noname", "Mods">>, <<"reg", "~twonames", "Mods">>},
     Dims     |-> {<<>>, <<"[", "Const", "]", "Dims">>},
     Val      |-> {<<>>, <<"=", "E">>},
     Pointer  |-> {<<"(", "*", "name", ")", "(", "Params">>},
     Params   |-> {<<")">>, <<"Param">>},
     Param    |-> {<<"...", ")">>, <<"type", "Mods", "PName", "PVal", "PNext">>},
     PName    |-> {<<>>, <<"var", "PDims">>, <<"Pointer">>},
     PDims    |-> {<<>>, <<"[", "]", "PDims">>, <<"[", "Const", "]", "PDims">>},
     PVal     |-> {<<>>, <<"=", "lastclass">>, <<"=", "~dflt", "E">>},
     PNext    |-> {<<")">>, <<",", "Param">>},

     \* add, full and has read nothing: a member, the end of a class, a member that is there
     Class    |-> {<<"class", "newclass", "Base", "CRest">>, <<"union", "newclass", "Base", "CRest">>,
                   <<"uniontype", "class", "newclass", "Base", "CRest">>,
                   <<"uniontype", "union", "newclass", "Base", "CRest">>},
     Base     |-> {<<>>, <<":", "base">>},
     CRest    |-> {<<";">>, <<"{", "Members">>},
     Members  |-> {<<"}", "full", "Insts", ";">>, <<";", "Members">>, <<"type", "Member", "MNext">>},
     Member   |-> {<<"Mods", "member", "Dims", "Meta", "add">>,
                   <<"Mods", "(", "*", "member", ")", "(", "Params", "Meta", "add">>},
     MNext    |-> {<<";", "Members">>, <<",", "Member", "MNext">>},
     Meta     |-> {<<>>, <<"name", "E", "Meta">>},
     Insts    |-> {<<>>, <<"Decl", "Decls">>},

     Stmts    |-> {<<>>, <<"Stmt", "Stmts">>},
     Stmt     |-> {<<";">>, <<"{", "Stmts", "}">>, <<"label", ":">>,
                   <<"~decl", "First", "EOps", ";">>,
                   <<"localtype", "Decl", "Decls", ";">>, <<"static", "type", "Decl", "Decls", ";">>,
                   <<"text", "Strs", "Es", ";">>, <<"emptystr", "Shown", ";">>,
                   <<"char", ";">>, <<"emptychr", "E", ";">>,
                   <<"if", "(", "E", ")", "Stmt", "else", "Stmt">>,
                   <<"if", "(", "E", ")", "Stmt", "~else">>,
                   <<"while", "(", "E", ")", "Stmt">>,
                   <<"do", "Stmt", "while", "(", "E", ")", ";">>,
                   <<"for", "(", "List", ";", "OptE", ";", "List", ")", "Stmt">>,
                   <<"switch", "(", "E", ")", "Stmt">>, <<"switch", "[", "E", "]", "Stmt">>,
                   <<"break", ";">>, <<"goto", "name", ";">>, <<"return", "OptE", ";">>,
                   <<"case", ":">>, <<"case", "E", ":">>, <<"case", "E", "...", "E", ":">>,
                   <<"try", "{", "Stmts", "}", "catch", "{", "Stmts", "}">>,
                   <<"no_warn", "List", ";">>, <<"lock", "Stmt">>},
     OptE     |-> {<<>>, <<"E">>},
     List     |-> {<<>>, <<"E", "Es">>},
     Es       |-> {<<>>, <<",", "E", "Es">>},
     Strs     |-> {<<>>, <<"string", "Strs">>},
     Shown    |-> {<<"Es">>, <<"~string", "E", "Es">>, <<"emptystr", "Shown">>, <<"text", "Strs", "Es">>},

     E        |-> {<<"Un", "EOps">>},
     EOps     |-> {<<>>} \cup {<<op, "Un", "EOps">> : op \in BinaryOps},
     Un       |-> {<<"Prim", "Post">>} \cup {<<op, "Un">> : op \in PrefixOps},
     First    |-> {<<"3", "Post">>, <<"first", "Post">>, <<"Paren", "Post">>}
                     \cup {<<op, "Un">> : op \in PrefixOps},
     Prim     |-> {<<"number">>, <<"string", "Strs">>, <<"operand">>, <<"{", "Inits">>, <<"Paren">>},
     Paren    |-> {<<"(", "E", ")">>, <<"Size">>, <<"sizeof", "(", "~type", "E", ")">>,
                   <<"offset", "(", "name", ".", "name", ")">>},
     Size     |-> {<<"sizeof", "(", "type", "Stars", ")">>, <<"sizeof", "(", "has", "known", ".", "name", ")">>},
     Inits    |-> {<<"}">>, <<"E", "}">>, <<"E", ",", "Inits">>},
     Post     |-> {<<>>, <<"(", "type", "Stars", ")", "Post">>, <<"(", "OptE", "Args", "Post">>,
                   <<"[", "E", "]", "Post">>, <<".", "name", "Post">>, <<"++", "Post">>},
     Args     |-> {<<")">>, <<",", "OptE", "Args">>},

     Const    |-> {<<"CUn", "COps">>},
     COps     |-> {<<>>} \cup {<<op, "CUn", "COps">> : op \in FoldedBinary},
     CUn      |-> {<<"number">>, <<"(", "Const", ")">>, <<"Size">>}
                     \cup {<<op, "CUn">> : op \in FoldedPrefix}]

\* What is known of the classes after the token t stood for s, before "rest".
After(s, t, rest, known) ==
    CASE s = "newclass" -> Declared(known, t, rest # <<>> /\ Head(rest) \in {"{", ":"})
      [] s = "base" -> Based(known, t)
      [] s = "member" -> [known EXCEPT !.d = t]
      [] OTHER -> known

HasMember(txt, known) ==
    Len(txt) > 2 /\ txt[1] \in DOMAIN known.classes => findMember(known, known.classes[txt[1]], txt[3])

\* txt is the beginning of a word of the form; "known" tells the classes declared before it.
RECURSIVE Viable(_, _, _)
Viable(form, txt, known) ==
    \/ txt = <<>>
    \/ /\ form # <<>>
       /\ LET s == Head(form)
              more == Tail(form)
          IN  CASE s \in DOMAIN Productions ->
                     \E p \in Productions[s] : Viable(p \o more, txt, known)
                [] s \in Guards -> ~Has(txt, Shape(s), known) /\ Viable(more, txt, known)
                [] s = "add" -> ~Repeats(known) /\ Viable(more, txt, WithMember(known))
                [] s = "full" -> Viable(more, txt, Completed(known))
                [] s = "has" -> HasMember(txt, known) /\ Viable(more, txt, known)
                [] OTHER ->
                     /\ Matches(s, Head(txt), known)
                     /\ Viable(more, Tail(txt), After(s, Head(txt), Tail(txt), known))

WellFormed(txt) == Viable(<<"Program", Eof>>, txt, NoClasses)

(* A literal stands for the type it spells: after static in a body for any *)
(* type, and in sizeof( for a class (parser.cpp:550 and 1129 look at the   *)
(* text of the token, whatever its kind).                                  *)
SpellsType(txt) ==
    \E i \in 2 .. Len(txt) :
        /\ txt[i] \in DOMAIN Spelling
        /\ \/ txt[i - 1] = "static"
           \/ /\ i > 2 /\ txt[i - 2] = "sizeof" /\ txt[i - 1] = "("
              /\ \E j \in 1 .. (i - 2) : txt[j] \in ClassWords /\ txt[j + 1] = Spelling[txt[i]]
-----------------------------------------------------------------------------
Done == stack = <<>>

(* A text that parseProgram reads to its end without an error is a program *)
(* of the language, with each member once and no sizeof of a member that   *)
(* is not there: no lookahead, early return or accept() lets through a     *)
(* text that is not (parser.cpp, all parse functions).  Not so where a     *)
(* literal spells a type: static "I64" x; is accepted.                     *)
AcceptsOnlyPrograms == Done /\ ~hadError /\ ~SpellsType(text) => WellFormed(text)

(* When the parser complains for the first time, what it has read cannot   *)
(* be continued to a program: a lookahead never commits the parser to a    *)
(* construct that the text turns out not to be (startsDecl, looksLikeCast, *)
(* the label and print tests).  Not so where a literal spells a type:      *)
(* sizeof("C"+1) is refused once there is a class C.                       *)
ComplainsOnlyOfErrors ==
    [][~hadError /\ hadError' /\ ~SpellsType(text) => ~WellFormed(text)]_vars

=============================================================================
