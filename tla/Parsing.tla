------------------------------ MODULE Parsing ------------------------------
(***************************************************************************)
(* The recursive descent parser of src/src/parser.cpp as a machine with an *)
(* explicit call stack.  A parse function that has been called and not yet *)
(* returned is a symbol on the stack; a token on the stack is a pending    *)
(* expect() of it.  The text is chosen token by token, when tok(k) asks    *)
(* the lexer for it, so every text over a vocabulary is explored, with     *)
(* the lookahead the code uses and no more.                                *)
(*                                                                         *)
(* Data is cut down to what the parser looks at: a token is its spelling,  *)
(* x is a plain name, C a name that may be declared a class, I64 any       *)
(* built-in type, 3 any number; literals matter where one spells the name  *)
(* of a type.  The tree is not built; of a class its members' names are    *)
(* kept, their layout is in ClassTable.                                    *)
(***************************************************************************)
EXTENDS Integers, Sequences, TLC

CONSTANTS
    Outlines,       \* how a text begins, the words it goes on with, and for how long
    MaxAfterError   \* how far a text goes on after what was read at its first error

VARIABLES
    outline,    \* the outline of this text
    left,       \* how many more tokens the text may have
    buf,        \* tokens read ahead by tok(k)
    stack,      \* parse functions and expect()s still to be done
    prog,       \* the classes declared so far, and the one that is being read
    konst,      \* evalConstI64 would accept the expression read so far
    depth,      \* the local of the skip functions
    hadError,
    text        \* history: what was read before the first error

vars == <<outline, left, buf, stack, prog, konst, depth, hadError, text>>

EarlyKw == {"if", "while", "do", "for", "switch", "break", "continue", "typedef",
            "goto", "return", "case", "try", "no_warn", "lock", "asm", "class",
            "union"}
Aliasing == {"_extern", "_import"}
Quals == {"public", "static", "extern", "import", "interrupt"} \cup Aliasing
Idents == EarlyKw \cup Quals \cup
          {"x", "C", "I64", "else", "default", "start", "end", "catch", "reg",
           "noreg", "sizeof", "offset", "lastclass"}
\* String and character literals whose text is the name of a type.
Spelling == [strI64 |-> "I64", strC |-> "C", chrC |-> "C"]
Strings == {"str", "emptystr", "strI64", "strC"}
Chars == {"chr", "emptychr", "chrC"}
NonEmpty == {"str", "strI64", "strC", "chr", "chrC"}
Puncts == {";", ",", ":", "(", ")", "{", "}", "[", "]", "*", "=", "...", ".",
           "+", "++", "?", "$"}
Tokens == Idents \cup Strings \cup Chars \cup Puncts \cup {"3"}
Eof == "<eof>"

BinaryOps == {"+", "*", "="}
PrefixOps == {"+", "*", "++"}
\* The operators evalConstI64 knows, of those.
FoldedBinary == {"+", "*"}
FoldedPrefix == {"+"}

ASSUME OutlinesAssumption ==
    /\ MaxAfterError \in Nat
    /\ \A o \in Outlines : /\ o.begin \in Seq(Tokens)
                          /\ o.words \subseteq Tokens
                          /\ o.more \in Nat /\ o.more >= MaxAfterError

-----------------------------------------------------------------------------
(* tok(k), once the lexer has been asked for it; Eof comes again and again. *)
Seen(k) == k < Len(buf) \/ (buf # <<>> /\ buf[Len(buf)] = Eof)
Tok(k) == IF k < Len(buf) THEN buf[k + 1] ELSE Eof
At(S) == Tok(0) \in S
IsIdent(k) == Tok(k) \in Idents
Classes == DOMAIN prog.classes
isTypeName(t) == t = "I64" \/ t \in Classes
\* The text of the token, whatever its kind.
Text == IF Tok(0) \in DOMAIN Spelling THEN Spelling[Tok(0)] ELSE Tok(0)

\* The first position from k on that is not a star.
AfterStars(k) ==
    CHOOSE j \in k .. (Len(buf) + k) :
        /\ Tok(j) # "*"
        /\ \A i \in k .. (j - 1) : Tok(i) = "*"

\* Mutant: a cast to a pointer type is not foreseen.
looksLikeCast_NoStars == At({"("}) /\ isTypeName(Tok(1)) /\ Tok(2) = ")"

looksLikeCast == At({"("}) /\ isTypeName(Tok(1)) /\ Tok(AfterStars(2)) = ")"
startsDecl ==
    LET k == AfterStars(1)
    IN  IsIdent(k) \/ (Tok(k) = "(" /\ Tok(k + 1) = "*")

Top == Head(stack)
Rest == Tail(stack)
In(f) == stack # <<>> /\ Top = f

(* The tests of the function on top of the stack have all the tokens they look at. *)
Ready ==
    /\ Seen(0)
    /\ In("Stmt") /\ At(Idents \ EarlyKw) => Seen(1)
    /\ Top \in {"Stmt", "TopLevel", "Qualified"} /\ isTypeName(Tok(0)) =>
          /\ Seen(AfterStars(1))
          /\ Tok(AfterStars(1)) = "(" => Seen(AfterStars(1) + 1)
    /\ In("Postfix") /\ At({"("}) =>
          /\ Seen(1)
          /\ isTypeName(Tok(1)) => Seen(AfterStars(2))
    /\ In("Declarator") /\ At({"(", "reg"}) => Seen(1)
    /\ In("Declarator") /\ At({"reg"}) /\ IsIdent(1) => Seen(2)
    /\ In("GlobalHead") /\ IsIdent(0) => Seen(1)
    /\ In("SizeofArg") /\ Text \in Classes =>
          /\ Seen(1)
          /\ Tok(1) = "." => Seen(2)
    /\ In("ClassName") /\ IsIdent(0) => Seen(1)

\* One of the functions F runs, and can decide what to do.
Called(F) == stack # <<>> /\ Top \in F /\ Ready

\* The tokens that may come next: those of the outline's beginning, then any word.
Choices ==
    CASE left > outline.more -> {outline.begin[Len(outline.begin) + outline.more - left + 1]}
      [] left \in 1 .. outline.more -> outline.words \cup {Eof}
      [] left = 0 -> {Eof}

(* lx.next(), called by tok(k) when the buffer is too short. *)
LexNext ==
    /\ stack # <<>> /\ ~Ready
    /\ \E t \in Choices :
          /\ buf' = Append(buf, t)
          /\ left' = IF t = Eof THEN 0 ELSE left - 1
          /\ text' = IF hadError THEN text ELSE Append(text, t)
    /\ UNCHANGED <<outline, stack, prog, konst, depth, hadError>>

-----------------------------------------------------------------------------
(* prog->classes: a name leads to one of the ClassInfos made so far, which *)
(* has members, and may have a base; ci is the one parseClassDef works on, *)
(* d the name of the member it has just read.                              *)
NoClasses == [classes |-> <<>>, infos |-> <<>>, ci |-> 0, d |-> ""]

\* A complete class is overshadowed where a body or a base follows the name.
Declared(p, name, goesOn) ==
    LET known == name \in DOMAIN p.classes
        new == Len(p.infos) + 1
    IN  IF known /\ ~(goesOn /\ p.infos[p.classes[name]].complete)
        THEN [p EXCEPT !.ci = p.classes[name]]
        ELSE [p EXCEPT !.classes = (name :> new) @@ @,
                       !.infos = Append(@, [base |-> 0, names |-> {}, complete |-> FALSE]),
                       !.ci = new]

Based(p, name) == [p EXCEPT !.infos[p.ci].base = IF name = "I64" THEN 0 ELSE p.classes[name]]
Repeats(p) == p.d \in p.infos[p.ci].names
WithMember(p) == [p EXCEPT !.infos[p.ci].names = @ \cup {p.d}, !.d = ""]
Completed(p) == [p EXCEPT !.infos[p.ci].complete = TRUE]

\* The ClassInfos findMember comes to, one base after the other; 0 is the end.
Chain(p, i) ==
    LET at[k \in 0 .. Len(p.infos)] ==
            CASE k = 0 -> i
              [] k > 0 -> IF at[k - 1] = 0 THEN 0 ELSE p.infos[at[k - 1]].base
    IN  {at[k] : k \in 0 .. Len(p.infos)}
findMember(p, i, name) == \E c \in Chain(p, i) \ {0} : name \in p.infos[c].names

-----------------------------------------------------------------------------
(* What a parse function does before it returns or calls: it takes k       *)
(* tokens and leaves the calls and expects of "next" to be done.           *)
Moved(k, next) ==
    /\ buf' = SubSeq(buf, k + 1, Len(buf))
    /\ stack' = next \o Rest

Take(k, next) ==
    /\ Moved(k, next)
    /\ UNCHANGED <<outline, left, prog, konst, depth, hadError, text>>

\* Part of an expression: evalConstI64 goes on only if it is of a kind it knows.
TakeExpr(k, next, folds) ==
    /\ Moved(k, next)
    /\ konst' = (konst /\ folds)
    /\ UNCHANGED <<outline, left, prog, depth, hadError, text>>

Complain ==
    /\ hadError' = TRUE
    /\ text' = <<>>
    /\ left' = IF left > MaxAfterError THEN MaxAfterError ELSE left

error(k, next) ==
    /\ Moved(k, next)
    /\ Complain
    /\ UNCHANGED <<outline, prog, konst, depth>>

\* Something becomes known of a class.
TakeClass(k, next, p) ==
    /\ Moved(k, next)
    /\ prog' = p
    /\ UNCHANGED <<outline, left, konst, depth, hadError, text>>

-----------------------------------------------------------------------------
(* run(): while (tok().kind != Tok::Eof) parseTopLevel(); *)
run ==
    /\ Called({"Program"})
    /\ \/ At({Eof}) /\ Take(0, <<>>)
       \/ ~At({Eof}) /\ Take(0, <<"TopLevel", "Program">>)

(* A mismatch skips one token, but never the end of the text. *)
expect ==
    /\ Called(Puncts)
    /\ \/ At({Top}) /\ Take(1, <<>>)
       \/ ~At({Top}) /\ error(IF At({Eof}) THEN 0 ELSE 1, <<>>)

parseQuals ==
    \/ /\ Called({"TopLevel", "Qualified"}) /\ At(Quals)
       /\ Take(1, IF At(Aliasing) THEN <<"AliasName", "Qualified">> ELSE <<"Qualified">>)
    \/ /\ Called({"AliasName"})
       /\ \/ IsIdent(0) /\ Take(1, <<>>)
          \/ ~IsIdent(0) /\ error(0, <<>>)

ClassNext == At({"class", "union"}) \/ (isTypeName(Tok(0)) /\ Tok(1) \in {"class", "union"})

(* parseTopLevel once parseQuals has found the last qualifier. *)
parseTopLevel ==
    /\ Called({"TopLevel", "Qualified"})
    /\ ~At(Quals)
    /\ \/ In("TopLevel") /\ At({";"}) /\ Take(1, <<>>)
       \/ ClassNext /\ Take(IF At({"class", "union"}) THEN 1 ELSE 2, <<"ClassName">>)
       \/ /\ ~ClassNext /\ isTypeName(Tok(0))
          /\ startsDecl \/ In("Qualified")
          /\ Take(AfterStars(1), <<"GlobalHead">>)
       \/ /\ ~ClassNext /\ In("Qualified") /\ ~isTypeName(Tok(0))
          /\ error(0, <<"skipToSemi">>)
       \/ /\ ~ClassNext /\ In("TopLevel") /\ ~At({";"})
          /\ ~(isTypeName(Tok(0)) /\ startsDecl)
          /\ Take(0, <<"Stmt">>)

(* A name and a '(' make a function, anything else a list of variables. *)
parseFunc ==
    \/ /\ Called({"GlobalHead"})
       /\ \/ /\ IsIdent(0) /\ Tok(1) = "("
             /\ Take(2, <<"Params", "FuncBody">>)
          \/ /\ ~(IsIdent(0) /\ Tok(1) = "(")
             /\ Take(0, <<"Declarator", "GlobalTail">>)
    \/ /\ Called({"FuncBody"})
       /\ \/ At({"{"}) /\ Take(1, <<"Block">>)
          \/ ~At({"{"}) /\ Take(0, <<";">>)

-----------------------------------------------------------------------------
(* Declarators.  The symbol after "Declarator" is the caller: what it does *)
(* with the declarator, and whether it is a parameter or may have a value. *)
Callers == {"VarTail", "GlobalTail", "MemberTail", "InstTail", "ParamTail"}
AllowInit == {"VarTail", "GlobalTail", "InstTail"}

\* parseDeclarator returned false: the caller complains and gives up in its way.
Refused ==
    LET caller == Head(Rest)
    IN  /\ Complain
        /\ stack' = CASE caller \in {"VarTail", "GlobalTail"} -> <<"skipToSemi">> \o Tail(Rest)
                      [] caller = "MemberTail" -> Tail(Rest)
                      [] caller = "InstTail" -> <<";">> \o Tail(Rest)
                      [] caller = "ParamTail" -> Rest
        /\ UNCHANGED <<outline, buf, prog, konst, depth>>

FnPtr == At({"("}) /\ Tok(1) = "*"

\* The declarator has its name: that of a member is wanted when it is complete.
TakeName(next) ==
    TakeClass(1, next, IF Head(Rest) = "MemberTail" THEN [prog EXCEPT !.d = Tok(0)] ELSE prog)

parseDeclarator ==
    \/ /\ Called({"Declarator"})
       /\ \/ At({"*", "noreg"}) /\ Take(1, <<"Declarator">>)
          \/ At({"reg"}) /\ Take(IF IsIdent(1) /\ IsIdent(2) THEN 2 ELSE 1, <<"Declarator">>)
          \/ FnPtr /\ Take(2, <<"FnPtrName">>)
          \/ At(Idents \ {"reg", "noreg"}) /\ TakeName(<<"Dims", "Init">>)
          \/ /\ ~FnPtr /\ ~At(Idents \cup {"*"})
             /\ IF Head(Rest) = "ParamTail" THEN Take(0, <<>>) ELSE Refused
    \/ /\ Called({"FnPtrName"})
       /\ IF IsIdent(0) THEN TakeName(<<")", "(", "Params", "Init">>) ELSE Refused

(* Array dimensions: constant, or empty in a parameter; then the value. *)
parseDims ==
    \/ /\ Called({"Dims"})
       /\ Take(IF At({"["}) THEN 1 ELSE 0, IF At({"["}) THEN <<"Dim">> ELSE <<>>)
    \/ /\ Called({"Dim"})
       /\ IF At({"]"}) /\ Rest[2] = "ParamTail"
          THEN Take(1, <<"Dims">>)
          ELSE /\ Moved(0, <<"Expr", "DimEnd", "]", "Dims">>)
               /\ konst' = TRUE
               /\ UNCHANGED <<outline, left, prog, depth, hadError, text>>
    \/ /\ Called({"DimEnd"})
       /\ IF konst THEN Take(0, <<>>) ELSE error(0, <<>>)
    \/ /\ Called({"Init"})
       /\ IF Head(Rest) \in AllowInit /\ At({"="}) THEN Take(1, <<"Expr">>) ELSE Take(0, <<>>)

parseBaseType ==
    /\ Called({"Stars"})
    /\ IF At({"*"}) THEN Take(1, <<"Stars">>) ELSE Take(0, <<>>)

parseParams ==
    \/ /\ Called({"Params"})
       /\ IF At({")"}) THEN Take(1, <<>>) ELSE Take(0, <<"Param">>)
    \/ /\ Called({"Param"})
       /\ \/ At({"..."}) /\ Take(1, <<")">>)
          \/ isTypeName(Tok(0)) /\ Take(1, <<"Stars", "ParamName">>)
          \/ /\ ~At({"..."}) /\ ~isTypeName(Tok(0))
             /\ Moved(0, <<"skipToParenEnd">>)
             /\ Complain
             /\ depth' = 1
             /\ UNCHANGED <<outline, prog, konst>>
    \/ /\ Called({"ParamName"})
       /\ IF IsIdent(0) \/ At({"("}) THEN Take(0, <<"Declarator", "ParamTail">>)
                                     ELSE Take(0, <<"ParamTail">>)
    \/ /\ Called({"ParamTail"})
       /\ IF At({"="}) THEN Take(1, <<"Dflt", "ParamNext">>) ELSE Take(0, <<"ParamNext">>)
    \/ /\ Called({"Dflt"})
       /\ IF At({"lastclass"}) THEN Take(1, <<>>) ELSE Take(0, <<"Expr">>)
    \/ /\ Called({"ParamNext"})
       /\ IF At({","}) THEN Take(1, <<"Param">>) ELSE Take(0, <<")">>)

(* What comes after a declarator; a '(' after a local one is a nested      *)
(* function.  The type after static is looked up by the text of the token. *)
parseVarDeclStmt ==
    \/ /\ Called({"VarTail", "GlobalTail", "InstTail"})
       /\ \/ At({","}) /\ Take(1, <<"Declarator", Top>>)
          \/ In("VarTail") /\ At({"("}) /\ error(0, <<"skipBraceBlock">>)
          \/ ~At({","}) /\ ~(In("VarTail") /\ At({"("})) /\ Take(0, <<";">>)
    \/ /\ Called({"StaticType"})
       /\ \/ isTypeName(Text) /\ Take(1, <<>>)
          \/ ~isTypeName(Text) /\ error(IF At({Eof}) THEN 0 ELSE 1, <<>>)

-----------------------------------------------------------------------------
\* m.name may stand in the class already: an error, and the member is there twice.
AddMember(k, next) ==
    /\ Moved(k, next)
    /\ prog' = WithMember(prog)
    /\ IF Repeats(prog) THEN Complain ELSE UNCHANGED <<left, hadError, text>>
    /\ UNCHANGED <<outline, konst, depth>>

parseClassDef ==
    \/ /\ Called({"ClassName"})
       /\ \/ ~IsIdent(0) /\ error(0, <<"skipToSemi">>)
          \/ IsIdent(0) /\ TakeClass(1, <<"ClassBase">>, Declared(prog, Tok(0), Tok(1) \in {"{", ":"}))
    \/ /\ Called({"ClassBase"})
       /\ IF At({":"}) THEN Take(1, <<"BaseName", "ClassBody">>) ELSE Take(0, <<"ClassBody">>)
    \/ /\ Called({"BaseName"})
       /\ IF At(Classes) THEN TakeClass(1, <<"OneBase">>, Based(prog, Tok(0))) ELSE error(0, <<>>)
    \/ /\ Called({"OneBase"})
       /\ IF At({","}) THEN error(0, <<>>) ELSE Take(0, <<>>)
    \/ /\ Called({"ClassBody"})
       /\ IF At({";"}) THEN Take(1, <<>>) ELSE Take(0, <<"{", "Members">>)
    \/ /\ Called({"Members"})
       /\ \/ At({"}"}) /\ TakeClass(1, <<"Instances">>, Completed(prog))
          \/ At({Eof}) /\ error(0, <<>>)
          \/ At({";"}) /\ Take(1, <<"Members">>)
          \/ isTypeName(Tok(0)) /\ Take(1, <<"Declarator", "MemberTail", "Members">>)
          \/ /\ ~At({"}", ";", Eof}) /\ ~isTypeName(Tok(0))
             /\ error(0, <<"skipToSemi", "Members">>)
    \/ /\ Called({"MemberTail"})
       /\ \/ IsIdent(0) /\ Take(1, <<"Expr", "MemberTail">>)
          \/ At({","}) /\ AddMember(1, <<"Declarator", "MemberTail">>)
          \/ ~IsIdent(0) /\ ~At({","}) /\ AddMember(0, <<";">>)
    \/ /\ Called({"Instances"})
       /\ IF At({";"}) THEN Take(1, <<>>) ELSE Take(0, <<"Declarator", "InstTail">>)

-----------------------------------------------------------------------------
(* Error recovery: loops that throw tokens away. *)
Discard(d) ==
    /\ Moved(1, <<Top>>)
    /\ depth' = d
    /\ UNCHANGED <<outline, left, prog, konst, hadError, text>>

SkipDone(k) ==
    /\ Moved(k, <<>>)
    /\ depth' = 0
    /\ UNCHANGED <<outline, left, prog, konst, hadError, text>>

Deeper(open, close) ==
    depth + (IF At({open}) THEN 1 ELSE 0) - (IF At({close}) THEN 1 ELSE 0)

skipToSemi ==
    /\ Called({"skipToSemi"})
    /\ \/ At({Eof}) /\ SkipDone(0)
       \/ At({";"}) /\ depth <= 0 /\ SkipDone(1)
       \/ ~At({Eof}) /\ ~(At({";"}) /\ depth <= 0) /\ Discard(Deeper("{", "}"))

skipBraceBlock ==
    \/ /\ Called({"skipBraceBlock"})
       /\ Take(0, IF At({"{"}) THEN <<"skipBraces">> ELSE <<"skipToSemi">>)
    \/ /\ Called({"skipBraces"})
       /\ \/ At({Eof}) /\ SkipDone(0)
          \/ At({"}"}) /\ depth = 1 /\ SkipDone(1)
          \/ ~At({Eof}) /\ ~(At({"}"}) /\ depth = 1) /\ Discard(Deeper("{", "}"))

skipToParenEnd ==
    /\ Called({"skipToParenEnd"})
    /\ \/ At({Eof}) /\ SkipDone(0)
       \/ At({")"}) /\ depth = 1 /\ SkipDone(1)
       \/ ~At({Eof}) /\ ~(At({")"}) /\ depth = 1) /\ Discard(Deeper("(", ")"))

-----------------------------------------------------------------------------

(* Statements. *)
parseBlock ==
    /\ Called({"Block"})
    /\ \/ At({"}"}) /\ Take(1, <<>>)
       \/ At({Eof}) /\ error(0, <<>>)
       \/ ~At({"}", Eof}) /\ Take(0, <<"Stmt", "Block">>)

\* What a statement that a keyword announces goes on with.
AfterKeyword ==
    [if      |-> <<"(", "Expr", ")", "Stmt", "ElseOpt">>,
     while   |-> <<"(", "Expr", ")", "Stmt">>,
     do      |-> <<"Stmt", "DoTail">>,
     for     |-> <<"(", "ForInit", ";", "OptExpr", ";", "ForPost", ")", "Stmt">>,
     switch  |-> <<"SwitchHead", "Stmt">>,
     break   |-> <<";">>,
     goto    |-> <<"GotoName", ";">>,
     return  |-> <<"OptExpr", ";">>,
     case    |-> <<"CaseVals", ":">>,
     try     |-> <<"TryOpen">>,
     no_warn |-> <<"ForInit", ";">>,
     lock    |-> <<"Stmt">>]

\* Words of C that HolyC does not have here, and how each is skipped.
Unsupported ==
    [continue |-> <<"SemiOpt">>, typedef |-> <<"skipToSemi">>,
     asm |-> <<"skipBraceBlock">>, class |-> <<"skipToSemi">>, union |-> <<"skipToSemi">>]

Labelled ==
    /\ At(Idents \ EarlyKw) /\ Tok(1) = ":"
    /\ At({"default", "start", "end"}) \/ ~isTypeName(Tok(0))
Declares == ~At(EarlyKw) /\ ~Labelled /\ isTypeName(Tok(0)) /\ startsDecl

parseStmt ==
    /\ Called({"Stmt"})
    /\ \/ At({";"}) /\ Take(1, <<>>)
       \/ At({"{"}) /\ Take(1, <<"Block">>)
       \/ At(Strings \cap NonEmpty) /\ Take(1, <<"PrintRest">>)
       \/ At({"emptystr"}) /\ Take(1, <<"PrintEmpty">>)
       \/ At(Chars \cap NonEmpty) /\ Take(1, <<";">>)
       \/ At({"emptychr"}) /\ Take(1, <<"Expr", ";">>)
       \/ At(DOMAIN AfterKeyword) /\ Take(1, AfterKeyword[Tok(0)])
       \/ At(DOMAIN Unsupported) /\ error(1, Unsupported[Tok(0)])
       \/ Labelled /\ Take(2, <<>>)
       \/ Declares /\ Take(1, <<"Declarator", "VarTail">>)
       \/ At({"static"}) /\ ~Labelled /\ ~Declares /\ Take(1, <<"StaticType", "Declarator", "VarTail">>)
       \/ /\ ~At({";", "{", "static"} \cup Strings \cup Chars \cup EarlyKw)
          /\ ~Labelled /\ ~Declares
          /\ Take(0, <<"Expr", ";">>)

parsePrintStmt ==
    \/ /\ Called({"PrintRest"})
       /\ IF At(Strings) THEN Take(1, <<"PrintRest">>) ELSE Take(0, <<"ExprTail", ";">>)
    \/ /\ Called({"PrintEmpty"})
       /\ \/ At(Strings \cap NonEmpty) /\ Take(1, <<"PrintRest">>)
          \/ At({"emptystr"}) /\ Take(1, <<"PrintEmpty">>)
          \/ At({",", ";"}) /\ Take(0, <<"ExprTail", ";">>)
          \/ ~At({",", ";"} \cup Strings) /\ Take(0, <<"Expr", "ExprTail", ";">>)

\* The optional parts of statements: a word or token that must come next to go on.
parseIf ==
    /\ Called({"ElseOpt"})
    /\ IF At({"else"}) THEN Take(1, <<"Stmt">>) ELSE Take(0, <<>>)

parseDoWhile ==
    /\ Called({"DoTail"})
    /\ IF At({"while"}) THEN Take(1, <<"(", "Expr", ")", ";">>) ELSE error(0, <<>>)

parseFor ==
    \/ /\ Called({"ForInit"})
       /\ IF At({";"}) THEN Take(0, <<>>) ELSE Take(0, <<"Expr", "ExprTail">>)
    \/ /\ Called({"OptExpr"})
       /\ IF At({";"}) THEN Take(0, <<>>) ELSE Take(0, <<"Expr">>)
    \/ /\ Called({"ForPost"})
       /\ IF At({")"}) THEN Take(0, <<>>) ELSE Take(0, <<"Expr", "ExprTail">>)

parseExprList ==
    /\ Called({"ExprTail"})
    /\ IF At({","}) THEN Take(1, <<"Expr", "ExprTail">>) ELSE Take(0, <<>>)

parseSwitch ==
    /\ Called({"SwitchHead"})
    /\ IF At({"["}) THEN Take(1, <<"Expr", "]">>) ELSE Take(0, <<"(", "Expr", ")">>)

parseCase ==
    \/ /\ Called({"CaseVals"})
       /\ IF At({":"}) THEN Take(0, <<>>) ELSE Take(0, <<"Expr", "CaseHi">>)
    \/ /\ Called({"CaseHi"})
       /\ IF At({"..."}) THEN Take(1, <<"Expr">>) ELSE Take(0, <<>>)

\* Mutant: a try block without a catch passes.
parseTry_CatchOptional ==
    \/ /\ Called({"TryOpen"})
       /\ IF At({"{"}) THEN Take(1, <<"Block", "Catch">>) ELSE error(0, <<>>)
    \/ /\ Called({"Catch"})
       /\ IF At({"catch"}) THEN Take(1, <<"CatchOpen">>) ELSE Take(0, <<>>)
    \/ /\ Called({"CatchOpen"})
       /\ IF At({"{"}) THEN Take(1, <<"Block">>) ELSE error(0, <<>>)

parseTry ==
    \/ /\ Called({"TryOpen"})
       /\ IF At({"{"}) THEN Take(1, <<"Block", "Catch">>) ELSE error(0, <<>>)
    \/ /\ Called({"Catch"})
       /\ IF At({"catch"}) THEN Take(1, <<"CatchOpen">>) ELSE error(0, <<>>)
    \/ /\ Called({"CatchOpen"})
       /\ IF At({"{"}) THEN Take(1, <<"Block">>) ELSE error(0, <<>>)

parseGoto ==
    \/ /\ Called({"GotoName"})
       /\ IF IsIdent(0) THEN Take(1, <<>>) ELSE error(0, <<>>)
    \/ /\ Called({"SemiOpt"})
       /\ IF At({";"}) THEN Take(1, <<>>) ELSE Take(0, <<>>)

-----------------------------------------------------------------------------
(* Expressions.  The ladder of binaryLoop calls reads operand, operator,   *)
(* operand ...; which operand belongs to which operator: Expressions.      *)
parseAssign ==
    \/ Called({"Expr"}) /\ Take(0, <<"Unary", "Ops">>)
    \/ /\ Called({"Ops"})
       /\ \/ At(BinaryOps) /\ TakeExpr(1, <<"Unary", "Ops">>, At(FoldedBinary))
          \/ At({"?"}) /\ error(1, <<"Expr", "ColonOpt">>)
          \/ ~At(BinaryOps \cup {"?"}) /\ Take(0, <<>>)
    \/ /\ Called({"ColonOpt"})
       /\ IF At({":"}) THEN Take(1, <<"Expr">>) ELSE Take(0, <<>>)

parseUnary ==
    /\ Called({"Unary"})
    /\ IF At(PrefixOps) THEN TakeExpr(1, <<"Unary">>, At(FoldedPrefix))
                        ELSE Take(0, <<"Primary", "Postfix">>)

parsePostfix ==
    \/ /\ Called({"Postfix"})
       /\ \/ looksLikeCast /\ TakeExpr(2, <<"Stars", ")", "Postfix">>, FALSE)
          \/ ~looksLikeCast /\ At({"("}) /\ TakeExpr(1, <<"Args", "Postfix">>, FALSE)
          \/ At({"["}) /\ TakeExpr(1, <<"Expr", "]", "Postfix">>, FALSE)
          \/ At({"."}) /\ TakeExpr(1, <<"Member">>, FALSE)
          \/ At({"++"}) /\ TakeExpr(1, <<"Postfix">>, FALSE)
          \/ ~At({"(", "[", ".", "++"}) /\ Take(0, <<>>)
    \/ /\ Called({"Member"})
       /\ IF IsIdent(0) THEN Take(1, <<"Postfix">>) ELSE error(0, <<>>)

(* A missing argument is legal: Test(,3). *)
parseCallArgs ==
    \/ /\ Called({"Args"})
       /\ IF At({")"}) THEN Take(1, <<>>) ELSE Take(0, <<"Arg">>)
    \/ /\ Called({"Arg"})
       /\ IF At({",", ")"}) THEN Take(0, <<"ArgNext">>) ELSE Take(0, <<"Expr", "ArgNext">>)
    \/ /\ Called({"ArgNext"})
       /\ IF At({","}) THEN Take(1, <<"Arg">>) ELSE Take(0, <<")">>)

parsePrimary ==
    \/ /\ Called({"Primary"})
       /\ \/ At({"3"} \cup Chars) /\ Take(1, <<>>)
          \/ At(Strings) /\ TakeExpr(1, <<"StrTail">>, FALSE)
          \/ At({"sizeof"}) /\ Take(1, <<"(", "SizeofArg", ")">>)
          \/ At({"offset"}) /\ TakeExpr(1, <<"(", "OffsetArg", ")">>, FALSE)
          \/ At(Idents \ {"sizeof", "offset"}) /\ TakeExpr(1, <<>>, FALSE)
          \/ At({"("}) /\ Take(1, <<"Expr", ")">>)
          \/ At({"{"}) /\ TakeExpr(1, <<"InitList">>, FALSE)
          \/ At((Puncts \cup {Eof}) \ {"(", "{"}) /\ error(IF At({Eof}) THEN 0 ELSE 1, <<>>)
    \/ /\ Called({"StrTail"})
       /\ IF At(Strings) THEN Take(1, <<"StrTail">>) ELSE Take(0, <<>>)

parseInitList ==
    \/ /\ Called({"InitList"})
       /\ IF At({"}"}) THEN Take(1, <<>>) ELSE Take(0, <<"Expr", "InitNext">>)
    \/ /\ Called({"InitNext"})
       /\ IF At({","}) THEN Take(1, <<"InitMore">>) ELSE Take(0, <<"}">>)
    \/ /\ Called({"InitMore"})
       /\ IF At({"}"}) THEN Take(0, <<"}">>) ELSE Take(0, <<"Expr", "InitNext">>)

(* A class is looked for under the text of the token, also of a literal.   *)
(* In a class that is its own base the search for a member it does not     *)
(* have never ends: there is no step (its hazard is in ClassTable).        *)
parseSizeof ==
    /\ Called({"SizeofArg"})
    /\ \/ isTypeName(Tok(0)) /\ Text \notin Classes /\ Take(1, <<"Stars">>)
       \/ ~isTypeName(Tok(0)) /\ Text \notin Classes /\ TakeExpr(0, <<"Expr">>, FALSE)
       \/ /\ Text \in Classes /\ Tok(1) # "."
          /\ Take(1, <<"Stars">>)
       \/ /\ Text \in Classes /\ Tok(1) = "."
          /\ LET ci == prog.classes[Text]
                 found == IsIdent(2) /\ findMember(prog, ci, Tok(2))
             IN  \/ found /\ Take(3, <<>>)
                 \/ ~found /\ IsIdent(2) /\ 0 \in Chain(prog, ci) /\ error(3, <<>>)
                 \/ ~IsIdent(2) /\ error(2, <<>>)

parseOffset ==
    \/ /\ Called({"OffsetArg"})
       /\ IF IsIdent(0) THEN Take(1, <<".", "OffsetMember">>) ELSE error(0, <<>>)
    \/ /\ Called({"OffsetMember"})
       /\ IF IsIdent(0) THEN Take(1, <<>>) ELSE error(0, <<>>)

-----------------------------------------------------------------------------
Init ==
    /\ outline \in Outlines
    /\ left = Len(outline.begin) + outline.more
    /\ buf = <<>>
    /\ stack = <<"Program">>
    /\ prog = NoClasses
    /\ konst = TRUE
    /\ depth = 0
    /\ hadError = FALSE
    /\ text = <<>>

Next ==
    \/ LexNext \/ run \/ expect \/ parseQuals \/ parseTopLevel \/ parseFunc
    \/ parseDeclarator \/ parseDims \/ parseBaseType \/ parseParams
    \/ parseVarDeclStmt \/ parseClassDef
    \/ skipToSemi \/ skipBraceBlock \/ skipToParenEnd
    \/ parseBlock \/ parseStmt \/ parsePrintStmt \/ parseIf \/ parseDoWhile
    \/ parseFor \/ parseExprList \/ parseSwitch \/ parseCase \/ parseTry \/ parseGoto
    \/ parseAssign \/ parseUnary \/ parsePostfix \/ parseCallArgs \/ parsePrimary
    \/ parseInitList \/ parseSizeof \/ parseOffset

Spec == Init /\ [][Next]_vars /\ WF_vars(Next)
=============================================================================
