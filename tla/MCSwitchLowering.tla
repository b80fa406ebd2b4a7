-------------------------- MODULE MCSwitchLowering --------------------------
(* Bodies made of labels that a statement follows and, or not, a break: any    *)
(* three labels; a group with its porch between up to one label each side; and *)
(* a single case range of any width.                                           *)
EXTENDS SwitchLowering

Label(k, lo, hi) == [k |-> k, lo |-> lo, hi |-> hi]
Case(lo, hi) == Label("case", lo, hi)
Word(k) == Label(k, 0, 0)

Cases  == {Case(0, 0), Case(1, 1), Case(1, 3), Case(Null, Null), Case(MaxI, MaxI)}
Labels == Cases \cup {Case(3, 1), Case(0, 5), Label("badcase", Null, Null), Word("default"),
                      Word("start"), Word("end")}

With(L) == {<<l, Word("stmt")>> : l \in L} \cup {<<l, Word("stmt"), Word("break")>> : l \in L}
Opt(S) == S \cup {<<>>}

Free  == {a \o b \o c : a \in With(Labels), b \in Opt(With(Labels)), c \in Opt(With(Labels))}
Groups ==
  {p \o s \o c \o d \o e \o q :
     p \in Opt(With({Case(0, 0), Word("default")})),
     s \in With({Word("start")}),
     c \in With({Case(Null, Null), Case(1, 3)}), d \in Opt(With({Case(Null, Null), Case(-2, -1)})),
     e \in With({Word("end")}), q \in Opt(With({Case(6, 6), Word("default")}))}
Ranges == {<<Case(l, h), Word("stmt")>> : l \in MinI..MaxI, h \in MinI..MaxI}

MCBodies == Ranges \cup Free \cup Groups
=============================================================================
