----------------------------- MODULE ClassTable -----------------------------
(***************************************************************************)
(* parseClassDef (src/src/parser.cpp): the table of classes, where a       *)
(* duplicate overshadows the original, the layout of members, and the      *)
(* chain of bases that ClassInfo::findMember (src/src/ast.cpp) follows.    *)
(*                                                                         *)
(* A ClassInfo is its position in info.  A type holds on to the ClassInfo  *)
(* its name stood for when it was parsed (baseTypeFor), not to the name.   *)
(***************************************************************************)
EXTENDS Naturals, Sequences

CONSTANTS
  Names,       \* class names
  MemberLists, \* bodies: sequences of [n : member name, len : of an array or 0,
               \*   cls : class name or NoName, sz : size of what is no class]
  PadNames,    \* the member names that may repeat: pad and reserved
  NoName,      \* no class name
  MaxDecls     \* bound on the class declarations of the program

ASSUME MaxDeclsAssumption == MaxDecls \in Nat
ASSUME NoNameAssumption == NoName \notin Names
\* An array dimension below zero is refused (parseDeclarator).
ASSUME MemberListsAssumption ==
  \A ms \in MemberLists : /\ Len(ms) \in Nat
                          /\ \A k \in 1..Len(ms) : ms[k].len \in Nat /\ ms[k].sz \in Nat

VARIABLES
  classes,   \* prog->classes: name -> position in info
  info,      \* the ClassInfos made: [name, isUnion, base, members, size, complete]
  early,     \* history: positions in info that were laid out on an incomplete type
  unions,    \* history: positions in info that were laid out as unions
  hadError,  \* a diagnostic was given: the program is not compiled
  decls      \* class declarations parsed

vars == <<classes, info, early, unions, hadError, decls>>

NoBase == 0
Ids    == 1..Len(info)

-----------------------------------------------------------------------------
Set(f, x, y) == [z \in DOMAIN f \cup {x} |-> IF z = x THEN y ELSE f[z]]

NewInfo(n) == [name |-> n, isUnion |-> FALSE, base |-> NoBase, members |-> <<>>,
               size |-> 0, complete |-> FALSE]

\* A definition of a complete class completes it once more.
Overshadows_Never(n, opens) == n \notin DOMAIN classes

\* n gets a new ClassInfo: it has none, or { or : follows and the one it has is
\* complete.  Otherwise the one it has, a forward reference, is continued.
Overshadows(n, opens) ==
  n \notin DOMAIN classes \/ (opens /\ info[classes[n]].complete)

\* The table and the ClassInfos after the name was seen.
TableFor(n, opens) ==
  IF Overshadows(n, opens) THEN Set(classes, n, Len(info) + 1) ELSE classes
InfoFor(n, opens) ==
  IF Overshadows(n, opens) THEN Append(info, NewInfo(n)) ELSE info

\* The end of the base's members is not where the layout starts.
Start_Zero(infos, base) == 0

\* Where the layout of a class derived from base starts.
Start(infos, base) == IF base = NoBase THEN 0 ELSE infos[base].size

\* Type::size of a member: what is known of its class so far.
SizeOf(m, table, infos) ==
  (IF m.len = 0 THEN 1 ELSE m.len) * (IF m.cls = NoName THEN m.sz ELSE infos[table[m.cls]].size)

\* The layout after members ms[1..k]: the next offset, and the size so far.
Extent(ms, isUnion, start, table, infos) ==
  LET E[k \in 0..Len(ms)] ==
        IF k = 0 THEN [offset |-> start, max |-> start]
        ELSE LET sz == SizeOf(ms[k], table, infos)
                 next == IF isUnion THEN sz ELSE E[k - 1].offset + sz
             IN [offset |-> IF isUnion THEN E[k - 1].offset ELSE next,
                 max    |-> IF next > E[k - 1].max THEN next ELSE E[k - 1].max]
  IN E

Duplicated(ms) ==
  \E j, k \in 1..Len(ms) : j < k /\ ms[j].n = ms[k].n /\ ms[j].n \notin PadNames

-----------------------------------------------------------------------------
\* class n; or class n:b;  The whole type of a union, which every declaration
\* sets again, is left out: it is no part of the layout.
Declare(n, u, b) ==
  LET opens == b # NoName
      table == TableFor(n, opens)
      infos == InfoFor(n, opens)
      ci    == table[n]
  IN /\ b = NoName \/ b \in DOMAIN table
     /\ classes' = table
     /\ info' = [infos EXCEPT ![ci].isUnion = u,
                              ![ci].base = IF opens THEN table[b] ELSE @]
     /\ UNCHANGED <<early, unions, hadError>>

\* class n {ms}; or class n:b {ms}; the base is looked up after n was entered.
Define(n, u, b, ms) ==
  LET table == TableFor(n, TRUE)
      infos == InfoFor(n, TRUE)
      ci    == table[n]
      base  == IF b = NoName THEN infos[ci].base ELSE table[b]
      E     == Extent(ms, u, Start(infos, base), table, infos)
      used  == {base} \cup {table[ms[k].cls] : k \in {j \in 1..Len(ms) : ms[j].cls # NoName}}
  IN /\ b = NoName \/ b \in DOMAIN table
     /\ \A k \in 1..Len(ms) : ms[k].cls = NoName \/ ms[k].cls \in DOMAIN table
     /\ classes' = table
     /\ info' = [infos EXCEPT ![ci] =
                   [name |-> @.name, isUnion |-> u, base |-> base,
                    members |-> @.members \o [k \in 1..Len(ms) |->
                      [n   |-> ms[k].n,
                       off |-> IF u THEN 0 ELSE E[k - 1].offset,
                       sz  |-> SizeOf(ms[k], table, infos),
                       ty  |-> [len |-> ms[k].len, sz |-> ms[k].sz,
                                cls |-> IF ms[k].cls = NoName THEN NoBase ELSE table[ms[k].cls]]]],
                    size |-> E[Len(ms)].max, complete |-> TRUE]]
     /\ early' = IF \E i \in used \ {NoBase} : ~infos[i].complete THEN early \cup {ci} ELSE early
     /\ unions' = IF u THEN unions \cup {ci} ELSE unions
     /\ hadError' = Duplicated(ms)

\* "expected base class name": the name is in the table, nothing is generated.
BadBase(n, b) ==
  /\ b # NoName /\ b \notin DOMAIN TableFor(n, TRUE)
  /\ classes' = TableFor(n, TRUE) /\ info' = InfoFor(n, TRUE)
  /\ hadError' = TRUE /\ UNCHANGED <<early, unions>>

Init == /\ classes = [n \in {} |-> 0] /\ info = <<>> /\ early = {} /\ unions = {}
        /\ hadError = FALSE /\ decls = 0

parseClassDef ==
  /\ ~hadError /\ decls < MaxDecls /\ decls' = decls + 1
  /\ \E n \in Names, b \in Names \cup {NoName} :
       \/ \E u \in BOOLEAN : Declare(n, u, b)
       \/ \E u \in BOOLEAN, ms \in MemberLists : Define(n, u, b, ms)
       \/ BadBase(n, b)

Done == (hadError \/ decls = MaxDecls) /\ UNCHANGED vars

Next == parseClassDef \/ Done
Spec == Init /\ [][Next]_vars

-----------------------------------------------------------------------------
(* Properties *)

\* The bases findMember visits from i: R[k] are those up to k steps away.
Ancestors(i) ==
  LET R[k \in 0..Len(info)] ==
        IF k = 0 THEN {info[i].base} \ {NoBase}
        ELSE R[k - 1] \cup ({info[j].base : j \in R[k - 1]} \ {NoBase})
  IN R[Len(info)]

\* i and its ancestors were laid out on complete types only.
Sound(i) == /\ info[i].complete /\ i \notin early
            /\ \A j \in Ancestors(i) : info[j].complete /\ j \notin early

\* findMember comes to an end: the chain of bases of a class that was derived
\* from complete classes only does not lead back to the class, however often
\* its name and those of its bases were declared again.
ChainsEnd == \A i \in Ids : Sound(i) => i \notin Ancestors(i)

\* The members of a class lie behind those of its bases and behind one another,
\* and all of them within its size: members found through a derived class do
\* not share bytes.
MembersApart ==
  ~hadError => \A i \in Ids : Sound(i) =>
    /\ \A k, l \in 1..Len(info[i].members) :
         k < l => i \in unions
                    \/ info[i].members[k].off + info[i].members[k].sz <= info[i].members[l].off
    /\ \A j \in Ancestors(i), k \in 1..Len(info[i].members) : \A l \in 1..Len(info[j].members) :
         i \in unions
           \/ info[j].members[l].off + info[j].members[l].sz <= info[i].members[k].off
    /\ \A j \in Ancestors(i) \cup {i} : \A l \in 1..Len(info[j].members) :
         info[j].members[l].off + info[j].members[l].sz <= info[i].size

Layout(i) == [base |-> info[i].base, members |-> info[i].members, size |-> info[i].size]
KeepsLayouts == \A i \in Ids : info[i].complete => info'[i].complete /\ Layout(i)' = Layout(i)

\* "Earlier declarations keep their pinned ClassInfo": the layout of a complete
\* class never changes, so code compiled for earlier instances stays right.
PinnedLayoutFixed == [][KeepsLayouts]_vars
=============================================================================
