-------------------------- MODULE ClassTableProofs --------------------------
(***************************************************************************)
(* For every sequence of class declarations: the layout of a class that is *)
(* complete stays what it is, whatever is declared later; chains of bases  *)
(* end; and the members of a class and its bases share no bytes.           *)
(***************************************************************************)
EXTENDS ClassTable, SequenceTheorems, SeqLemmas, TLAPS

\* info is a sequence of records, and the names in the table stand for some of
\* them.
Listed ==
  /\ Len(info) \in Nat
  /\ info = [i \in 1..Len(info) |-> info[i]]
  /\ \A i \in Ids : info[i] = [name |-> info[i].name, isUnion |-> info[i].isUnion,
                               base |-> info[i].base, members |-> info[i].members,
                               size |-> info[i].size, complete |-> info[i].complete]
Entered == \A n \in DOMAIN classes : classes[n] \in Ids
IInv == Listed /\ Entered

\* What a step makes of the layouts: infos is info, perhaps with one more, and
\* the entry at ci is replaced by one with six fields.
Extended(infos) ==
  /\ Len(infos) \in Nat /\ Len(infos) >= Len(info)
  /\ infos = [i \in 1..Len(infos) |-> infos[i]]
  /\ \A i \in Ids : infos[i] = info[i]
  /\ \A i \in 1..Len(infos) : infos[i] =
       [name |-> infos[i].name, isUnion |-> infos[i].isUnion, base |-> infos[i].base,
        members |-> infos[i].members, size |-> infos[i].size, complete |-> infos[i].complete]

-----------------------------------------------------------------------------
\* The name that is seen has a place in what it extends, and one that is not
\* complete when { or : follows.
LEMMA NameEntered ==
  ASSUME IInv, NEW n, NEW opens \in BOOLEAN
  PROVE  /\ Extended(InfoFor(n, opens))
         /\ n \in DOMAIN TableFor(n, opens)
         /\ \A x \in DOMAIN TableFor(n, opens) : TableFor(n, opens)[x] \in 1..Len(InfoFor(n, opens))
         /\ opens => ~InfoFor(n, opens)[TableFor(n, opens)[n]].complete
         /\ \A i \in 1..Len(InfoFor(n, opens)) : i \notin Ids => InfoFor(n, opens)[i] = NewInfo(n)
<1>1. CASE Overshadows(n, opens)
  <2>1. InfoFor(n, opens) = Append(info, NewInfo(n))
    BY <1>1 DEF InfoFor
  <2>2. Append(info, NewInfo(n)) =
          [i \in 1..(Len(info) + 1) |-> IF i = Len(info) + 1 THEN NewInfo(n) ELSE info[i]]
    <3> DEFINE S == {info[i] : i \in 1..Len(info)} \cup {NewInfo(n)}
    <3>1. info \in Seq(S)
      <4>1. \A i \in 1..Len(info) : info[i] \in S
        OBVIOUS
      <4>2. Len(info) \in Nat /\ info = [i \in 1..Len(info) |-> info[i]]
        BY DEF IInv, Listed
      <4> HIDE DEF S
      <4>3. info \in [1..Len(info) -> S]
        BY <4>1, <4>2
      <4> QED
        BY <4>2, <4>3
    <3>2. NewInfo(n) \in S
      OBVIOUS
    <3> DEFINE new == NewInfo(n)
               t   == Append(info, new)
    <3> HIDE DEF S, new
    <3>3. /\ t \in Seq(S) /\ Len(t) = Len(info) + 1 /\ t[Len(info) + 1] = new
          /\ \A i \in 1..Len(info) : t[i] = info[i]
      BY <3>1, <3>2, AppendProperties DEF new
    <3> HIDE DEF t
    <3>4. t = [i \in 1..(Len(info) + 1) |-> t[i]]
      BY <3>3
    <3>5. \A i \in 1..(Len(info) + 1) : t[i] = IF i = Len(info) + 1 THEN new ELSE info[i]
      BY <3>3 DEF IInv, Listed
    <3>6. t = [i \in 1..(Len(info) + 1) |-> IF i = Len(info) + 1 THEN new ELSE info[i]]
      BY <3>4, <3>5
    <3> QED
      BY <3>6 DEF t, new
  <2> DEFINE infos == [i \in 1..(Len(info) + 1) |-> IF i = Len(info) + 1 THEN NewInfo(n) ELSE info[i]]
  <2>3. Len(infos) = Len(info) + 1
    BY DEF IInv, Listed
  <2>4. TableFor(n, opens) = [z \in DOMAIN classes \cup {n} |-> IF z = n THEN Len(info) + 1 ELSE classes[z]]
    BY <1>1 DEF TableFor, Set
  <2>5. Extended(infos)
    <3> HIDE DEF infos
    <3>1. Len(infos) \in Nat /\ Len(infos) >= Len(info)
      BY <2>3 DEF IInv, Listed
    <3>2. infos = [i \in 1..Len(infos) |-> infos[i]]
      BY <2>3 DEF infos
    <3>3. \A i \in Ids : infos[i] = info[i]
      BY DEF infos, Ids, IInv, Listed
    <3>4. infos[Len(info) + 1] = NewInfo(n)
      BY DEF infos, IInv, Listed
    <3>5. ASSUME NEW i \in 1..Len(infos)
          PROVE  infos[i] =
                   [name |-> infos[i].name, isUnion |-> infos[i].isUnion, base |-> infos[i].base,
                    members |-> infos[i].members, size |-> infos[i].size,
                    complete |-> infos[i].complete]
      <4>1. CASE i = Len(info) + 1
        BY <4>1, <3>4 DEF NewInfo
      <4>2. CASE i # Len(info) + 1
        <5>1. i \in Ids
          BY <4>2, <2>3 DEF Ids, IInv, Listed
        <5> QED
          BY <5>1, <3>3 DEF IInv, Listed
      <4> QED
        BY <4>1, <4>2
    <3> QED
      BY <3>1, <3>2, <3>3, <3>5 DEF Extended
  <2>6. ~infos[Len(info) + 1].complete
    BY DEF NewInfo, IInv, Listed
  <2>7. InfoFor(n, opens) = infos
    BY <2>1, <2>2
  <2>8. \A x \in DOMAIN TableFor(n, opens) : TableFor(n, opens)[x] \in 1..(Len(info) + 1)
    BY <2>4 DEF IInv, Listed, Entered, Ids
  <2>9. n \in DOMAIN TableFor(n, opens) /\ TableFor(n, opens)[n] = Len(info) + 1
    BY <2>4
  <2>10. \A i \in 1..(Len(info) + 1) : i \notin Ids => infos[i] = NewInfo(n)
    BY DEF Ids, IInv, Listed
  <2> HIDE DEF infos
  <2> QED
    BY <2>3, <2>5, <2>6, <2>7, <2>8, <2>9, <2>10
<1>2. CASE ~Overshadows(n, opens)
  <2>1. InfoFor(n, opens) = info /\ TableFor(n, opens) = classes
    BY <1>2 DEF InfoFor, TableFor
  <2>2. n \in DOMAIN classes /\ (opens => ~info[classes[n]].complete)
    BY <1>2 DEF Overshadows
  <2>3. Extended(info)
    BY DEF Extended, IInv, Listed, Ids
  <2> QED
    BY <2>1, <2>2, <2>3 DEF IInv, Entered, Ids
<1> QED
  BY <1>1, <1>2

\* The entry at ci of infos is replaced by r: a layout that was complete is the
\* same afterwards, if r has that of a complete entry.
LEMMA Replaced ==
  ASSUME IInv, NEW infos, Extended(infos), NEW ci \in 1..Len(infos), NEW r,
         r = [name |-> r.name, isUnion |-> r.isUnion, base |-> r.base,
              members |-> r.members, size |-> r.size, complete |-> r.complete],
         infos[ci].complete => /\ r.base = infos[ci].base /\ r.members = infos[ci].members
                               /\ r.size = infos[ci].size /\ r.complete,
         info' = [infos EXCEPT ![ci] = r]
  PROVE  /\ Listed'
         /\ Len(info') = Len(infos)
         /\ \A i \in 1..Len(infos) : info'[i] = IF i = ci THEN r ELSE infos[i]
         /\ \A i \in Ids : info[i].complete =>
              /\ info'[i].complete /\ info'[i].base = info[i].base
              /\ info'[i].members = info[i].members /\ info'[i].size = info[i].size
<1>1. infos = [i \in 1..Len(infos) |-> infos[i]] /\ Len(infos) \in Nat
  BY DEF Extended
<1>2. info' = [i \in 1..Len(infos) |-> IF i = ci THEN r ELSE infos[i]]
  BY <1>1
<1>3. Len(info') = Len(infos)
  BY <1>1, <1>2
<1>4. /\ info' = [i \in 1..Len(info') |-> info'[i]]
      /\ \A i \in 1..Len(infos) : info'[i] = IF i = ci THEN r ELSE infos[i]
  BY <1>2, <1>3
<1>5. ASSUME NEW i \in 1..Len(info')
      PROVE  info'[i] = [name |-> info'[i].name, isUnion |-> info'[i].isUnion,
                         base |-> info'[i].base, members |-> info'[i].members,
                         size |-> info'[i].size, complete |-> info'[i].complete]
  <2>1. CASE i = ci
    <3>1. info'[i] = r
      BY <2>1, <1>4
    <3> QED
      BY <3>1
  <2>2. CASE i # ci
    <3>1. info'[i] = infos[i] /\ i \in 1..Len(infos)
      BY <2>2, <1>3, <1>4
    <3> QED
      BY <3>1 DEF Extended
  <2> QED
    BY <2>1, <2>2
<1>6. Listed'
  BY <1>1, <1>3, <1>4, <1>5 DEF Listed, Ids
<1>7. ASSUME NEW i \in Ids, info[i].complete
      PROVE  /\ info'[i].complete /\ info'[i].base = info[i].base
             /\ info'[i].members = info[i].members /\ info'[i].size = info[i].size
  <2>1. i \in 1..Len(infos) /\ infos[i] = info[i]
    BY DEF Extended, Ids, IInv, Listed
  <2>2. CASE i = ci
    <3>1. info'[i] = r /\ infos[ci].complete
      BY <2>1, <2>2, <1>4, <1>7
    <3> QED
      BY <3>1, <2>1, <2>2
  <2>3. CASE i # ci
    BY <2>1, <2>3, <1>4, <1>7
  <2> QED
    BY <2>2, <2>3
<1> QED
  BY <1>3, <1>4, <1>6, <1>7

\* The layouts that are complete stay.
Kept == \A i \in Ids : info[i].complete =>
          /\ info'[i].complete /\ info'[i].base = info[i].base
          /\ info'[i].members = info[i].members /\ info'[i].size = info[i].size

\* class n; or class n:b;
LEMMA DeclareStep ==
  ASSUME IInv, NEW n, NEW u, NEW b, Declare(n, u, b)
  PROVE  IInv' /\ Kept
<1> DEFINE opens == b # NoName
           table == TableFor(n, opens)
           infos == InfoFor(n, opens)
           ci    == table[n]
           base  == IF opens THEN table[b] ELSE infos[ci].base
           r     == [name |-> infos[ci].name, isUnion |-> u, base |-> base,
                     members |-> infos[ci].members, size |-> infos[ci].size,
                     complete |-> infos[ci].complete]
<1>1. classes' = table
  BY DEF Declare
<1>2. info' = [infos EXCEPT ![ci].isUnion = u, ![ci].base = IF opens THEN table[b] ELSE @]
  BY DEF Declare
<1>3. /\ Extended(infos) /\ n \in DOMAIN table
      /\ \A x \in DOMAIN table : table[x] \in 1..Len(infos)
      /\ opens => ~infos[ci].complete
  BY NameEntered
<1>4. ci \in 1..Len(infos)
  BY <1>3
<1> HIDE DEF table, infos, opens, ci
<1>5. infos[ci] = [name |-> infos[ci].name, isUnion |-> infos[ci].isUnion,
                   base |-> infos[ci].base, members |-> infos[ci].members,
                   size |-> infos[ci].size, complete |-> infos[ci].complete]
  BY <1>3, <1>4 DEF Extended
<1>6. ~opens => base = infos[ci].base
  OBVIOUS
<1>7. info' = [infos EXCEPT ![ci] = r]
  <2>1. info' = [infos EXCEPT ![ci].isUnion = u, ![ci].base = base]
    BY <1>2, Zenon
  <2> HIDE DEF base
  <2>2. [infos[ci] EXCEPT !.isUnion = u, !.base = base] = r
    <3>1. PICK a, c, d, e, f, h : infos[ci] = [name |-> a, isUnion |-> c, base |-> d,
                                               members |-> e, size |-> f, complete |-> h]
      BY <1>5, Zenon
    <3>2. [[name |-> a, isUnion |-> c, base |-> d, members |-> e, size |-> f, complete |-> h]
             EXCEPT !.isUnion = u]
            = [name |-> a, isUnion |-> u, base |-> d, members |-> e, size |-> f, complete |-> h]
      OBVIOUS
    <3>3. [[name |-> a, isUnion |-> u, base |-> d, members |-> e, size |-> f, complete |-> h]
             EXCEPT !.base = base]
            = [name |-> a, isUnion |-> u, base |-> base, members |-> e, size |-> f, complete |-> h]
      OBVIOUS
    <3>4. r = [name |-> a, isUnion |-> u, base |-> base, members |-> e, size |-> f, complete |-> h]
      BY <3>1
    <3> HIDE DEF r
    <3> QED
      BY <3>1, <3>2, <3>3, <3>4, Zenon
  <2> HIDE DEF r
  <2> QED
    BY <2>1, <2>2, <1>3, <1>4, <1>5 DEF Extended
<1>8. /\ r = [name |-> r.name, isUnion |-> r.isUnion, base |-> r.base,
              members |-> r.members, size |-> r.size, complete |-> r.complete]
      /\ r.members = infos[ci].members /\ r.size = infos[ci].size
      /\ r.complete = infos[ci].complete
      /\ ~opens => r.base = infos[ci].base
  BY <1>6 DEF r
<1> HIDE DEF r
<1>9. infos[ci].complete => /\ r.base = infos[ci].base /\ r.members = infos[ci].members
                            /\ r.size = infos[ci].size /\ r.complete
  BY <1>3, <1>8
<1>10. Listed' /\ Len(info') = Len(infos) /\ Kept
  BY <1>3, <1>4, <1>7, <1>8, <1>9, Replaced DEF Kept
<1>11. Entered'
  BY <1>1, <1>3, <1>10 DEF Entered, Ids
<1> QED
  BY <1>10, <1>11 DEF IInv

\* class n {ms}; or class n:b {ms};
LEMMA DefineStep ==
  ASSUME IInv, NEW n, NEW u, NEW b, NEW ms, Define(n, u, b, ms)
  PROVE  IInv' /\ Kept
<1> DEFINE table == TableFor(n, TRUE)
           infos == InfoFor(n, TRUE)
           ci    == table[n]
<1>1. classes' = table
  BY DEF Define
<1>2. PICK bs, mm, sz : info' = [infos EXCEPT ![ci] =
            [name |-> @.name, isUnion |-> u, base |-> bs, members |-> mm, size |-> sz, complete |-> TRUE]]
  BY DEF Define
<1>3. /\ Extended(infos) /\ n \in DOMAIN table
      /\ \A x \in DOMAIN table : table[x] \in 1..Len(infos)
      /\ ~infos[ci].complete
  BY NameEntered
<1>4. ci \in 1..Len(infos)
  BY <1>3
<1> DEFINE r == [name |-> infos[ci].name, isUnion |-> u, base |-> bs, members |-> mm, size |-> sz,
                 complete |-> TRUE]
<1> HIDE DEF table, infos, ci
<1>5. info' = [infos EXCEPT ![ci] = r]
  BY <1>2
<1>6. r = [name |-> r.name, isUnion |-> r.isUnion, base |-> r.base,
           members |-> r.members, size |-> r.size, complete |-> r.complete]
  OBVIOUS
<1> HIDE DEF r
<1>7. Listed' /\ Len(info') = Len(infos) /\ Kept
  BY <1>3, <1>4, <1>5, <1>6, Replaced DEF Kept
<1>8. Entered'
  BY <1>1, <1>3, <1>7 DEF Entered, Ids
<1> QED
  BY <1>7, <1>8 DEF IInv

\* A base that is no class: the name is entered all the same.
LEMMA BadBaseStep ==
  ASSUME IInv, NEW n, NEW b, BadBase(n, b)
  PROVE  IInv' /\ Kept
<1>1. classes' = TableFor(n, TRUE) /\ info' = InfoFor(n, TRUE)
  BY DEF BadBase
<1>2. /\ Extended(info')
      /\ \A x \in DOMAIN classes' : classes'[x] \in 1..Len(info')
  BY <1>1, NameEntered
<1>3. Listed' /\ Entered'
  BY <1>2 DEF Extended, Listed, Entered, Ids
<1>4. Kept
  BY <1>2 DEF Extended, Kept
<1> QED
  BY <1>3, <1>4 DEF IInv

\* Every step keeps the table in order and the complete layouts as they are.
LEMMA StepHolds == IInv /\ [Next]_vars => IInv' /\ (Kept \/ UNCHANGED vars)
<1> SUFFICES ASSUME IInv, [Next]_vars PROVE IInv' /\ (Kept \/ UNCHANGED vars)
  OBVIOUS
<1>1. CASE parseClassDef
  <2>1. PICK n \in Names, b \in Names \cup {NoName} :
          \/ \E u \in BOOLEAN : Declare(n, u, b)
          \/ \E u \in BOOLEAN, ms \in MemberLists : Define(n, u, b, ms)
          \/ BadBase(n, b)
    BY <1>1 DEF parseClassDef
  <2>2. CASE \E u \in BOOLEAN : Declare(n, u, b)
    BY <2>2, DeclareStep
  <2>3. CASE \E u \in BOOLEAN, ms \in MemberLists : Define(n, u, b, ms)
    BY <2>3, DefineStep
  <2>4. CASE BadBase(n, b)
    BY <2>4, BadBaseStep
  <2> QED
    BY <2>1, <2>2, <2>3, <2>4
<1>2. CASE UNCHANGED vars
  BY <1>2 DEF vars, IInv, Listed, Entered, Ids
<1>3. CASE Done
  BY <1>2, <1>3 DEF Done
<1> QED
  BY <1>1, <1>2, <1>3 DEF Next

\* A program starts with no class.
LEMMA InitHolds == Init => IInv
  BY DEF Init, IInv, Listed, Entered, Ids

\* Earlier declarations keep their ClassInfo: once a class is complete its base,
\* members and size are never written again, for every sequence of declarations,
\* definitions, forward references and erroneous bases (parseClassDef).
THEOREM CompleteLayoutsStay == Spec => PinnedLayoutFixed
<1>1. Init => IInv
  BY InitHolds
<1>2. IInv /\ [Next]_vars => IInv'
  BY StepHolds
<1>3. IInv /\ [Next]_vars =>
        [KeepsLayouts]_vars
  <2> SUFFICES ASSUME IInv, [Next]_vars, Kept
               PROVE  KeepsLayouts
    BY StepHolds
  <2> QED
    BY DEF KeepsLayouts, Kept, Layout
<1> QED
  BY <1>1, <1>2, <1>3, PTL DEF Spec, PinnedLayoutFixed

-----------------------------------------------------------------------------
(* How classes are built on one another                                    *)

\* The entries' sizes and bases, and the members of one that is not complete.
Shaped == \A i \in Ids : /\ info[i].size \in Nat /\ info[i].base \in Ids \cup {NoBase}
                         /\ info[i].complete \in BOOLEAN
                         /\ ~info[i].complete => info[i].members = <<>>

\* The members of entry r lie within its size, and behind one another.
Inside(r) == \A k \in 1..Len(r.members) :
               /\ r.members[k].off \in Nat /\ r.members[k].sz \in Nat
               /\ r.members[k].off + r.members[k].sz <= r.size
Apart(r) == \A k, l \in 1..Len(r.members) :
              k < l => r.members[k].off + r.members[k].sz <= r.members[l].off

\* Entry r is laid out behind the entry of its base, d.
Behind(r, d, isUnion) ==
  /\ d.complete /\ d.size <= r.size
  /\ isUnion \/ \A k \in 1..Len(r.members) : d.size <= r.members[k].off

\* The order in which classes were completed: a class laid out on a complete base
\* comes after it.
Built(i, rank) ==
  info[i].complete =>
    /\ Len(info[i].members) \in Nat /\ Inside(info[i])
    /\ i \in unions \/ Apart(info[i])
    /\ i \notin early /\ info[i].base # NoBase =>
         /\ Behind(info[i], info[info[i].base], i \in unions)
         /\ rank[info[i].base] < rank[i]

Ordered(rank) == \A i \in Ids : rank[i] <= decls /\ Built(i, rank)

LayoutInv == IInv /\ decls \in Nat /\ Shaped /\ \E rank \in [Ids -> Nat] : Ordered(rank)

-----------------------------------------------------------------------------
\* What was built stays so while complete layouts are kept: a later rank and more
\* history change nothing for the classes that are complete.
LEMMA StaysBuilt ==
  ASSUME IInv, Shaped, Kept, NEW rank, NEW new, NEW i \in Ids, info[i].complete,
         Built(i, rank), \A j \in Ids : info[j].complete => new[j] = rank[j],
         early \subseteq early', unions \subseteq unions', (i \in unions') => i \in unions
  PROVE  Built(i, new)'
<1>0. PICK b : b = info[i].base
  OBVIOUS
<1>1. /\ info'[i].base = b /\ info'[i].members = info[i].members /\ info'[i].size = info[i].size
  BY <1>0 DEF Kept
<1>2. Len(info'[i].members) \in Nat /\ Inside(info[i])' /\ (i \in unions' \/ Apart(info[i])')
  BY <1>1 DEF Built, Inside, Apart
<1>3. ASSUME i \notin early', b # NoBase
      PROVE  Behind(info[i], info[b], i \in unions)' /\ new[b] < new[i]
  <2>1. b \in Ids /\ i \notin early
    BY <1>0, <1>3 DEF Shaped
  <2>2. Behind(info[i], info[b], i \in unions) /\ rank[b] < rank[i]
    BY <1>0, <1>3, <2>1 DEF Built
  <2>3. info[b].complete
    BY <2>2 DEF Behind
  <2>4. info'[b].complete /\ info'[b].size = info[b].size /\ new[b] = rank[b] /\ new[i] = rank[i]
    BY <2>1, <2>3 DEF Kept
  <2> QED
    BY <1>1, <2>2, <2>4 DEF Behind
<1> QED
  BY <1>1, <1>2, <1>3 DEF Built

\* A step that completes no class.
LEMMA NoneCompleted ==
  ASSUME LayoutInv, IInv', Kept, decls' \in Nat, decls' >= decls, Shaped',
         UNCHANGED <<early, unions>>, Len(info') >= Len(info),
         \A i \in Ids' : info'[i].complete => i \in Ids /\ info[i].complete
  PROVE  LayoutInv'
<1>1. PICK rank \in [Ids -> Nat] : Ordered(rank)
  BY DEF LayoutInv
<1>0. PICK new : new = [i \in Ids' |-> IF i \in Ids THEN rank[i] ELSE 0]
  OBVIOUS
<1>2. new \in [Ids' -> Nat]
  BY <1>0
<1>3. \A i \in Ids : i \in Ids' /\ new[i] = rank[i]
  BY <1>0 DEF LayoutInv, IInv, Listed, Ids
<1>4. ASSUME NEW i \in Ids' PROVE new[i] <= decls'
  BY <1>0, <1>1, <1>2 DEF LayoutInv, Ordered
<1>5. ASSUME NEW i \in Ids' PROVE Built(i, new)'
  <2>1. CASE info'[i].complete
    <3>1. i \in Ids /\ info[i].complete
      BY <2>1
    <3> QED
      BY <1>1, <1>3, <3>1, StaysBuilt DEF LayoutInv, Ordered
  <2> QED
    BY <2>1 DEF Built
<1>6. Ordered(new)'
  BY <1>4, <1>5 DEF Ordered
<1> QED
  BY <1>2, <1>6 DEF LayoutInv

\* class n; or class n:b;
LEMMA DeclareBuilds ==
  ASSUME LayoutInv, NEW n, NEW u, NEW b, Declare(n, u, b), decls' = decls + 1
  PROVE  LayoutInv'
<1> DEFINE opens == b # NoName
           table == TableFor(n, opens)
           infos == InfoFor(n, opens)
           ci    == table[n]
           base  == IF opens THEN table[b] ELSE infos[ci].base
<1>1. IInv' /\ Kept
  BY DeclareStep DEF LayoutInv
<1>2. /\ Extended(infos) /\ n \in DOMAIN table
      /\ \A x \in DOMAIN table : table[x] \in 1..Len(infos)
      /\ \A i \in 1..Len(infos) : i \notin Ids => infos[i] = NewInfo(n)
  BY NameEntered DEF LayoutInv
<1>3. info' = [infos EXCEPT ![ci].isUnion = u, ![ci].base = IF opens THEN table[b] ELSE @]
  BY DEF Declare
<1>4. opens => b \in DOMAIN table
  BY DEF Declare
<1>5. UNCHANGED <<early, unions>>
  BY DEF Declare
<1>6. ci \in 1..Len(infos) /\ (opens => table[b] \in 1..Len(infos))
  BY <1>2, <1>4
<1> HIDE DEF table, infos, opens, ci
<1>7. /\ infos = [i \in 1..Len(infos) |-> infos[i]]
      /\ Len(infos) \in Nat /\ Len(infos) >= Len(info)
      /\ \A i \in Ids : infos[i] = info[i] /\ i \in 1..Len(infos)
  BY <1>2 DEF Extended, LayoutInv, IInv, Listed, Ids
<1>8. infos[ci] = [name |-> infos[ci].name, isUnion |-> infos[ci].isUnion,
                   base |-> infos[ci].base, members |-> infos[ci].members,
                   size |-> infos[ci].size, complete |-> infos[ci].complete]
  BY <1>2, <1>6 DEF Extended
<1> DEFINE r == [[infos[ci] EXCEPT !.isUnion = u] EXCEPT !.base = base]
<1>9. r = [name |-> infos[ci].name, isUnion |-> u, base |-> base,
           members |-> infos[ci].members, size |-> infos[ci].size, complete |-> infos[ci].complete]
  <2>1. PICK a, c, d, f, g, h : infos[ci] = [name |-> a, isUnion |-> c, base |-> d,
                                             members |-> f, size |-> g, complete |-> h]
    BY <1>8, Zenon
  <2> HIDE DEF base
  <2>2. [[name |-> a, isUnion |-> c, base |-> d, members |-> f, size |-> g, complete |-> h]
           EXCEPT !.isUnion = u]
          = [name |-> a, isUnion |-> u, base |-> d, members |-> f, size |-> g, complete |-> h]
    OBVIOUS
  <2>4. [[name |-> a, isUnion |-> u, base |-> d, members |-> f, size |-> g, complete |-> h]
           EXCEPT !.base = base]
          = [name |-> a, isUnion |-> u, base |-> base, members |-> f, size |-> g, complete |-> h]
    OBVIOUS
  <2>3. infos[ci].name = a /\ infos[ci].members = f /\ infos[ci].size = g /\ infos[ci].complete = h
    BY <2>1
  <2>5. r = [name |-> a, isUnion |-> u, base |-> base, members |-> f, size |-> g, complete |-> h]
    BY <2>1, <2>2, <2>4, Zenon
  <2> HIDE DEF r
  <2> QED
    BY <2>3, <2>5, Zenon
<1>10. info' = [infos EXCEPT ![ci] = r]
  <2>1. info' = [infos EXCEPT ![ci].isUnion = u, ![ci].base = base]
    BY <1>3, Zenon
  <2> HIDE DEF base
  <2> QED
    BY <2>1, <1>6, <1>7
<1>11. r.base = base /\ r.members = infos[ci].members /\ r.size = infos[ci].size
         /\ r.complete = infos[ci].complete
  <2> HIDE DEF base
  <2> QED
    BY <1>9
<1> HIDE DEF r
<1>12. /\ Len(info') = Len(infos)
       /\ \A i \in 1..Len(infos) : info'[i] = IF i = ci THEN r ELSE infos[i]
  BY <1>6, <1>7, <1>10
<1>13. ASSUME NEW i \in 1..Len(infos)
       PROVE  /\ infos[i].size \in Nat /\ infos[i].base \in 1..Len(infos) \cup {NoBase}
              /\ infos[i].complete \in BOOLEAN /\ (~infos[i].complete => infos[i].members = <<>>)
              /\ infos[i].complete => i \in Ids /\ info[i].complete
  <2>1. CASE i \in Ids
    BY <2>1, <1>7 DEF LayoutInv, Shaped
  <2>2. CASE i \notin Ids
    <3>1. infos[i] = NewInfo(n)
      BY <1>2, <2>2
    <3> QED
      BY <3>1 DEF NewInfo, NoBase
  <2> QED
    BY <2>1, <2>2
<1>14. base \in 1..Len(infos) \cup {NoBase}
  BY <1>6, <1>13
<1>15. Shaped'
  <2> SUFFICES ASSUME NEW i \in 1..Len(infos)
               PROVE  /\ info'[i].size \in Nat /\ info'[i].base \in 1..Len(infos) \cup {NoBase}
                      /\ info'[i].complete \in BOOLEAN
                      /\ ~info'[i].complete => info'[i].members = <<>>
    BY <1>12 DEF Shaped, Ids
  <2> HIDE DEF base
  <2>1. CASE i = ci
    <3>1. info'[i] = r
      BY <1>12, <2>1
    <3> QED
      BY <1>6, <1>11, <1>13, <1>14, <3>1
  <2>2. CASE i # ci
    BY <1>12, <1>13, <2>2
  <2> QED
    BY <2>1, <2>2
<1>16. \A i \in Ids' : info'[i].complete => i \in Ids /\ info[i].complete
  <2> SUFFICES ASSUME NEW i \in 1..Len(infos), info'[i].complete PROVE infos[i].complete
    BY <1>12, <1>13 DEF Ids
  <2> QED
    BY <1>11, <1>12
<1> QED
  BY <1>1, <1>5, <1>7, <1>12, <1>15, <1>16, NoneCompleted DEF LayoutInv

LEMMA BadBaseBuilds ==
  ASSUME LayoutInv, NEW n, NEW b, BadBase(n, b), decls' = decls + 1
  PROVE  LayoutInv'
<1> DEFINE infos == InfoFor(n, TRUE)
<1>1. IInv' /\ Kept
  BY BadBaseStep DEF LayoutInv
<1>2. /\ Extended(infos)
      /\ \A i \in 1..Len(infos) : i \notin Ids => infos[i] = NewInfo(n)
  BY NameEntered DEF LayoutInv
<1>3. info' = infos /\ UNCHANGED <<early, unions>>
  BY DEF BadBase
<1> HIDE DEF infos
<1>4. ASSUME NEW i \in 1..Len(infos)
      PROVE  /\ infos[i].size \in Nat /\ infos[i].base \in 1..Len(infos) \cup {NoBase}
             /\ infos[i].complete \in BOOLEAN /\ (~infos[i].complete => infos[i].members = <<>>)
             /\ infos[i].complete => i \in Ids /\ info[i].complete
  <2>1. CASE i \in Ids
    BY <2>1, <1>2 DEF LayoutInv, IInv, Listed, Shaped, Extended, Ids
  <2>2. CASE i \notin Ids
    <3>1. infos[i] = NewInfo(n)
      BY <1>2, <2>2
    <3> QED
      BY <3>1 DEF NewInfo, NoBase
  <2> QED
    BY <2>1, <2>2
<1>5. Shaped' /\ \A i \in Ids' : info'[i].complete => i \in Ids /\ info[i].complete
  BY <1>3, <1>4 DEF Shaped, Ids
<1> QED
  BY <1>1, <1>2, <1>3, <1>5, NoneCompleted DEF LayoutInv, Extended

-----------------------------------------------------------------------------
(* The layout                                                              *)

\* The offset and the size so far after each member.
LEMMA ExtentIs ==
  ASSUME NEW ms, Len(ms) \in Nat, NEW u \in BOOLEAN, NEW start \in Nat, NEW table, NEW infos,
         \A k \in 1..Len(ms) : SizeOf(ms[k], table, infos) \in Nat,
         NEW E, E = Extent(ms, u, start, table, infos)
  PROVE  /\ E \in [0..Len(ms) -> [offset : Nat, max : Nat]]
         /\ E[0].offset = start /\ E[0].max = start
         /\ \A k \in 1..Len(ms) : LET sz == SizeOf(ms[k], table, infos) IN
              /\ E[k].offset = IF u THEN E[k - 1].offset ELSE E[k - 1].offset + sz
              /\ E[k].max >= E[k - 1].max
              /\ E[k].max >= IF u THEN sz ELSE E[k].offset
<1> DEFINE n == Len(ms)
           S == [offset : Nat, max : Nat]
           a == [offset |-> start, max |-> start]
           sz(k) == SizeOf(ms[k], table, infos)
           To(k, e) == LET next == IF u THEN sz(k) ELSE e.offset + sz(k)
                       IN [offset |-> IF u THEN e.offset ELSE next,
                           max    |-> IF next > e.max THEN next ELSE e.max]
           G(g) == [k \in 0..n |-> IF k = 0 THEN a ELSE To(k, g[k - 1])]
           F == [k \in Nat |-> [e \in S |-> IF k \in 1..n THEN To(k, e) ELSE a]]
<1>1. a \in S
  OBVIOUS
<1>2. ASSUME NEW k \in 1..n, NEW x \in S
      PROVE  /\ To(k, x) \in S
             /\ To(k, x).offset = IF u THEN x.offset ELSE x.offset + sz(k)
             /\ To(k, x).max >= x.max
             /\ To(k, x).max >= IF u THEN sz(k) ELSE To(k, x).offset
  <2>1. sz(k) \in Nat /\ x.offset \in Nat /\ x.max \in Nat
    OBVIOUS
  <2> HIDE DEF sz
  <2> QED
    BY <2>1
<1>3. F \in [Nat -> [S -> S]]
  <2> HIDE DEF To, S, a
  <2> SUFFICES ASSUME NEW k \in Nat, NEW x \in S
               PROVE  (IF k \in 1..n THEN To(k, x) ELSE a) \in S
    OBVIOUS
  <2> QED
    BY <1>1, <1>2
<1>4. E = CHOOSE g : g = G(g)
  BY DEF Extent
<1>5. n \in Nat /\ \A k \in 1..n : k \in Nat /\ k - 1 \in 0..n
  OBVIOUS
<1> HIDE DEF n, F, S, a, To, G
<1>6. PICK g \in [0..n -> S] : Recurs(g, a, F, n)
  BY <1>1, <1>3, <1>5, BoundedRecursion
<1>7. ASSUME NEW k \in 1..n, NEW x \in S PROVE F[k][x] = To(k, x)
  BY <1>5 DEF F
<1>8. g = G(g)
  <2>1. \A k \in 1..n : g[k] = To(k, g[k - 1])
    BY <1>5, <1>6, <1>7 DEF Recurs
  <2>2. g = [k \in 0..n |-> IF k = 0 THEN a ELSE To(k, g[k - 1])]
    BY <1>5, <1>6, <2>1 DEF Recurs
  <2> QED
    BY <2>2 DEF G
<1>9. E = G(E)
  BY <1>4, <1>8
<1>10. E[0] = a /\ \A k \in 1..n : E[k] = To(k, E[k - 1])
  BY <1>5, <1>9 DEF G
<1>17. E = [k \in 0..n |-> E[k]]
  BY <1>9 DEF G
<1> DEFINE P == {m \in Nat : m <= n => E[m] \in S}
<1>11. 0 \in P
  BY <1>1, <1>10
<1>12. ASSUME NEW m \in Nat, m \in P PROVE m + 1 \in P
  <2> SUFFICES ASSUME m + 1 <= n PROVE E[m + 1] \in S
    OBVIOUS
  <2>1. m + 1 \in 1..n /\ m + 1 - 1 = m /\ E[m] \in S
    BY <1>5, <1>12
  <2>2. E[m + 1] = To(m + 1, E[m + 1 - 1])
    BY <1>10, <2>1
  <2> QED
    BY <1>2, <2>1, <2>2
<1> HIDE DEF P
<1>13. Nat \subseteq P
  BY <1>11, <1>12, InductionOnSets
<1>14. \A m \in 0..n : E[m] \in S
  BY <1>5, <1>13 DEF P
<1>15. E \in [0..n -> S]
  BY <1>14, <1>17
<1>16. ASSUME NEW k \in 1..n
       PROVE  /\ E[k].offset = IF u THEN E[k - 1].offset ELSE E[k - 1].offset + sz(k)
              /\ E[k].max >= E[k - 1].max
              /\ E[k].max >= IF u THEN sz(k) ELSE E[k].offset
  <2> HIDE DEF sz
  <2>1. E[k - 1] \in S /\ E[k] = To(k, E[k - 1])
    BY <1>5, <1>10, <1>14
  <2>2. PICK x \in S : x = E[k - 1]
    BY <2>1
  <2> QED
    BY <1>2, <2>1, <2>2
<1>18. E[0].offset = start /\ E[0].max = start
  BY <1>10 DEF a
<1> HIDE DEF sz
<1> QED
  BY <1>15, <1>16, <1>18 DEF n, S, sz

\* Offsets and sizes never fall.
LEMMA ExtentGrows ==
  ASSUME NEW ms, Len(ms) \in Nat, NEW u \in BOOLEAN, NEW start \in Nat, NEW table, NEW infos,
         \A k \in 1..Len(ms) : SizeOf(ms[k], table, infos) \in Nat,
         NEW E, E = Extent(ms, u, start, table, infos)
  PROVE  \A j, k \in 0..Len(ms) : j <= k => E[j].offset <= E[k].offset /\ E[j].max <= E[k].max
<1> DEFINE off == [k \in 0..Len(ms) |-> E[k].offset]
           max == [k \in 0..Len(ms) |-> E[k].max]
<1>1. off \in [0..Len(ms) -> Nat] /\ max \in [0..Len(ms) -> Nat]
  BY ExtentIs
<1>2. \A k \in 1..Len(ms) : off[k - 1] <= off[k] /\ max[k - 1] <= max[k]
  <2> SUFFICES ASSUME NEW k \in 1..Len(ms) PROVE E[k - 1].offset <= E[k].offset /\ E[k - 1].max <= E[k].max
    OBVIOUS
  <2>1. /\ E[k].offset = IF u THEN E[k - 1].offset ELSE E[k - 1].offset + SizeOf(ms[k], table, infos)
        /\ E[k].max >= E[k - 1].max
    BY ExtentIs
  <2>3. E[k - 1] \in [offset : Nat, max : Nat]
    <3>1. E \in [0..Len(ms) -> [offset : Nat, max : Nat]]
      BY ExtentIs
    <3>2. k - 1 \in 0..Len(ms)
      OBVIOUS
    <3> DEFINE S == [offset : Nat, max : Nat]
    <3> HIDE DEF S
    <3>3. E[k - 1] \in S
      BY <3>1, <3>2 DEF S
    <3> QED
      BY <3>3 DEF S
  <2>4. PICK x \in [offset : Nat, max : Nat] : x = E[k - 1]
    BY <2>3
  <2>5. SizeOf(ms[k], table, infos) \in Nat
    OBVIOUS
  <2> QED
    BY <2>1, <2>4, <2>5
<1>3. \A j, k \in 0..Len(ms) : j <= k => off[j] <= off[k] /\ max[j] <= max[k]
  <2> HIDE DEF off, max
  <2> QED
    BY <1>1, <1>2, Monotone
<1> QED
  BY <1>3

\* Nothing comes before the first members of a class.
LEMMA NothingBefore ==
  ASSUME NEW n \in Nat, NEW s, s = [k \in 1..n |-> s[k]]
  PROVE  <<>> \o s = s
<1> DEFINE S == {s[k] : k \in 1..n}
<1>1. s \in [1..n -> S]
  <2>1. \A k \in 1..n : s[k] \in S
    OBVIOUS
  <2> HIDE DEF S
  <2> QED
    BY <2>1
<1> HIDE DEF S
<1>2. s \in Seq(S)
  BY <1>1
<1> QED
  BY <1>2, ConcatEmptySeq

\* Where the members of a class lie: behind the start and one another, within the
\* size.
LEMMA ExtentHolds ==
  ASSUME NEW ms, Len(ms) \in Nat, NEW u \in BOOLEAN, NEW start \in Nat, NEW table, NEW infos,
         \A k \in 1..Len(ms) : SizeOf(ms[k], table, infos) \in Nat,
         NEW E, E = Extent(ms, u, start, table, infos)
  PROVE  /\ E[Len(ms)].max \in Nat /\ start <= E[Len(ms)].max
         /\ \A k \in 1..Len(ms) :
              /\ E[k - 1].offset \in Nat /\ start <= E[k - 1].offset
              /\ ~u => E[k - 1].offset + SizeOf(ms[k], table, infos) <= E[Len(ms)].max
              /\ u => SizeOf(ms[k], table, infos) <= E[Len(ms)].max
         /\ \A k, l \in 1..Len(ms) :
              k < l /\ ~u => E[k - 1].offset + SizeOf(ms[k], table, infos) <= E[l - 1].offset
<1> DEFINE n == Len(ms)
           sz(k) == SizeOf(ms[k], table, infos)
<1>1. /\ E \in [0..n -> [offset : Nat, max : Nat]]
      /\ E[0].offset = start /\ E[0].max = start
      /\ \A k \in 1..n :
           /\ E[k].offset = IF u THEN E[k - 1].offset ELSE E[k - 1].offset + sz(k)
           /\ E[k].max >= E[k - 1].max
           /\ E[k].max >= IF u THEN sz(k) ELSE E[k].offset
  BY ExtentIs
<1>2. \A j, k \in 0..n : j <= k => E[j].offset <= E[k].offset /\ E[j].max <= E[k].max
  BY ExtentGrows
<1>3. n \in Nat /\ \A k \in 1..n : sz(k) \in Nat /\ k - 1 \in 0..n /\ k \in 0..n
  OBVIOUS
<1>4. ASSUME NEW k \in 0..n PROVE E[k].offset \in Nat /\ E[k].max \in Nat
  <2> DEFINE S == [offset : Nat, max : Nat]
  <2> HIDE DEF S
  <2>1. E[k] \in S
    BY <1>1 DEF S
  <2>2. PICK x \in S : x = E[k]
    BY <2>1
  <2> QED
    BY <2>2 DEF S
<1> HIDE DEF n, sz
<1>5. 0 \in 0..n /\ n \in 0..n /\ \A k \in 0..n : 0 <= k /\ k <= n
  BY <1>3
<1>6. ASSUME NEW k \in 0..n PROVE start <= E[k].offset /\ start <= E[k].max /\ E[k].max <= E[n].max
  BY <1>1, <1>2, <1>5
<1>7. ASSUME NEW k \in 1..n
      PROVE  /\ E[k - 1].offset \in Nat /\ start <= E[k - 1].offset
             /\ ~u => E[k - 1].offset + sz(k) <= E[n].max
             /\ u => sz(k) <= E[n].max
  <2>1. /\ E[k].offset = IF u THEN E[k - 1].offset ELSE E[k - 1].offset + sz(k)
        /\ E[k].max >= IF u THEN sz(k) ELSE E[k].offset
    BY <1>1
  <2>2. /\ E[k - 1].offset \in Nat /\ E[k].offset \in Nat /\ E[k].max \in Nat /\ E[n].max \in Nat
        /\ E[k].max <= E[n].max /\ start <= E[k - 1].offset
    BY <1>3, <1>4, <1>5, <1>6
  <2>3. sz(k) \in Nat
    BY <1>3
  <2> QED
    BY <2>1, <2>2, <2>3
<1>8. ASSUME NEW k \in 1..n, NEW l \in 1..n, k < l, ~u
      PROVE  E[k - 1].offset + sz(k) <= E[l - 1].offset
  <2>1. E[k].offset = E[k - 1].offset + sz(k)
    BY <1>1, <1>8
  <2>2. k \in 0..n /\ l - 1 \in 0..n /\ k <= l - 1
    BY <1>3, <1>8
  <2> QED
    BY <1>2, <2>1, <2>2
<1> QED
  BY <1>4, <1>5, <1>6, <1>7, <1>8 DEF n, sz

\* class n {ms}; or class n:b {ms}; comes after all classes that were completed
\* before, and its own base, if complete, is one of them.
LEMMA DefineBuilds ==
  ASSUME LayoutInv, NEW n, NEW u \in BOOLEAN, NEW b, NEW ms \in MemberLists, Define(n, u, b, ms),
         decls' = decls + 1
  PROVE  LayoutInv'
<1> DEFINE table == TableFor(n, TRUE)
           infos == InfoFor(n, TRUE)
           ci    == table[n]
           base  == IF b = NoName THEN infos[ci].base ELSE table[b]
           start == Start(infos, base)
           used  == {base} \cup {table[ms[k].cls] : k \in {j \in 1..Len(ms) : ms[j].cls # NoName}}
           sz(k) == SizeOf(ms[k], table, infos)
<1>1. IInv' /\ Kept
  BY DefineStep DEF LayoutInv
<1>2. /\ Extended(infos) /\ n \in DOMAIN table
      /\ \A x \in DOMAIN table : table[x] \in 1..Len(infos)
      /\ ~infos[ci].complete
      /\ \A i \in 1..Len(infos) : i \notin Ids => infos[i] = NewInfo(n)
  BY NameEntered DEF LayoutInv
<1>3. /\ b = NoName \/ b \in DOMAIN table
      /\ \A k \in 1..Len(ms) : ms[k].cls = NoName \/ ms[k].cls \in DOMAIN table
      /\ early' = IF \E i \in used \ {NoBase} : ~infos[i].complete THEN early \cup {ci} ELSE early
      /\ unions' = IF u THEN unions \cup {ci} ELSE unions
  BY DEF Define
<1>4. PICK E : E = Extent(ms, u, start, table, infos)
  OBVIOUS
<1> DEFINE new == [k \in 1..Len(ms) |->
                      [n   |-> ms[k].n,
                       off |-> IF u THEN 0 ELSE E[k - 1].offset,
                       sz  |-> sz(k),
                       ty  |-> [len |-> ms[k].len, sz |-> ms[k].sz,
                                cls |-> IF ms[k].cls = NoName THEN NoBase ELSE table[ms[k].cls]]]]
           r   == [name |-> infos[ci].name, isUnion |-> u, base |-> base,
                   members |-> infos[ci].members \o new, size |-> E[Len(ms)].max, complete |-> TRUE]
<1>5. info' = [infos EXCEPT ![ci] = r]
  BY <1>4 DEF Define
<1>6. ci \in 1..Len(infos) /\ (b # NoName => table[b] \in 1..Len(infos))
  BY <1>2, <1>3
<1>7. /\ r.base = base /\ r.members = infos[ci].members \o new /\ r.size = E[Len(ms)].max /\ r.complete
  <2> HIDE DEF new, base
  <2> QED
    OBVIOUS
<1>8. /\ new = [k \in 1..Len(ms) |-> new[k]] /\ DOMAIN new = 1..Len(ms)
      /\ \A k \in 1..Len(ms) : new[k].off = (IF u THEN 0 ELSE E[k - 1].offset) /\ new[k].sz = sz(k)
  <2> HIDE DEF table, sz
  <2> QED
    OBVIOUS
<1> HIDE DEF table, infos, ci, r, new, sz
<1>9. /\ infos = [i \in 1..Len(infos) |-> infos[i]]
      /\ Len(infos) \in Nat /\ Len(infos) >= Len(info)
      /\ \A i \in Ids : infos[i] = info[i] /\ i \in 1..Len(infos)
  BY <1>2 DEF Extended, LayoutInv, IInv, Listed, Ids
<1>10. /\ Len(info') = Len(infos)
       /\ \A i \in 1..Len(infos) : info'[i] = IF i = ci THEN r ELSE infos[i]
  BY <1>5, <1>6, <1>9
<1>11. ASSUME NEW i \in 1..Len(infos)
       PROVE  /\ infos[i].size \in Nat /\ infos[i].base \in 1..Len(infos) \cup {NoBase}
              /\ infos[i].complete \in BOOLEAN /\ (~infos[i].complete => infos[i].members = <<>>)
              /\ infos[i].complete => i \in Ids /\ info[i].complete
  <2>1. CASE i \in Ids
    BY <2>1, <1>9 DEF LayoutInv, Shaped
  <2>2. CASE i \notin Ids
    <3>1. infos[i] = NewInfo(n)
      BY <1>2, <2>2
    <3> QED
      BY <3>1 DEF NewInfo, NoBase
  <2> QED
    BY <2>1, <2>2
<1>12. base \in 1..Len(infos) \cup {NoBase}
  BY <1>6, <1>11
<1>13. start \in Nat
  BY <1>11, <1>12 DEF Start
<1>14. Len(ms) \in Nat /\ \A k \in 1..Len(ms) : sz(k) \in Nat
  <2>1. Len(ms) \in Nat /\ \A k \in 1..Len(ms) : ms[k].len \in Nat /\ ms[k].sz \in Nat
    BY MemberListsAssumption
  <2>2. ASSUME NEW k \in 1..Len(ms) PROVE sz(k) \in Nat
    <3> DEFINE x == IF ms[k].len = 0 THEN 1 ELSE ms[k].len
               y == IF ms[k].cls = NoName THEN ms[k].sz ELSE infos[table[ms[k].cls]].size
    <3>1. x \in Nat
      BY <2>1
    <3>2. y \in Nat
      BY <1>2, <1>3, <1>11, <2>1
    <3> HIDE DEF x, y
    <3>3. x * y \in Nat
      BY <3>1, <3>2
    <3> QED
      BY <3>3 DEF sz, SizeOf, x, y
  <2> QED
    BY <2>1, <2>2
<1> HIDE DEF base, start, used
<1>15. /\ E[Len(ms)].max \in Nat /\ start <= E[Len(ms)].max
       /\ \A k \in 1..Len(ms) :
            /\ E[k - 1].offset \in Nat /\ start <= E[k - 1].offset
            /\ ~u => E[k - 1].offset + sz(k) <= E[Len(ms)].max
            /\ u => sz(k) <= E[Len(ms)].max
       /\ \A k, l \in 1..Len(ms) : k < l /\ ~u => E[k - 1].offset + sz(k) <= E[l - 1].offset
  BY <1>4, <1>13, <1>14, ExtentHolds DEF sz
<1>16. r.members = new /\ Len(new) = Len(ms)
  <2>1. infos[ci].members = <<>>
    BY <1>2, <1>6, <1>11
  <2>2. <<>> \o new = new
    BY <1>8, <1>14, NothingBefore
  <2>3. Len(new) = Len(ms)
    BY <1>8, <1>14
  <2> QED
    BY <1>7, <2>1, <2>2, <2>3
<1>17. Inside(r) /\ (u \/ Apart(r))
  <2>1. ASSUME NEW k \in 1..Len(ms)
        PROVE  /\ new[k].off \in Nat /\ new[k].sz \in Nat
               /\ new[k].off + new[k].sz <= E[Len(ms)].max
    <3>1. new[k].off = (IF u THEN 0 ELSE E[k - 1].offset) /\ new[k].sz = sz(k)
      BY <1>8
    <3> QED
      BY <1>14, <1>15, <3>1
  <2>2. ASSUME ~u, NEW k \in 1..Len(ms), NEW l \in 1..Len(ms), k < l
        PROVE  new[k].off + new[k].sz <= new[l].off
    BY <1>8, <1>15, <2>2
  <2> QED
    BY <1>7, <1>16, <2>1, <2>2 DEF Inside, Apart
<1>18. Shaped'
  <2> SUFFICES ASSUME NEW i \in 1..Len(infos)
               PROVE  /\ info'[i].size \in Nat /\ info'[i].base \in 1..Len(infos) \cup {NoBase}
                      /\ info'[i].complete \in BOOLEAN
                      /\ ~info'[i].complete => info'[i].members = <<>>
    BY <1>10 DEF Shaped, Ids
  <2>1. CASE i = ci
    <3>1. info'[i] = r /\ r.complete = TRUE
      BY <1>10, <2>1 DEF r
    <3> QED
      BY <1>7, <1>12, <1>15, <3>1
  <2>2. CASE i # ci
    BY <1>10, <1>11, <2>2
  <2> QED
    BY <2>1, <2>2
<1>19. PICK rank \in [Ids -> Nat] : Ordered(rank)
  BY DEF LayoutInv
<1>20. PICK late : late = [i \in Ids' |-> IF i = ci THEN decls + 1 ELSE IF i \in Ids THEN rank[i] ELSE 0]
  OBVIOUS
<1>21. decls \in Nat /\ late \in [Ids' -> Nat]
  BY <1>20 DEF LayoutInv
<1>22. \A i \in Ids : i \in Ids'
  BY <1>9, <1>10 DEF Ids
<1>23. \A i \in Ids : info[i].complete => i # ci /\ late[i] = rank[i]
  BY <1>2, <1>9, <1>20, <1>22
<1>24. ASSUME NEW i \in Ids' PROVE late[i] <= decls'
  BY <1>19, <1>20, <1>21 DEF Ordered
<1>25. early \subseteq early' /\ unions \subseteq unions' /\ \A i : i # ci /\ i \in unions' => i \in unions
  BY <1>3
<1>26. ASSUME NEW i \in Ids' PROVE Built(i, late)'
  <2>0. i \in 1..Len(infos)
    BY <1>10 DEF Ids
  <2>1. CASE i = ci
    <3>1. info'[i] = r
      BY <1>10, <2>0, <2>1
    <3>2. i \in unions' \/ Apart(r)
      BY <1>3, <1>17, <2>1
    <3>3. ASSUME i \notin early', base # NoBase
          PROVE  Behind(r, info'[base], i \in unions') /\ late[base] < late[i]
      <4>1. base \in used \ {NoBase}
        BY <3>3 DEF used
      <4>2. infos[base].complete
        BY <1>3, <2>1, <3>3, <4>1
      <4>3. base \in Ids /\ info[base].complete /\ base # ci
        BY <1>2, <1>11, <1>12, <3>3, <4>2
      <4>4. info'[base] = infos[base] /\ late[base] = rank[base] /\ rank[base] <= decls
        BY <1>9, <1>10, <1>19, <1>23, <4>3 DEF Ordered
      <4>5. late[i] = decls + 1 /\ rank[base] \in Nat
        BY <1>19, <1>20, <2>1, <4>3
      <4>6. start = infos[base].size
        BY <3>3 DEF start, Start
      <4>7. infos[base].size <= r.size
        BY <1>7, <1>15, <4>6
      <4>8. u \/ \A k \in 1..Len(r.members) : infos[base].size <= r.members[k].off
        BY <1>8, <1>15, <1>16, <4>6
      <4>9. Behind(r, info'[base], i \in unions')
        BY <1>3, <2>1, <4>2, <4>4, <4>7, <4>8 DEF Behind
      <4> QED
        BY <1>21, <4>4, <4>5, <4>9
    <3>4. Len(r.members) \in Nat
      BY <1>14, <1>16
    <3> QED
      BY <1>7, <1>17, <3>1, <3>2, <3>3, <3>4 DEF Built, Inside, Apart
  <2>2. CASE i # ci /\ info'[i].complete
    <3>1. i \in Ids /\ info[i].complete
      BY <1>10, <1>11, <2>0, <2>2
    <3> QED
      BY <1>1, <1>19, <1>23, <1>25, <2>2, <3>1, StaysBuilt DEF LayoutInv, Ordered
  <2>3. CASE i # ci /\ ~info'[i].complete
    BY <2>3 DEF Built
  <2> QED
    BY <2>1, <2>2, <2>3
<1>27. Ordered(late)'
  BY <1>24, <1>26 DEF Ordered
<1> QED
  BY <1>1, <1>18, <1>21, <1>27 DEF LayoutInv

LEMMA LayoutStep == LayoutInv /\ [Next]_vars => LayoutInv'
<1> SUFFICES ASSUME LayoutInv, [Next]_vars PROVE LayoutInv'
  OBVIOUS
<1>1. CASE parseClassDef
  <2>1. PICK n \in Names, b \in Names \cup {NoName} :
          \/ \E u \in BOOLEAN : Declare(n, u, b)
          \/ \E u \in BOOLEAN, ms \in MemberLists : Define(n, u, b, ms)
          \/ BadBase(n, b)
    BY <1>1 DEF parseClassDef
  <2>2. decls' = decls + 1
    BY <1>1 DEF parseClassDef
  <2>3. CASE \E u \in BOOLEAN : Declare(n, u, b)
    BY <2>2, <2>3, DeclareBuilds
  <2>4. CASE \E u \in BOOLEAN, ms \in MemberLists : Define(n, u, b, ms)
    BY <2>2, <2>4, DefineBuilds
  <2>5. CASE BadBase(n, b)
    BY <2>2, <2>5, BadBaseBuilds
  <2> QED
    BY <2>1, <2>3, <2>4, <2>5
<1>2. CASE UNCHANGED vars
  <2>1. UNCHANGED <<classes, info, early, unions, decls>>
    BY <1>2 DEF vars
  <2>2. IInv' /\ Shaped'
    BY <2>1 DEF LayoutInv, IInv, Listed, Entered, Ids, Shaped
  <2>3. PICK rank \in [Ids -> Nat] : Ordered(rank)
    BY DEF LayoutInv
  <2>4. Ids' = Ids
    BY <2>1 DEF Ids
  <2>5. ASSUME NEW i \in Ids PROVE Built(i, rank)'
    <3>1. Built(i, rank)
      BY <2>3 DEF Ordered
    <3> QED
      BY <2>1, <3>1 DEF Built, Behind, Inside, Apart
  <2>6. Ordered(rank)'
    BY <2>1, <2>3, <2>4, <2>5 DEF Ordered
  <2> QED
    BY <2>1, <2>2, <2>3, <2>4, <2>6 DEF LayoutInv
<1>3. CASE Done
  BY <1>2, <1>3 DEF Done
<1> QED
  BY <1>1, <1>2, <1>3 DEF Next

LEMMA LayoutInit == Init => LayoutInv
<1> SUFFICES ASSUME Init PROVE LayoutInv
  OBVIOUS
<1>1. Ids = {} /\ decls \in Nat
  BY DEF Init, Ids
<1>2. [i \in Ids |-> 0] \in [Ids -> Nat] /\ Ordered([i \in Ids |-> 0]) /\ Shaped
  BY <1>1 DEF Ordered, Shaped
<1> QED
  BY <1>1, <1>2, InitHolds DEF LayoutInv

LEMMA LayoutHolds == Spec => []LayoutInv
  BY LayoutInit, LayoutStep, PTL DEF Spec

-----------------------------------------------------------------------------
(* The chain of bases                                                      *)

Bases(S) == {info[j].base : j \in S} \ {NoBase}

\* The bases findMember visits are found step by step, and none is missed.
LEMMA AncestorsAre ==
  ASSUME LayoutInv, NEW i \in Ids
  PROVE  \E R \in [0..Len(info) -> SUBSET Ids] :
           /\ R[0] = Bases({i})
           /\ \A k \in 1..Len(info) : R[k] = R[k - 1] \cup Bases(R[k - 1])
           /\ Ancestors(i) = R[Len(info)]
<1> DEFINE n == Len(info)
           S == SUBSET Ids
           a == {info[i].base} \ {NoBase}
           To(e) == e \cup ({info[j].base : j \in e} \ {NoBase})
           G(g) == [k \in 0..n |-> IF k = 0 THEN a ELSE To(g[k - 1])]
           F == [k \in Nat |-> [e \in S |-> To(e)]]
<1>1. a \in S /\ \A e \in S : To(e) \in S
  BY DEF LayoutInv, Shaped
<1>2. Ancestors(i) = (CHOOSE g : g = G(g))[n]
  BY DEF Ancestors
<1>3. n \in Nat /\ \A k \in 1..n : k \in Nat /\ k - 1 \in 0..n
  BY DEF LayoutInv, IInv, Listed
<1>4. a = Bases({i}) /\ \A e : To(e) = e \cup Bases(e)
  BY DEF Bases
<1> HIDE DEF n, S, a, To, G, F
<1>5. F \in [Nat -> [S -> S]]
  BY <1>1 DEF F
<1>6. PICK g \in [0..n -> S] : Recurs(g, a, F, n)
  BY <1>1, <1>3, <1>5, BoundedRecursion
<1>7. ASSUME NEW k \in 1..n, NEW e \in S PROVE F[k][e] = To(e)
  BY <1>3 DEF F
<1>8. g = G(g)
  <2>1. \A k \in 1..n : g[k] = To(g[k - 1])
    BY <1>3, <1>6, <1>7 DEF Recurs
  <2>2. g = [k \in 0..n |-> IF k = 0 THEN a ELSE To(g[k - 1])]
    BY <1>3, <1>6, <2>1 DEF Recurs
  <2> QED
    BY <2>2 DEF G
<1>9. PICK R : R = CHOOSE h : h = G(h)
  OBVIOUS
<1>10. R = G(R)
  BY <1>8, <1>9
<1>11. R[0] = a /\ \A k \in 1..n : R[k] = To(R[k - 1])
  BY <1>3, <1>10 DEF G
<1>12. R = [k \in 0..n |-> R[k]]
  BY <1>10 DEF G
<1> DEFINE P == {m \in Nat : m <= n => R[m] \in S}
<1>13. 0 \in P
  BY <1>1, <1>11
<1>14. ASSUME NEW m \in Nat, m \in P PROVE m + 1 \in P
  <2> SUFFICES ASSUME m + 1 <= n PROVE R[m + 1] \in S
    OBVIOUS
  <2>1. m + 1 \in 1..n /\ m + 1 - 1 = m /\ R[m] \in S
    BY <1>3, <1>14
  <2>2. R[m + 1] = To(R[m + 1 - 1])
    BY <1>11, <2>1
  <2> QED
    BY <1>1, <2>1, <2>2
<1> HIDE DEF P
<1>15. Nat \subseteq P
  BY <1>13, <1>14, InductionOnSets
<1>16. \A m \in 0..n : R[m] \in S
  BY <1>3, <1>15 DEF P
<1>17. R \in [0..n -> S]
  BY <1>12, <1>16
<1>18. Ancestors(i) = R[n]
  BY <1>2, <1>9
<1> QED
  BY <1>4, <1>11, <1>17, <1>18 DEF n, S

\* A set that has the base of i and those of the ancestors of i that are in it
\* has all of them.
LEMMA AncestorsIn ==
  ASSUME LayoutInv, NEW i \in Ids, NEW T, info[i].base \in T \cup {NoBase},
         \A j \in Ids : j \in T /\ j \in Ancestors(i) => info[j].base \in T \cup {NoBase}
  PROVE  Ancestors(i) \subseteq T \cap Ids
<1> DEFINE n == Len(info)
<1>1. n \in Nat
  BY DEF LayoutInv, IInv, Listed
<1>2. PICK R \in [0..n -> SUBSET Ids] :
        /\ R[0] = Bases({i})
        /\ \A k \in 1..n : R[k] = R[k - 1] \cup Bases(R[k - 1])
        /\ Ancestors(i) = R[n]
  BY AncestorsAre
<1> HIDE DEF n
<1> DEFINE P == {m \in Nat : m <= n => R[n - m] \subseteq Ancestors(i)}
           Q == {m \in Nat : m <= n => R[m] \subseteq T}
<1>3. Nat \subseteq P
  <2>1. 0 \in P
    BY <1>1, <1>2
  <2>2. ASSUME NEW m \in Nat, m \in P PROVE m + 1 \in P
    <3> SUFFICES ASSUME m + 1 <= n PROVE R[n - (m + 1)] \subseteq Ancestors(i)
      OBVIOUS
    <3>1. n - m \in 1..n /\ n - m - 1 = n - (m + 1) /\ R[n - m] \subseteq Ancestors(i)
      BY <1>1, <2>2
    <3>2. R[n - m] = R[n - m - 1] \cup Bases(R[n - m - 1])
      BY <1>2, <3>1
    <3> QED
      BY <3>1, <3>2
  <2> HIDE DEF P
  <2> QED
    BY <2>1, <2>2, InductionOnSets
<1>4. ASSUME NEW k \in 0..n PROVE R[k] \subseteq Ancestors(i) /\ R[k] \subseteq Ids
  <2>1. n - k \in P /\ n - (n - k) = k /\ n - k <= n
    BY <1>1, <1>3
  <2>2. R[k] \subseteq Ids
    BY <1>2
  <2> QED
    BY <2>1, <2>2
<1> HIDE DEF P
<1>5. Nat \subseteq Q
  <2>1. 0 \in Q
    BY <1>2 DEF Bases
  <2>2. ASSUME NEW m \in Nat, m \in Q PROVE m + 1 \in Q
    <3> SUFFICES ASSUME m + 1 <= n PROVE R[m + 1] \subseteq T
      OBVIOUS
    <3>1. m + 1 \in 1..n /\ m + 1 - 1 = m /\ m \in 0..n /\ R[m] \subseteq T
      BY <1>1, <2>2
    <3>2. R[m + 1] = R[m + 1 - 1] \cup Bases(R[m + 1 - 1])
      BY <1>2, <3>1
    <3>3. Bases(R[m]) \subseteq T
      BY <1>4, <3>1 DEF Bases
    <3> QED
      BY <3>1, <3>2, <3>3
  <2> HIDE DEF Q
  <2> QED
    BY <2>1, <2>2, InductionOnSets
<1>6. n \in 0..n /\ n \in Q
  BY <1>1, <1>5
<1> QED
  BY <1>2, <1>4, <1>6

\* findMember comes to an end for every class derived from complete classes: each
\* base on the chain was completed before the class derived from it.
THEOREM ChainsOfBasesEnd == Spec => []ChainsEnd
<1>1. LayoutInv => ChainsEnd
  <2> SUFFICES ASSUME LayoutInv, NEW i \in Ids, Sound(i) PROVE i \notin Ancestors(i)
    BY DEF ChainsEnd
  <2>1. PICK rank \in [Ids -> Nat] : Ordered(rank)
    BY DEF LayoutInv
  <2> DEFINE T == {j \in Ids : rank[j] < rank[i]}
  <2>2. ASSUME NEW j \in Ids, info[j].complete, j \notin early, info[j].base # NoBase
        PROVE  info[j].base \in Ids /\ rank[info[j].base] < rank[j]
    BY <2>1, <2>2 DEF LayoutInv, Shaped, Ordered, Built
  <2>3. info[i].base \in T \cup {NoBase}
    BY <2>2 DEF Sound
  <2>4. ASSUME NEW j \in Ids, j \in T, j \in Ancestors(i) PROVE info[j].base \in T \cup {NoBase}
    <3>1. info[j].complete /\ j \notin early
      BY <2>4 DEF Sound
    <3>2. CASE info[j].base # NoBase
      <4>1. info[j].base \in Ids /\ rank[info[j].base] < rank[j]
        BY <2>2, <3>1, <3>2
      <4>2. rank[j] < rank[i] /\ rank[j] \in Nat /\ rank[i] \in Nat /\ rank[info[j].base] \in Nat
        BY <2>1, <2>4, <4>1
      <4> QED
        BY <4>1, <4>2
    <3> QED
      BY <3>2
  <2>5. i \notin T
    BY <2>1
  <2> HIDE DEF T
  <2> QED
    BY <2>3, <2>4, <2>5, AncestorsIn
<1> QED
  BY <1>1, LayoutHolds, PTL

\* Members found through a derived class share no bytes: every class on the chain
\* ends where the layout of the class derived from it starts, or before.
THEOREM MembersShareNoBytes == Spec => []MembersApart
<1>1. LayoutInv => MembersApart
  <2> SUFFICES ASSUME LayoutInv, NEW i \in Ids, Sound(i)
               PROVE  /\ \A k, l \in 1..Len(info[i].members) :
                           k < l => i \in unions
                                      \/ info[i].members[k].off + info[i].members[k].sz <= info[i].members[l].off
                      /\ \A j \in Ancestors(i), k \in 1..Len(info[i].members) :
                           \A l \in 1..Len(info[j].members) :
                             i \in unions
                               \/ info[j].members[l].off + info[j].members[l].sz <= info[i].members[k].off
                      /\ \A j \in Ancestors(i) \cup {i} : \A l \in 1..Len(info[j].members) :
                           info[j].members[l].off + info[j].members[l].sz <= info[i].size
    BY DEF MembersApart
  <2>1. ASSUME NEW j \in Ids, info[j].complete
        PROVE  Inside(info[j]) /\ info[j].size \in Nat /\ (j \in unions \/ Apart(info[j]))
    BY <2>1 DEF LayoutInv, Ordered, Built, Shaped
  <2>2. ASSUME NEW j \in Ids, info[j].complete, j \notin early, info[j].base # NoBase
        PROVE  info[j].base \in Ids /\ Behind(info[j], info[info[j].base], j \in unions)
    BY <2>2 DEF LayoutInv, Shaped, Ordered, Built
  <2>3. info[i].complete /\ i \notin early
    BY DEF Sound
  <2>4. CASE info[i].base = NoBase
    <3>1. Ancestors(i) \subseteq {} \cap Ids
      BY <2>4, AncestorsIn
    <3> QED
      BY <2>1, <2>3, <3>1 DEF Inside, Apart
  <2>5. CASE info[i].base # NoBase
    <3>1. PICK b \in Ids : b = info[i].base /\ Behind(info[i], info[b], i \in unions)
      BY <2>2, <2>3, <2>5
    <3> DEFINE T == {j \in Ids : info[j].size <= info[b].size}
    <3>2. info[i].base \in T \cup {NoBase}
      BY <3>1 DEF LayoutInv, Shaped
    <3>3. ASSUME NEW j \in Ids, j \in T, j \in Ancestors(i) PROVE info[j].base \in T \cup {NoBase}
      <4>1. info[j].complete /\ j \notin early
        BY <3>3 DEF Sound
      <4>2. CASE info[j].base # NoBase
        <5>1. info[j].base \in Ids /\ info[info[j].base].size <= info[j].size
          BY <2>2, <4>1, <4>2 DEF Behind
        <5>2. info[j].size <= info[b].size /\ info[j].size \in Nat /\ info[b].size \in Nat
                /\ info[info[j].base].size \in Nat
          BY <3>3, <5>1 DEF LayoutInv, Shaped
        <5> QED
          BY <5>1, <5>2
      <4> QED
        BY <4>2
    <3>4. Ancestors(i) \subseteq T \cap Ids
      <4> HIDE DEF T
      <4> QED
        BY <3>2, <3>3, AncestorsIn
    <3>5. ASSUME NEW j \in Ancestors(i), NEW l \in 1..Len(info[j].members)
          PROVE  /\ info[j].members[l].off + info[j].members[l].sz <= info[b].size
                 /\ info[j].members[l].off \in Nat /\ info[j].members[l].sz \in Nat
      <4>1. j \in Ids /\ info[j].size <= info[b].size /\ info[j].complete
        BY <3>4, <3>5 DEF Sound
      <4>2. /\ info[j].members[l].off + info[j].members[l].sz <= info[j].size
            /\ info[j].members[l].off \in Nat /\ info[j].members[l].sz \in Nat
        BY <2>1, <4>1 DEF Inside
      <4>3. info[j].size \in Nat /\ info[b].size \in Nat
        BY <4>1 DEF LayoutInv, Shaped
      <4>4. PICK x \in Nat, y \in Nat : x = info[j].members[l].off /\ y = info[j].members[l].sz
        BY <4>2
      <4>5. PICK s \in Nat, t \in Nat : s = info[j].size /\ t = info[b].size
        BY <4>3
      <4>6. x + y <= s /\ s <= t
        BY <4>1, <4>2, <4>4, <4>5
      <4>7. x + y <= t
        BY <4>6
      <4> QED
        BY <4>4, <4>5, <4>7
    <3>6. info[b].size <= info[i].size /\ info[b].size \in Nat /\ info[i].size \in Nat
      BY <3>1 DEF Behind, LayoutInv, Shaped
    <3>7. ASSUME NEW j \in Ancestors(i), NEW k \in 1..Len(info[i].members),
                 NEW l \in 1..Len(info[j].members), i \notin unions
          PROVE  info[j].members[l].off + info[j].members[l].sz <= info[i].members[k].off
      <4>1. info[b].size <= info[i].members[k].off
        BY <3>1, <3>7 DEF Behind
      <4>2. info[i].members[k].off \in Nat
        BY <2>1, <2>3 DEF Inside
      <4>3. PICK x \in Nat, y \in Nat : x = info[j].members[l].off /\ y = info[j].members[l].sz
        BY <3>5
      <4>4. PICK s \in Nat, t \in Nat : s = info[b].size /\ t = info[i].members[k].off
        BY <3>6, <4>2
      <4>5. x + y <= s /\ s <= t
        BY <3>5, <4>1, <4>3, <4>4
      <4>6. x + y <= t
        BY <4>5
      <4> QED
        BY <4>3, <4>4, <4>6
    <3>8. ASSUME NEW j \in Ancestors(i), NEW l \in 1..Len(info[j].members)
          PROVE  info[j].members[l].off + info[j].members[l].sz <= info[i].size
      <4>1. PICK x \in Nat, y \in Nat : x = info[j].members[l].off /\ y = info[j].members[l].sz
        BY <3>5
      <4>2. PICK s \in Nat, t \in Nat : s = info[b].size /\ t = info[i].size
        BY <3>6
      <4>3. x + y <= s /\ s <= t
        BY <3>5, <3>6, <4>1, <4>2
      <4>4. x + y <= t
        BY <4>3
      <4> QED
        BY <4>1, <4>2, <4>4
    <3> QED
      BY <2>1, <2>3, <3>7, <3>8 DEF Inside, Apart
  <2> QED
    BY <2>4, <2>5
<1> QED
  BY <1>1, LayoutHolds, PTL
=============================================================================
