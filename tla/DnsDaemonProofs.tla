-------------------------- MODULE DnsDaemonProofs --------------------------
(***************************************************************************)
(* Proofs about the DNS daemon, for any zone tree, queries and sizes.      *)
(***************************************************************************)
EXTENDS DnsDaemon, SumTheorems, FiniteSetTheorems

USE ZoneAssumption, DnsAssumption, QueriesAssumption
-----------------------------------------------------------------------------
(***************************************************************************)
(* The zone tree.                                                          *)
(***************************************************************************)

\* Zones are numbers; parents precede their children.
LEMMA ZoneFacts ==
    /\ Len(ZoneTable) \in Nat /\ Zone = 1 .. Len(ZoneTable)
    /\ \A z \in Zone : /\ ZoneTable[z] \in ZoneRecord
                       /\ ZoneTable[z].label \in Labels
                       /\ ZoneTable[z].parent \in 0 .. z - 1
                       /\ ZoneTable[z].parent \in Zone \cup {NoZone}
<1>1. Len(ZoneTable) \in Nat /\ Zone = 1 .. Len(ZoneTable)
  BY DEF Zone
<1>2. \A z \in Zone : ZoneTable[z] \in ZoneRecord
  <2> HIDE DEF ZoneRecord
  <2> QED
    BY <1>1
<1>3. ASSUME NEW z \in Zone
      PROVE  /\ ZoneTable[z].label \in Labels
             /\ ZoneTable[z].parent \in 0 .. z - 1
             /\ ZoneTable[z].parent \in Zone \cup {NoZone}
  <2>1. ZoneTable[z].label \in Labels /\ ZoneTable[z].parent \in Zone \cup {NoZone}
    BY <1>2 DEF ZoneRecord
  <2>2. ZoneTable[z].parent < z /\ z \in Nat
    BY <1>1 DEF ZoneAssumption
  <2> QED
    BY <1>1, <2>1, <2>2 DEF NoZone
<1> QED
  BY <1>1, <1>2, <1>3

\* The equations of DomainName, for the first m zones.
IsNames(g, m) ==
    g = [z \in 1 .. m |-> <<ZoneTable[z].label>> \o
            (IF ZoneTable[z].parent = NoZone THEN <<>> ELSE g[ZoneTable[z].parent])]

\* They have a solution.
LEMMA NamesExist == \E g : IsNames(g, Len(ZoneTable))
<1> DEFINE n == Len(ZoneTable)
           Good == {m \in 0 .. n : \E g : IsNames(g, m)}
           Step(g, z) == <<ZoneTable[z].label>> \o
               (IF ZoneTable[z].parent = NoZone THEN <<>> ELSE g[ZoneTable[z].parent])
<1>1. n \in Nat
  BY ZoneFacts
<1>2. 0 \in Good
  <2> DEFINE g == [z \in 1 .. 0 |-> <<>>]
  <2>1. IsNames(g, 0)
    BY DEF IsNames
  <2> HIDE DEF g
  <2> QED
    BY <1>1, <2>1
<1>3. ASSUME NEW m \in 1 .. n, m - 1 \in Good PROVE m \in Good
  <2>1. PICK g : IsNames(g, m - 1)
    BY <1>3
  <2> DEFINE h == [z \in 1 .. m |-> IF z = m THEN Step(g, m) ELSE g[z]]
  <2>2. \A z \in 1 .. m - 1 : g[z] = Step(g, z)
    BY <2>1 DEF IsNames
  <2>3. \A z \in 1 .. m - 1 : h[z] = g[z]
    OBVIOUS
  <2>4. \A z \in 1 .. m : ZoneTable[z].parent = NoZone \/ ZoneTable[z].parent \in 1 .. m - 1
    BY <1>1, ZoneFacts DEF NoZone
  <2>5. ASSUME NEW z \in 1 .. m PROVE h[z] = Step(h, z)
    <3>1. Step(h, z) = Step(g, z)
      BY <2>3, <2>4
    <3>2. h[z] = Step(g, z)
      BY <2>2
    <3> QED
      BY <3>1, <3>2
  <2>6. h = [z \in 1 .. m |-> Step(h, z)]
    BY <2>5
  <2>7. IsNames(h, m)
    BY <2>6 DEF IsNames
  <2> HIDE DEF h
  <2> QED
    BY <2>7
<1> HIDE DEF Good, n
<1>4. n \in Good
  <2>1. \A i \in 0 .. n : i \in Good
    BY <1>1, <1>2, <1>3, UpTo
  <2>2. n \in 0 .. n
    BY <1>1
  <2> QED
    BY <2>1, <2>2
<1> QED
  BY <1>4 DEF Good, n

\* The name of the zone above, the empty name above a root.
Above(z) == IF ZoneTable[z].parent = NoZone THEN <<>> ELSE DomainName[ZoneTable[z].parent]

\* DomainName is what its definition says: the label in front of the name above.
LEMMA NameFacts ==
    \A z \in Zone : /\ DomainName[z] = <<ZoneTable[z].label>> \o Above(z)
                    /\ DomainName[z] \in Seq(Labels)
                    /\ Above(z) \in Seq(Labels)
<1> DEFINE n == Len(ZoneTable)
<1>1. n \in Nat /\ Zone = 1 .. n
  BY ZoneFacts
<1>2. IsNames(DomainName, n)
  <2>1. PICK g : IsNames(g, n)
    BY NamesExist
  <2> QED
    BY <1>1, <2>1 DEF IsNames, DomainName
<1>3. \A z \in 1 .. n : DomainName[z] = <<ZoneTable[z].label>> \o Above(z)
  BY <1>2 DEF IsNames, Above
<1> DEFINE Good == {m \in 0 .. n : \A z \in 1 .. m : DomainName[z] \in Seq(Labels)}
<1>4. ASSUME NEW m \in 0 .. n, \A z \in 1 .. m - 1 : DomainName[z] \in Seq(Labels),
             NEW z \in 1 .. m
      PROVE  Above(z) \in Seq(Labels) /\ DomainName[z] \in Seq(Labels)
  <2>1. ZoneTable[z].parent = NoZone \/ ZoneTable[z].parent \in 1 .. m - 1
    BY <1>1, ZoneFacts DEF NoZone
  <2>2. Above(z) \in Seq(Labels)
    BY <1>4, <2>1 DEF Above
  <2>3. <<ZoneTable[z].label>> \in Seq(Labels)
    BY <1>1, ZoneFacts
  <2>4. <<ZoneTable[z].label>> \o Above(z) \in Seq(Labels)
    BY <2>2, <2>3
  <2>5. z \in 1 .. n
    BY <1>1
  <2> QED
    BY <1>3, <2>2, <2>4, <2>5
<1>5. 0 \in Good
  BY <1>1
<1>6. ASSUME NEW m \in 1 .. n, m - 1 \in Good PROVE m \in Good
  BY <1>1, <1>4, <1>6
<1> HIDE DEF Good
<1>7. \A m \in 0 .. n : m \in Good
  <2> HIDE DEF n
  <2> QED
    BY <1>1, <1>5, <1>6, UpTo
<1>8. \A z \in 1 .. n : DomainName[z] \in Seq(Labels)
  BY <1>1, <1>7 DEF Good
<1> QED
  BY <1>1, <1>3, <1>4, <1>8

\* The labels of a name, one by one.
LEMMA NameParts ==
    \A z \in Zone : /\ Len(Above(z)) \in Nat
                    /\ Len(DomainName[z]) = Len(Above(z)) + 1
                    /\ DomainName[z][1] = ZoneTable[z].label
                    /\ \A i \in 1 .. Len(Above(z)) : DomainName[z][i + 1] = Above(z)[i]
<1> TAKE z \in Zone
<1>1. /\ DomainName[z] = <<ZoneTable[z].label>> \o Above(z)
      /\ Above(z) \in Seq(Labels) /\ ZoneTable[z].label \in Labels
  BY NameFacts, ZoneFacts
<1> DEFINE up == Above(z)
           label == ZoneTable[z].label
<1> HIDE DEF up, label
<1>2. up \in Seq(Labels) /\ label \in Labels /\ Len(up) \in Nat
  BY <1>1 DEF up, label
<1>3. /\ Len(<<label>> \o up) = Len(up) + 1
      /\ (<<label>> \o up)[1] = label
      /\ \A i \in 1 .. Len(up) : (<<label>> \o up)[i + 1] = up[i]
  BY <1>2
<1> QED
  BY <1>1, <1>2, <1>3 DEF up, label

\* A name is that of one zone.
LEMMA NamesDiffer ==
    \A y, z \in Zone : DomainName[y] = DomainName[z] => y = z
<1> DEFINE n == Len(ZoneTable)
           Good == {m \in 0 .. n : \A y, z \in 1 .. m : DomainName[y] = DomainName[z] => y = z}
<1>1. n \in Nat /\ Zone = 1 .. n
  BY ZoneFacts
<1>2. 0 \in Good
  BY <1>1
<1>3. ASSUME NEW m \in 1 .. n, m - 1 \in Good PROVE m \in Good
  <2>1. SUFFICES ASSUME NEW y \in 1 .. m, NEW z \in 1 .. m, DomainName[y] = DomainName[z]
                 PROVE  y = z
    BY <1>1
  <2>2. y \in Zone /\ z \in Zone
    BY <1>1
  <2> DEFINE v == Above(y)
             w == Above(z)
  <2>3. /\ ZoneTable[y].label = ZoneTable[z].label
        /\ v \in Seq(Labels) /\ w \in Seq(Labels) /\ Len(v) = Len(w)
        /\ \A i \in 1 .. Len(v) : v[i] = w[i]
    <3> DEFINE d == DomainName[z]
    <3>1. /\ v \in Seq(Labels) /\ Len(v) \in Nat /\ Len(d) = Len(v) + 1
          /\ d[1] = ZoneTable[y].label /\ \A i \in 1 .. Len(v) : d[i + 1] = v[i]
      <4> DEFINE e == DomainName[y]
      <4>1. /\ v \in Seq(Labels) /\ Len(v) \in Nat /\ Len(e) = Len(v) + 1
            /\ e[1] = ZoneTable[y].label /\ \A i \in 1 .. Len(v) : e[i + 1] = v[i]
        BY <2>2, NameParts, NameFacts
      <4>2. e = d
        BY <2>1
      <4> HIDE DEF d, e, v
      <4> QED
        BY <4>1, <4>2
    <3>2. /\ w \in Seq(Labels) /\ Len(w) \in Nat /\ Len(d) = Len(w) + 1
          /\ d[1] = ZoneTable[z].label /\ \A i \in 1 .. Len(w) : d[i + 1] = w[i]
      BY <2>2, NameParts, NameFacts
    <3> HIDE DEF d, v, w
    <3>3. Len(v) = Len(w)
      BY <3>1, <3>2
    <3> QED
      BY <3>1, <3>2, <3>3
  <2>4. Above(y) = Above(z)
    <3> HIDE DEF v, w
    <3>1. v = w
      BY <2>3
    <3> QED
      BY <3>1 DEF v, w
  <2>5. ASSUME NEW x \in 1 .. m
        PROVE  \/ ZoneTable[x].parent = NoZone /\ Above(x) = <<>>
               \/ /\ ZoneTable[x].parent \in 1 .. m - 1 /\ ZoneTable[x].parent # NoZone
                  /\ Above(x) = DomainName[ZoneTable[x].parent]
                  /\ Above(x) # <<>>
    <3>1. x \in Zone
      BY <1>1
    <3>2. CASE ZoneTable[x].parent = NoZone
      BY <3>2 DEF Above
    <3>3. CASE ZoneTable[x].parent # NoZone
      <4>1. ZoneTable[x].parent \in 1 .. m - 1 /\ ZoneTable[x].parent \in Zone
        BY <1>1, <3>1, <3>3, ZoneFacts DEF NoZone
      <4>2. Above(x) = DomainName[ZoneTable[x].parent]
        BY <3>3 DEF Above
      <4>3. Len(DomainName[ZoneTable[x].parent]) # 0
        BY <4>1, NameParts
      <4> QED
        BY <3>3, <4>1, <4>2, <4>3
    <3> QED
      BY <3>2, <3>3
  <2>6. ZoneTable[y].parent = ZoneTable[z].parent
    BY <1>3, <2>4, <2>5
  <2> QED
    BY <2>2, <2>3, <2>6 DEF ZoneAssumption
<1> HIDE DEF Good
<1>4. \A m \in 0 .. n : m \in Good
  <2> HIDE DEF n
  <2> QED
    BY <1>1, <1>2, <1>3, UpTo
<1> QED
  BY <1>1, <1>4 DEF Good
-----------------------------------------------------------------------------
(***************************************************************************)
(* ZoneMgr::Lookup.                                                        *)
(***************************************************************************)
\* The equations of Passed, for the last m labels.
IsPassed(g, name, m) ==
    g = [n \in 0 .. m |-> IF n = 0 THEN {NoZone}
                          ELSE UNION {Descend(name[Len(name) - n + 1], z) : z \in g[n - 1]}]

\* They have a solution.
LEMMA PassedExists ==
    ASSUME NEW name, NEW l \in Nat
    PROVE  \E g : IsPassed(g, name, l)
<1> DEFINE Good == {m \in 0 .. l : \E g : IsPassed(g, name, m)}
           Step(S, n) == UNION {Descend(name[Len(name) - n + 1], z) : z \in S}
<1>1. 0 \in Good
  <2> DEFINE g == [n \in 0 .. 0 |-> {NoZone}]
  <2>1. IsPassed(g, name, 0)
    BY DEF IsPassed
  <2> HIDE DEF g
  <2> QED
    BY <2>1
<1>2. ASSUME NEW m \in 1 .. l, m - 1 \in Good PROVE m \in Good
  <2>1. PICK g : IsPassed(g, name, m - 1)
    BY <1>2
  <2> DEFINE h == [n \in 0 .. m |-> IF n = m THEN Step(g[m - 1], m) ELSE g[n]]
  <2>2. \A n \in 0 .. m - 1 : g[n] = IF n = 0 THEN {NoZone} ELSE Step(g[n - 1], n)
    BY <2>1 DEF IsPassed
  <2> HIDE DEF Step
  <2>3. ASSUME NEW n \in 0 .. m PROVE h[n] = IF n = 0 THEN {NoZone} ELSE Step(h[n - 1], n)
    <3>1. CASE n = m
      BY <3>1
    <3>2. CASE n # m /\ n = 0
      <4>1. 0 \in 0 .. m - 1
        OBVIOUS
      <4>2. h[0] = g[0] /\ g[0] = {NoZone}
        BY <2>2, <3>2, <4>1
      <4> QED
        BY <3>2, <4>2
    <3>3. CASE n # m /\ n # 0
      <4>1. n \in 0 .. m - 1 /\ n - 1 \in 0 .. m - 1 /\ n - 1 # m
        BY <3>3
      <4> QED
        BY <2>2, <3>3, <4>1
    <3> QED
      BY <3>1, <3>2, <3>3
  <2>4. h = [n \in 0 .. m |-> IF n = 0 THEN {NoZone} ELSE Step(h[n - 1], n)]
    BY <2>3
  <2>5. IsPassed(h, name, m)
    BY <2>4 DEF IsPassed, Step
  <2> HIDE DEF h
  <2> QED
    BY <2>5
<1> HIDE DEF Good
<1>3. l \in Good
  <2>1. \A i \in 0 .. l : i \in Good
    BY <1>1, <1>2, UpTo
  <2>2. l \in 0 .. l
    OBVIOUS
  <2> QED
    BY <2>1, <2>2
<1> QED
  BY <1>3 DEF Good

\* Passed is what its definition says.
LEMMA PassedFacts ==
    ASSUME NEW name \in Seq(Labels)
    PROVE  /\ Passed(name)[0] = {NoZone}
           /\ \A n \in 1 .. Len(name) : Passed(name)[n] =
                  UNION {Descend(name[Len(name) - n + 1], z) : z \in Passed(name)[n - 1]}
<1> DEFINE l == Len(name)
<1>1. l \in Nat
  OBVIOUS
<1>2. IsPassed(Passed(name), name, l)
  <2>1. PICK g : IsPassed(g, name, l)
    BY <1>1, PassedExists
  <2> QED
    BY <2>1 DEF IsPassed, Passed
<1> DEFINE P == Passed(name)
<1> HIDE DEF P
<1>3. P = [n \in 0 .. l |-> IF n = 0 THEN {NoZone}
                            ELSE UNION {Descend(name[l - n + 1], z) : z \in P[n - 1]}]
  BY <1>2 DEF IsPassed, P
<1>4. P[0] = {NoZone}
  <2>1. 0 \in 0 .. l
    BY <1>1
  <2> QED
    BY <1>3, <2>1
<1>5. ASSUME NEW n \in 1 .. l
      PROVE  P[n] = UNION {Descend(name[l - n + 1], z) : z \in P[n - 1]}
  <2>1. n \in 0 .. l /\ n # 0
    BY <1>1
  <2> QED
    BY <1>3, <2>1
<1> QED
  BY <1>4, <1>5 DEF P

\* A child of one of the zones, with this label or else, if there is none with it,
\* the wildcard.
Picked(z, zones, label) ==
    /\ z \in Zone
    /\ ZoneTable[z].parent \in zones
    /\ ZoneTable[z].label \in {label, ""}
    /\ \A c \in Zone : ZoneTable[c].parent = ZoneTable[z].parent => ZoneTable[c].label # label \/ c = z

\* Such is a zone that is passed, among the children of the one passed before it.
LEMMA StepFacts ==
    ASSUME NEW name \in Seq(Labels), NEW n \in 1 .. Len(name), NEW z \in Passed(name)[n]
    PROVE  Picked(z, Passed(name)[n - 1], name[Len(name) - n + 1])
<1> DEFINE label == name[Len(name) - n + 1]
<1> HIDE DEF label
<1>1. Passed(name)[n] = UNION {Descend(label, y) : y \in Passed(name)[n - 1]}
  BY PassedFacts DEF label
<1>2. PICK y \in Passed(name)[n - 1] : z \in Descend(label, y)
  BY <1>1
<1>3. /\ z \in Zone /\ ZoneTable[z].parent = y /\ ZoneTable[z].label \in {label, ""}
      /\ \A c \in Zone : ZoneTable[c].parent = y /\ ZoneTable[c].label = label
                         => ZoneTable[z].label = label
  BY <1>2 DEF Descend, Labelled, Children
<1>4. ASSUME NEW c \in Zone, ZoneTable[c].parent = y, ZoneTable[c].label = label PROVE c = z
  BY <1>3, <1>4 DEF ZoneAssumption
<1> QED
  BY <1>2, <1>3, <1>4 DEF label, Picked

\* No two zones are passed with the same label.
LEMMA OnePassed ==
    ASSUME NEW name \in Seq(Labels)
    PROVE  \A n \in 0 .. Len(name) : \A y, z \in Passed(name)[n] : y = z
<1> DEFINE l == Len(name)
           Good == {n \in 0 .. l : \A y, z \in Passed(name)[n] : y = z}
<1>1. l \in Nat
  OBVIOUS
<1>2. 0 \in Good
  BY <1>1, PassedFacts
<1>3. ASSUME NEW n \in 1 .. l, n - 1 \in Good PROVE n \in Good
  <2>1. SUFFICES ASSUME NEW y \in Passed(name)[n], NEW z \in Passed(name)[n] PROVE y = z
    BY <1>1
  <2> DEFINE label == name[l - n + 1]
  <2>2. Picked(y, Passed(name)[n - 1], label) /\ Picked(z, Passed(name)[n - 1], label)
    BY StepFacts
  <2> HIDE DEF label
  <2>3. ZoneTable[y].parent = ZoneTable[z].parent
    BY <1>3, <2>2 DEF Picked
  <2>4. CASE ZoneTable[y].label = label \/ ZoneTable[z].label = label
    BY <2>2, <2>3, <2>4 DEF Picked
  <2>5. CASE ZoneTable[y].label = "" /\ ZoneTable[z].label = ""
    BY <2>2, <2>3, <2>5 DEF ZoneAssumption, Picked
  <2> QED
    BY <2>2, <2>4, <2>5 DEF Picked
<1> HIDE DEF Good
<1>4. \A n \in 0 .. l : n \in Good
  <2> HIDE DEF l
  <2> QED
    BY <1>1, <1>2, <1>3, UpTo
<1> QED
  BY <1>4 DEF Good

\* Lookup finds the zone that all the labels lead to, if there is one.
LEMMA LookupFacts ==
    ASSUME NEW name \in Seq(Labels)
    PROVE  /\ Lookup(name) \in Zone \cup {NoZone}
           /\ Lookup(name) # NoZone =>
                /\ Lookup(name) \in Passed(name)[Len(name)]
                /\ Len(name) \in 1 .. Len(name)
<1> DEFINE l == Len(name)
           found == Passed(name)[l]
<1>1. l \in Nat
  OBVIOUS
<1>2. ASSUME NEW z \in found PROVE (l = 0 /\ z = NoZone) \/ (l \in 1 .. l /\ z \in Zone)
  <2>1. CASE l = 0
    <3>1. Passed(name)[0] = {NoZone}
      BY PassedFacts
    <3>2. found = {NoZone}
      BY <2>1, <3>1
    <3> HIDE DEF found
    <3> QED
      BY <1>2, <2>1, <3>2
  <2>2. CASE l # 0
    <3>1. l \in 1 .. l
      BY <1>1, <2>2
    <3> QED
      BY <3>1, StepFacts DEF Picked
  <2> QED
    BY <2>1, <2>2
<1>3. \A y, z \in found : y = z
  BY <1>1, OnePassed
<1>4. Lookup(name) = IF found = {} THEN NoZone ELSE Max(found)
  BY DEF Lookup
<1>5. found \subseteq Nat
  BY <1>2, ZoneFacts DEF NoZone
<1> HIDE DEF found
<1>6. CASE found # {}
  <2>1. PICK z \in found : TRUE
    BY <1>6
  <2>2. \A y \in found : z >= y
    BY <1>3, <1>5
  <2>3. Max(found) \in found
    BY <2>1, <2>2 DEF Max
  <2> QED
    BY <1>2, <1>4, <1>6, <2>3 DEF found
<1> QED
  BY <1>4, <1>6

\* The names of the zones that are passed.  The zone z, after n labels:
\* its name is as long, and each label is the one looked for or a wildcard.
CoversTail(z, name, n) ==
    /\ Len(DomainName[z]) = n
    /\ \A i \in 1 .. n : DomainName[z][i] \in {name[Len(name) - n + i], ""}

\* Beats for the last n labels of a name.
BeatsTail(y, z, name, n) ==
    \E i \in 1 .. n : /\ DomainName[y][i] = name[Len(name) - n + i]
                      /\ DomainName[z][i] # name[Len(name) - n + i]
                      /\ \A j \in i + 1 .. n : DomainName[y][j] = DomainName[z][j]

\* What a zone's name is made of, in terms of these.
LEMMA TailStep ==
    ASSUME NEW name \in Seq(Labels), NEW n \in 1 .. Len(name), NEW z \in Zone
    PROVE  CoversTail(z, name, n) <=>
             /\ ZoneTable[z].label \in {name[Len(name) - n + 1], ""}
             /\ \/ n = 1 /\ ZoneTable[z].parent = NoZone
                \/ /\ n > 1 /\ ZoneTable[z].parent \in Zone
                   /\ CoversTail(ZoneTable[z].parent, name, n - 1)
<1> DEFINE l == Len(name)
           up == Above(z)
           p == ZoneTable[z].parent
           d == DomainName[z]
<1>1. /\ Len(up) \in Nat /\ Len(d) = Len(up) + 1 /\ d[1] = ZoneTable[z].label
      /\ \A i \in 1 .. Len(up) : d[i + 1] = up[i]
  BY NameParts
<1>2. p \in Zone \cup {NoZone} /\ l \in Nat
  BY ZoneFacts
<1>3. CASE p = NoZone
  <2>1. up = <<>>
    BY <1>3 DEF Above
  <2>2. Len(up) = 0
    BY <2>1
  <2>3. p \notin Zone
    BY <1>3, ZoneFacts DEF NoZone
  <2> HIDE DEF up, d
  <2>4. CoversTail(z, name, n) <=>
            Len(d) = n /\ \A i \in 1 .. n : d[i] \in {name[l - n + i], ""}
    BY DEF CoversTail, d
  <2>5. Len(d) = 1
    BY <1>1, <2>2
  <2> HIDE DEF p
  <2>6. CASE n = 1
    <3> DEFINE S == {name[l - n + 1], ""}
    <3>1. (\A i \in 1 .. n : d[i] \in {name[l - n + i], ""}) <=> d[1] \in S
      BY <2>6
    <3>2. CoversTail(z, name, n) <=> ZoneTable[z].label \in S
      BY <1>1, <2>4, <2>5, <2>6, <3>1
    <3> HIDE DEF S
    <3>3. (n = 1 /\ p = NoZone) /\ ~(n > 1)
      BY <1>3, <2>6
    <3> QED
      BY <3>2, <3>3, Zenon DEF S, p
  <2>7. CASE n # 1
    <3>1. ~CoversTail(z, name, n)
      BY <2>4, <2>5, <2>7
    <3> QED
      BY <2>3, <2>7, <3>1 DEF p
  <2> QED
    BY <2>6, <2>7
<1>4. CASE p # NoZone
  <2>1. up = DomainName[p] /\ p \in Zone
    BY <1>2, <1>4 DEF Above
  <2>2. Len(up) > 0
    BY <2>1, NameParts
  <2>3. CoversTail(z, name, n) <=>
            Len(d) = n /\ \A i \in 1 .. n : d[i] \in {name[l - n + i], ""}
    BY DEF CoversTail
  <2>4. CoversTail(p, name, n - 1) <=>
            Len(up) = n - 1 /\ \A i \in 1 .. n - 1 : up[i] \in {name[l - (n - 1) + i], ""}
    BY <2>1 DEF CoversTail
  <2> HIDE DEF up, d, p
  <2>5. ASSUME Len(up) = n - 1
        PROVE  (\A i \in 1 .. n : d[i] \in {name[l - n + i], ""}) <=>
                  /\ d[1] \in {name[l - n + 1], ""}
                  /\ \A i \in 1 .. n - 1 : up[i] \in {name[l - (n - 1) + i], ""}
    <3>1. ASSUME \A i \in 1 .. n : d[i] \in {name[l - n + i], ""}
          PROVE  \A i \in 1 .. n - 1 : up[i] \in {name[l - (n - 1) + i], ""}
      <4> TAKE i \in 1 .. n - 1
      <4>1. d[i + 1] = up[i] /\ i + 1 \in 1 .. n /\ l - n + (i + 1) = l - (n - 1) + i
        BY <1>1, <1>2, <2>5
      <4> QED
        BY <3>1, <4>1
    <3>2. ASSUME d[1] \in {name[l - n + 1], ""},
                 \A i \in 1 .. n - 1 : up[i] \in {name[l - (n - 1) + i], ""}
          PROVE  \A i \in 1 .. n : d[i] \in {name[l - n + i], ""}
      <4> TAKE i \in 1 .. n
      <4>1. CASE i = 1
        BY <3>2, <4>1
      <4>2. CASE i # 1
        <5>1. i - 1 \in 1 .. n - 1 /\ (i - 1) + 1 = i /\ l - (n - 1) + (i - 1) = l - n + i
          BY <1>2, <4>2
        <5>2. d[i] = up[i - 1]
          BY <1>1, <2>5, <5>1
        <5> QED
          BY <3>2, <5>1, <5>2
      <4> QED
        BY <4>1, <4>2
    <3>3. 1 \in 1 .. n
      BY <1>2
    <3>4. (\A i \in 1 .. n : d[i] \in {name[l - n + i], ""}) => d[1] \in {name[l - n + 1], ""}
      BY <3>3
    <3> QED
      BY <3>1, <3>2, <3>4
  <2>6. Len(d) = n <=> Len(up) = n - 1
    BY <1>1, <1>2
  <2> DEFINE Here == ZoneTable[z].label \in {name[l - n + 1], ""}
             All == \A i \in 1 .. n : d[i] \in {name[l - n + i], ""}
             Rest == \A i \in 1 .. n - 1 : up[i] \in {name[l - (n - 1) + i], ""}
  <2>7. Len(up) = n - 1 => (All <=> Here /\ Rest)
    BY <1>1, <2>5
  <2>8. Len(up) = n - 1 => n > 1
    BY <1>2, <2>2
  <2> HIDE DEF Here, All, Rest
  <2>9. CoversTail(z, name, n) <=> Len(up) = n - 1 /\ All
    BY <2>3, <2>6 DEF All
  <2>10. CoversTail(p, name, n - 1) <=> Len(up) = n - 1 /\ Rest
    BY <2>4 DEF Rest
  <2>11. CoversTail(z, name, n) <=> Here /\ n > 1 /\ CoversTail(p, name, n - 1)
    BY <2>7, <2>8, <2>9, <2>10
  <2> QED
    BY <1>4, <2>1, <2>11, Zenon DEF Here, p
<1> QED
  BY <1>3, <1>4

\* A zone that is passed has a name that covers the labels that led to it.
LEMMA PassedCovers ==
    ASSUME NEW name \in Seq(Labels)
    PROVE  \A n \in 1 .. Len(name) : \A z \in Passed(name)[n] : CoversTail(z, name, n)
<1> DEFINE l == Len(name)
           Good == {n \in 0 .. l : n = 0 \/ \A z \in Passed(name)[n] : CoversTail(z, name, n)}
<1>1. l \in Nat
  OBVIOUS
<1>2. 0 \in Good
  BY <1>1
<1>3. ASSUME NEW n \in 1 .. l, n - 1 \in Good PROVE n \in Good
  <2>1. SUFFICES ASSUME NEW z \in Passed(name)[n] PROVE CoversTail(z, name, n)
    BY <1>1
  <2> DEFINE p == ZoneTable[z].parent
             label == name[l - n + 1]
  <2>2. Picked(z, Passed(name)[n - 1], label)
    BY StepFacts
  <2>3. z \in Zone /\ p \in Passed(name)[n - 1] /\ ZoneTable[z].label \in {label, ""}
    BY <2>2 DEF Picked
  <2>4. CASE n = 1
    <3>1. Passed(name)[0] = {NoZone}
      BY PassedFacts
    <3>2. p = NoZone
      <4>1. n - 1 = 0
        BY <2>4
      <4> QED
        BY <2>3, <3>1, <4>1
    <3> QED
      BY <2>3, <2>4, <3>2, TailStep
  <2>5. CASE n # 1
    <3>1. n - 1 \in 1 .. l /\ n > 1
      BY <1>1, <2>5
    <3>2. p \in Zone
      BY <2>3, <3>1, StepFacts DEF Picked
    <3>3. CoversTail(p, name, n - 1)
      <4>1. \A x \in Passed(name)[n - 1] : CoversTail(x, name, n - 1)
        BY <1>3, <3>1
      <4> QED
        BY <2>3, <4>1
    <3> QED
      BY <2>3, <3>1, <3>2, <3>3, TailStep
  <2> QED
    BY <2>4, <2>5
<1> HIDE DEF Good
<1>4. \A n \in 0 .. l : n \in Good
  <2> HIDE DEF l
  <2> QED
    BY <1>1, <1>2, <1>3, UpTo
<1> QED
  BY <1>1, <1>4 DEF Good

\* And there is no zone with a better one.
LEMMA PassedBest ==
    ASSUME NEW name \in Seq(Labels)
    PROVE  \A n \in 1 .. Len(name) : \A z \in Passed(name)[n], y \in Zone :
               CoversTail(y, name, n) => ~BeatsTail(y, z, name, n)
<1> DEFINE l == Len(name)
           Good == {n \in 0 .. l : n = 0 \/ \A z \in Passed(name)[n], y \in Zone :
                                        CoversTail(y, name, n) => ~BeatsTail(y, z, name, n)}
<1>1. l \in Nat
  OBVIOUS
<1>2. 0 \in Good
  BY <1>1
<1>3. ASSUME NEW n \in 1 .. l, n - 1 \in Good PROVE n \in Good
  <2>1. SUFFICES ASSUME NEW z \in Passed(name)[n], NEW y \in Zone,
                        CoversTail(y, name, n), BeatsTail(y, z, name, n)
                 PROVE  FALSE
    BY <1>1
  <2> DEFINE label == name[l - n + 1]
             py == ZoneTable[y].parent
             pz == ZoneTable[z].parent
  <2>2. Picked(z, Passed(name)[n - 1], label) /\ CoversTail(z, name, n)
    BY StepFacts, PassedCovers
  <2>3. z \in Zone /\ pz \in Passed(name)[n - 1]
    BY <2>2 DEF Picked
  <2>4. PICK i \in 1 .. n : /\ DomainName[y][i] = name[l - n + i]
                            /\ DomainName[z][i] # name[l - n + i]
                            /\ \A j \in i + 1 .. n : DomainName[y][j] = DomainName[z][j]
    BY <2>1 DEF BeatsTail
  <2>5. i = 1 => ZoneTable[y].label = label /\ ZoneTable[z].label # label
    <3>1. DomainName[y][1] = ZoneTable[y].label /\ DomainName[z][1] = ZoneTable[z].label
      BY <2>3, NameParts
    <3> QED
      BY <2>4, <3>1
  <2>6. ~(i = 1 /\ py = pz)
    BY <2>2, <2>5 DEF Picked
  <2>7. CASE n = 1
    <3>1. ~(n > 1)
      BY <2>7
    <3>2. py = NoZone
      BY <2>1, <3>1, TailStep
    <3>3. pz = NoZone
      BY <2>2, <2>3, <3>1, TailStep
    <3>4. i = 1
      BY <2>7
    <3> QED
      BY <2>6, <3>2, <3>3, <3>4
  <2>8. CASE n # 1
    <3>1. n - 1 \in 1 .. l /\ n > 1
      BY <1>1, <2>8
    <3>2. /\ py \in Zone /\ CoversTail(py, name, n - 1)
          /\ pz \in Zone /\ CoversTail(pz, name, n - 1)
      <4>1. n # 1
        BY <2>8
      <4>2. py \in Zone /\ CoversTail(py, name, n - 1)
        BY <2>1, <4>1, TailStep
      <4>3. pz \in Zone /\ CoversTail(pz, name, n - 1)
        BY <2>2, <2>3, <4>1, TailStep
      <4> QED
        BY <4>2, <4>3
    <3> DEFINE uy == DomainName[py]
               uz == DomainName[pz]
    <3>3. /\ uy \in Seq(Labels) /\ Len(uy) = n - 1
          /\ uz \in Seq(Labels) /\ Len(uz) = n - 1
      BY <3>2, NameFacts DEF CoversTail
    <3>4. uy = Above(y) /\ uz = Above(z)
      BY <3>2, ZoneFacts DEF Above, NoZone
    <3>5. \A j \in 1 .. n - 1 : DomainName[y][j + 1] = uy[j] /\ DomainName[z][j + 1] = uz[j]
      BY <2>3, <3>3, <3>4, NameParts
    <3>6. CASE i = 1
      <4>1. \A j \in 1 .. n - 1 : uy[j] = uz[j]
        <5> TAKE j \in 1 .. n - 1
        <5>1. j + 1 \in i + 1 .. n
          BY <1>1, <3>6
        <5> QED
          BY <2>4, <3>5, <5>1
      <4> HIDE DEF uy, uz
      <4>2. uy = uz
        BY <1>1, <3>3, <4>1
      <4> QED
        BY <2>6, <3>2, <3>6, <4>2, NamesDiffer DEF uy, uz
    <3>7. CASE i # 1
      <4>1. i - 1 \in 1 .. n - 1 /\ (i - 1) + 1 = i /\ l - (n - 1) + (i - 1) = l - n + i
        BY <1>1, <3>7
      <4>2. uy[i - 1] = name[l - (n - 1) + (i - 1)] /\ uz[i - 1] # name[l - (n - 1) + (i - 1)]
        BY <2>4, <3>5, <4>1
      <4>3. \A j \in (i - 1) + 1 .. n - 1 : uy[j] = uz[j]
        <5> TAKE j \in (i - 1) + 1 .. n - 1
        <5>1. j + 1 \in i + 1 .. n /\ j \in 1 .. n - 1
          BY <1>1, <3>7
        <5> QED
          BY <2>4, <3>5, <5>1
      <4>4. BeatsTail(py, pz, name, n - 1)
        BY <4>1, <4>2, <4>3 DEF BeatsTail
      <4>5. n - 1 # 0 /\ pz \in Passed(name)[n - 1]
        BY <2>3, <3>1
      <4> QED
        BY <1>3, <3>2, <4>4, <4>5
    <3> QED
      BY <3>6, <3>7
  <2> QED
    BY <2>7, <2>8
<1> HIDE DEF Good
<1>4. \A n \in 0 .. l : n \in Good
  <2> HIDE DEF l
  <2> QED
    BY <1>1, <1>2, <1>3, UpTo
<1> QED
  BY <1>1, <1>4 DEF Good

\* Lookup finds the zone with the best name.
LEMMA LookupIsBest ==
    ASSUME NEW name \in Seq(Labels), Lookup(name) # NoZone
    PROVE  /\ Covers(Lookup(name), name)
           /\ \A y \in Zone : Covers(y, name) => ~Beats(y, Lookup(name), name)
<1> DEFINE l == Len(name)
           z == Lookup(name)
<1>1. l \in 1 .. l /\ l \in Nat /\ DOMAIN name = 1 .. l
  BY LookupFacts
<1>2. z \in Passed(name)[l]
  BY LookupFacts
<1>3. ASSUME NEW i \in 1 .. l PROVE l - l + i = i
  BY <1>1
<1>4. ASSUME NEW y PROVE CoversTail(y, name, l) <=> Covers(y, name)
  BY <1>1, <1>3 DEF CoversTail, Covers
<1>5. ASSUME NEW y PROVE Beats(y, z, name) => BeatsTail(y, z, name, l)
  BY <1>1, <1>3 DEF BeatsTail, Beats
<1>6. CoversTail(z, name, l)
  BY <1>1, <1>2, PassedCovers
<1>7. \A y \in Zone : CoversTail(y, name, l) => ~BeatsTail(y, z, name, l)
  BY <1>1, <1>2, PassedBest
<1> QED
  BY <1>4, <1>5, <1>6, <1>7

\* A bounded set of numbers has a greatest element.
LEMMA MaxFacts ==
    ASSUME NEW n \in Nat, NEW S \in SUBSET (0 .. n), S # {}
    PROVE  Max(S) \in S /\ \A x \in S : Max(S) >= x
<1> DEFINE T == {m \in Nat : \E x \in S : m = n - x}
<1>1. T \in SUBSET Nat /\ T # {}
  <2>1. PICK x \in S : TRUE
    OBVIOUS
  <2>2. n - x \in Nat
    OBVIOUS
  <2> QED
    BY <2>2
<1> HIDE DEF T
<1>2. PICK m \in T : \A k \in T : m <= k
  BY <1>1, LeastNumber
<1>3. PICK x \in S : m = n - x
  BY <1>2 DEF T
<1>4. ASSUME NEW y \in S PROVE x >= y
  <2>1. n - y \in T
    BY DEF T
  <2>2. m <= n - y
    BY <1>2, <2>1
  <2> QED
    BY <1>3, <2>2
<1> QED
  BY <1>4 DEF Max

\* A name that is denied is within a zone we are authorative for.
LEMMA DeniedIsOurs ==
    ASSUME NEW name \in Seq(Labels), AuthorativeDuringLookup(name)
    PROVE  \E z \in Zone : ZoneTable[z].authorative /\ Encloses(z, name)
<1> DEFINE l == Len(name)
           passed == UNION {Passed(name)[n] : n \in 1 .. l}
<1>1. passed # {} /\ ZoneTable[Max(passed)].authorative
  BY DEF AuthorativeDuringLookup
<1>2. l \in Nat /\ DOMAIN name = 1 .. l
  OBVIOUS
<1>3. passed \subseteq Zone
  <2>1. ASSUME NEW n \in 1 .. l, NEW z \in Passed(name)[n] PROVE z \in Zone
    BY StepFacts DEF Picked
  <2> QED
    BY <2>1
<1>4. Max(passed) \in passed
  <2> HIDE DEF passed
  <2>1. passed \in SUBSET (0 .. Len(ZoneTable)) /\ Len(ZoneTable) \in Nat
    BY <1>3, ZoneFacts
  <2> QED
    BY <1>1, <2>1, MaxFacts
<1>5. PICK n \in 1 .. l : Max(passed) \in Passed(name)[n]
  BY <1>4
<1> DEFINE z == Max(passed)
           at == l - n + 1
           tail == SubSeq(name, at, l)
<1>6. CoversTail(z, name, n)
  BY <1>5, PassedCovers
<1> HIDE DEF z
<1>7. at \in 1 .. l /\ l - at + 1 = n
  BY <1>2
<1>8. Len(tail) = n /\ \A i \in 1 .. n : tail[i] = name[l - n + i]
  <2>1. Len(tail) = n
    BY <1>2, <1>7
  <2>2. ASSUME NEW i \in 1 .. n PROVE tail[i] = name[l - n + i]
    <3>1. tail[i] = name[at + i - 1]
      BY <1>2, <1>7
    <3>2. at + i - 1 = l - n + i
      BY <1>2
    <3> QED
      BY <3>1, <3>2
  <2> QED
    BY <2>1, <2>2
<1>9. DOMAIN tail = 1 .. n
  <2>1. tail \in Seq(Labels)
    BY <1>2, <1>7
  <2> HIDE DEF tail
  <2> QED
    BY <1>8, <2>1
<1> HIDE DEF tail
<1>10. Covers(z, tail)
  BY <1>6, <1>8, <1>9 DEF CoversTail, Covers
<1>11. Encloses(z, name)
  BY <1>2, <1>7, <1>10 DEF Encloses, tail
<1> QED
  BY <1>1, <1>3, <1>4, <1>11 DEF z
-----------------------------------------------------------------------------
(***************************************************************************)
(* GetSoaZone.                                                             *)
(***************************************************************************)
\* The equations of Ancestry, for the first m zones.
IsAncestry(g, m) ==
    g = [z \in 1 .. m |-> {z} \cup
            (IF ZoneTable[z].parent = NoZone THEN {} ELSE g[ZoneTable[z].parent])]

\* They have a solution.
LEMMA AncestryExists == \E g : IsAncestry(g, Len(ZoneTable))
<1> DEFINE n == Len(ZoneTable)
           Good == {m \in 0 .. n : \E g : IsAncestry(g, m)}
           Step(g, z) == {z} \cup
               (IF ZoneTable[z].parent = NoZone THEN {} ELSE g[ZoneTable[z].parent])
<1>1. n \in Nat
  BY ZoneFacts
<1>2. 0 \in Good
  <2> DEFINE g == [z \in 1 .. 0 |-> {}]
  <2>1. IsAncestry(g, 0)
    BY DEF IsAncestry
  <2> HIDE DEF g
  <2> QED
    BY <1>1, <2>1
<1>3. ASSUME NEW m \in 1 .. n, m - 1 \in Good PROVE m \in Good
  <2>1. PICK g : IsAncestry(g, m - 1)
    BY <1>3
  <2> DEFINE h == [z \in 1 .. m |-> IF z = m THEN Step(g, m) ELSE g[z]]
  <2>2. \A z \in 1 .. m - 1 : g[z] = Step(g, z)
    BY <2>1 DEF IsAncestry
  <2>3. \A z \in 1 .. m - 1 : h[z] = g[z]
    OBVIOUS
  <2>4. \A z \in 1 .. m : ZoneTable[z].parent = NoZone \/ ZoneTable[z].parent \in 1 .. m - 1
    BY <1>1, ZoneFacts DEF NoZone
  <2>5. ASSUME NEW z \in 1 .. m PROVE h[z] = Step(h, z)
    <3>1. Step(h, z) = Step(g, z)
      BY <2>3, <2>4
    <3>2. h[z] = Step(g, z)
      BY <2>2
    <3> QED
      BY <3>1, <3>2
  <2>6. h = [z \in 1 .. m |-> Step(h, z)]
    BY <2>5
  <2>7. IsAncestry(h, m)
    BY <2>6 DEF IsAncestry
  <2> HIDE DEF h
  <2> QED
    BY <2>7
<1> HIDE DEF Good, n
<1>4. n \in Good
  <2>1. \A i \in 0 .. n : i \in Good
    BY <1>1, <1>2, <1>3, UpTo
  <2>2. n \in 0 .. n
    BY <1>1
  <2> QED
    BY <2>1, <2>2
<1> QED
  BY <1>4 DEF Good, n

\* Ancestry is what its definition says; a zone comes after its ancestors.
LEMMA AncestryFacts ==
    \A z \in Zone :
        /\ Ancestry[z] = {z} \cup (IF ZoneTable[z].parent = NoZone THEN {}
                                  ELSE Ancestry[ZoneTable[z].parent])
        /\ Ancestry[z] \subseteq 1 .. z
<1> DEFINE n == Len(ZoneTable)
           Rest(z) == IF ZoneTable[z].parent = NoZone THEN {} ELSE Ancestry[ZoneTable[z].parent]
<1>1. n \in Nat /\ Zone = 1 .. n
  BY ZoneFacts
<1>2. IsAncestry(Ancestry, n)
  <2>1. PICK g : IsAncestry(g, n)
    BY AncestryExists
  <2> QED
    BY <1>1, <2>1 DEF IsAncestry, Ancestry
<1>3. \A z \in 1 .. n : Ancestry[z] = {z} \cup Rest(z)
  BY <1>2 DEF IsAncestry
<1> DEFINE Good == {m \in 0 .. n : \A z \in 1 .. m : Ancestry[z] \subseteq 1 .. z}
<1>4. 0 \in Good
  BY <1>1
<1>5. ASSUME NEW m \in 1 .. n, m - 1 \in Good PROVE m \in Good
  <2>1. SUFFICES ASSUME NEW z \in 1 .. m PROVE Ancestry[z] \subseteq 1 .. z
    BY <1>1
  <2>2. \/ ZoneTable[z].parent = NoZone
        \/ ZoneTable[z].parent \in 1 .. m - 1 /\ ZoneTable[z].parent < z
    BY <1>1, ZoneFacts DEF NoZone
  <2>3. Rest(z) \subseteq 1 .. z
    <3>1. CASE ZoneTable[z].parent = NoZone
      BY <3>1
    <3>2. CASE ZoneTable[z].parent # NoZone
      <4> DEFINE p == ZoneTable[z].parent
      <4>1. p \in 1 .. m - 1 /\ p < z /\ Rest(z) = Ancestry[p]
        BY <2>2, <3>2
      <4>2. Ancestry[p] \subseteq 1 .. p
        BY <1>5, <4>1
      <4> QED
        BY <4>1, <4>2
    <3> QED
      BY <3>1, <3>2
  <2>4. Ancestry[z] = {z} \cup Rest(z)
    BY <1>1, <1>3
  <2> HIDE DEF Rest
  <2> QED
    BY <2>3, <2>4
<1> HIDE DEF Good
<1>6. \A m \in 0 .. n : m \in Good
  <2> HIDE DEF n
  <2> QED
    BY <1>1, <1>4, <1>5, UpTo
<1> QED
  BY <1>1, <1>3, <1>6 DEF Good

\* GetSoaZone finds the nearest zone with a SOA, unless it finds none or does not
\* end.
LEMMA SoaFacts ==
    ASSUME NEW z \in Zone
    PROVE  LET soa == GetSoaZone(z)
           IN  /\ soa \in Zone \cup {NoZone, Spins}
               /\ soa # Spins => (Owned(z) <=> soa # NoZone /\ ZoneTable[soa].authorative)
<1> DEFINE up == ZoneTable[z].parent
           soas == {x \in Ancestry[z] : ZoneTable[x].soa}
<1>1. /\ up \in Zone \cup {NoZone} /\ z \in Nat
      /\ \A x \in Zone : x \in Nat /\ x # NoZone
  BY ZoneFacts DEF NoZone
<1>2. z \in Ancestry[z] /\ \A x \in Ancestry[z] : x \in 1 .. z
  BY AncestryFacts
<1>3. ASSUME NEW m \in soas, \A x \in soas : m >= x PROVE Max(soas) = m
  <2>1. soas \subseteq Nat
    BY <1>2
  <2> HIDE DEF soas
  <2>2. Max(soas) \in soas /\ \A x \in soas : Max(soas) >= x
    BY <1>3 DEF Max
  <2>3. Max(soas) \in Nat /\ m \in Nat /\ Max(soas) >= m /\ m >= Max(soas)
    BY <1>3, <2>1, <2>2
  <2> QED
    BY <2>3
<1>4. CASE ZoneTable[z].soa
  <2>1. GetSoaZone(z) = z
    BY <1>4 DEF GetSoaZone
  <2>2. z \in soas /\ \A x \in soas : z >= x
    BY <1>2, <1>4
  <2>3. Max(soas) = z /\ soas # {}
    BY <1>3, <2>2
  <2>4. z # NoZone
    BY <1>1
  <2> QED
    BY <2>1, <2>3, <2>4 DEF Owned
<1>5. CASE ~ZoneTable[z].soa /\ up # NoZone /\ ZoneTable[up].soa
  <2>1. GetSoaZone(z) = up /\ up \in Zone
    BY <1>1, <1>5 DEF GetSoaZone
  <2>2. Ancestry[z] = {z} \cup Ancestry[up]
    BY <1>5, AncestryFacts
  <2>3. up \in Ancestry[up] /\ \A x \in Ancestry[up] : x \in 1 .. up
    BY <2>1, AncestryFacts
  <2>4. up \in soas /\ \A x \in soas : up >= x
    BY <1>1, <1>5, <2>1, <2>2, <2>3
  <2>5. Max(soas) = up /\ soas # {}
    BY <1>3, <2>4
  <2> QED
    BY <1>5, <2>1, <2>5 DEF Owned
<1>6. CASE ~ZoneTable[z].soa /\ up = NoZone
  <2>1. GetSoaZone(z) = NoZone
    BY <1>6 DEF GetSoaZone
  <2>2. Ancestry[z] = {z}
    BY <1>6, AncestryFacts
  <2>3. soas = {}
    BY <1>6, <2>2
  <2> QED
    BY <2>1, <2>3 DEF Owned
<1>7. CASE ~ZoneTable[z].soa /\ up # NoZone /\ ~ZoneTable[up].soa
  BY <1>7 DEF GetSoaZone
<1> QED
  BY <1>4, <1>5, <1>6, <1>7
-----------------------------------------------------------------------------
(***************************************************************************)
(* Lists of zones and of records.                                          *)
(***************************************************************************)

\* AddZone keeps what the list has and adds the zone, but no null pointer.
LEMMA AddZoneFacts ==
    ASSUME NEW list \in Seq(Zone), NEW z \in Zone \cup {NoZone}
    PROVE  /\ AddZone(list, z) \in Seq(Zone)
           /\ \A x : Contains(list, x) => Contains(AddZone(list, z), x)
           /\ z # NoZone => Contains(AddZone(list, z), z)
<1>1. CASE z = NoZone \/ Contains(list, z)
  BY <1>1 DEF AddZone
<1>2. CASE ~(z = NoZone \/ Contains(list, z))
  <2> DEFINE new == Append(list, z)
  <2>1. AddZone(list, z) = new /\ z \in Zone
    BY <1>2 DEF AddZone
  <2>2. /\ new \in Seq(Zone) /\ Len(new) = Len(list) + 1 /\ Len(list) \in Nat
        /\ new[Len(list) + 1] = z /\ \A i \in 1 .. Len(list) : new[i] = list[i]
    BY <2>1
  <2> HIDE DEF new
  <2>3. Contains(new, z)
    <3>1. Len(list) + 1 \in 1 .. Len(new)
      BY <2>2
    <3> QED
      BY <2>2, <3>1 DEF Contains
  <2>4. ASSUME NEW x, Contains(list, x) PROVE Contains(new, x)
    <3>1. PICK i \in 1 .. Len(list) : list[i] = x
      BY <2>4 DEF Contains
    <3>2. i \in 1 .. Len(new) /\ new[i] = x
      BY <2>2, <3>1
    <3> QED
      BY <3>2 DEF Contains
  <2> QED
    BY <2>1, <2>2, <2>3, <2>4
<1> QED
  BY <1>1, <1>2

\* The equations of AddZones, for the first m zones.
IsAdded(g, list, zones, m) ==
    g = [i \in 0 .. m |-> IF i = 0 THEN list ELSE AddZone(g[i - 1], zones[i])]

\* They have a solution.
LEMMA AddedExists ==
    ASSUME NEW list, NEW zones, NEW l \in Nat
    PROVE  \E g : IsAdded(g, list, zones, l)
<1> DEFINE Good == {m \in 0 .. l : \E g : IsAdded(g, list, zones, m)}
<1>1. 0 \in Good
  <2> DEFINE g == [i \in 0 .. 0 |-> list]
  <2>1. IsAdded(g, list, zones, 0)
    BY DEF IsAdded
  <2> HIDE DEF g
  <2> QED
    BY <2>1
<1>2. ASSUME NEW m \in 1 .. l, m - 1 \in Good PROVE m \in Good
  <2>1. PICK g : IsAdded(g, list, zones, m - 1)
    BY <1>2
  <2> DEFINE h == [i \in 0 .. m |-> IF i = m THEN AddZone(g[m - 1], zones[m]) ELSE g[i]]
  <2>2. \A i \in 0 .. m - 1 : g[i] = IF i = 0 THEN list ELSE AddZone(g[i - 1], zones[i])
    BY <2>1 DEF IsAdded
  <2>3. ASSUME NEW i \in 0 .. m
        PROVE  h[i] = IF i = 0 THEN list ELSE AddZone(h[i - 1], zones[i])
    <3>1. CASE i = m
      BY <3>1
    <3>2. CASE i # m /\ i = 0
      <4>1. 0 \in 0 .. m - 1
        OBVIOUS
      <4>2. h[0] = g[0] /\ g[0] = list
        BY <2>2, <3>2, <4>1
      <4> QED
        BY <3>2, <4>2
    <3>3. CASE i # m /\ i # 0
      <4>1. i \in 0 .. m - 1 /\ i - 1 \in 0 .. m - 1 /\ i - 1 # m
        BY <3>3
      <4> QED
        BY <2>2, <3>3, <4>1
    <3> QED
      BY <3>1, <3>2, <3>3
  <2>4. IsAdded(h, list, zones, m)
    BY <2>3 DEF IsAdded
  <2> HIDE DEF h
  <2> QED
    BY <2>4
<1> HIDE DEF Good
<1>3. l \in Good
  <2>1. \A i \in 0 .. l : i \in Good
    BY <1>1, <1>2, UpTo
  <2>2. l \in 0 .. l
    OBVIOUS
  <2> QED
    BY <2>1, <2>2
<1> QED
  BY <1>3 DEF Good

\* AddZones adds all the zones of a list that are there.
LEMMA AddZonesFacts ==
    ASSUME NEW list \in Seq(Zone), NEW zones \in Seq(Zone \cup {NoZone})
    PROVE  /\ AddZones(list, zones) \in Seq(Zone)
           /\ \A x : Contains(list, x) => Contains(AddZones(list, zones), x)
           /\ \A i \in DOMAIN zones : zones[i] # NoZone => Contains(AddZones(list, zones), zones[i])
           /\ zones = <<>> => AddZones(list, zones) = list
<1> DEFINE l == Len(zones)
           g == CHOOSE g : g = [i \in 0 .. l |-> IF i = 0 THEN list
                                                  ELSE AddZone(g[i - 1], zones[i])]
<1>1. l \in Nat /\ DOMAIN zones = 1 .. l /\ \A i \in 1 .. l : zones[i] \in Zone \cup {NoZone}
  OBVIOUS
<1>2. IsAdded(g, list, zones, l)
  <2>1. PICK f : IsAdded(f, list, zones, l)
    BY <1>1, AddedExists
  <2> QED
    BY <2>1 DEF IsAdded
<1>3. AddZones(list, zones) = g[l]
  BY DEF AddZones
<1> HIDE DEF g
<1>4. \A i \in 0 .. l : g[i] = IF i = 0 THEN list ELSE AddZone(g[i - 1], zones[i])
  BY <1>2 DEF IsAdded
<1> DEFINE Has(i) == /\ g[i] \in Seq(Zone)
                     /\ \A x : Contains(list, x) => Contains(g[i], x)
                     /\ \A j \in 1 .. i : zones[j] # NoZone => Contains(g[i], zones[j])
           Good == {i \in 0 .. l : Has(i)}
<1>5. 0 \in Good
  <2>1. g[0] = list
    BY <1>1, <1>4
  <2> QED
    BY <1>1, <2>1
<1>6. ASSUME NEW i \in 1 .. l, i - 1 \in Good PROVE i \in Good
  <2>1. /\ g[i - 1] \in Seq(Zone)
        /\ \A x : Contains(list, x) => Contains(g[i - 1], x)
        /\ \A j \in 1 .. i - 1 : zones[j] # NoZone => Contains(g[i - 1], zones[j])
    BY <1>6
  <2>2. g[i] = AddZone(g[i - 1], zones[i])
    <3>1. i \in 0 .. l /\ i # 0
      BY <1>1
    <3> QED
      BY <1>4, <3>1
  <2>3. /\ g[i] \in Seq(Zone)
        /\ \A x : Contains(g[i - 1], x) => Contains(g[i], x)
        /\ zones[i] # NoZone => Contains(g[i], zones[i])
    BY <1>1, <2>1, <2>2, AddZoneFacts
  <2>4. \A j \in 1 .. i : j = i \/ j \in 1 .. i - 1
    BY <1>1
  <2> QED
    BY <1>1, <2>1, <2>3, <2>4
<1> HIDE DEF Good
<1>7. \A i \in 0 .. l : i \in Good
  <2> HIDE DEF l
  <2> QED
    BY <1>1, <1>5, <1>6, UpTo
<1>8. Has(l)
  BY <1>1, <1>7 DEF Good
<1>9. zones = <<>> => g[l] = list
  <2>1. zones = <<>> => l = 0
    OBVIOUS
  <2>2. g[0] = list
    BY <1>1, <1>4
  <2> QED
    BY <2>1, <2>2
<1> QED
  BY <1>1, <1>3, <1>8, <1>9

\* The equations of FlattenSeq, for the first m sequences.
IsFlat(g, seqs, m) ==
    g = [i \in 1 .. m |-> IF i = 1 THEN seqs[i] ELSE g[i - 1] \o seqs[i]]

\* They have a solution.
LEMMA FlatExists ==
    ASSUME NEW seqs, NEW l \in Nat
    PROVE  \E g : IsFlat(g, seqs, l)
<1> DEFINE Good == {m \in 0 .. l : \E g : IsFlat(g, seqs, m)}
<1>1. 0 \in Good
  <2> DEFINE g == [i \in 1 .. 0 |-> <<>>]
  <2>1. IsFlat(g, seqs, 0)
    BY DEF IsFlat
  <2> HIDE DEF g
  <2> QED
    BY <2>1
<1>2. ASSUME NEW m \in 1 .. l, m - 1 \in Good PROVE m \in Good
  <2>1. PICK g : IsFlat(g, seqs, m - 1)
    BY <1>2
  <2> DEFINE last == IF m = 1 THEN seqs[m] ELSE g[m - 1] \o seqs[m]
             h == [i \in 1 .. m |-> IF i = m THEN last ELSE g[i]]
  <2>2. \A i \in 1 .. m - 1 : g[i] = IF i = 1 THEN seqs[i] ELSE g[i - 1] \o seqs[i]
    BY <2>1 DEF IsFlat
  <2>3. ASSUME NEW i \in 1 .. m
        PROVE  h[i] = IF i = 1 THEN seqs[i] ELSE h[i - 1] \o seqs[i]
    <3>1. CASE i = m
      <4>1. h[i] = last
        BY <3>1
      <4>2. m # 1 => h[m - 1] = g[m - 1]
        OBVIOUS
      <4> QED
        BY <3>1, <4>1, <4>2
    <3>2. CASE i # m
      <4>1. i \in 1 .. m - 1 /\ (i # 1 => i - 1 \in 1 .. m - 1 /\ i - 1 # m)
        BY <3>2
      <4>2. h[i] = g[i] /\ (i # 1 => h[i - 1] = g[i - 1])
        BY <3>2, <4>1
      <4> HIDE DEF h
      <4> QED
        BY <2>2, <4>1, <4>2
    <3> QED
      BY <3>1, <3>2
  <2>4. h = [i \in 1 .. m |-> IF i = 1 THEN seqs[i] ELSE h[i - 1] \o seqs[i]]
    BY <2>3
  <2>5. IsFlat(h, seqs, m)
    BY <2>4 DEF IsFlat
  <2> HIDE DEF h
  <2> QED
    BY <2>5
<1> HIDE DEF Good
<1>3. l \in Good
  <2>1. \A i \in 0 .. l : i \in Good
    BY <1>1, <1>2, UpTo
  <2>2. l \in 0 .. l
    OBVIOUS
  <2> QED
    BY <2>1, <2>2
<1> QED
  BY <1>3 DEF Good

\* What stands in one of the sequences stands in all of them together.
LEMMA FlatFacts ==
    ASSUME NEW S, NEW seqs \in Seq(Seq(S))
    PROVE  /\ FlattenSeq(seqs) \in Seq(S)
           /\ \A i \in DOMAIN seqs : \A j \in DOMAIN seqs[i] :
                  Contains(FlattenSeq(seqs), seqs[i][j])
<1> DEFINE l == Len(seqs)
           g == CHOOSE g : g = [i \in 1 .. l |-> IF i = 1 THEN seqs[i]
                                                  ELSE g[i - 1] \o seqs[i]]
<1>1. l \in Nat /\ DOMAIN seqs = 1 .. l /\ \A i \in 1 .. l : seqs[i] \in Seq(S)
  OBVIOUS
<1>2. CASE l = 0
  <2>1. seqs = <<>> /\ FlattenSeq(seqs) = <<>>
    BY <1>2 DEF FlattenSeq
  <2>2. <<>> \in Seq(S) /\ \A i \in DOMAIN seqs : FALSE
    BY <1>1, <1>2
  <2> QED
    BY <2>1, <2>2
<1>3. CASE l # 0
  <2>1. IsFlat(g, seqs, l)
    <3>1. PICK f : IsFlat(f, seqs, l)
      BY <1>1, FlatExists
    <3> QED
      BY <3>1 DEF IsFlat
  <2>2. FlattenSeq(seqs) = g[l]
    BY <1>3 DEF FlattenSeq
  <2> HIDE DEF g
  <2>3. \A i \in 1 .. l : g[i] = IF i = 1 THEN seqs[i] ELSE g[i - 1] \o seqs[i]
    BY <2>1 DEF IsFlat
  <2> DEFINE All(i) == /\ g[i] \in Seq(S)
                       /\ \A k \in 1 .. i : \A j \in DOMAIN seqs[k] : Contains(g[i], seqs[k][j])
             Good == {i \in 0 .. l : i = 0 \/ All(i)}
  <2>4. 0 \in Good
    BY <1>1
  <2>5. ASSUME NEW i \in 1 .. l, i - 1 \in Good PROVE i \in Good
    <3>1. CASE i = 1
      <4>1. g[1] = seqs[1] /\ seqs[1] \in Seq(S)
        BY <1>1, <2>3, <3>1
      <4>2. \A j \in DOMAIN seqs[1] : Contains(g[1], seqs[1][j])
        <5> DEFINE t == seqs[1]
        <5> HIDE DEF t
        <5>1. t \in Seq(S) /\ g[1] = t
          BY <4>1 DEF t
        <5>2. \A j \in DOMAIN t : j \in 1 .. Len(t)
          BY <5>1
        <5> QED
          BY <5>1, <5>2 DEF Contains, t
      <4>3. \A k \in 1 .. i : k = 1
        BY <3>1
      <4>4. All(i)
        BY <3>1, <4>1, <4>2, <4>3
      <4> HIDE DEF All
      <4> QED
        BY <1>1, <4>4
    <3>2. CASE i # 1
      <4> DEFINE s == g[i - 1]
                 t == seqs[i]
      <4>1. s \in Seq(S) /\ \A k \in 1 .. i - 1 : \A j \in DOMAIN seqs[k] : Contains(s, seqs[k][j])
        <5>1. i - 1 # 0
          BY <3>2
        <5> QED
          BY <2>5, <5>1
      <4>2. t \in Seq(S) /\ g[i] = s \o t
        BY <1>1, <2>3, <3>2
      <4> HIDE DEF s
      <4>3. ASSUME NEW x, Contains(s, x) PROVE Contains(g[i], x)
        <5>1. PICK k \in 1 .. Len(s) : s[k] = x
          BY <4>3 DEF Contains
        <5>2. k \in 1 .. Len(s \o t) /\ (s \o t)[k] = x
          BY <4>1, <4>2, <5>1
        <5> QED
          BY <4>2, <5>2 DEF Contains
      <4>4. ASSUME NEW j \in DOMAIN t PROVE Contains(g[i], t[j])
        <5>1. Len(s) \in Nat /\ Len(t) \in Nat /\ j \in 1 .. Len(t)
          BY <4>1, <4>2
        <5>2. Len(s) + j \in 1 .. Len(s \o t) /\ (s \o t)[Len(s) + j] = t[j]
          <6> HIDE DEF t
          <6> QED
            BY <4>1, <4>2, <5>1
        <5> QED
          BY <4>2, <5>2 DEF Contains
      <4>5. g[i] \in Seq(S)
        <5> HIDE DEF t
        <5> QED
          BY <4>1, <4>2
      <4>6. \A k \in 1 .. i : k = i \/ k \in 1 .. i - 1
        BY <1>1
      <4>7. All(i)
        BY <4>1, <4>3, <4>4, <4>5, <4>6
      <4> HIDE DEF All
      <4> QED
        BY <1>1, <4>7
    <3> QED
      BY <3>1, <3>2
  <2> HIDE DEF Good
  <2>6. \A i \in 0 .. l : i \in Good
    <3> HIDE DEF l
    <3> QED
      BY <1>1, <2>4, <2>5, UpTo
  <2>7. All(l)
    BY <1>1, <1>3, <2>6 DEF Good
  <2> QED
    BY <1>1, <2>2, <2>7
<1> QED
  BY <1>2, <1>3
-----------------------------------------------------------------------------
(***************************************************************************)
(* The invariant.                                                          *)
(***************************************************************************)
AnyRecord ==
    [section : Sections, type : {"A", "NS", "CNAME", "SOA", "MX"}, owner : Seq(Labels),
     data : Seq(Labels) \cup (Zone \X Nat)]

\* An address in the answer section is that of the best match for its owner.
Best(r) ==
    r.section = "answer" /\ r.type = "A" =>
        /\ Covers(r.data[1], r.owner)
        /\ \A y \in Zone : Covers(y, r.owner) => ~Beats(y, r.data[1], r.owner)

\* The server that the record names is noted for the additional section.
Noted(r, zones) ==
    r.type \in {"NS", "MX"} => Lookup(r.data) = NoZone \/ Contains(zones, Lookup(r.data))

Fine(zones) == {r \in AnyRecord : Best(r) /\ Noted(r, zones)}
FineIn(section, zones) == {r \in Fine(zones) : r.section = section}

Types ==
    /\ pc \in {"receiving", "rejecting", "copying", "spinning", "sending", "ending", "ended"}
              \cup Sections
    /\ query \in Queries \cup {NoQuery}
    /\ questions \in Seq(Question)
    /\ size \in 0 .. MaxReply
    /\ num \in [Sections -> Nat]
    /\ current \in 0 .. Len(questions)
    /\ authorative \in BOOLEAN
    /\ authorative_zones \in Seq(Zone)
    /\ ns_zones \in Seq(Zone)
    /\ state \in {"UNSET", "BAD", "SUCESS"}
    /\ records \in Seq(Fine(ns_zones))

\* What is yet to be stored belongs to the section that is being written.
InOrder == IF pc \in Sections THEN todo \in Seq(FineIn(pc, ns_zones)) ELSE todo = <<>>

Counted == \A s \in Sections : num[s] = Cardinality(InSection(s))

\* Every question that was copied is the first one of the query.
Asked == \A i \in DOMAIN questions : questions[i] = query.questions[1]

\* The AA flag is kept exactly as long as every question so far is about a name of ours.
Aa == authorative <=> \A i \in 1 .. current : Owned(Lookup(questions[i].name))

\* Records are written when all the questions are copied, and the last two sections
\* when all of them are processed.
Whole ==
    /\ pc \in Sections => Len(questions) = query.qdcount
    /\ pc \in {"authority", "additional"} => current = Len(questions)
    /\ pc = "answer" /\ todo # <<>> => current # 0

\* Without a question there is nothing to write.
Empty ==
    questions = <<>> /\ pc \in {"copying", "sending"} \cup Sections =>
        /\ size = HeaderSize /\ records = <<>> /\ todo = <<>>
        /\ authorative_zones = <<>> /\ ns_zones = <<>>

Headed == pc = "sending" =>
    /\ header.counts = num /\ header.qdcount = Len(questions)
    /\ questions # <<>> => header.aa = authorative /\ current # 0
    /\ questions = <<>> /\ query.qdcount > 0 /\ header.rcode = "NAME_ERROR" =>
          \E z \in Zone : ZoneTable[z].authorative /\ Encloses(z, query.questions[1].name)

\* The n-th address of a zone is in the additional section, or will be.
Given(z, n) ==
    \E j \in DOMAIN records : /\ records[j].section = "additional"
                              /\ records[j].owner = DomainName[z] /\ records[j].data = <<z, n>>
ToGive(z, n) == \E j \in DOMAIN todo : todo[j].owner = DomainName[z] /\ todo[j].data = <<z, n>>

Glue ==
    /\ pc = "additional" => \A z \in Zone : Contains(ns_zones, z) =>
          \A n \in 1 .. ZoneTable[z].a : Given(z, n) \/ ToGive(z, n)
    /\ pc = "sending" /\ questions # <<>> /\ ~header.tc =>
          \A z \in Zone : Contains(ns_zones, z) => \A n \in 1 .. ZoneTable[z].a : Given(z, n)

Inv == Types /\ InOrder /\ Counted /\ Asked /\ Aa /\ Whole /\ Empty /\ Headed /\ Glue
-----------------------------------------------------------------------------
(***************************************************************************)
(* The records of the three sections.                                      *)
(***************************************************************************)

\* The fields of a zone.
LEMMA FieldFacts ==
    ASSUME NEW z \in Zone
    PROVE  /\ ZoneTable[z].a \in Nat
           /\ ZoneTable[z].ns \in Seq(Labels) /\ ZoneTable[z].mx \in Seq(Labels)
           /\ ZoneTable[z].cname \in Seq(Labels)
<1>1. ZoneTable[z] \in ZoneRecord
  BY ZoneFacts
<1> QED
  BY <1>1 DEF ZoneRecord

\* The parts of a record.
LEMMA RecordParts ==
    ASSUME NEW section, NEW type, NEW owner, NEW data
    PROVE  LET r == Record(section, type, owner, data)
           IN  r.section = section /\ r.type = type /\ r.owner = owner /\ r.data = data
BY DEF Record

\* A record of known parts is a record.
LEMMA RecordTyped ==
    ASSUME NEW section \in Sections, NEW type \in {"A", "NS", "CNAME", "SOA", "MX"},
           NEW owner \in Seq(Labels), NEW data \in Seq(Labels) \cup (Zone \X Nat)
    PROVE  Record(section, type, owner, data) \in AnyRecord
BY DEF Record, AnyRecord

\* Names of servers and aliases are names.
LEMMA FullNames ==
    ASSUME NEW z \in Zone
    PROVE  /\ FullCname(z) \in Seq(Labels)
           /\ \A label \in Labels : Fdqn(label, z) \in Seq(Labels)
<1>1. ZoneTable[z].cname \in Seq(Labels) /\ DomainName[z] \in Seq(Labels)
  BY FieldFacts, NameFacts
<1>2. \A label \in Labels : Fdqn(label, z) \in Seq(Labels)
  BY <1>1 DEF Fdqn
<1> DEFINE up == ZoneTable[z].parent
           base == IF ZoneTable[z].cname_absolute \/ up = NoZone THEN <<>> ELSE DomainName[up]
<1>3. base \in Seq(Labels)
  <2>1. up \in Zone \cup {NoZone}
    BY ZoneFacts
  <2>2. up # NoZone => DomainName[up] \in Seq(Labels)
    BY <2>1, NameFacts
  <2> QED
    BY <2>2
<1>4. FullCname(z) = ZoneTable[z].cname \o base
  BY DEF FullCname
<1> HIDE DEF base
<1> QED
  BY <1>1, <1>2, <1>3, <1>4

\* A record that names a server is fine once the server's zone is noted.
LEMMA ServerFine ==
    ASSUME NEW section \in Sections, NEW type \in {"NS", "CNAME", "SOA", "MX"},
           NEW owner \in Seq(Labels), NEW data \in Seq(Labels), NEW zones,
           type \in {"NS", "MX"} => Lookup(data) = NoZone \/ Contains(zones, Lookup(data))
    PROVE  Record(section, type, owner, data) \in FineIn(section, zones)
<1> DEFINE r == Record(section, type, owner, data)
<1>1. r \in AnyRecord
  BY RecordTyped
<1>2. r.section = section /\ r.type = type /\ r.owner = owner /\ r.data = data
  BY RecordParts
<1> HIDE DEF r
<1>3. Best(r)
  BY <1>2 DEF Best
<1>4. Noted(r, zones)
  BY <1>2 DEF Noted
<1> QED
  BY <1>1, <1>2, <1>3, <1>4 DEF FineIn, Fine, r

\* A function on 1 .. n is a list of its values.
LEMMA ListOf ==
    ASSUME NEW S, NEW n \in Nat, NEW f, f = [i \in 1 .. n |-> f[i]],
           \A i \in 1 .. n : f[i] \in S
    PROVE  f \in Seq(S) /\ Len(f) = n /\ DOMAIN f = 1 .. n
<1>1. f \in [1 .. n -> S]
  OBVIOUS
<1>2. f \in Seq(S)
  BY <1>1
<1> QED
  BY <1>1, <1>2

\* The addresses of a zone are fine under the name that leads to the zone, and
\* outside the answer section under any name.
LEMMA AddressesFine ==
    ASSUME NEW section \in Sections, NEW owner \in Seq(Labels),
           NEW z \in Zone \cup {NoZone}, section # "answer" \/ z = Lookup(owner), NEW zones
    PROVE  Addresses(section, owner, z) \in Seq(FineIn(section, zones))
<1>1. CASE z = NoZone
  BY <1>1 DEF Addresses
<1>2. CASE z # NoZone
  <2>1. z \in Zone /\ ZoneTable[z].a \in Nat
    BY <1>2, FieldFacts
  <2>2. ASSUME NEW i \in 1 .. ZoneTable[z].a
        PROVE  Record(section, "A", owner, <<z, i>>) \in FineIn(section, zones)
    <3> DEFINE r == Record(section, "A", owner, <<z, i>>)
    <3>1. <<z, i>> \in Zone \X Nat /\ <<z, i>>[1] = z
      BY <2>1
    <3>2. r \in AnyRecord
      BY <3>1, RecordTyped
    <3>3. r.section = section /\ r.type = "A" /\ r.owner = owner /\ r.data = <<z, i>>
      BY RecordParts
    <3> HIDE DEF r
    <3>4. section = "answer" => /\ Covers(z, owner)
                                /\ \A y \in Zone : Covers(y, owner) => ~Beats(y, z, owner)
      BY <1>2, LookupIsBest
    <3>5. r.data[1] = z
      BY <3>1, <3>3
    <3>6. Best(r)
      BY <3>3, <3>4, <3>5 DEF Best
    <3>7. Noted(r, zones)
      BY <3>3 DEF Noted
    <3> QED
      BY <3>2, <3>3, <3>6, <3>7 DEF FineIn, Fine, r
  <2>3. Addresses(section, owner, z)
            = [i \in 1 .. ZoneTable[z].a |-> Record(section, "A", owner, <<z, i>>)]
    BY <1>2 DEF Addresses
  <2> DEFINE f == Addresses(section, owner, z)
             n == ZoneTable[z].a
             S == FineIn(section, zones)
  <2>4. n \in Nat /\ f = [i \in 1 .. n |-> f[i]] /\ \A i \in 1 .. n : f[i] \in S
    BY <2>1, <2>2, <2>3
  <2> HIDE DEF f, n, S
  <2>5. f \in Seq(S)
    BY <2>4, ListOf
  <2> QED
    BY <2>5 DEF f, S
<1> QED
  BY <1>1, <1>2

\* The records that answer a question are fine, if the mail servers are noted.
LEMMA AnswersFine ==
    ASSUME NEW q \in Question, NEW z \in Zone, z = Lookup(q.name), NEW soa,
           q.qtype = "SOA" => soa \in Zone, NEW zones,
           q.qtype = "MX" => \A i \in DOMAIN ZoneTable[z].mx :
               LET server == Lookup(Fdqn(ZoneTable[z].mx[i], z))
               IN  server = NoZone \/ Contains(zones, server)
    PROVE  Answers(q, z, soa) \in Seq(FineIn("answer", zones))
<1> DEFINE S == FineIn("answer", zones)
           zone == ZoneTable[z]
           alias == FullCname(z)
           cname == <<Record("answer", "CNAME", q.name, alias)>>
           there == IF q.qtype = "A" THEN Addresses("answer", alias, Lookup(alias)) ELSE <<>>
<1>1. q.name \in Seq(Labels)
  BY DEF Question
<1>2. alias \in Seq(Labels) /\ Lookup(alias) \in Zone \cup {NoZone}
  BY FullNames, LookupFacts
<1>3. "answer" \in Sections
  BY DEF Sections
<1>4. Record("answer", "CNAME", q.name, alias) \in S
  BY <1>1, <1>2, <1>3, ServerFine
<1>5. cname \in Seq(S)
  <2> DEFINE r == Record("answer", "CNAME", q.name, alias)
  <2> HIDE DEF r, S
  <2> QED
    BY <1>4 DEF r
<1>6. Addresses("answer", alias, Lookup(alias)) \in Seq(S)
  BY <1>2, <1>3, AddressesFine
<1>7. cname \o there \in Seq(S)
  <2>1. there \in Seq(S)
    BY <1>6
  <2> HIDE DEF S, cname, there
  <2> QED
    BY <1>5, <2>1
<1>8. Addresses("answer", q.name, z) \in Seq(S)
  BY <1>1, <1>3, AddressesFine
<1>9. q.qtype = "SOA" => <<Record("answer", "SOA", q.name, DomainName[soa])>> \in Seq(S)
  <2> DEFINE r == Record("answer", "SOA", q.name, DomainName[soa])
  <2>1. q.qtype = "SOA" => r \in S
    BY <1>1, <1>3, NameFacts, ServerFine
  <2> HIDE DEF r, S
  <2>2. q.qtype = "SOA" => <<r>> \in Seq(S)
    BY <2>1
  <2> QED
    BY <2>2 DEF r
<1> DEFINE mail == [i \in DOMAIN zone.mx |-> Record("answer", "MX", q.name, Fdqn(zone.mx[i], z))]
<1>10. q.qtype = "MX" => mail \in Seq(S)
  <2> SUFFICES ASSUME q.qtype = "MX" PROVE mail \in Seq(S)
    OBVIOUS
  <2> DEFINE n == Len(zone.mx)
  <2>1. n \in Nat /\ DOMAIN zone.mx = 1 .. n /\ \A i \in 1 .. n : zone.mx[i] \in Labels
    BY FieldFacts
  <2>2. \A i \in 1 .. n : Fdqn(zone.mx[i], z) \in Seq(Labels)
    BY <2>1, FullNames
  <2>3. \A i \in 1 .. n : Record("answer", "MX", q.name, Fdqn(zone.mx[i], z)) \in S
    BY <1>1, <1>3, <2>1, <2>2, ServerFine
  <2>4. mail = [i \in 1 .. n |-> mail[i]] /\ \A i \in 1 .. n : mail[i] \in S
    BY <2>1, <2>3
  <2> HIDE DEF mail, S, n
  <2> QED
    BY <2>1, <2>4, ListOf
<1>11. <<>> \in Seq(S)
  OBVIOUS
<1>12. Answers(q, z, soa) \in {cname \o there, Addresses("answer", q.name, z), cname, <<>>}
       \/ (q.qtype = "SOA" /\ Answers(q, z, soa)
              = <<Record("answer", "SOA", q.name, DomainName[soa])>>)
       \/ (q.qtype = "MX" /\ Answers(q, z, soa) = mail)
  BY DEF Answers
<1> HIDE DEF S, cname, there, mail
<1> QED
  BY <1>5, <1>7, <1>8, <1>9, <1>10, <1>11, <1>12 DEF S

\* A record of the authority section.
NsRecord == {Record("authority", "NS", owner, data) : owner \in Seq(Labels), data \in Seq(Labels)}

\* NameServers makes such records.
LEMMA NameServersTyped ==
    ASSUME NEW z \in Zone
    PROVE  NameServers(z) \in Seq(NsRecord)
<1> DEFINE n == Len(ZoneTable[z].ns)
           f == NameServers(z)
<1>1. n \in Nat /\ DOMAIN ZoneTable[z].ns = 1 .. n /\ \A i \in 1 .. n : ZoneTable[z].ns[i] \in Labels
  BY FieldFacts
<1>2. ASSUME NEW i \in 1 .. n
      PROVE  Record("authority", "NS", DomainName[z], Fdqn(ZoneTable[z].ns[i], z)) \in NsRecord
  <2>1. Fdqn(ZoneTable[z].ns[i], z) \in Seq(Labels) /\ DomainName[z] \in Seq(Labels)
    BY <1>1, FullNames, NameFacts
  <2> QED
    BY <2>1 DEF NsRecord
<1>3. f = [i \in 1 .. n |-> f[i]] /\ \A i \in 1 .. n : f[i] \in NsRecord
  BY <1>1, <1>2 DEF NameServers
<1> HIDE DEF f, n
<1>4. f \in Seq(NsRecord)
  BY <1>1, <1>3, ListOf
<1> QED
  BY <1>4 DEF f

\* A list of members of a set is one of members of a larger set.
LEMMA SeqGrows ==
    ASSUME NEW S, NEW T, S \subseteq T, NEW s \in Seq(S)
    PROVE  s \in Seq(T)
<1>1. Len(s) \in Nat /\ s = [i \in 1 .. Len(s) |-> s[i]] /\ \A i \in 1 .. Len(s) : s[i] \in T
  OBVIOUS
<1> QED
  BY <1>1, ListOf

\* Noting more zones leaves records fine.
LEMMA FineGrows ==
    ASSUME NEW zones, NEW more, \A x : Contains(zones, x) => Contains(more, x)
    PROVE  /\ Fine(zones) \subseteq Fine(more)
           /\ \A section : FineIn(section, zones) \subseteq FineIn(section, more)
BY DEF Fine, FineIn, Noted

\* Where a list has the records of a section.
In(list, s) == {i \in DOMAIN list : list[i].section = s}

\* The second list is the first with r appended.
Longer(list, r, new) == (\E S : list \in Seq(S)) /\ new = Append(list, r)

\* A record that is appended is counted in its section and in no other.
LEMMA OneMore ==
    ASSUME NEW list, NEW r, NEW new, Longer(list, r, new), NEW s
    PROVE  /\ r.section = s => Cardinality(In(new, s)) = Cardinality(In(list, s)) + 1
           /\ r.section # s => Cardinality(In(new, s)) = Cardinality(In(list, s))
<1> DEFINE n == Len(list)
           before == In(list, s)
           after == In(new, s)
<1>1. /\ n \in Nat /\ DOMAIN list = 1 .. n /\ DOMAIN new = 1 .. n + 1
      /\ new[n + 1] = r /\ \A i \in 1 .. n : new[i] = list[i]
  BY DEF Longer
<1>2. IsFiniteSet(before)
  <2>1. IsFiniteSet(1 .. n)
    BY <1>1, FS_Interval
  <2> QED
    BY <1>1, <2>1, FS_Subset DEF In
<1>3. n + 1 \notin before
  BY <1>1 DEF In
<1>4. after = IF r.section = s THEN before \cup {n + 1} ELSE before
  BY <1>1 DEF In
<1> HIDE DEF before, after
<1>5. Cardinality(before \cup {n + 1}) = Cardinality(before) + 1
  BY <1>2, <1>3, FS_AddElement
<1> QED
  BY <1>4, <1>5 DEF before, after
-----------------------------------------------------------------------------
(***************************************************************************)
(* The steps.                                                              *)
(***************************************************************************)

\* A reply that starts afresh satisfies the invariant: FreshReply and what goes
\* with it in Receive, CreateErrorReply, EndQuery and IoError.
LEMMA Fresh ==
    ASSUME FreshReply,
           pc' \in {"receiving", "rejecting", "copying", "sending", "ending", "ended"},
           query' \in Queries \cup {NoQuery}, size' \in 0 .. MaxReply,
           state' \in {"UNSET", "BAD", "SUCESS"},
           pc' \in {"copying", "sending"} => size' = HeaderSize,
           pc' = "sending" =>
               /\ header'.counts = [s \in Sections |-> 0] /\ header'.qdcount = 0
               /\ header'.rcode = "NAME_ERROR" =>
                     \E z \in Zone : ZoneTable[z].authorative
                                     /\ Encloses(z, query'.questions[1].name)
    PROVE  Inv'
<1>1. /\ questions' = <<>> /\ records' = <<>> /\ todo' = <<>> /\ current' = 0
      /\ num' = [s \in Sections |-> 0] /\ authorative' = TRUE
      /\ authorative_zones' = <<>> /\ ns_zones' = <<>>
  BY DEF FreshReply
<1>2. Types'
  BY <1>1 DEF Types
<1>3. pc' \notin Sections
  BY DEF Sections
<1>4. InOrder'
  BY <1>1, <1>3 DEF InOrder
<1>5. Counted'
  <2>1. \A s \in Sections : InSection(s)' = {}
    BY <1>1 DEF InSection
  <2>2. \A s \in Sections : Cardinality(InSection(s))' = 0
    BY <2>1, FS_EmptySet
  <2> QED
    BY <1>1, <2>2 DEF Counted
<1>6. Asked'
  BY <1>1 DEF Asked
<1>7. Aa'
  BY <1>1 DEF Aa
<1>8. Whole' /\ Empty'
  BY <1>1, <1>3 DEF Whole, Empty, Sections
<1>9. Headed'
  BY <1>1 DEF Headed
<1>10. Glue'
  BY <1>1 DEF Glue
<1> QED
  BY <1>2, <1>4, <1>5, <1>6, <1>7, <1>8, <1>9, <1>10 DEF Inv

\* The initial state satisfies the invariant.
LEMMA InitInv == Init => Inv
<1> SUFFICES ASSUME Init PROVE Inv
  OBVIOUS
<1> USE DEF Init
<1>1. Types
  BY DEF Types
<1>2. InOrder
  BY DEF InOrder, Sections
<1>3. Counted
  <2>1. \A s \in Sections : InSection(s) = {}
    BY DEF InSection
  <2> QED
    BY <2>1, FS_EmptySet DEF Counted
<1>4. Asked /\ Aa /\ Whole /\ Empty /\ Headed /\ Glue
  BY DEF Asked, Aa, Whole, Empty, Headed, Glue, Sections
<1> QED
  BY <1>1, <1>2, <1>3, <1>4 DEF Inv

\* An error reply satisfies the invariant; one that denies a name needs a reason.
LEMMA ErrorReply ==
    ASSUME Inv, NEW rcode, NEW outcome \in {"UNSET", "BAD"}, CreateErrorReply(rcode, outcome),
           rcode = "NAME_ERROR" =>
               \E z \in Zone : ZoneTable[z].authorative
                               /\ Encloses(z, query.questions[1].name)
    PROVE  Inv'
<1>1. /\ FreshReply /\ size' = HeaderSize /\ state' = outcome /\ pc' = "sending"
      /\ query' = query /\ header' = [NoHeader EXCEPT !.rcode = rcode, !.aa = query.aa, !.tc = query.tc]
  BY DEF CreateErrorReply
<1>2. /\ header'.counts = [s \in Sections |-> 0] /\ header'.qdcount = 0
      /\ header'.rcode = rcode
  BY <1>1 DEF NoHeader
<1>3. query \in Queries \cup {NoQuery} /\ HeaderSize \in 0 .. MaxReply
  BY DEF Inv, Types, DnsAssumption
<1> QED
  BY <1>1, <1>2, <1>3, Fresh

\* Receive: the datagram is the query, the reply is empty.
LEMMA ReceiveInv ==
    ASSUME Inv, NEW q \in Queries, Receive(q)
    PROVE  Inv'
<1>1. /\ FreshReply /\ query' = q /\ state' = state
      /\ pc' \in {"copying", "ending", "rejecting"} /\ size' \in {0, HeaderSize}
      /\ pc' = "copying" => size' = HeaderSize
  BY DEF Receive
<1>2. state \in {"UNSET", "BAD", "SUCESS"} /\ size' \in 0 .. MaxReply
  BY <1>1 DEF Inv, Types, DnsAssumption
<1> QED
  BY <1>1, <1>2, Fresh

\* RejectKind: an error reply.
LEMMA RejectInv == ASSUME Inv, RejectKind PROVE Inv'
<1>1. CreateErrorReply("FORMAT_ERROR", "BAD") \/ CreateErrorReply("NOT_IMPLEMENTED", "UNSET")
  BY DEF RejectKind
<1> QED
  BY <1>1, ErrorReply

\* CopyQuestion: the question is the first one of the query and fits.
LEMMA CopyInv == ASSUME Inv, CopyQuestion PROVE Inv'
<1> DEFINE Copied ==
             /\ query.questions # <<>>
             /\ size + QuestionSize < MaxReply
             /\ questions' = Append(questions, NextQuestion)
             /\ size' = size + QuestionSize
             /\ UNCHANGED <<pc, query, records, num, todo, current, authorative,
                            authorative_zones, ns_zones, header, state>>
<1>1. \/ CreateErrorReply("FORMAT_ERROR", "BAD") \/ CreateErrorReply("SERVER_FAILURE", "UNSET")
      \/ CreateErrorReply("REFUSED", "UNSET") \/ Copied
  BY DEF CopyQuestion
<1>2. CASE Copied
  <2>1. pc = "copying" /\ pc \notin Sections
    BY DEF CopyQuestion, Sections
  <2>2. query \in Queries /\ query \in Query
    <3>1. query \in Queries \cup {NoQuery} /\ query # NoQuery
      BY <1>2 DEF Inv, Types, NoQuery
    <3> QED
      BY <3>1 DEF QueriesAssumption
  <2>3. NextQuestion \in Question
    BY <1>2, <2>2 DEF NextQuestion, Query
  <2> DEFINE n == Len(questions)
  <2>4. /\ questions \in Seq(Question) /\ n \in Nat
        /\ questions' \in Seq(Question) /\ Len(questions') = n + 1
        /\ DOMAIN questions' = 1 .. n + 1 /\ DOMAIN questions = 1 .. n
        /\ questions'[n + 1] = NextQuestion /\ \A i \in 1 .. n : questions'[i] = questions[i]
    <3> HIDE DEF n
    <3>1. questions \in Seq(Question) /\ questions' = Append(questions, NextQuestion)
      BY <1>2 DEF Inv, Types
    <3> QED
      BY <2>3, <3>1 DEF n
  <2>5. current \in 0 .. n
    BY DEF Inv, Types
  <2>6. Types'
    <3>1. size' \in 0 .. MaxReply
      BY <1>2 DEF Inv, Types, DnsAssumption
    <3>2. current' \in 0 .. Len(questions')
      BY <1>2, <2>4, <2>5
    <3> HIDE DEF n
    <3> QED
      BY <1>2, <2>4, <3>1, <3>2 DEF Inv, Types
  <2>7. InOrder'
    BY <1>2 DEF Inv, InOrder
  <2>8. Counted'
    BY <1>2 DEF Inv, Counted, InSection
  <2>9. Asked'
    <3>1. \A i \in 1 .. n : questions[i] = query.questions[1]
      BY <2>4 DEF Inv, Asked
    <3>2. \A i \in 1 .. n + 1 : i = n + 1 \/ i \in 1 .. n
      BY <2>4
    <3>3. query' = query
      BY <1>2
    <3> HIDE DEF n
    <3> QED
      BY <2>4, <3>1, <3>2, <3>3 DEF Asked, NextQuestion
  <2>10. Aa'
    <3>1. \A i \in 1 .. current : questions'[i] = questions[i]
      BY <2>4, <2>5
    <3>2. authorative' = authorative /\ current' = current
      BY <1>2
    <3> QED
      BY <3>1, <3>2 DEF Inv, Aa
  <2>11. Headed' /\ Glue' /\ Whole'
    BY <1>2, <2>1 DEF Headed, Glue, Whole, Sections
  <2>12. Empty'
    <3>1. Len(questions') # 0
      BY <2>4
    <3>2. questions' # <<>>
      BY <3>1
    <3> QED
      BY <3>2 DEF Empty
  <2> QED
    BY <2>6, <2>7, <2>8, <2>9, <2>10, <2>11, <2>12 DEF Inv
<1> QED
  BY <1>1, <1>2, ErrorReply

\* A step that leaves the reply as it is and stores nothing keeps what the
\* invariant says of the reply.
LEMMA ReplyKept ==
    ASSUME Inv,
           UNCHANGED <<query, questions, records, size, num, current, authorative,
                       authorative_zones, ns_zones>>,
           pc' \in {"answer", "authority", "additional", "spinning", "sending", "ending"},
           state' \in {"UNSET", "BAD", "SUCESS"}
    PROVE  Types' /\ Counted' /\ Asked' /\ Aa'
<1>1. Types'
  BY DEF Inv, Types, Sections
<1>2. Counted'
  BY DEF Inv, Counted, InSection
<1>3. Asked' /\ Aa'
  BY DEF Inv, Asked, Aa
<1> QED
  BY <1>1, <1>2, <1>3

\* QuestionsCopied: nothing is stored yet.
LEMMA CopiedInv == ASSUME Inv, QuestionsCopied PROVE Inv'
<1>1. /\ UNCHANGED <<query, questions, records, size, num, todo, current, authorative,
                     authorative_zones, ns_zones, header, state>>
      /\ pc = "copying" /\ pc' = "answer" /\ Len(questions) = query.qdcount
  BY DEF QuestionsCopied
<1>2. Types' /\ Counted' /\ Asked' /\ Aa'
  <2>1. state \in {"UNSET", "BAD", "SUCESS"}
    BY DEF Inv, Types
  <2> QED
    BY <1>1, <2>1, ReplyKept
<1>3. InOrder'
  <2>1. todo = <<>>
    BY <1>1 DEF Inv, InOrder, Sections
  <2> QED
    BY <1>1, <2>1 DEF InOrder
<1>4. Headed' /\ Glue'
  BY <1>1 DEF Headed, Glue
<1>5. Whole'
  <2>1. todo = <<>>
    BY <1>1 DEF Inv, InOrder, Sections
  <2> QED
    BY <1>1, <2>1 DEF Whole
<1>6. Empty'
  BY <1>1 DEF Inv, Empty, Sections
<1> QED
  BY <1>2, <1>3, <1>4, <1>5, <1>6 DEF Inv

\* A step that ends the work on the query without a reply, or after it.
LEMMA EndInv ==
    ASSUME Inv, todo = <<>>, pc' \in {"spinning", "ending"},
           UNCHANGED <<query, questions, records, size, num, todo, current, authorative,
                       authorative_zones, ns_zones, header>>,
           state' \in {"UNSET", "BAD", "SUCESS"}
    PROVE  Inv'
<1>1. Types' /\ Counted' /\ Asked' /\ Aa'
  BY ReplyKept
<1>2. InOrder' /\ Whole' /\ Empty' /\ Headed' /\ Glue'
  BY DEF InOrder, Whole, Empty, Headed, Glue, Sections
<1> QED
  BY <1>1, <1>2 DEF Inv

\* Send, LoopEnds and IoError.
LEMMA LoopInv == ASSUME Inv, Send \/ LoopEnds \/ IoError PROVE Inv'
<1>1. CASE Send
  <2>1. todo = <<>>
    BY <1>1 DEF Inv, InOrder, Send, Sections
  <2> QED
    BY <1>1, <2>1, EndInv DEF Send
<1>2. CASE LoopEnds \/ IoError
  <2>1. /\ FreshReply /\ pc' \in {"receiving", "ended"} /\ query' = NoQuery
        /\ size' = 0 /\ state' = "UNSET"
    BY <1>2 DEF LoopEnds, EndQuery, IoError
  <2>2. size' \in 0 .. MaxReply
    BY <2>1 DEF DnsAssumption
  <2> QED
    BY <2>1, <2>2, Fresh
<1> QED
  BY <1>1, <1>2

\* What CASE of ProcessQuestion a question falls under.
Answering(q, z, soa) ==
    /\ z # NoZone /\ soa # Spins
    /\ q.qtype = "SOA" => soa # NoZone
    /\ current' = current + 1
    /\ authorative' = (authorative /\ soa # NoZone /\ ZoneTable[soa].authorative)
    /\ todo' = Answers(q, z, soa)
    /\ authorative_zones' = IF q.qtype \in {"SOA", "NS", "ANY"}
                            THEN AddZone(authorative_zones, soa) ELSE authorative_zones
    /\ ns_zones' = IF q.qtype = "MX"
                   THEN AddZones(ns_zones, [i \in DOMAIN ZoneTable[z].mx |->
                                               Lookup(Fdqn(ZoneTable[z].mx[i], z))])
                   ELSE ns_zones
    /\ UNCHANGED <<pc, query, questions, records, size, num, header, state>>

\* ProcessQuestion, when there are answers.
LEMMA AnsweringInv ==
    ASSUME Inv, pc = "answer", current < Len(questions),
           NEW q, q = questions[current + 1], NEW z, z = Lookup(q.name),
           NEW soa, soa = GetSoaZone(z), Answering(q, z, soa)
    PROVE  Inv'
<1>1. /\ questions \in Seq(Question) /\ current \in 0 .. Len(questions)
      /\ authorative \in BOOLEAN
      /\ authorative_zones \in Seq(Zone) /\ ns_zones \in Seq(Zone)
      /\ records \in Seq(Fine(ns_zones))
  BY DEF Inv, Types
<1>2. Len(questions) \in Nat /\ current + 1 \in 1 .. Len(questions) /\ q \in Question
  BY <1>1
<1>3. q.name \in Seq(Labels)
  BY <1>2 DEF Question
<1>4. z \in Zone
  BY <1>3, LookupFacts DEF Answering
<1>5. soa \in Zone \cup {NoZone} /\ (Owned(z) <=> soa # NoZone /\ ZoneTable[soa].authorative)
  BY <1>4, SoaFacts DEF Answering
<1>6. pc' = pc /\ records' = records
  BY DEF Answering
<1> DEFINE mx == ZoneTable[z].mx
           found == [i \in DOMAIN mx |-> Lookup(Fdqn(mx[i], z))]
<1>7. found \in Seq(Zone \cup {NoZone}) /\ DOMAIN found = DOMAIN mx
  <2> DEFINE n == Len(mx)
  <2>1. n \in Nat /\ DOMAIN mx = 1 .. n /\ \A i \in 1 .. n : mx[i] \in Labels
    BY <1>4, FieldFacts
  <2>2. ASSUME NEW i \in 1 .. n PROVE Lookup(Fdqn(mx[i], z)) \in Zone \cup {NoZone}
    <3>1. Fdqn(mx[i], z) \in Seq(Labels)
      BY <1>4, <2>1, FullNames
    <3> QED
      BY <3>1, LookupFacts
  <2>3. found = [i \in 1 .. n |-> found[i]] /\ \A i \in 1 .. n : found[i] \in Zone \cup {NoZone}
    BY <2>1, <2>2
  <2> HIDE DEF found, n
  <2> QED
    BY <2>1, <2>3, ListOf
<1>8. /\ ns_zones' \in Seq(Zone)
      /\ \A x : Contains(ns_zones, x) => Contains(ns_zones', x)
      /\ q.qtype = "MX" => \A i \in DOMAIN mx :
            Lookup(Fdqn(mx[i], z)) = NoZone \/ Contains(ns_zones', Lookup(Fdqn(mx[i], z)))
  <2>1. \A i \in DOMAIN mx : found[i] = Lookup(Fdqn(mx[i], z))
    OBVIOUS
  <2>2. ns_zones' = IF q.qtype = "MX" THEN AddZones(ns_zones, found) ELSE ns_zones
    BY DEF Answering
  <2> HIDE DEF found
  <2>3. /\ AddZones(ns_zones, found) \in Seq(Zone)
        /\ \A x : Contains(ns_zones, x) => Contains(AddZones(ns_zones, found), x)
        /\ \A i \in DOMAIN found : found[i] # NoZone => Contains(AddZones(ns_zones, found), found[i])
    BY <1>1, <1>7, AddZonesFacts
  <2> HIDE DEF mx
  <2> QED
    BY <1>1, <1>7, <2>1, <2>2, <2>3
<1>9. authorative_zones' \in Seq(Zone)
  BY <1>1, <1>5, AddZoneFacts DEF Answering
<1>10. records' \in Seq(Fine(ns_zones'))
  BY <1>1, <1>6, <1>8, FineGrows, SeqGrows
<1>11. todo' \in Seq(FineIn("answer", ns_zones'))
  <2>1. q.qtype = "SOA" => soa \in Zone
    BY <1>5 DEF Answering
  <2>2. Answers(q, z, soa) \in Seq(FineIn("answer", ns_zones'))
    BY <1>2, <1>4, <1>8, <2>1, AnswersFine
  <2> QED
    BY <2>2 DEF Answering
<1>12. Types'
  <2>1. current' \in 0 .. Len(questions)
    BY <1>1, <1>2 DEF Answering
  <2>2. authorative' \in BOOLEAN
    BY DEF Answering
  <2> QED
    BY <1>8, <1>9, <1>10, <2>1, <2>2 DEF Inv, Types, Answering
<1>13. InOrder'
  BY <1>6, <1>11 DEF InOrder, Sections
<1>14. Counted'
  BY DEF Inv, Counted, InSection, Answering
<1>15. Asked'
  BY DEF Inv, Asked, Answering
<1>16. Aa'
  <2> DEFINE P(i) == Owned(Lookup(questions[i].name))
  <2>1. P(current + 1) <=> soa # NoZone /\ ZoneTable[soa].authorative
    BY <1>5
  <2>2. authorative <=> \A i \in 1 .. current : P(i)
    BY DEF Inv, Aa
  <2>3. authorative' <=> authorative /\ soa # NoZone /\ ZoneTable[soa].authorative
    BY DEF Answering
  <2>4. questions' = questions /\ current' = current + 1
    BY DEF Answering
  <2> HIDE DEF P
  <2>5. (\A i \in 1 .. current + 1 : P(i)) <=> P(current + 1) /\ \A i \in 1 .. current : P(i)
    <3>1. \A i \in 1 .. current : i \in 1 .. current + 1
      BY <1>1
    <3>2. \A i \in 1 .. current + 1 : i = current + 1 \/ i \in 1 .. current
      BY <1>1
    <3>3. current + 1 \in 1 .. current + 1
      BY <1>1
    <3> QED
      BY <3>1, <3>2, <3>3
  <2>6. authorative' <=> \A i \in 1 .. current + 1 : P(i)
    BY <2>1, <2>2, <2>3, <2>5
  <2> QED
    BY <2>4, <2>6 DEF Aa, P
<1>17. Headed' /\ Glue'
  BY <1>6 DEF Headed, Glue
<1>18. Whole'
  <2>1. current' # 0
    BY <1>1 DEF Answering
  <2> QED
    BY <1>6, <2>1 DEF Inv, Whole, Sections, Answering
<1>19. Empty'
  <2>1. questions' # <<>>
    BY <1>1, <1>2 DEF Answering
  <2> QED
    BY <2>1 DEF Empty
<1> QED
  BY <1>12, <1>13, <1>14, <1>15, <1>16, <1>17, <1>18, <1>19 DEF Inv

\* ProcessQuestion: an error reply, no reply, a loop without end, or answers.
LEMMA QuestionInv == ASSUME Inv, ProcessQuestion PROVE Inv'
<1> DEFINE q == questions[current + 1]
           z == Lookup(q.name)
           soa == GetSoaZone(z)
<1>1. pc = "answer" /\ todo = <<>> /\ current < Len(questions)
  BY DEF ProcessQuestion
<1>2. /\ questions \in Seq(Question) /\ current + 1 \in DOMAIN questions
      /\ q.name \in Seq(Labels) /\ q = query.questions[1]
  <2>1. questions \in Seq(Question) /\ current \in 0 .. Len(questions)
    BY DEF Inv, Types
  <2>2. current + 1 \in DOMAIN questions /\ q \in Question
    BY <1>1, <2>1
  <2>3. q = query.questions[1]
    BY <2>2 DEF Inv, Asked
  <2> HIDE DEF q
  <2> QED
    BY <2>1, <2>2, <2>3 DEF Question
<1> DEFINE Spinning == /\ pc' = "spinning"
                       /\ UNCHANGED <<query, questions, records, size, num, todo, current,
                                      authorative, authorative_zones, ns_zones, header, state>>
<1>3. \/ AuthorativeDuringLookup(q.name) /\ CreateErrorReply("NAME_ERROR", "UNSET")
      \/ DoNotReply
      \/ Spinning
      \/ CreateErrorReply("SERVER_FAILURE", "UNSET")
      \/ Answering(q, z, soa)
  BY DEF ProcessQuestion, Answering
<1>4. CASE AuthorativeDuringLookup(q.name) /\ CreateErrorReply("NAME_ERROR", "UNSET")
  <2>1. \E y \in Zone : ZoneTable[y].authorative /\ Encloses(y, query.questions[1].name)
    BY <1>2, <1>4, DeniedIsOurs
  <2> QED
    BY <1>4, <2>1, ErrorReply
<1>5. CASE DoNotReply \/ Spinning
  <2>1. state \in {"UNSET", "BAD", "SUCESS"}
    BY DEF Inv, Types
  <2> QED
    BY <1>1, <1>5, <2>1, EndInv DEF DoNotReply
<1>6. CASE CreateErrorReply("SERVER_FAILURE", "UNSET")
  BY <1>6, ErrorReply
<1>7. CASE Answering(q, z, soa)
  BY <1>1, <1>7, AnsweringInv
<1> QED
  BY <1>3, <1>4, <1>5, <1>6, <1>7

\* ProcessNsAuthZones: every server that is named is noted.
LEMMA NsAuthZonesInv == ASSUME Inv, ProcessNsAuthZones PROVE Inv'
<1> DEFINE names == [i \in DOMAIN authorative_zones |-> NameServers(authorative_zones[i])]
           found == [i \in DOMAIN todo' |-> Lookup(todo'[i].data)]
<1>1. /\ pc = "answer" /\ pc' = "authority" /\ todo' = FlattenSeq(names)
      /\ current = Len(questions)
      /\ ns_zones' = AddZones(ns_zones, found)
      /\ UNCHANGED <<query, questions, records, size, num, current, authorative,
                     authorative_zones, header, state>>
  BY DEF ProcessNsAuthZones
<1>2. /\ authorative_zones \in Seq(Zone) /\ ns_zones \in Seq(Zone)
      /\ records \in Seq(Fine(ns_zones))
  BY DEF Inv, Types
<1>3. names \in Seq(Seq(NsRecord))
  <2> DEFINE n == Len(authorative_zones)
             S == Seq(NsRecord)
  <2>1. n \in Nat /\ DOMAIN authorative_zones = 1 .. n
        /\ \A i \in 1 .. n : authorative_zones[i] \in Zone
    BY <1>2
  <2>2. names = [i \in 1 .. n |-> names[i]] /\ \A i \in 1 .. n : names[i] \in S
    BY <2>1, NameServersTyped
  <2> HIDE DEF names, n, S
  <2>3. names \in Seq(S)
    BY <2>1, <2>2, ListOf
  <2> QED
    BY <2>3 DEF S
<1>4. todo' \in Seq(NsRecord)
  <2> HIDE DEF names
  <2> QED
    BY <1>1, <1>3, FlatFacts
<1> DEFINE n == Len(todo')
<1>5. n \in Nat /\ DOMAIN todo' = 1 .. n /\ \A i \in 1 .. n : todo'[i] \in NsRecord
  BY <1>4
<1>6. \A i \in 1 .. n : todo'[i].data \in Seq(Labels)
  <2> SUFFICES ASSUME NEW i \in 1 .. n PROVE todo'[i].data \in Seq(Labels)
    OBVIOUS
  <2>1. PICK owner \in Seq(Labels), data \in Seq(Labels) :
            todo'[i] = Record("authority", "NS", owner, data)
    BY <1>5 DEF NsRecord
  <2> QED
    BY <2>1, RecordParts
<1>7. found \in Seq(Zone \cup {NoZone}) /\ DOMAIN found = 1 .. n
  <2>1. found = [i \in 1 .. n |-> found[i]] /\ \A i \in 1 .. n : found[i] \in Zone \cup {NoZone}
    BY <1>5, <1>6, LookupFacts
  <2> HIDE DEF found, n
  <2> QED
    BY <1>5, <2>1, ListOf
<1>8. \A i \in 1 .. n : found[i] = Lookup(todo'[i].data)
  BY <1>5
<1>9. /\ ns_zones' \in Seq(Zone)
      /\ \A x : Contains(ns_zones, x) => Contains(ns_zones', x)
      /\ \A i \in 1 .. n : found[i] # NoZone => Contains(ns_zones', found[i])
  <2> HIDE DEF found
  <2> QED
    BY <1>1, <1>2, <1>7, AddZonesFacts
<1>10. todo' \in Seq(FineIn("authority", ns_zones'))
  <2> DEFINE S == FineIn("authority", ns_zones')
             t == todo'
  <2>1. ASSUME NEW i \in 1 .. n PROVE todo'[i] \in S
    <3>1. PICK owner \in Seq(Labels), data \in Seq(Labels) :
              todo'[i] = Record("authority", "NS", owner, data)
      BY <1>5 DEF NsRecord
    <3>2. todo'[i].data = data
      BY <3>1, RecordParts
    <3>3. Lookup(data) = NoZone \/ Contains(ns_zones', Lookup(data))
      BY <1>8, <1>9, <3>2
    <3> QED
      BY <3>1, <3>3, ServerFine DEF Sections
  <2>2. t = [i \in 1 .. n |-> t[i]]
    BY <1>4, <1>5
  <2>3. t \in Seq(S)
    <3> HIDE DEF S, n
    <3> QED
      BY <1>5, <2>1, <2>2, ListOf
  <2> QED
    BY <2>3
<1>11. records' \in Seq(Fine(ns_zones'))
  <2>1. Fine(ns_zones) \subseteq Fine(ns_zones')
    BY <1>9, FineGrows
  <2>2. records' = records
    BY <1>1
  <2> QED
    BY <1>2, <2>1, <2>2, SeqGrows
<1>12. Types'
  BY <1>1, <1>9, <1>11 DEF Inv, Types, Sections
<1>13. InOrder'
  BY <1>1, <1>10 DEF InOrder, Sections
<1>14. Counted'
  BY <1>1 DEF Inv, Counted, InSection
<1>15. Asked' /\ Aa'
  BY <1>1 DEF Inv, Asked, Aa
<1>16. Headed' /\ Glue'
  BY <1>1 DEF Headed, Glue
<1>17. Whole'
  BY <1>1 DEF Inv, Whole, Sections
<1>18. Empty'
  <2> SUFFICES ASSUME questions = <<>>
               PROVE  /\ size = HeaderSize /\ records = <<>> /\ authorative_zones = <<>>
                      /\ todo' = <<>> /\ ns_zones' = <<>>
    BY <1>1 DEF Empty
  <2>1. /\ size = HeaderSize /\ records = <<>> /\ authorative_zones = <<>> /\ ns_zones = <<>>
    BY <1>1 DEF Inv, Empty, Sections
  <2>2. names = <<>>
    BY <2>1
  <2>3. todo' = <<>>
    <3> HIDE DEF names
    <3>1. names \in Seq(Seq({}))
      BY <2>2
    <3>2. FlattenSeq(names) \in Seq({})
      BY <3>1, FlatFacts
    <3> DEFINE t == FlattenSeq(names)
    <3> HIDE DEF t
    <3>3. t \in Seq({}) => t = <<>>
      OBVIOUS
    <3> QED
      BY <1>1, <3>2, <3>3 DEF t
  <2>4. found = <<>>
    BY <2>3
  <2>5. ns_zones' = <<>>
    <3> HIDE DEF found
    <3> QED
      BY <1>1, <1>2, <1>7, <2>1, <2>4, AddZonesFacts
  <2> QED
    BY <2>1, <2>3, <2>5
<1> QED
  BY <1>12, <1>13, <1>14, <1>15, <1>16, <1>17, <1>18 DEF Inv

\* ProcessNsZones: the addresses of every noted zone are to be given.
LEMMA NsZonesInv == ASSUME Inv, ProcessNsZones PROVE Inv'
<1> DEFINE lists == [i \in DOMAIN ns_zones |->
                        Addresses("additional", DomainName[ns_zones[i]], ns_zones[i])]
           S == FineIn("additional", ns_zones)
           n == Len(ns_zones)
<1>1. /\ pc = "authority" /\ pc' = "additional" /\ todo' = FlattenSeq(lists)
      /\ UNCHANGED <<query, questions, records, size, num, current, authorative,
                     authorative_zones, ns_zones, header, state>>
  BY DEF ProcessNsZones
<1>2. Types' /\ Counted' /\ Asked' /\ Aa'
  <2>1. state \in {"UNSET", "BAD", "SUCESS"}
    BY DEF Inv, Types
  <2> QED
    BY <1>1, <2>1, ReplyKept
<1>3. n \in Nat /\ DOMAIN ns_zones = 1 .. n /\ \A i \in 1 .. n : ns_zones[i] \in Zone
  BY DEF Inv, Types
<1>4. lists \in Seq(Seq(S)) /\ DOMAIN lists = 1 .. n
  <2> DEFINE T == Seq(S)
  <2>1. \A i \in 1 .. n : Addresses("additional", DomainName[ns_zones[i]], ns_zones[i]) \in T
    BY <1>3, NameFacts, AddressesFine DEF Sections
  <2>2. lists = [i \in 1 .. n |-> lists[i]] /\ \A i \in 1 .. n : lists[i] \in T
    BY <1>3, <2>1
  <2> HIDE DEF lists, n, T
  <2>3. lists \in Seq(T) /\ DOMAIN lists = 1 .. n
    BY <1>3, <2>2, ListOf
  <2> QED
    BY <2>3 DEF T
<1>5. todo' \in Seq(S) /\ \A i \in 1 .. n : \A j \in DOMAIN lists[i] : Contains(todo', lists[i][j])
  <2> HIDE DEF lists, S, n
  <2> QED
    BY <1>1, <1>4, FlatFacts
<1>6. InOrder'
  BY <1>1, <1>5 DEF InOrder, Sections
<1>7. ASSUME NEW z \in Zone, Contains(ns_zones, z), NEW k \in 1 .. ZoneTable[z].a
      PROVE  ToGive(z, k)'
  <2>1. PICK i \in 1 .. n : ns_zones[i] = z
    BY <1>7 DEF Contains
  <2>2. z # NoZone
    BY ZoneFacts DEF NoZone
  <2>3. lists[i] = [j \in 1 .. ZoneTable[z].a |->
                       Record("additional", "A", DomainName[z], <<z, j>>)]
    BY <1>3, <2>1, <2>2 DEF Addresses
  <2>4. Contains(todo', Record("additional", "A", DomainName[z], <<z, k>>))
    <3>1. /\ k \in DOMAIN lists[i]
          /\ lists[i][k] = Record("additional", "A", DomainName[z], <<z, k>>)
      BY <2>3
    <3> HIDE DEF lists
    <3>2. Contains(todo', lists[i][k])
      BY <1>5, <3>1
    <3> QED
      BY <3>1, <3>2
  <2>5. PICK j \in 1 .. Len(todo') :
            todo'[j] = Record("additional", "A", DomainName[z], <<z, k>>)
    BY <2>4 DEF Contains
  <2>6. todo'[j].owner = DomainName[z] /\ todo'[j].data = <<z, k>>
    BY <2>5, RecordParts
  <2>7. j \in DOMAIN todo'
    BY <1>5
  <2> QED
    BY <2>6, <2>7 DEF ToGive
<1>8. Glue'
  <2>1. ns_zones' = ns_zones
    BY <1>1
  <2> QED
    BY <1>1, <1>7, <2>1 DEF Glue
<1>9. Headed' /\ Whole'
  BY <1>1 DEF Inv, Headed, Whole, Sections
<1>10. Empty'
  <2> SUFFICES ASSUME questions = <<>>
               PROVE  /\ size = HeaderSize /\ records = <<>> /\ authorative_zones = <<>>
                      /\ todo' = <<>> /\ ns_zones = <<>>
    BY <1>1 DEF Empty
  <2>1. /\ size = HeaderSize /\ records = <<>> /\ authorative_zones = <<>> /\ ns_zones = <<>>
    BY <1>1 DEF Inv, Empty, Sections
  <2>2. lists = <<>>
    BY <2>1
  <2>3. todo' = <<>>
    <3> HIDE DEF lists
    <3>1. lists \in Seq(Seq({}))
      BY <2>2
    <3>2. FlattenSeq(lists) \in Seq({})
      BY <3>1, FlatFacts
    <3> DEFINE t == FlattenSeq(lists)
    <3> HIDE DEF t
    <3>3. t \in Seq({}) => t = <<>>
      OBVIOUS
    <3> QED
      BY <1>1, <3>2, <3>3 DEF t
  <2> QED
    BY <2>1, <2>3
<1> QED
  BY <1>2, <1>6, <1>8, <1>9, <1>10 DEF Inv

\* ReplyComplete: all that was to be given is in the reply.
LEMMA CompleteInv == ASSUME Inv, ReplyComplete PROVE Inv'
<1>1. /\ pc = "additional" /\ todo = <<>> /\ pc' = "sending"
      /\ header' = [rcode |-> query.rcode, tc |-> FALSE, aa |-> authorative,
                    qdcount |-> Len(questions), counts |-> num]
      /\ UNCHANGED <<query, questions, records, size, num, todo, current, authorative,
                     authorative_zones, ns_zones, state>>
  BY DEF ReplyComplete, WriteHeader
<1>2. Types' /\ Counted' /\ Asked' /\ Aa'
  <2>1. state \in {"UNSET", "BAD", "SUCESS"}
    BY DEF Inv, Types
  <2> QED
    BY <1>1, <2>1, ReplyKept
<1>3. InOrder'
  BY <1>1 DEF InOrder, Sections
<1>4. /\ header'.aa = authorative
      /\ header'.qdcount = Len(questions) /\ header'.counts = num
  BY <1>1
<1>5. Headed'
  <2>1. Len(questions) = query.qdcount /\ current = Len(questions)
    BY <1>1 DEF Inv, Whole, Sections
  <2>2. questions \in Seq(Question)
    BY DEF Inv, Types
  <2>3. questions # <<>> => current # 0
    BY <2>1, <2>2
  <2>4. questions = <<>> => ~(query.qdcount > 0)
    BY <2>1
  <2> QED
    BY <1>1, <1>4, <2>3, <2>4 DEF Headed
<1>6. Glue'
  <2>1. \A z, k : ~ToGive(z, k)
    BY <1>1 DEF ToGive
  <2>2. \A z, k : Given(z, k) => Given(z, k)'
    BY <1>1 DEF Given
  <2>3. \A z \in Zone : Contains(ns_zones, z) => \A k \in 1 .. ZoneTable[z].a : Given(z, k)
    BY <1>1, <2>1 DEF Inv, Glue
  <2> QED
    BY <1>1, <2>2, <2>3 DEF Glue
<1>7. Whole' /\ Empty'
  BY <1>1 DEF Inv, Whole, Empty, Sections
<1> QED
  BY <1>2, <1>3, <1>5, <1>6, <1>7 DEF Inv

\* Store: the record is counted where it belongs, or the reply is truncated.
LEMMA StoreInv == ASSUME Inv, NEW length \in RecordSizes, Store(length) PROVE Inv'
<1>1. /\ pc \in Sections /\ todo # <<>>
      /\ UNCHANGED <<query, questions, current, authorative, authorative_zones, ns_zones, state>>
  BY DEF Store
<1>2. /\ todo \in Seq(FineIn(pc, ns_zones)) /\ records \in Seq(Fine(ns_zones))
      /\ size \in 0 .. MaxReply /\ num \in [Sections -> Nat] /\ state \in {"UNSET", "BAD", "SUCESS"}
  BY <1>1 DEF Inv, InOrder, Types
<1>3. /\ questions # <<>> /\ questions \in Seq(Question)
      /\ pc = "answer" => current # 0
      /\ pc \in {"authority", "additional"} => current = Len(questions)
      /\ Len(questions) = query.qdcount
  BY <1>1 DEF Inv, Types, Whole, Empty
<1>4. CASE size + length > MaxReply
  <2>1. /\ pc' = "sending" /\ todo' = <<>> /\ UNCHANGED <<records, size, num>>
        /\ header' = [rcode |-> query.rcode, tc |-> TRUE, aa |-> authorative,
                      qdcount |-> Len(questions), counts |-> num]
    BY <1>4 DEF Store, WriteHeader
  <2>2. Types' /\ Counted' /\ Asked' /\ Aa'
    BY <1>1, <1>2, <2>1, ReplyKept
  <2>3. /\ header'.aa = authorative /\ header'.tc = TRUE
        /\ header'.qdcount = Len(questions) /\ header'.counts = num
    BY <2>1
  <2>4. InOrder'
    BY <2>1 DEF InOrder, Sections
  <2>5. Headed'
    <3>1. current # 0
      BY <1>1, <1>3 DEF Sections
    <3> QED
      BY <1>1, <1>3, <2>1, <2>3, <3>1 DEF Headed
  <2>6. Glue'
    BY <2>1, <2>3 DEF Glue
  <2>7. Whole' /\ Empty'
    BY <1>1, <1>3, <2>1 DEF Whole, Empty, Sections
  <2> QED
    BY <2>2, <2>4, <2>5, <2>6, <2>7 DEF Inv
<1>5. CASE ~(size + length > MaxReply)
  <2> DEFINE r == Head(todo)
             n == Len(records)
  <2>1. /\ records' = Append(records, r) /\ size' = size + length
        /\ num' = [num EXCEPT ![pc] = @ + 1] /\ todo' = Tail(todo) /\ UNCHANGED <<pc, header>>
    BY <1>5 DEF Store
  <2>2. r \in Fine(ns_zones) /\ r.section = pc
    <3>1. r \in FineIn(pc, ns_zones)
      BY <1>1, <1>2
    <3> QED
      BY <3>1 DEF FineIn
  <2>3. todo' \in Seq(FineIn(pc, ns_zones))
    BY <1>1, <1>2, <2>1
  <2>4. /\ n \in Nat /\ DOMAIN records = 1 .. n /\ DOMAIN records' = 1 .. n + 1
        /\ records' \in Seq(Fine(ns_zones)) /\ records'[n + 1] = r
        /\ \A i \in 1 .. n : records'[i] = records[i]
    <3> DEFINE S == Fine(ns_zones)
    <3> HIDE DEF r, S
    <3>1. records \in Seq(S) /\ r \in S /\ records' = Append(records, r)
      BY <1>2, <2>1, <2>2 DEF S
    <3>2. /\ n \in Nat /\ DOMAIN records = 1 .. n /\ DOMAIN records' = 1 .. n + 1
          /\ records' \in Seq(S) /\ records'[n + 1] = r
          /\ \A i \in 1 .. n : records'[i] = records[i]
      BY <3>1
    <3> QED
      BY <3>2 DEF S
  <2>5. Types'
    <3>1. length \in Nat
      BY DEF DnsAssumption
    <3>2. size' \in 0 .. MaxReply
      BY <1>2, <1>5, <2>1, <3>1 DEF DnsAssumption
    <3>3. num' \in [Sections -> Nat]
      BY <1>1, <1>2, <2>1
    <3>4. records' \in Seq(Fine(ns_zones'))
      BY <1>1, <2>4
    <3>5. UNCHANGED <<pc, query, questions, current, authorative, authorative_zones,
                      ns_zones, state>>
      BY <1>1, <2>1
    <3> QED
      BY <3>2, <3>3, <3>4, <3>5 DEF Inv, Types
  <2>6. InOrder'
    BY <1>1, <2>1, <2>3 DEF InOrder
  <2>7. Counted'
    <3> SUFFICES ASSUME NEW s \in Sections PROVE num'[s] = Cardinality(InSection(s)')
      BY DEF Counted
    <3>1. num[s] = Cardinality(InSection(s)) /\ num[s] \in Nat
      BY <1>2 DEF Inv, Counted
    <3>2. num'[s] = IF pc = s THEN num[s] + 1 ELSE num[s]
      BY <1>1, <1>2, <2>1
    <3> HIDE DEF r
    <3>3. Cardinality(InSection(s)')
            = IF r.section = s THEN Cardinality(InSection(s)) + 1 ELSE Cardinality(InSection(s))
      <4>1. InSection(s) = In(records, s) /\ InSection(s)' = In(records', s)
        BY DEF InSection, In
      <4>2. Cardinality(In(records', s)) = IF r.section = s THEN Cardinality(In(records, s)) + 1
                                           ELSE Cardinality(In(records, s))
        <5> DEFINE new == records'
        <5>1. Longer(records, r, new)
          BY <1>2, <2>1 DEF Longer
        <5> HIDE DEF new
        <5>2. /\ r.section = s => Cardinality(In(new, s)) = Cardinality(In(records, s)) + 1
              /\ r.section # s => Cardinality(In(new, s)) = Cardinality(In(records, s))
          BY <5>1, OneMore
        <5> QED
          BY <5>2 DEF new
      <4> QED
        BY <4>1, <4>2
    <3> QED
      BY <2>2, <3>1, <3>2, <3>3
  <2>8. Asked' /\ Aa'
    BY <1>1 DEF Inv, Asked, Aa
  <2>9. pc' # "sending"
    BY <1>1, <2>1 DEF Sections
  <2>10. Headed'
    BY <2>9 DEF Headed
  <2>11. Glue'
    <3> SUFFICES ASSUME pc = "additional", NEW z \in Zone, Contains(ns_zones, z),
                        NEW k \in 1 .. ZoneTable[z].a
                 PROVE  Given(z, k)' \/ ToGive(z, k)'
      BY <1>1, <2>1, <2>9 DEF Glue
    <3>1. Given(z, k) \/ ToGive(z, k)
      BY DEF Inv, Glue
    <3>2. CASE Given(z, k)
      <4>1. PICK j \in 1 .. n :
            /\ records[j].section = "additional"
            /\ records[j].owner = DomainName[z] /\ records[j].data = <<z, k>>
        BY <2>4, <3>2 DEF Given
      <4>2. j \in DOMAIN records' /\ records'[j] = records[j]
        BY <2>4, <4>1
      <4> QED
        BY <4>1, <4>2 DEF Given
    <3>3. CASE ToGive(z, k)
      <4>1. PICK j \in DOMAIN todo : todo[j].owner = DomainName[z] /\ todo[j].data = <<z, k>>
        BY <3>3 DEF ToGive
      <4>2. CASE j = 1
        <5>1. r.owner = DomainName[z] /\ r.data = <<z, k>>
          BY <1>1, <1>2, <4>1, <4>2
        <5>2. n + 1 \in DOMAIN records'
          BY <2>4
        <5> HIDE DEF r
        <5> QED
          BY <2>2, <2>4, <5>1, <5>2 DEF Given
      <4>3. CASE j # 1
        <5>1. j - 1 \in DOMAIN Tail(todo) /\ Tail(todo)[j - 1] = todo[j]
          BY <1>1, <1>2, <4>1, <4>3
        <5> QED
          BY <2>1, <4>1, <5>1 DEF ToGive
      <4> QED
        BY <4>2, <4>3
    <3> QED
      BY <3>1, <3>2, <3>3
  <2>12. Whole' /\ Empty'
    BY <1>1, <1>3, <2>1 DEF Whole, Empty
  <2> QED
    BY <2>5, <2>6, <2>7, <2>8, <2>10, <2>11, <2>12 DEF Inv
<1> QED
  BY <1>4, <1>5
-----------------------------------------------------------------------------
(***************************************************************************)
(* The theorems.                                                           *)
(***************************************************************************)

\* The invariant holds for every zone tree, every query and all record sizes.
THEOREM Invariance == Spec => []Inv
<1>1. Inv /\ [Next]_vars => Inv'
  <2> SUFFICES ASSUME Inv, [Next]_vars PROVE Inv'
    OBVIOUS
  <2>1. ASSUME NEW q \in Queries, Receive(q) PROVE Inv'
    BY <2>1, ReceiveInv
  <2>2. CASE RejectKind
    BY <2>2, RejectInv
  <2>3. CASE CopyQuestion
    BY <2>3, CopyInv
  <2>4. CASE QuestionsCopied
    BY <2>4, CopiedInv
  <2>5. CASE ProcessQuestion
    BY <2>5, QuestionInv
  <2>6. ASSUME NEW length \in RecordSizes, Store(length) PROVE Inv'
    BY <2>6, StoreInv
  <2>7. CASE ProcessNsAuthZones
    BY <2>7, NsAuthZonesInv
  <2>8. CASE ProcessNsZones
    BY <2>8, NsZonesInv
  <2>9. CASE ReplyComplete
    BY <2>9, CompleteInv
  <2>10. CASE Send \/ LoopEnds \/ IoError
    BY <2>10, LoopInv
  <2>11. CASE UNCHANGED vars
    <3> USE <2>11 DEF vars
    <3>1. Types' /\ InOrder'
      BY DEF Inv, Types, InOrder
    <3>2. Counted'
      BY DEF Inv, Counted, InSection
    <3>3. Asked' /\ Aa' /\ Whole' /\ Empty' /\ Headed'
      BY DEF Inv, Asked, Aa, Whole, Empty, Headed
    <3>4. \A z, n : Given(z, n)' = Given(z, n) /\ ToGive(z, n)' = ToGive(z, n)
      BY DEF Given, ToGive
    <3>5. Glue'
      BY <3>4 DEF Inv, Glue
    <3> QED
      BY <3>1, <3>2, <3>3, <3>5 DEF Inv
  <2> QED
    BY <2>1, <2>2, <2>3, <2>4, <2>5, <2>6, <2>7, <2>8, <2>9, <2>10, <2>11 DEF Next, Process
<1> QED
  BY <1>1, InitInv, PTL DEF Spec

\* The variables keep their types: the lists of zones that the authority and the
\* additional section are written from never hold the null pointer that
\* ZoneMgr::Lookup or GetSoaZone may return.
THEOREM TypeCorrect == Spec => []TypeOK
<1>1. Inv => TypeOK
  <2> SUFFICES ASSUME Inv PROVE TypeOK
    OBVIOUS
  <2>1. \A i \in DOMAIN records : records[i].section \in Sections
    <3>1. records \in Seq(Fine(ns_zones))
      BY DEF Inv, Types
    <3>2. \A i \in DOMAIN records : records[i] \in AnyRecord
      BY <3>1 DEF Fine
    <3> QED
      BY <3>2 DEF AnyRecord
  <2>2. size \in Nat
    BY DEF Inv, Types, DnsAssumption
  <2> QED
    BY <2>1, <2>2 DEF Inv, Types, TypeOK
<1> QED
  BY <1>1, Invariance, PTL

\* The header counts what follows it, in whole, truncated and error replies
\* (ProcessQuestions, Store, CreateErrorReply).
THEOREM HeaderCountsRecords == Spec => []CountsMatch
<1>1. Inv => CountsMatch
  BY DEF Inv, Headed, Counted, Empty, CountsMatch, Replying, Answered
<1> QED
  BY <1>1, Invariance, PTL

\* No reply is longer than max_reply_buffer_ (Store, and the test on the size of
\* the questions in ProcessQuestions).
THEOREM RepliesFit == Spec => []ReplyFits
<1>1. Inv => ReplyFits
  BY DEF Inv, Types, ReplyFits, DnsAssumption
<1> QED
  BY <1>1, Invariance, PTL

\* A reply that is not truncated has, under its name, each address of a server that
\* it names and that the zone tree has under that name (ProcessQuestion,
\* ProcessNsAuthZone, ProcessNsZone).
THEOREM GlueIsComplete == Spec => []GlueComplete
<1>1. Inv => GlueComplete
  <2> SUFFICES ASSUME Inv, Answered, ~header.tc, NEW i \in DOMAIN records,
                      records[i].type \in {"NS", "MX"},
                      NEW z, z = Lookup(records[i].data), z # NoZone,
                      DomainName[z] = records[i].data, NEW n \in 1 .. ZoneTable[z].a
               PROVE  \E j \in InSection("additional") :
                          records[j].owner = records[i].data /\ records[j].data = <<z, n>>
    BY DEF GlueComplete
  <2>1. records \in Seq(Fine(ns_zones)) /\ ns_zones \in Seq(Zone)
    BY DEF Inv, Types
  <2>2. Noted(records[i], ns_zones)
    BY <2>1 DEF Fine
  <2>3. Contains(ns_zones, z)
    BY <2>2 DEF Noted
  <2>4. z \in Zone
    BY <2>1, <2>3 DEF Contains
  <2>5. Given(z, n)
    BY <2>3, <2>4 DEF Inv, Glue, Answered, Replying
  <2> QED
    BY <2>5 DEF Given, InSection
<1> QED
  BY <1>1, Invariance, PTL

\* An address in the answer section is one of the zone that best matches its
\* owner, whatever mixture of labels and wildcards the tree has (ZoneMgr::Lookup).
THEOREM AnswersAreBest == Spec => []BestMatchAnswers
<1>1. Inv => BestMatchAnswers
  <2> SUFFICES ASSUME Inv, NEW i \in DOMAIN records, records[i].section = "answer",
                      records[i].type = "A"
               PROVE  /\ Covers(records[i].data[1], records[i].owner)
                      /\ \A y \in Zone : Covers(y, records[i].owner)
                             => ~Beats(y, records[i].data[1], records[i].owner)
    BY DEF BestMatchAnswers, InSection
  <2>1. records \in Seq(Fine(ns_zones))
    BY DEF Inv, Types
  <2>2. Best(records[i])
    BY <2>1 DEF Fine
  <2> QED
    BY <2>2 DEF Best
<1> QED
  BY <1>1, Invariance, PTL

\* A name is denied only if it is at or below a zone we are authorative for
\* (ProcessQuestion, the authorative_zone of ZoneMgr::Lookup).
THEOREM DenialsAreOurs == Spec => []NameErrorOnlyInOwnZones
<1>1. Inv => NameErrorOnlyInOwnZones
  BY DEF Inv, Headed, NameErrorOnlyInOwnZones, Replying, Answered
<1> QED
  BY <1>1, Invariance, PTL

\* A reply to a query for one name has the AA flag exactly if the nearest SOA above
\* that name is ours (ProcessQuestion, GetSoaZone).
THEOREM FlagIsEarned == Spec => []AaIsEarned
<1>1. Inv => AaIsEarned
  <2> SUFFICES ASSUME Inv, Answered
               PROVE  header.aa <=> Owned(Lookup(query.questions[1].name))
    BY DEF AaIsEarned
  <2>1. header.aa = authorative /\ current # 0
    BY DEF Inv, Headed, Answered, Replying
  <2>2. current \in 0 .. Len(questions) /\ questions \in Seq(Question)
    BY DEF Inv, Types
  <2>3. \A i \in 1 .. current : questions[i] = query.questions[1]
    BY <2>2 DEF Inv, Asked
  <2>4. 1 \in 1 .. current
    BY <2>1, <2>2
  <2>5. authorative <=> \A i \in 1 .. current : Owned(Lookup(questions[i].name))
    BY DEF Inv, Aa
  <2>6. authorative <=> Owned(Lookup(query.questions[1].name))
    BY <2>3, <2>4, <2>5
  <2> QED
    BY <2>1, <2>6
<1> QED
  BY <1>1, Invariance, PTL
=============================================================================
