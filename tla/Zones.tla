------------------------------- MODULE Zones -------------------------------
(***************************************************************************)
(* The zone tree of the DNS daemon: struct Zone, ZoneMgr::Lookup and       *)
(* DnsDaemonImpl::GetSoaZone.  The tree is built from the configuration    *)
(* and never changes afterwards.                                           *)
(*                                                                         *)
(* A zone is its position in ZoneTable; a parent precedes its children.  A *)
(* domain name is the sequence of its labels, the top level last.  The     *)
(* letter case of labels is abstracted away, so iequals is equality.       *)
(***************************************************************************)
EXTENDS Naturals, Sequences, SequencesExt

CONSTANTS
    ZoneTable,  \* the sequence of zones
    Labels      \* the labels of names

\* nullptr
NoZone == 0

Zone == DOMAIN ZoneTable

\* ns and mx are names relative to the zone, cname is <<>> if there is none.
ZoneRecord ==
    [label : Labels, parent : Zone \cup {NoZone}, soa : BOOLEAN, authorative : BOOLEAN,
     a : Nat, ns : Seq(Labels), mx : Seq(Labels), cname : Seq(Labels),
     cname_absolute : BOOLEAN]

ASSUME ZoneAssumption ==
    /\ ZoneTable \in Seq(ZoneRecord)
    /\ \A z \in Zone : ZoneTable[z].parent < z
    /\ \A y, z \in Zone : ZoneTable[y].parent = ZoneTable[z].parent
                          /\ ZoneTable[y].label = ZoneTable[z].label => y = z

Children(z) == {c \in Zone : ZoneTable[c].parent = z}

\* Zone::GetDomainName.  (The wildcard zone's own label is empty.)
DomainName[z \in Zone] ==
    LET up == ZoneTable[z].parent
    IN  <<ZoneTable[z].label>> \o (IF up = NoZone THEN <<>> ELSE DomainName[up])

(***************************************************************************)
(* ZoneMgr::Lookup takes the labels from the back and descends one level   *)
(* with each: to the zone of that label or else to the wildcard, the zone  *)
(* with the empty label.  It reports whether the last zone it passed is    *)
(* authorative, even if a later label is not found.                        *)
(***************************************************************************)
Labelled(zones, label) == {z \in zones : ZoneTable[z].label = label}

\* Mutant: a wildcard is preferred to a zone of that label.
DescendWildcardFirst(label, z) ==
    LET match     == Labelled(Children(z), label)
        wildchard == Labelled(Children(z), "")
    IN  IF wildchard # {} THEN wildchard ELSE match

\* The zone to go on with from z, if there is one.
Descend(label, z) ==
    LET match     == Labelled(Children(z), label)
        wildchard == Labelled(Children(z), "")
    IN  IF match # {} THEN match ELSE wildchard

\* Where the last n labels of the name lead: to a zone, if there is one.
Passed(name) ==
    LET zones[n \in 0 .. Len(name)] ==
            IF n = 0 THEN {NoZone}
            ELSE UNION {Descend(name[Len(name) - n + 1], z) : z \in zones[n - 1]}
    IN  zones

Lookup(name) ==
    LET found == Passed(name)[Len(name)]
    IN  IF found = {} THEN NoZone ELSE Max(found)

\* Mutant: any name is taken for a sub-domain of ours.
AuthorativeAlways(name) == TRUE

\* Parents precede their children, so the last zone passed is the greatest.
AuthorativeDuringLookup(name) ==
    LET passed == UNION {Passed(name)[n] : n \in 1 .. Len(name)}
    IN  passed # {} /\ ZoneTable[Max(passed)].authorative

(***************************************************************************)
(* GetSoaZone: "for(z = zone; z && !z->soa; z = zone->parent)".  The step  *)
(* takes the parent of zone, not of z: after two turns it goes round for   *)
(* ever.                                                                   *)
(***************************************************************************)
Spins == Len(ZoneTable) + 1

\* Mutant: "z && !zone->soa", so a zone without a SOA of its own is never left.
GetSoaZoneOwnOnly(z) ==
    IF ZoneTable[z].soa THEN z
    ELSE IF ZoneTable[z].parent = NoZone THEN NoZone
    ELSE Spins

\* Mutant: the walk stops at the parent, whether it has a SOA or not.
GetSoaZoneParent(z) ==
    IF ZoneTable[z].soa \/ ZoneTable[z].parent = NoZone THEN z ELSE ZoneTable[z].parent

GetSoaZone(z) ==
    LET up == ZoneTable[z].parent
    IN  IF ZoneTable[z].soa THEN z
        ELSE IF up = NoZone THEN NoZone
        ELSE IF ZoneTable[up].soa THEN up
        ELSE Spins
=============================================================================
