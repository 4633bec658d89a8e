-------------------------- MODULE NameCompression --------------------------
(***************************************************************************)
(* How AnswerBase writes names into a reply: names that end like one that  *)
(* is already there end in a pointer to it.                                *)
(*                                                                         *)
(* The reply buffer is a sequence of cells.  A cell is a label with its    *)
(* length byte, an end mark, a pointer, or "data": any other bytes.  An    *)
(* offset is the place of a cell.  The marks 0xC000 that distinguish       *)
(* pointers on the wire are in the kind of the cell.                       *)
(*                                                                         *)
(* A name is a sequence of labels, a label a sequence of characters.  The  *)
(* label of a wildcard zone is empty: its length byte is the end mark.     *)
(*                                                                         *)
(* A definition marked "Mutant" is a wrong version of the one below it: no *)
(* specification uses it; put in its place, it makes a property fail.      *)
(***************************************************************************)
EXTENDS Naturals, Sequences, FiniteSets

Cell(kind, text, to) == [kind |-> kind, text |-> text, to |-> to]
EndMark == Cell("end", <<>>, 0)
Data == Cell("data", <<>>, 0)
PointerTo(at) == Cell("pointer", <<>>, at)
LabelCell(text) == IF text = <<>> THEN EndMark ELSE Cell("label", text, 0)

(***************************************************************************)
(* The labels of the name at an offset, each with its own offset.  The     *)
(* walk of a client that reads the name, and of ReverseCompare.  The code  *)
(* has no bound for it: here the walk ends after as many steps as a reply  *)
(* without a cycle can make it take.                                       *)
(***************************************************************************)
\* What is read at every offset, from what is read with one step less.
Follow(buffer, rest) == [at \in Nat |->
    IF at \notin DOMAIN buffer THEN <<>>
    ELSE CASE buffer[at].kind = "label" ->
                <<[at |-> at, text |-> buffer[at].text]>> \o rest[at + 1]
           [] buffer[at].kind = "pointer" -> rest[buffer[at].to]
           [] OTHER -> <<>>]

Walk(buffer, steps) ==
    LET walk[n \in 0 .. steps] ==
            IF n = 0 THEN [at \in Nat |-> <<>>] ELSE Follow(buffer, walk[n - 1])
    IN  walk[steps]

Chain(buffer, offset) == Walk(buffer, 2 * Len(buffer))[offset]

ReadName(buffer, offset) ==
    LET chain == Chain(buffer, offset)
    IN  [i \in 1 .. Len(chain) |-> chain[i].text]
-----------------------------------------------------------------------------
(***************************************************************************)
(* ReverseCompare: how many labels at the end of frags and of a name that  *)
(* was written before are the same.  The result is where the name has the  *)
(* first of them, and curr_frag, which of the frags this is (from 0).      *)
(***************************************************************************)
Common(frags, chain) ==
    LET same(k) == \A i \in 0 .. k - 1 :
                        frags[Len(frags) - i] = chain[Len(chain) - i].text
    IN  CHOOSE k \in 0 .. Len(frags) :
            /\ k <= Len(chain) /\ same(k)
            /\ k = Len(frags) \/ k = Len(chain) \/ ~same(k + 1)

\* Mutant: a name that is there as a whole is not used.
UsableInPart(frags, chain, k) == k > 0 /\ k < Len(frags)

\* curr_frag has to be a place in frags.  It is not if nothing matches, and it
\* has become negative if the other name goes on where frags has ended.
Usable(frags, chain, k) == k > 0 /\ (k = Len(frags) => Len(chain) = k)

\* Mutant: the pointer leads to the start of the other name.
MatchStart(frags, chain) ==
    LET k == Common(frags, chain)
    IN  [frag |-> Len(frags) - k, at |-> chain[1].at]

\* Mutant: the pointer leads behind the first label that matches.
MatchBehind(frags, chain) ==
    LET k == Common(frags, chain)
    IN  [frag |-> Len(frags) - k, at |-> chain[Len(chain) - k + 1].at + 1]

Match(frags, chain) ==
    LET k == Common(frags, chain)
    IN  [frag |-> Len(frags) - k, at |-> chain[Len(chain) - k + 1].at]

\* No match: all of frags has to be written.
NoMatch(frags) == [frag |-> Len(frags), at |-> 0]

\* SearchForDomainName: the first of the best matches.
SearchForDomainName(frags, points, buffer) ==
    LET known   == {[nth |-> i, chain |-> Chain(buffer, points[i])] : i \in DOMAIN points}
        usable  == {p \in known : Usable(frags, p.chain, Common(frags, p.chain))}
        matches == {[nth |-> p.nth, match |-> Match(frags, p.chain)] : p \in usable}
        last    == [nth |-> Len(points) + 1, match |-> NoMatch(frags)]
        best    == CHOOSE m \in matches \cup {last} : \A other \in matches :
                        \/ m.match.frag < other.match.frag
                        \/ m.match.frag = other.match.frag /\ m.nth <= other.nth
    IN  best.match

\* The labels of frags that have to be written, and what comes behind them.
LabelsUpTo(frags, n) == [i \in 1 .. n |-> LabelCell(frags[i])]
Ending(at) == IF at = 0 THEN EndMark ELSE PointerTo(at)

\* WriteDomainName without a zone: the buffer with the name at its end.
AppendName(buffer, points, frags) ==
    LET found == SearchForDomainName(frags, points, buffer)
    IN  Append(buffer \o LabelsUpTo(frags, found.frag), Ending(found.at))

AddLabelForCompression(points, offset, buffer) ==
    LET dst == IF buffer[offset].kind = "pointer" THEN buffer[offset].to ELSE offset
    IN  IF \E i \in DOMAIN points : points[i] = dst THEN points
        ELSE Append(points, offset)
-----------------------------------------------------------------------------
(***************************************************************************)
(* Writing a record.  w is what is written so far: the buffer, the offsets *)
(* known for compression (label_start_points_) and, for the properties,    *)
(* the names: where each one is and what it should be read as.             *)
(***************************************************************************)
WriteDomainName(w, name) ==
    LET start  == Len(w.buffer) + 1
        buffer == AppendName(w.buffer, w.points, name)
    IN  [buffer |-> buffer,
         points |-> AddLabelForCompression(w.points, start, buffer),
         names  |-> Append(w.names, [at |-> start, name |-> name])]

\* The name of a record is that of the question, by a pointer, or its own.
WriteHeader(w, question, record) ==
    LET start   == Len(w.buffer) + 1
        buffer  == Append(w.buffer, PointerTo(question.at))
        pointed == [buffer |-> buffer,
                    points |-> AddLabelForCompression(w.points, question.at, buffer),
                    names  |-> Append(w.names, [at |-> start, name |-> question.name])]
        named   == IF record.by_pointer THEN pointed ELSE WriteDomainName(w, record.name)
    IN  [named EXCEPT !.buffer = Append(@, Data)]

\* A name is completed with that of its zone, unless it ends in a dot.
Qualified(n) == IF n.dot \/ n.labels = <<>> THEN n.labels ELSE n.labels \o n.zone

\* The Write of RdataA (no names), RdataCname, RdataMx, RdataNs (one), RdataSoa
\* (two).
WriteRecord(w, question, record) ==
    LET write[i \in 0 .. Len(record.rdata)] ==
            IF i = 0 THEN WriteHeader(w, question, record)
                     ELSE WriteDomainName(write[i - 1], Qualified(record.rdata[i]))
    IN  write[Len(record.rdata)]

Revert(w, before) == [w EXCEPT !.buffer = before.buffer, !.names = before.names]
=============================================================================
