------------------------- MODULE DnsMessagesProofs -------------------------
(***************************************************************************)
(* Proofs about the parser of a question: for datagrams of any bytes and   *)
(* of any length, whatever the limits are, an accepted question is all in  *)
(* the datagram and spelled out in full, and the parser does not run for   *)
(* ever on pointers.                                                       *)
(*                                                                         *)
(* Then about the names in the reply: for any records whose names have no  *)
(* empty label, each name is read as it was meant, and once only spelled   *)
(* out.                                                                    *)
(***************************************************************************)
EXTENDS DnsMessages, SumTheorems, SequenceTheorems, TLAPS

Label == [begin : Nat, len : Nat]

\* Where the length byte behind a label is.
EndOf(label) == label.begin + label.len

Parser == [pc : {"parsing", "name_read", "accepted", "refused", "copied"},
           p : Nat, names : Seq(Label), known : SUBSET Label,
           size : Nat, buffer_size : Nat, traversing : BOOLEAN]

ParserOK ==
    /\ query \in Seq(Bytes)
    /\ parser \in Parser

(***************************************************************************)
(* The inductive invariant.                                                *)
(*                                                                         *)
(* Every turn of the loop adds to size_ at least 1 (Sized), which bounds   *)
(* the number of turns.                                                    *)
(*                                                                         *)
(* A label that is kept is a length byte and as many bytes behind it, all  *)
(* in the datagram (KnownInDatagram).                                      *)
(*                                                                         *)
(* Before the first pointer the labels fill the buffer from its start to p *)
(* (Plain), and behind each label comes another one, or p.  From the first *)
(* pointer on the parser goes round (Circle): at p, and behind every label *)
(* that a pointer may lead to, there is a pointer or one of the labels     *)
(* from before the pointer, never the byte 0 that would end the name.      *)
(***************************************************************************)
Sized == Len(parser.names) <= parser.size /\ parser.size <= MaxName

KnownInDatagram ==
    parser.pc # "copied" =>
        /\ Size >= 0
        /\ parser.p <= Size
        /\ \A label \in parser.known :
              /\ label.begin >= 1 /\ EndOf(label) <= Size
              /\ Byte(label.begin - 1) = label.len
              /\ label.len # 0 /\ IsLength(label.len)
        /\ \A i \in 1 .. Len(parser.names) : parser.names[i] \in parser.known

Plain ==
    parser.pc \in {"parsing", "name_read", "accepted"} /\ ~parser.traversing =>
        /\ parser.names = <<>> => parser.p = 0
        /\ parser.names # <<>> => parser.p = EndOf(parser.names[Len(parser.names)])
        /\ parser.buffer_size = IF parser.pc = "parsing" THEN parser.p ELSE parser.p + 1
        /\ \A i \in 1 .. Len(parser.names) :
                parser.names[i].begin = IF i = 1 THEN 1 ELSE EndOf(parser.names[i - 1]) + 1
        /\ \A label \in parser.known :
              \/ EndOf(label) = parser.p
              \/ \E other \in parser.known : other.begin = EndOf(label) + 1

GoesOn(at) == IsPointer(Byte(at)) \/ \E label \in parser.known : label.begin = at + 1

Circle ==
    parser.pc = "parsing" /\ parser.traversing =>
        /\ GoesOn(parser.p)
        /\ \A label \in parser.known : GoesOn(EndOf(label))

Ended ==
    /\ parser.pc \in {"name_read", "accepted"} => ~parser.traversing /\ parser.names # <<>>
    /\ parser.pc = "accepted" => parser.buffer_size + TailSize <= Size

ParserInv ==
    /\ ParserOK
    /\ Sized
    /\ KnownInDatagram
    /\ Plain
    /\ Circle
    /\ Ended

USE LabelAssumption
-----------------------------------------------------------------------------
(***************************************************************************)
(* Lemmas about the operators.                                             *)
(***************************************************************************)

\* A byte is a length, a pointer or neither; and 0 is not a pointer.
LEMMA LengthOrPointer ==
    ASSUME NEW b \in Bytes
    PROVE  /\ b \in Nat
           /\ ~(IsLength(b) /\ IsPointer(b))
           /\ ~IsPointer(0)
<1> DEFINE k == ByteMod \div 4
<1>1. b \in Nat /\ ByteMod \in Nat /\ ByteMod >= 1 /\ ByteMod % 4 = 0
  OBVIOUS
<1>2. k \in Nat /\ k >= 1
  BY <1>1
<1> HIDE DEF k
<1> QED
  BY <1>1, <1>2 DEF IsLength, IsPointer, k

\* The length byte that the parser looks at is in the buffer: it is at most the one
\* behind the datagram.
LEMMA ByteInBuffer ==
    ASSUME ParserOK, NEW at \in Nat, at <= Size, Size >= 0
    PROVE  Byte(at) \in Bytes
BY DEF ParserOK, Size, Byte
-----------------------------------------------------------------------------
(***************************************************************************)
(* The steps of the parser preserve the invariant.                         *)
(***************************************************************************)

\* A datagram of any bytes, with the byte behind it.
LEMMA InitInv ==
    Init => ParserInv
<1> SUFFICES ASSUME Init PROVE ParserInv
  OBVIOUS
<1>1. PICK n \in 0 .. MaxQuery : query \in [1 .. n + 1 -> Bytes]
  BY DEF Init
<1>2. query \in Seq(Bytes) /\ Len(query) = n + 1
  BY <1>1
<1>3. parser \in Parser
  BY DEF Init, Start, Parser
<1> QED
  BY <1>2, <1>3 DEF Init, Start, ParserInv, ParserOK, Sized, KnownInDatagram, Plain, Circle,
     Ended, Size

\* A question that is refused is not looked at again.
LEMMA ThrowInv ==
    ASSUME ParserInv, Throw, query' = query, parser.pc # "copied"
    PROVE  ParserInv'
<1>1. /\ parser' \in Parser /\ parser'.pc = "refused"
      /\ parser'.p = parser.p /\ parser'.names = parser.names /\ parser'.known = parser.known
      /\ parser'.size = parser.size
  BY DEF ParserInv, ParserOK, Throw, Parser
<1> QED
  BY <1>1 DEF ParserInv, ParserOK, Sized, KnownInDatagram, Plain, Circle, Ended, Size, Byte

\* A byte 0 ends the name only if the parser has not followed a pointer.
LEMMA RootLabelInv ==
    ASSUME ParserInv, RootLabel, query' = query
    PROVE  ParserInv'
<1> USE DEF ParserInv
<1>1. parser.pc = "parsing" /\ Byte(parser.p) = 0
  BY DEF RootLabel
<1>2. CASE Throw
  BY <1>1, <1>2, ThrowInv
<1>3. CASE ~(parser.size + 1 > MaxName \/ parser.names = <<>>)
  <2>1. parser \in Parser /\ Size >= 0 /\ parser.p <= Size
    BY <1>1 DEF ParserOK, KnownInDatagram
  <2>2. ~parser.traversing
    <3>1. Byte(parser.p) \in Bytes
      BY <2>1, ByteInBuffer DEF Parser
    <3>2. \A label \in parser.known : label.begin # parser.p + 1
      <4> SUFFICES ASSUME NEW label \in parser.known, label.begin = parser.p + 1 PROVE FALSE
        OBVIOUS
      <4>1. label.begin - 1 = parser.p
        BY <2>1 DEF Parser
      <4> QED
        BY <1>1, <4>1 DEF KnownInDatagram
    <3>3. ~GoesOn(parser.p)
      BY <1>1, <3>1, <3>2, LengthOrPointer DEF GoesOn
    <3> QED
      BY <1>1, <3>3 DEF Circle
  <2>3. /\ parser' \in Parser /\ parser'.pc = "name_read"
        /\ parser'.size = parser.size + 1 /\ parser'.buffer_size = parser.buffer_size + 1
        /\ parser'.p = parser.p /\ parser'.names = parser.names /\ parser'.known = parser.known
        /\ parser'.traversing = parser.traversing
    <3>1. parser' = [parser EXCEPT !.size = parser.size + 1,
                                   !.buffer_size = parser.buffer_size + 1,
                                   !.pc = "name_read"]
      <4>1. Used(1) = 1
        BY <2>2 DEF Used
      <4> QED
        BY <1>3, <4>1 DEF RootLabel
    <3>2. parser.size + 1 \in Nat /\ parser.buffer_size + 1 \in Nat
      BY <2>1 DEF Parser
    <3> QED
      BY <2>1, <3>1, <3>2 DEF Parser
  <2>4. ParserOK' /\ Sized'
    BY <1>3, <2>1, <2>3 DEF ParserOK, Sized, Parser
  <2>5. KnownInDatagram'
    BY <1>1, <2>3 DEF KnownInDatagram, Size, Byte
  <2>6. Plain'
    BY <1>1, <2>2, <2>3 DEF Plain
  <2>7. Circle' /\ Ended'
    BY <1>3, <2>2, <2>3 DEF Circle, Ended
  <2> QED
    BY <2>4, <2>5, <2>6, <2>7
<1> QED
  BY <1>2, <1>3 DEF RootLabel

\* A label: before the first pointer a new one, afterwards one that is known.
LEMMA NormalLabelInv ==
    ASSUME ParserInv, NormalLabel, query' = query
    PROVE  ParserInv'
<1> USE DEF ParserInv
<1> DEFINE len == Byte(parser.p)
           label == [begin |-> parser.p + 1, len |-> len]
           known == IF parser.traversing THEN parser.known ELSE parser.known \cup {label}
           used == Used(len + 1)
<1>1. /\ parser.pc = "parsing" /\ len # 0 /\ IsLength(len)
      /\ parser \in Parser /\ Size >= 0 /\ parser.p <= Size /\ parser.p \in Nat
  BY DEF NormalLabel, ParserOK, KnownInDatagram, Parser
<1>2. CASE Throw
  BY <1>1, <1>2, ThrowInv
<1>3. CASE /\ ~(parser.p + 1 + len > Size) /\ ~(parser.size + len > MaxName)
           /\ parser' = [parser EXCEPT !.size = parser.size + len,
                                       !.buffer_size = parser.buffer_size + used,
                                       !.known = known,
                                       !.names = Append(parser.names, label),
                                       !.p = parser.p + 1 + len]
  <2>1. /\ len \in Bytes /\ len \in Nat /\ len >= 1 /\ ~IsPointer(len)
        /\ Size \in Int /\ MaxName \in Nat
        /\ parser.p + 1 + len <= Size /\ parser.size + len <= MaxName
    <3>1. len \in Bytes
      BY <1>1, ByteInBuffer
    <3>2. len \in Nat /\ ~IsPointer(len)
      BY <1>1, <3>1, LengthOrPointer
    <3>3. Size \in Int /\ parser.size \in Nat
      BY DEF ParserOK, Size, Parser
    <3> HIDE DEF len
    <3> QED
      BY <1>1, <1>3, <3>1, <3>2, <3>3
  <2>2. /\ label \in Label /\ label.begin = parser.p + 1 /\ label.len = len
        /\ EndOf(label) = parser.p + 1 + len
    BY <1>1, <2>1 DEF Label, EndOf
  <2>3. used \in Nat /\ (~parser.traversing => used = len + 1)
    BY <2>1 DEF Used
  <2>4. parser.size + len \in Nat /\ parser.buffer_size + used \in Nat
        /\ parser.p + 1 + len \in Nat /\ known \in SUBSET Label
        /\ Append(parser.names, label) \in Seq(Label)
    BY <1>1, <2>1, <2>2, <2>3, SMTT(30) DEF Parser
  <2> HIDE DEF used, known, label, len
  <2>5. /\ parser' \in Parser /\ parser'.pc = "parsing"
        /\ parser'.size = parser.size + len /\ parser'.buffer_size = parser.buffer_size + used
        /\ parser'.p = EndOf(label) /\ parser'.names = Append(parser.names, label)
        /\ parser'.known = known
        /\ parser'.traversing = parser.traversing
    BY <1>1, <1>3, <2>2, <2>4 DEF Parser
  <2>6. parser.traversing => label \in parser.known
    <3> SUFFICES ASSUME parser.traversing PROVE label \in parser.known
      OBVIOUS
    <3>1. PICK other \in parser.known : other.begin = parser.p + 1
      BY <1>1, <2>1 DEF Circle, GoesOn, len
    <3>2. other \in Label /\ other.begin - 1 = parser.p
      BY <1>1, <3>1 DEF Parser
    <3>3. other.len = len
      BY <1>1, <3>2 DEF KnownInDatagram, len
    <3>4. other = label
      BY <3>1, <3>2, <3>3 DEF Label, label
    <3> QED
      BY <3>4
  <2>7. label \in known /\ parser.known \subseteq known /\ known \subseteq parser.known \cup {label}
        /\ (parser.traversing => known = parser.known)
    BY <2>6 DEF known
  <2>8. /\ parser.names \in Seq(Label) /\ Len(parser.names) \in Nat
        /\ Len(parser'.names) = Len(parser.names) + 1
        /\ parser'.names[Len(parser.names) + 1] = label
        /\ \A i \in 1 .. Len(parser.names) : parser'.names[i] = parser.names[i]
    BY <1>1, <2>2, <2>5 DEF Parser
  <2>9. ParserOK' /\ Sized'
    <3>1. parser.size \in Nat /\ Len(parser.names) <= parser.size
      BY <1>1 DEF Sized, Parser
    <3> QED
      BY <2>1, <2>5, <2>8, <3>1 DEF ParserOK, Sized
  <2>10. KnownInDatagram'
    <3>1. \A l \in known : /\ l.begin >= 1 /\ EndOf(l) <= Size
                           /\ Byte(l.begin - 1) = l.len
                           /\ l.len # 0 /\ IsLength(l.len)
      <4> SUFFICES ASSUME NEW l \in known
                   PROVE  /\ l.begin >= 1 /\ EndOf(l) <= Size
                          /\ Byte(l.begin - 1) = l.len
                          /\ l.len # 0 /\ IsLength(l.len)
        OBVIOUS
      <4>1. CASE l \in parser.known
        BY <1>1, <4>1 DEF KnownInDatagram
      <4>2. CASE l = label
        <5>1. label.begin - 1 = parser.p /\ label.begin >= 1 /\ EndOf(label) <= Size
          BY <1>1, <2>1, <2>2
        <5> QED
          BY <1>1, <2>2, <4>2, <5>1 DEF len
      <4> QED
        BY <2>7, <4>1, <4>2
    <3>2. \A i \in 1 .. Len(parser'.names) : parser'.names[i] \in known
      <4>1. \A i \in 1 .. Len(parser.names) : parser.names[i] \in known
        BY <1>1, <2>7 DEF KnownInDatagram
      <4> QED
        BY <2>7, <2>8, <4>1, SMTT(30)
    <3>3. EndOf(label) <= Size
      BY <2>7, <3>1
    <3> QED
      BY <1>1, <2>5, <3>1, <3>2, <3>3 DEF KnownInDatagram, Size, Byte
  <2>11. Plain'
    <3> SUFFICES ASSUME ~parser.traversing PROVE Plain'
      BY <2>5 DEF Plain
    <3>1. /\ parser.buffer_size = parser.p
          /\ parser.names = <<>> => parser.p = 0
          /\ parser.names # <<>> => parser.p = EndOf(parser.names[Len(parser.names)])
          /\ \A i \in 1 .. Len(parser.names) :
                parser.names[i].begin = IF i = 1 THEN 1 ELSE EndOf(parser.names[i - 1]) + 1
          /\ \A l \in parser.known :
                EndOf(l) = parser.p \/ \E other \in parser.known : other.begin = EndOf(l) + 1
      BY <1>1 DEF Plain
    <3>2. parser'.buffer_size = parser'.p
      <4>1. parser.p \in Nat /\ used = len + 1
        BY <1>1, <2>3
      <4> QED
        <5>1. parser'.buffer_size = parser.p + (len + 1) /\ parser'.p = parser.p + 1 + len
          BY <2>2, <2>5, <3>1, <4>1
        <5> QED
          BY <2>1, <4>1, <5>1
    <3>3. parser'.names # <<>> /\ parser'.p = EndOf(parser'.names[Len(parser'.names)])
      <4>1. Len(parser'.names) # 0
        BY <2>8
      <4> QED
        BY <2>5, <2>8, <4>1
    <3>4. ASSUME NEW i \in 1 .. Len(parser'.names)
          PROVE  parser'.names[i].begin = IF i = 1 THEN 1 ELSE EndOf(parser'.names[i - 1]) + 1
      <4>1. CASE i \in 1 .. Len(parser.names)
        <5>1. parser'.names[i] = parser.names[i] /\ (i # 1 => i - 1 \in 1 .. Len(parser.names))
          BY <2>8, <4>1
        <5>2. i # 1 => parser'.names[i - 1] = parser.names[i - 1]
          BY <2>8, <5>1
        <5> QED
          BY <3>1, <4>1, <5>1, <5>2
      <4>2. CASE i = Len(parser.names) + 1
        <5>1. CASE i = 1
          <6>1. parser.names = <<>>
            BY <2>8, <4>2, <5>1
          <6> QED
            BY <2>2, <2>8, <3>1, <4>2, <5>1, <6>1
        <5>2. CASE i # 1
          <6>1. parser.names # <<>> /\ i - 1 = Len(parser.names) /\ i - 1 \in 1 .. Len(parser.names)
            BY <2>8, <4>2, <5>2
          <6> QED
            BY <2>2, <2>8, <3>1, <4>2, <5>2, <6>1
        <5> QED
          BY <5>1, <5>2
      <4> QED
        BY <2>8, <4>1, <4>2
    <3>5. ASSUME NEW l \in known
          PROVE  EndOf(l) = parser'.p \/ \E other \in known : other.begin = EndOf(l) + 1
      <4>1. CASE l = label
        BY <2>5, <4>1
      <4>2. CASE l \in parser.known
        BY <2>2, <2>7, <3>1, <4>2
      <4> QED
        BY <2>7, <4>1, <4>2
    <3> QED
      BY <2>5, <3>2, <3>3, <3>4, <3>5 DEF Plain
  <2>12. Circle'
    <3> SUFFICES ASSUME parser.traversing PROVE Circle'
      BY <2>5 DEF Circle
    <3>1. known = parser.known /\ label \in parser.known
      BY <2>6, <2>7
    <3>2. \A l \in parser.known : GoesOn(EndOf(l))
      BY <1>1 DEF Circle
    <3>3. \A at : GoesOn(at) => (IsPointer(query'[at + 1]) \/ \E l \in parser'.known : l.begin = at + 1)
      BY <2>5, <3>1 DEF GoesOn, Byte
    <3> QED
      BY <2>5, <3>1, <3>2, <3>3 DEF Circle, GoesOn, Byte
  <2>13. Ended'
    BY <2>5 DEF Ended
  <2> QED
    BY <2>9, <2>10, <2>11, <2>12, <2>13
<1> QED
  BY <1>2, <1>3 DEF NormalLabel

\* A pointer: the parser goes on behind a label that it knows.
LEMMA CompressedLabelInv ==
    ASSUME ParserInv, CompressedLabel, query' = query
    PROVE  ParserInv'
<1> USE DEF ParserInv
<1>1. /\ parser.pc = "parsing" /\ IsPointer(Byte(parser.p))
      /\ parser \in Parser /\ Size >= 0 /\ parser.p <= Size /\ parser.p \in Nat
  BY DEF CompressedLabel, ParserOK, KnownInDatagram, Parser
<1>2. CASE Throw
  BY <1>1, <1>2, ThrowInv
<1>3. ASSUME NEW label \in FindPointer(parser.p), ~(parser.size + 2 > MaxName),
             parser' = [parser EXCEPT !.size = parser.size + 2,
                                      !.buffer_size = parser.buffer_size + Used(2),
                                      !.names = Append(parser.names, label),
                                      !.traversing = TRUE,
                                      !.p = EndOf(label)]
      PROVE  ParserInv'
  <2>1. label \in parser.known /\ label \in Label /\ EndOf(label) \in Nat
    BY <1>1 DEF FindPointer, Parser, Label, EndOf
  <2>2. Used(2) \in Nat
    BY DEF Used
  <2>3. parser.size + 2 \in Nat /\ parser.buffer_size + Used(2) \in Nat
        /\ Append(parser.names, label) \in Seq(Label)
    BY <1>1, <2>1, <2>2 DEF Parser
  <2>4. /\ parser' \in Parser /\ parser'.pc = "parsing"
        /\ parser'.size = parser.size + 2
        /\ parser'.p = EndOf(label) /\ parser'.names = Append(parser.names, label)
        /\ parser'.known = parser.known
        /\ parser'.traversing = TRUE
    BY <1>1, <1>3, <2>1, <2>3 DEF Parser
  <2>5. /\ Len(parser.names) \in Nat /\ Len(parser'.names) = Len(parser.names) + 1
        /\ parser'.names[Len(parser.names) + 1] = label
        /\ \A i \in 1 .. Len(parser.names) : parser'.names[i] = parser.names[i]
    BY <1>1, <2>1, <2>4 DEF Parser
  <2>6. ParserOK' /\ Sized'
    BY <1>1, <1>3, <2>4, <2>5, SMTT(30) DEF ParserOK, Sized, Parser
  <2>7. KnownInDatagram'
    <3>1. \A i \in 1 .. Len(parser'.names) : parser'.names[i] \in parser.known
      BY <1>1, <2>1, <2>5, SMTT(30) DEF KnownInDatagram
    <3> QED
      BY <1>1, <2>1, <2>4, <3>1 DEF KnownInDatagram, Size, Byte
  <2>8. \A l \in parser.known : GoesOn(EndOf(l))
    <3> SUFFICES ASSUME NEW l \in parser.known PROVE GoesOn(EndOf(l))
      OBVIOUS
    <3>1. CASE parser.traversing
      BY <1>1, <3>1 DEF Circle
    <3>2. CASE ~parser.traversing
      BY <1>1, <3>2 DEF Plain, GoesOn
    <3> QED
      BY <1>1, <3>1, <3>2 DEF Parser
  <2>9. Circle'
    BY <2>1, <2>4, <2>8 DEF Circle, GoesOn, Byte
  <2>10. Plain' /\ Ended'
    BY <2>4 DEF Plain, Ended
  <2> QED
    BY <2>6, <2>7, <2>9, <2>10
<1> QED
  BY <1>2, <1>3 DEF CompressedLabel, PointerSize, AfterPointer, EndOf

\* The type and the class are read if they are in the datagram.
LEMMA ReadTailInv ==
    ASSUME ParserInv, ReadTail, query' = query
    PROVE  ParserInv'
<1> USE DEF ParserInv
<1>1. parser.pc = "name_read" /\ parser \in Parser
  BY DEF ReadTail, ParserOK
<1>2. CASE Throw
  BY <1>1, <1>2, ThrowInv
<1>3. CASE TailFits /\ parser' = [parser EXCEPT !.pc = "accepted"]
  <2>1. /\ parser' \in Parser /\ parser'.pc = "accepted"
        /\ parser'.size = parser.size /\ parser'.buffer_size = parser.buffer_size
        /\ parser'.p = parser.p /\ parser'.names = parser.names
        /\ parser'.known = parser.known /\ parser'.traversing = parser.traversing
    BY <1>1, <1>3 DEF Parser
  <2> QED
    BY <1>1, <1>3, <2>1 DEF ParserOK, Sized, KnownInDatagram, Plain, Circle, Ended, TailFits,
       Size, Byte
<1> QED
  BY <1>2, <1>3 DEF ReadTail

\* Every step preserves the invariant; those that write the reply forget the query.
LEMMA NextInv ==
    ASSUME ParserInv, [Next]_vars
    PROVE  ParserInv'
<1>1. CASE Parse
  <2>1. query' = query
    BY <1>1 DEF Parse, ParseStep
  <2>2. CASE Empty \/ InvalidLength
    BY <2>1, <2>2, ThrowInv DEF Empty, InvalidLength
  <2> QED
    BY <1>1, <2>1, <2>2, RootLabelInv, NormalLabelInv, CompressedLabelInv, ReadTailInv
       DEF Parse, ParseStep
<1>2. CASE CopyQuestion
  <2>1. query' = <<>> /\ parser' = [Start EXCEPT !.pc = "copied"]
    BY <1>2 DEF CopyQuestion
  <2>2. /\ parser' \in Parser /\ parser'.pc = "copied" /\ parser'.names = <<>> /\ parser'.size = 0
    <3>1. Start \in Parser /\ Start.names = <<>> /\ Start.size = 0
      BY DEF Start, Parser
    <3> QED
      BY <2>1, <3>1 DEF Parser
  <2> QED
    BY <2>1, <2>2 DEF ParserInv, ParserOK, Sized, KnownInDatagram, Plain, Circle, Ended
<1>3. CASE UNCHANGED <<query, parser>>
  BY <1>3 DEF ParserInv, ParserOK, Sized, KnownInDatagram, Plain, Circle, Ended, GoesOn, Size, Byte
<1> QED
  BY <1>1, <1>2, <1>3 DEF Next, AddRecord, vars
-----------------------------------------------------------------------------
(***************************************************************************)
(* The theorems.                                                           *)
(***************************************************************************)

\* The inductive invariant holds in every reachable state.
THEOREM ParserInvariance ==
    Spec => []ParserInv
<1>1. Init => ParserInv
  BY InitInv
<1>2. ParserInv /\ [Next]_vars => ParserInv'
  BY NextInv
<1> QED
  BY <1>1, <1>2, PTL DEF Spec

\* Question accepts only what is in the datagram, to the last byte of its class.
THEOREM QuestionIsInDatagram ==
    Spec => []QuestionInDatagram
<1>1. ParserInv => QuestionInDatagram
  BY DEF ParserInv, ParserOK, Parser, KnownInDatagram, Ended, QuestionInDatagram, QuestionSize, EndOf
<1> QED
  BY ParserInvariance, <1>1, PTL

\* A name that LabelHeader accepts has no pointer in it: its labels lie one behind
\* the other from the first byte of the question on, and GetSize counts them all.
THEOREM AcceptedNameIsPlain ==
    Spec => []AcceptedIsPlain
<1>1. ParserInv => AcceptedIsPlain
  <2> SUFFICES ASSUME ParserInv, parser.pc = "accepted" PROVE AcceptedIsPlain
    BY DEF AcceptedIsPlain
  <2>1. /\ parser.names \in Seq(Label) /\ ~parser.traversing /\ parser.names # <<>>
        /\ parser.buffer_size = parser.p + 1
        /\ parser.p = EndOf(parser.names[Len(parser.names)])
        /\ \A i \in 1 .. Len(parser.names) :
                parser.names[i].begin = IF i = 1 THEN 1 ELSE EndOf(parser.names[i - 1]) + 1
    BY DEF ParserInv, ParserOK, Parser, Plain, Ended
  <2> QED
    BY <2>1, SMTT(30) DEF AcceptedIsPlain, EndOf
<1> QED
  BY ParserInvariance, <1>1, PTL

\* Whatever the pointers of a datagram are, LabelHeader keeps no more labels than a
\* name has bytes.
THEOREM ParserIsBounded ==
    Spec => []ParseBounded
<1>1. ParserInv => ParseBounded
  BY DEF ParserInv, ParserOK, Parser, Sized, ParseBounded
<1> QED
  BY ParserInvariance, <1>1, PTL
-----------------------------------------------------------------------------
HIDE LabelAssumption

(***************************************************************************)
(* Names in the reply.  The chain of a name is described by what is in the *)
(* buffer from label to label, without the walk that reads it: the i-th    *)
(* label is at the place behind the one before it, or where a pointer in   *)
(* this place leads.  Nothing that is written behind it changes it.        *)
(***************************************************************************)
Link == [at : Nat, text : Seq(Nat)]

CellSet == [kind : {"label", "end", "pointer", "data"}, text : Seq(Nat), to : Nat]

Place(at, chain, i) == IF i = 1 THEN at ELSE chain[i - 1].at + 1

Leads(buffer, at, to) == at = to \/ (buffer[at].kind = "pointer" /\ buffer[at].to = to)

IsChain(buffer, at, chain) ==
    /\ chain \in Seq(Link) /\ Len(chain) < Len(buffer)
    /\ \A i \in 1 .. Len(chain) + 1 : Place(at, chain, i) \in 1 .. Len(buffer)
    /\ \A i \in 1 .. Len(chain) :
          /\ chain[i].at \in 1 .. Len(buffer)
          /\ buffer[chain[i].at].kind = "label" /\ buffer[chain[i].at].text = chain[i].text
          /\ Leads(buffer, Place(at, chain, i), chain[i].at)
    /\ buffer[Place(at, chain, Len(chain) + 1)].kind = "end"

Spells(chain, name) ==
    Len(chain) = Len(name) /\ \A i \in 1 .. Len(name) : chain[i].text = name[i]

-----------------------------------------------------------------------------
(***************************************************************************)
(* The walk along a chain finds its labels.                                *)
(***************************************************************************)

\* The equations of the function that Walk is defined by.
IsWalk(g, buffer, n) ==
    g = [i \in 0 .. n |-> IF i = 0 THEN [at \in Nat |-> <<>>] ELSE Follow(buffer, g[i - 1])]

\* There is such a function.
LEMMA WalkExists ==
    ASSUME NEW buffer, NEW n \in Nat
    PROVE  \E g : IsWalk(g, buffer, n)
<1> DEFINE Nowhere == [at \in Nat |-> <<>>]
           Good == {m \in 0 .. n : \E g : IsWalk(g, buffer, m)}
<1>1. 0 \in Good
  <2> DEFINE g == [i \in 0 .. 0 |-> Nowhere]
  <2>1. IsWalk(g, buffer, 0)
    BY DEF IsWalk
  <2> HIDE DEF g
  <2> QED
    BY <2>1
<1>2. ASSUME NEW m \in 1 .. n, m - 1 \in Good PROVE m \in Good
  <2>1. PICK g : IsWalk(g, buffer, m - 1)
    BY <1>2
  <2> HIDE DEF Nowhere
  <2> DEFINE h == [i \in 0 .. m |-> IF i = m THEN Follow(buffer, g[m - 1]) ELSE g[i]]
  <2>2. \A i \in 0 .. m - 1 : g[i] = IF i = 0 THEN Nowhere ELSE Follow(buffer, g[i - 1])
    BY <2>1 DEF IsWalk, Nowhere
  <2>3. \A i \in 0 .. m : h[i] = IF i = 0 THEN Nowhere ELSE Follow(buffer, h[i - 1])
    <3> TAKE i \in 0 .. m
    <3>1. CASE i = m
      BY <3>1
    <3>2. CASE i # m /\ i = 0
      BY <2>2, <3>2
    <3>3. CASE i # m /\ i # 0
      <4>1. i \in 0 .. m - 1 /\ i - 1 \in 0 .. m - 1 /\ i - 1 # m
        BY <3>3
      <4> QED
        BY <2>2, <3>3, <4>1
    <3> QED
      BY <3>1, <3>2, <3>3
  <2>4. IsWalk(h, buffer, m)
    BY <2>3 DEF IsWalk, Nowhere
  <2> HIDE DEF h
  <2> QED
    BY <2>4
<1> HIDE DEF Good
<1>3. \A m \in 0 .. n : m \in Good
  BY <1>1, <1>2, UpTo
<1> QED
  BY <1>3 DEF Good

\* Walk is the last value of any such function.
LEMMA WalkIsLast ==
    ASSUME NEW buffer, NEW n \in Nat, NEW h, IsWalk(h, buffer, n)
    PROVE  Walk(buffer, n) = h[n]
<1> DEFINE Nowhere == [at \in Nat |-> <<>>]
           g == CHOOSE g : g = [i \in 0 .. n |-> IF i = 0 THEN [at \in Nat |-> <<>>]
                                                 ELSE Follow(buffer, g[i - 1])]
<1>1. IsWalk(g, buffer, n)
  BY DEF IsWalk
<1>2. Walk(buffer, n) = g[n]
  BY DEF Walk
<1> HIDE DEF g
<1>3. \A f : IsWalk(f, buffer, n) => /\ f[0] = Nowhere
                                     /\ \A i \in 1 .. n : f[i] = Follow(buffer, f[i - 1])
  <2> HIDE DEF Nowhere
  <2> SUFFICES ASSUME NEW f, IsWalk(f, buffer, n)
               PROVE  f[0] = Nowhere /\ \A i \in 1 .. n : f[i] = Follow(buffer, f[i - 1])
    OBVIOUS
  <2>1. \A i \in 0 .. n : f[i] = IF i = 0 THEN Nowhere ELSE Follow(buffer, f[i - 1])
    BY DEF IsWalk, Nowhere
  <2> QED
    BY <2>1
<1> HIDE DEF Nowhere
<1> DEFINE Good == {m \in 0 .. n : g[m] = h[m]}
<1>4. 0 \in Good
  BY <1>1, <1>3
<1>5. ASSUME NEW m \in 1 .. n, m - 1 \in Good PROVE m \in Good
  BY <1>1, <1>3, <1>5
<1> HIDE DEF Good
<1>6. \A m \in 0 .. n : m \in Good
  BY <1>4, <1>5, UpTo
<1> QED
  BY <1>2, <1>6 DEF Good

\* A walk with one more step.
LEMMA WalkStep ==
    ASSUME NEW buffer, NEW n \in Nat
    PROVE  Walk(buffer, n + 1) = Follow(buffer, Walk(buffer, n))
<1>1. n + 1 \in Nat
  OBVIOUS
<1>2. PICK g : IsWalk(g, buffer, n + 1)
  BY <1>1, WalkExists
<1> DEFINE Nowhere == [at \in Nat |-> <<>>]
           h == [i \in 0 .. n |-> g[i]]
<1> HIDE DEF Nowhere
<1>3. \A i \in 0 .. n + 1 : g[i] = IF i = 0 THEN Nowhere ELSE Follow(buffer, g[i - 1])
  BY <1>2 DEF IsWalk, Nowhere
<1>4. \A i \in 0 .. n : h[i] = IF i = 0 THEN Nowhere ELSE Follow(buffer, h[i - 1])
  BY <1>3
<1>5. IsWalk(h, buffer, n) /\ h[n] = g[n]
  BY <1>4 DEF IsWalk, Nowhere
<1> HIDE DEF h
<1>6. Walk(buffer, n + 1) = g[n + 1] /\ Walk(buffer, n) = g[n]
  BY <1>1, <1>2, <1>5, WalkIsLast
<1>7. n + 1 \in 0 .. n + 1 /\ n + 1 # 0 /\ (n + 1) - 1 = n
  OBVIOUS
<1> QED
  BY <1>3, <1>6, <1>7

\* The chain without its first label.
Rest(chain) == [i \in 1 .. Len(chain) - 1 |-> chain[i + 1]]

LEMMA RestFacts ==
    ASSUME NEW buffer \in Seq(CellSet), NEW at, NEW chain,
           IsChain(buffer, at, chain), Len(chain) # 0
    PROVE  /\ IsChain(buffer, chain[1].at + 1, Rest(chain))
           /\ Len(Rest(chain)) = Len(chain) - 1
           /\ chain = <<chain[1]>> \o Rest(chain)
<1> DEFINE rest == Rest(chain)
<1>1. /\ chain \in Seq(Link) /\ Len(chain) \in Nat /\ Len(chain) >= 1
      /\ Len(buffer) \in Nat /\ Len(chain) < Len(buffer)
  BY DEF IsChain
<1>2. /\ rest \in Seq(Link) /\ Len(rest) = Len(chain) - 1
      /\ \A i \in 1 .. Len(chain) - 1 : rest[i] = chain[i + 1]
  <2>1. \A i \in 1 .. Len(chain) - 1 : i + 1 \in 1 .. Len(chain) /\ chain[i + 1] \in Link
    BY <1>1
  <2>2. Len(chain) - 1 \in Nat
    BY <1>1
  <2> QED
    BY <2>1, <2>2 DEF Rest
<1>3. chain = <<chain[1]>> \o rest
  <2>1. chain[1] \in Link
    BY <1>1
  <2> HIDE DEF rest
  <2>2. <<chain[1]>> \o rest \in Seq(Link) /\ Len(<<chain[1]>> \o rest) = Len(chain)
    BY <1>1, <1>2, <2>1
  <2>3. ASSUME NEW i \in 1 .. Len(chain) PROVE (<<chain[1]>> \o rest)[i] = chain[i]
    <3>1. CASE i = 1
      BY <1>1, <1>2, <2>1, <3>1
    <3>2. CASE i # 1
      <4>1. i - 1 \in 1 .. Len(chain) - 1 /\ (i - 1) + 1 = i
        BY <1>1, <3>2
      <4>2. (<<chain[1]>> \o rest)[i] = rest[i - 1]
        BY <1>1, <1>2, <2>1, <3>2
      <4> QED
        BY <1>2, <4>1, <4>2
    <3> QED
      BY <3>1, <3>2
  <2> QED
    BY <1>1, <2>2, <2>3, SeqEqual
<1> HIDE DEF rest
<1>4. \A i \in 1 .. Len(rest) + 1 : Place(chain[1].at + 1, rest, i) = Place(at, chain, i + 1)
  <2> TAKE i \in 1 .. Len(rest) + 1
  <2>1. CASE i = 1
    BY <2>1 DEF Place
  <2>2. CASE i # 1
    <3>1. i - 1 \in 1 .. Len(chain) - 1 /\ (i - 1) + 1 = i /\ (i + 1) - 1 = i /\ i + 1 # 1
      BY <1>1, <1>2, <2>2
    <3>2. rest[i - 1] = chain[i]
      BY <1>2, <3>1
    <3> QED
      BY <2>2, <3>1, <3>2 DEF Place
  <2> QED
    BY <2>1, <2>2
<1>5. \A i \in 1 .. Len(rest) + 1 : i + 1 \in 1 .. Len(chain) + 1
  BY <1>1, <1>2
<1>6. \A i \in 1 .. Len(rest) : i + 1 \in 1 .. Len(chain) /\ rest[i] = chain[i + 1]
                                /\ i \in 1 .. Len(rest) + 1
  BY <1>1, <1>2
<1>7. Len(rest) + 1 \in 1 .. Len(rest) + 1 /\ (Len(rest) + 1) + 1 = Len(chain) + 1
  BY <1>1, <1>2
<1>8. Len(rest) < Len(buffer)
  BY <1>1, <1>2
<1> QED
  <2>1. IsChain(buffer, chain[1].at + 1, rest)
    BY <1>2, <1>4, <1>5, <1>6, <1>7, <1>8 DEF IsChain
  <2> QED
    BY <1>2, <1>3, <2>1 DEF rest

\* The step of a walk that reads a label.
LEMMA FollowLabel ==
    ASSUME NEW buffer \in Seq(CellSet), NEW rest, NEW at \in 1 .. Len(buffer),
           buffer[at].kind = "label"
    PROVE  Follow(buffer, rest)[at] = <<[at |-> at, text |-> buffer[at].text]>> \o rest[at + 1]
BY DEF Follow

\* The walk from the start of a chain reads its labels, if it has two steps for
\* each of them.
LEMMA WalkReadsChain ==
    ASSUME NEW buffer \in Seq(CellSet), NEW at, NEW chain, IsChain(buffer, at, chain)
    PROVE  Chain(buffer, at) = chain
<1> DEFINE Reads(n) == \A m \in Nat : m >= 2 * n =>
                           \A a, c : IsChain(buffer, a, c) /\ Len(c) = n => Walk(buffer, m)[a] = c
           Good == {n \in 0 .. Len(chain) : Reads(n)}
<1>1. Len(chain) \in Nat /\ Len(buffer) \in Nat /\ Len(chain) < Len(buffer)
  BY DEF IsChain
<1>2. 0 \in Good
  <2> SUFFICES ASSUME NEW a, NEW c, NEW m \in Nat, IsChain(buffer, a, c), Len(c) = 0
               PROVE  Walk(buffer, m)[a] = c
    OBVIOUS
  <2>1. c = <<>> /\ a \in 1 .. Len(buffer) /\ buffer[a].kind = "end" /\ a \in Nat
    BY DEF IsChain, Place
  <2>2. CASE m = 0
    <3>1. PICK g : IsWalk(g, buffer, 0)
      BY WalkExists
    <3>2. g[0] = [x \in Nat |-> <<>>]
      BY <3>1 DEF IsWalk
    <3>3. Walk(buffer, 0) = [x \in Nat |-> <<>>]
      BY <3>1, <3>2, WalkIsLast
    <3> QED
      BY <2>1, <2>2, <3>3
  <2>3. CASE m # 0
    <3>1. m - 1 \in Nat /\ (m - 1) + 1 = m
      BY <2>3
    <3>2. Walk(buffer, m) = Follow(buffer, Walk(buffer, m - 1))
      BY <3>1, WalkStep
    <3> QED
      BY <2>1, <3>2 DEF Follow
  <2> QED
    BY <2>1, <2>2, <2>3
<1>3. ASSUME NEW n \in 1 .. Len(chain), n - 1 \in Good PROVE n \in Good
  <2> SUFFICES Reads(n)
    <3> HIDE DEF Reads
    <3>1. n \in 0 .. Len(chain)
      BY <1>1
    <3> QED
      BY <3>1
  <2> SUFFICES ASSUME NEW a, NEW c, NEW m \in Nat, IsChain(buffer, a, c), Len(c) = n, m >= 2 * n
               PROVE  Walk(buffer, m)[a] = c
    OBVIOUS
  <2>1. /\ c[1].at \in Nat /\ c[1].at \in 1 .. Len(buffer) /\ a \in 1 .. Len(buffer) /\ a \in Nat
        /\ buffer[c[1].at].kind = "label" /\ c[1] = [at |-> c[1].at, text |-> buffer[c[1].at].text]
        /\ Leads(buffer, a, c[1].at)
    <3>1. c \in Seq(Link) /\ 1 \in 1 .. Len(c) /\ 1 \in 1 .. Len(c) + 1
      BY DEF IsChain
    <3>2. c[1] \in Link
      BY <3>1
    <3>3. /\ c[1].at \in 1 .. Len(buffer) /\ Place(a, c, 1) = a /\ Place(a, c, 1) \in 1 .. Len(buffer)
          /\ buffer[c[1].at].kind = "label" /\ buffer[c[1].at].text = c[1].text
          /\ Leads(buffer, a, c[1].at)
      BY <3>1 DEF IsChain, Place
    <3> QED
      BY <3>2, <3>3 DEF Link
  <2>2. \A k \in Nat : k >= 2 * n - 1 => Walk(buffer, k)[c[1].at] = c
    <3> TAKE k \in Nat
    <3> HAVE k >= 2 * n - 1
    <3>1. k - 1 \in Nat /\ (k - 1) + 1 = k /\ k - 1 >= 2 * (n - 1)
      OBVIOUS
    <3>2. /\ IsChain(buffer, c[1].at + 1, Rest(c)) /\ Len(Rest(c)) = n - 1
          /\ c = <<c[1]>> \o Rest(c)
      BY RestFacts
    <3>3. Walk(buffer, k - 1)[c[1].at + 1] = Rest(c)
      BY <1>3, <3>1, <3>2
    <3>4. Walk(buffer, k) = Follow(buffer, Walk(buffer, k - 1))
      BY <3>1, WalkStep
    <3>5. Walk(buffer, k)[c[1].at] = <<c[1]>> \o Walk(buffer, k - 1)[c[1].at + 1]
      <4> DEFINE x == c[1].at
                 w == Walk(buffer, k - 1)
                 l == [at |-> x, text |-> buffer[x].text]
      <4>1. x \in 1 .. Len(buffer) /\ buffer[x].kind = "label" /\ c[1] = l
        BY <2>1
      <4> HIDE DEF x, w
      <4>2. Follow(buffer, w)[x] = <<l>> \o w[x + 1]
        BY <4>1, FollowLabel
      <4> HIDE DEF l
      <4> QED
        BY <3>4, <4>1, <4>2 DEF x, w
    <3> QED
      BY <3>2, <3>3, <3>5
  <2>3. CASE a = c[1].at
    BY <2>2, <2>3
  <2>4. CASE buffer[a].kind = "pointer" /\ buffer[a].to = c[1].at
    <3>1. m - 1 \in Nat /\ (m - 1) + 1 = m /\ m - 1 >= 2 * n - 1
      OBVIOUS
    <3>2. Walk(buffer, m) = Follow(buffer, Walk(buffer, m - 1))
      BY <3>1, WalkStep
    <3>3. Walk(buffer, m)[a] = Walk(buffer, m - 1)[c[1].at]
      BY <2>1, <2>4, <3>2 DEF Follow
    <3> QED
      BY <2>2, <3>1, <3>3
  <2> QED
    BY <2>1, <2>3, <2>4 DEF Leads
<1> HIDE DEF Good
<1>4. \A n \in 0 .. Len(chain) : n \in Good
  BY <1>2, <1>3, <1>1, UpTo
<1>5. Reads(Len(chain))
  <2>1. Len(chain) \in Good
    BY <1>1, <1>4
  <2> QED
    BY <2>1 DEF Good
<1>6. 2 * Len(buffer) \in Nat /\ 2 * Len(buffer) >= 2 * Len(chain)
  BY <1>1
<1> QED
  BY <1>5, <1>6 DEF Chain
-----------------------------------------------------------------------------
(***************************************************************************)
(* The search for an earlier name with the same ending.                    *)
(***************************************************************************)
PlainName == {name \in Name : name # <<>> /\ \A i \in 1 .. Len(name) : name[i] # <<>>}

\* The last k labels of a name are those of a chain.
SameEnd(name, chain, k) ==
    \A i \in 0 .. k - 1 : name[Len(name) - i] = chain[Len(chain) - i].text

\* The comparison finds all that the ends have in common.
LEMMA CommonFacts ==
    ASSUME NEW name \in Name, NEW chain \in Seq(Link)
    PROVE  LET k == Common(name, chain)
           IN  /\ k \in 0 .. Len(name) /\ k <= Len(chain) /\ SameEnd(name, chain, k)
               /\ k = Len(name) \/ k = Len(chain) \/ ~SameEnd(name, chain, k + 1)
<1> DEFINE Fits(k) == /\ k <= Len(chain) /\ SameEnd(name, chain, k)
                      /\ k = Len(name) \/ k = Len(chain) \/ ~SameEnd(name, chain, k + 1)
           least == IF Len(name) <= Len(chain) THEN Len(name) ELSE Len(chain)
           Good == {k \in 0 .. least : SameEnd(name, chain, k)}
<1>1. Len(name) \in Nat /\ Len(chain) \in Nat
  BY DEF Name
<1>2. least \in Nat /\ least <= Len(name) /\ least <= Len(chain)
      /\ (least = Len(name) \/ least = Len(chain))
  BY <1>1
<1> HIDE DEF least
<1>3. \E k \in 0 .. Len(name) : Fits(k)
  <2> SUFFICES ASSUME \A k \in 0 .. Len(name) : ~Fits(k) PROVE FALSE
    OBVIOUS
  <2>1. 0 \in Good
    BY <1>2 DEF SameEnd
  <2>2. ASSUME NEW k \in 1 .. least, k - 1 \in Good PROVE k \in Good
    <3>1. /\ k - 1 \in 0 .. Len(name) /\ k - 1 <= Len(chain) /\ k - 1 # Len(name)
          /\ k - 1 # Len(chain) /\ (k - 1) + 1 = k /\ k \in 0 .. least
      BY <1>1, <1>2
    <3>2. SameEnd(name, chain, k - 1) /\ ~Fits(k - 1)
      BY <2>2, <3>1
    <3>3. SameEnd(name, chain, k)
      BY <3>1, <3>2
    <3> QED
      BY <3>1, <3>3
  <2> HIDE DEF Good
  <2>3. \A k \in 0 .. least : k \in Good
    BY <1>2, <2>1, <2>2, UpTo
  <2>4. SameEnd(name, chain, least)
    BY <1>2, <2>3 DEF Good
  <2> QED
    BY <1>1, <1>2, <2>4
<1>4. Common(name, chain) = CHOOSE k \in 0 .. Len(name) : Fits(k)
  BY DEF Common, SameEnd
<1> HIDE DEF Fits
<1>5. Common(name, chain) \in 0 .. Len(name) /\ Fits(Common(name, chain))
  BY <1>3, <1>4
<1> QED
  BY <1>5 DEF Fits

\* Of a chain that spells the name all labels are found.
LEMMA CommonWhole ==
    ASSUME NEW name \in Name, NEW chain \in Seq(Link), Spells(chain, name)
    PROVE  Common(name, chain) = Len(name)
<1> DEFINE k == Common(name, chain)
<1>1. /\ k \in 0 .. Len(name)
      /\ k = Len(name) \/ k = Len(chain) \/ ~SameEnd(name, chain, k + 1)
  BY CommonFacts
<1> HIDE DEF k
<1>2. Len(name) \in Nat /\ Len(chain) = Len(name)
  BY DEF Name, Spells
<1>3. k # Len(name) => SameEnd(name, chain, k + 1)
  <2> SUFFICES ASSUME k # Len(name), NEW i \in 0 .. (k + 1) - 1
               PROVE  name[Len(name) - i] = chain[Len(chain) - i].text
    BY DEF SameEnd
  <2>1. Len(name) - i \in 1 .. Len(name)
    BY <1>1, <1>2
  <2> QED
    BY <1>2, <2>1 DEF Spells
<1> QED
  BY <1>1, <1>2, <1>3 DEF k

\* The offsets for compression are those of labels.
PointsRead(buffer, points) ==
    \A i \in 1 .. Len(points) :
        \E chain : IsChain(buffer, points[i], chain) /\ Len(chain) # 0 /\ chain[1].at = points[i]

\* What the search finds: nothing, or a place in a chain where the rest of the name
\* is spelled.
Found(name, buffer, points, found) ==
    \/ found = NoMatch(name)
    \/ \E chain : \E i \in 1 .. Len(points), k \in 1 .. Len(name) :
          /\ IsChain(buffer, points[i], chain) /\ k <= Len(chain)
          /\ chain[1].at = points[i]
          /\ SameEnd(name, chain, k) /\ (k = Len(name) => Len(chain) = k)
          /\ found = [frag |-> Len(name) - k, at |-> chain[Len(chain) - k + 1].at]

LEMMA SearchFacts ==
    ASSUME NEW name \in PlainName, NEW buffer \in Seq(CellSet), NEW points \in Seq(Nat),
           PointsRead(buffer, points)
    PROVE  LET found == SearchForDomainName(name, points, buffer)
           IN  /\ Found(name, buffer, points, found)
               /\ (\E chain : \E i \in 1 .. Len(points) :
                      IsChain(buffer, points[i], chain) /\ Spells(chain, name))
                  => found.frag = 0
<1> DEFINE known   == {[nth |-> i, chain |-> Chain(buffer, points[i])] : i \in DOMAIN points}
           usable  == {p \in known : Usable(name, p.chain, Common(name, p.chain))}
           matches == {[nth |-> p.nth, match |-> Match(name, p.chain)] : p \in usable}
           last    == [nth |-> Len(points) + 1, match |-> NoMatch(name)]
           Best(m) == \A other \in matches :
                        \/ m.match.frag < other.match.frag
                        \/ m.match.frag = other.match.frag /\ m.nth <= other.nth
           found   == SearchForDomainName(name, points, buffer)
<1>1. /\ Len(points) \in Nat /\ DOMAIN points = 1 .. Len(points)
      /\ name \in Name /\ Len(name) \in Nat /\ Len(name) # 0
  BY DEF PlainName, Name
<1>2. ASSUME NEW i \in 1 .. Len(points), NEW c, IsChain(buffer, points[i], c)
      PROVE  Chain(buffer, points[i]) = c /\ c \in Seq(Link)
  BY <1>2, WalkReadsChain DEF IsChain
<1>3. ASSUME NEW m \in matches
      PROVE  /\ m.nth \in Nat /\ m.match.frag \in Nat
             /\ Found(name, buffer, points, m.match)
  <2>1. PICK p \in usable : m = [nth |-> p.nth, match |-> Match(name, p.chain)]
    OBVIOUS
  <2>2. PICK i \in 1 .. Len(points) : p = [nth |-> i, chain |-> Chain(buffer, points[i])]
    BY <1>1
  <2>3. PICK c : IsChain(buffer, points[i], c) /\ Len(c) # 0 /\ c[1].at = points[i]
    BY DEF PointsRead
  <2>4. p.chain = c /\ p.nth = i /\ c \in Seq(Link)
    BY <1>2, <2>2, <2>3
  <2> DEFINE k == Common(name, c)
  <2>5. k \in 0 .. Len(name) /\ k <= Len(c) /\ SameEnd(name, c, k)
    BY <1>1, <2>4, CommonFacts
  <2>6. Usable(name, c, k)
    BY <2>4
  <2>7. m = [nth |-> i, match |-> [frag |-> Len(name) - k, at |-> c[Len(c) - k + 1].at]]
    BY <2>1, <2>4 DEF Match
  <2> HIDE DEF k
  <2>8. k \in 1 .. Len(name) /\ (k = Len(name) => Len(c) = k)
    BY <1>1, <2>5, <2>6 DEF Usable
  <2>9. Found(name, buffer, points, m.match)
    <3>1. m.match = [frag |-> Len(name) - k, at |-> c[Len(c) - k + 1].at]
      BY <2>7
    <3> QED
      BY <2>3, <2>5, <2>8, <3>1, ZenonT(30) DEF Found
  <2> QED
    BY <1>1, <2>7, <2>8, <2>9
<1>4. last.nth \in Nat /\ last.match.frag = Len(name) /\ Found(name, buffer, points, last.match)
  BY <1>1 DEF NoMatch, Found
<1> DEFINE all == matches \cup {last}
<1>5. \A m \in all : m.nth \in Nat /\ m.match.frag \in Nat /\ Found(name, buffer, points, m.match)
  <2> HIDE DEF matches, last
  <2> QED
    BY <1>1, <1>3, <1>4
<1>6. found = (CHOOSE m \in all : Best(m)).match
  BY DEF SearchForDomainName
<1>7. last \in all /\ matches \subseteq all
  OBVIOUS
<1>8. ASSUME NEW i \in 1 .. Len(points), NEW c, IsChain(buffer, points[i], c), Spells(c, name)
      PROVE  \E m \in matches : m.match.frag = 0
  <2>1. Chain(buffer, points[i]) = c /\ c \in Seq(Link)
    BY <1>2, <1>8
  <2>2. Common(name, c) = Len(name) /\ Len(c) = Len(name)
    BY <1>1, <1>8, <2>1, CommonWhole DEF Spells
  <2>3. Usable(name, c, Common(name, c)) /\ Match(name, c).frag = 0
    BY <1>1, <2>2 DEF Usable, Match
  <2> DEFINE p == [nth |-> i, chain |-> c]
  <2>4. p \in usable
    BY <1>1, <2>1, <2>3
  <2>5. [nth |-> p.nth, match |-> Match(name, p.chain)] \in matches
    BY <2>4
  <2> QED
    BY <2>3, <2>5
<1> HIDE DEF matches, all, found, last
<1>9. \E m \in all : Best(m)
  <2> DEFINE frags == {m.match.frag : m \in all}
  <2>1. PICK f \in frags : \A g \in frags : f <= g
    <3>1. frags \in SUBSET Nat /\ frags # {}
      BY <1>5, <1>7
    <3> HIDE DEF frags
    <3> QED
      BY <3>1, LeastNumber
  <2> DEFINE nths == {m.nth : m \in {x \in all : x.match.frag = f}}
  <2>2. PICK n \in nths : \A o \in nths : n <= o
    <3>1. nths \in SUBSET Nat /\ nths # {}
      BY <1>5, <2>1
    <3> HIDE DEF nths, frags
    <3> QED
      BY <3>1, LeastNumber
  <2>3. PICK m \in all : m.match.frag = f /\ m.nth = n
    BY <2>2
  <2>4. ASSUME NEW other \in all
        PROVE  m.match.frag < other.match.frag
               \/ (m.match.frag = other.match.frag /\ m.nth <= other.nth)
    <3>1. f <= other.match.frag /\ f \in Nat /\ other.match.frag \in Nat
      BY <1>5, <2>1, <2>3
    <3>2. other.match.frag = f => n <= other.nth
      BY <2>2
    <3> QED
      BY <2>3, <3>1, <3>2
  <2> QED
    BY <1>7, <2>3, <2>4
<1>10. PICK m \in all : Best(m) /\ found = m.match
  <2> HIDE DEF Best
  <2> QED
    BY <1>6, <1>9
<1>11. Found(name, buffer, points, found)
  BY <1>5, <1>10
<1>12. (\E other \in matches : other.match.frag = 0) => found.frag = 0
  BY <1>5, <1>10
<1> QED
  BY <1>8, <1>11, <1>12 DEF found
-----------------------------------------------------------------------------
(***************************************************************************)
(* A name is written.                                                      *)
(***************************************************************************)

\* A buffer with more behind it.
Longer(buffer, new) ==
    /\ new \in Seq(CellSet) /\ Len(buffer) <= Len(new)
    /\ \A i \in 1 .. Len(buffer) : new[i] = buffer[i]

\* Nothing that is written behind a chain changes it.
LEMMA ChainStays ==
    ASSUME NEW buffer \in Seq(CellSet), NEW new, Longer(buffer, new),
           NEW at, NEW chain, IsChain(buffer, at, chain)
    PROVE  IsChain(new, at, chain)
<1>1. /\ Len(buffer) \in Nat /\ Len(new) \in Nat /\ Len(buffer) <= Len(new)
      /\ \A i \in 1 .. Len(buffer) : i \in 1 .. Len(new) /\ new[i] = buffer[i]
  BY DEF Longer
<1>2. /\ chain \in Seq(Link) /\ Len(chain) \in Nat /\ Len(chain) < Len(new)
  BY <1>1 DEF IsChain
<1>3. Len(chain) + 1 \in 1 .. Len(chain) + 1 /\ \A i \in 1 .. Len(chain) : i \in 1 .. Len(chain) + 1
  BY <1>2
<1> QED
  BY <1>1, <1>2, <1>3 DEF IsChain, Leads

\* The cells of a name behind the buffer.
LEMMA CellsOfName ==
    ASSUME NEW buffer \in Seq(CellSet), NEW name \in PlainName, NEW n \in 0 .. Len(name),
           NEW at \in Nat
    PROVE  LET new == Append(buffer \o LabelsUpTo(name, n), Ending(at))
           IN  /\ Longer(buffer, new) /\ Len(new) = Len(buffer) + n + 1
               /\ \A i \in 1 .. n : new[Len(buffer) + i] = Cell("label", name[i], 0)
               /\ new[Len(buffer) + n + 1] = Ending(at)
<1> DEFINE labels == LabelsUpTo(name, n)
           before == buffer \o labels
           new == Append(before, Ending(at))
<1>1. Len(buffer) \in Nat /\ Len(name) \in Nat /\ n \in Nat /\ n <= Len(name)
  BY DEF PlainName, Name
<1>2. \A i \in 1 .. n : /\ name[i] \in Seq(Nat) /\ LabelCell(name[i]) = Cell("label", name[i], 0)
                        /\ Cell("label", name[i], 0) \in CellSet
  <2> TAKE i \in 1 .. n
  <2>1. name[i] \in Seq(Nat) /\ name[i] # <<>>
    BY <1>1 DEF PlainName, Name
  <2> QED
    BY <2>1 DEF LabelCell, Cell, CellSet
<1>3. /\ labels \in Seq(CellSet) /\ Len(labels) = n
      /\ \A i \in 1 .. n : labels[i] = Cell("label", name[i], 0)
  <2>1. labels = [i \in 1 .. n |-> Cell("label", name[i], 0)]
    BY <1>2 DEF LabelsUpTo
  <2> HIDE DEF labels
  <2>2. labels \in [1 .. n -> CellSet]
    BY <1>2, <2>1
  <2>3. labels \in Seq(CellSet)
    BY <1>1, <2>2
  <2> QED
    BY <1>1, <2>1, <2>2, <2>3
<1>4. Ending(at) \in CellSet
  BY DEF Ending, EndMark, PointerTo, Cell, CellSet
<1> HIDE DEF labels
<1>5. /\ before \in Seq(CellSet) /\ Len(before) = Len(buffer) + n
      /\ \A i \in 1 .. Len(buffer) : before[i] = buffer[i]
      /\ \A i \in 1 .. n : before[Len(buffer) + i] = labels[i]
  <2>1. /\ before \in Seq(CellSet) /\ Len(before) = Len(buffer) + n
        /\ \A i \in 1 .. Len(buffer) : before[i] = buffer[i]
    BY <1>1, <1>3
  <2>2. ASSUME NEW i \in 1 .. n PROVE before[Len(buffer) + i] = labels[i]
    <3>1. /\ Len(buffer) + i \in 1 .. Len(buffer) + Len(labels) /\ ~(Len(buffer) + i <= Len(buffer))
          /\ (Len(buffer) + i) - Len(buffer) = i
      BY <1>1, <1>3
    <3> QED
      BY <1>3, <3>1, ConcatProperties
  <2> QED
    BY <2>1, <2>2
<1> HIDE DEF before
<1>6. /\ new \in Seq(CellSet) /\ Len(new) = Len(buffer) + n + 1
      /\ \A i \in 1 .. Len(before) : new[i] = before[i]
      /\ new[Len(buffer) + n + 1] = Ending(at)
  BY <1>1, <1>4, <1>5
<1> HIDE DEF new
<1>7. \A i \in 1 .. Len(buffer) : new[i] = buffer[i]
  BY <1>1, <1>5, <1>6
<1>8. \A i \in 1 .. n : new[Len(buffer) + i] = Cell("label", name[i], 0)
  <2> TAKE i \in 1 .. n
  <2>1. Len(buffer) + i \in 1 .. Len(before)
    BY <1>1, <1>5
  <2> QED
    BY <1>3, <1>5, <1>6, <2>1
<1>9. Longer(buffer, new)
  BY <1>1, <1>6, <1>7 DEF Longer
<1> QED
  BY <1>6, <1>8, <1>9 DEF new, before, labels

\* Pointers lead back, and to a label.
LeadBack(buffer) ==
    \A i \in 1 .. Len(buffer) : buffer[i].kind = "pointer" =>
        buffer[i].to \in 1 .. i - 1 /\ buffer[buffer[i].to].kind = "label"

\* A cell behind the buffer that is no pointer, or one that leads back to a label.
LEMMA LeadBackStays ==
    ASSUME NEW buffer \in Seq(CellSet), NEW new, Longer(buffer, new), LeadBack(buffer),
           \A i \in Len(buffer) + 1 .. Len(new) : new[i].kind = "pointer" =>
                new[i].to \in 1 .. Len(buffer) /\ buffer[new[i].to].kind = "label"
    PROVE  LeadBack(new)
<1> SUFFICES ASSUME NEW i \in 1 .. Len(new), new[i].kind = "pointer"
             PROVE  new[i].to \in 1 .. i - 1 /\ new[new[i].to].kind = "label"
  BY DEF LeadBack
<1>1. Len(buffer) \in Nat /\ Len(new) \in Nat /\ \A j \in 1 .. Len(buffer) : new[j] = buffer[j]
  BY DEF Longer
<1>2. CASE i \in 1 .. Len(buffer)
  <2>1. buffer[i].to \in 1 .. i - 1 /\ buffer[buffer[i].to].kind = "label" /\ new[i] = buffer[i]
    BY <1>1, <1>2 DEF LeadBack
  <2>2. buffer[i].to \in 1 .. Len(buffer)
    BY <1>1, <1>2, <2>1
  <2> QED
    BY <1>1, <2>1, <2>2
<1>3. CASE i \in Len(buffer) + 1 .. Len(new)
  <2>1. new[i].to \in 1 .. Len(buffer) /\ buffer[new[i].to].kind = "label"
    BY <1>3
  <2> QED
    BY <1>1, <1>3, <2>1
<1> QED
  BY <1>1, <1>2, <1>3

\* An offset is that of a label, or of a pointer to one that is known.
StandsFor(buffer, offset, points, first) ==
    IF buffer[offset].kind = "pointer"
    THEN buffer[offset].to = first /\ \E i \in 1 .. Len(points) : points[i] = first
    ELSE offset = first

\* The name that is written at start: how it can be read, and what it takes to be
\* found by the next search.
NameAt(buffer, points, name, start, new) ==
    /\ start = Len(buffer) + 1 /\ start \in 1 .. Len(new)
    /\ Longer(buffer, new) /\ LeadBack(new)
    /\ \E chain :
          /\ IsChain(new, start, chain) /\ Spells(chain, name)
          /\ StandsFor(new, start, points, chain[1].at)

\* All of the name is written.
LEMMA WrittenInFull ==
    ASSUME NEW buffer \in Seq(CellSet), NEW points, NEW name \in PlainName, LeadBack(buffer)
    PROVE  NameAt(buffer, points, name, Len(buffer) + 1,
                  Append(buffer \o LabelsUpTo(name, Len(name)), Ending(0)))
<1> DEFINE n == Len(name)
           start == Len(buffer) + 1
           new == Append(buffer \o LabelsUpTo(name, Len(name)), Ending(0))
           chain == [i \in 1 .. n |-> [at |-> Len(buffer) + i, text |-> name[i]]]
<1>1. Len(buffer) \in Nat /\ n \in Nat /\ n >= 1 /\ \A i \in 1 .. n : name[i] \in Seq(Nat)
  BY DEF PlainName, Name
<1>2. /\ Longer(buffer, new) /\ Len(new) = Len(buffer) + n + 1
      /\ \A i \in 1 .. n : new[Len(buffer) + i] = Cell("label", name[i], 0)
      /\ new[Len(buffer) + n + 1] = Ending(0)
  BY <1>1, CellsOfName
<1> HIDE DEF new
<1>3. /\ chain \in Seq(Link) /\ Len(chain) = n
      /\ \A i \in 1 .. n : chain[i].at = Len(buffer) + i /\ chain[i].text = name[i]
  <2>1. \A i \in 1 .. n : [at |-> Len(buffer) + i, text |-> name[i]] \in Link
    BY <1>1 DEF Link
  <2> QED
    BY <1>1, <2>1
<1> HIDE DEF chain
<1>4. \A i \in 1 .. n + 1 : Place(start, chain, i) = Len(buffer) + i
  <2> TAKE i \in 1 .. n + 1
  <2>1. CASE i = 1
    BY <2>1 DEF Place
  <2>2. CASE i # 1
    <3>1. i - 1 \in 1 .. n
      BY <1>1, <2>2
    <3>2. chain[i - 1].at + 1 = Len(buffer) + i
      BY <1>1, <1>3, <3>1
    <3> QED
      BY <2>2, <3>2 DEF Place
  <2> QED
    BY <2>1, <2>2
<1>5. \A i \in 1 .. n : /\ Len(buffer) + i \in 1 .. Len(new) /\ i \in 1 .. n + 1
                        /\ new[Len(buffer) + i].kind = "label"
                        /\ new[Len(buffer) + i].text = name[i]
  <2> TAKE i \in 1 .. n
  <2>1. Len(buffer) + i \in 1 .. Len(new) /\ i \in 1 .. n + 1
    <3> HIDE DEF n
    <3> QED
      BY <1>1, <1>2
  <2>2. new[Len(buffer) + i] = Cell("label", name[i], 0)
    BY <1>2
  <2> QED
    BY <2>1, <2>2 DEF Cell
<1>6. new[Len(buffer) + (n + 1)].kind = "end"
  BY <1>1, <1>2 DEF Ending, EndMark, Cell
<1>7. IsChain(new, start, chain)
  <2>1. Len(chain) < Len(new) /\ \A i \in 1 .. n + 1 : Len(buffer) + i \in 1 .. Len(new)
    <3>1. Len(new) = Len(buffer) + n + 1 /\ Len(chain) = n
      BY <1>2, <1>3
    <3> HIDE DEF n
    <3> QED
      BY <1>1, <3>1
  <2>2. n + 1 \in 1 .. n + 1
    BY <1>1
  <2> QED
    BY <1>3, <1>4, <1>5, <1>6, <2>1, <2>2 DEF IsChain, Leads
<1>8. LeadBack(new)
  <2>1. \A i \in Len(buffer) + 1 .. Len(new) : new[i].kind # "pointer"
    <3> TAKE i \in Len(buffer) + 1 .. Len(new)
    <3>1. CASE i = Len(buffer) + (n + 1)
      BY <1>6, <3>1
    <3>2. CASE i # Len(buffer) + (n + 1)
      <4>1. i - Len(buffer) \in 1 .. n /\ Len(buffer) + (i - Len(buffer)) = i
        <5>1. Len(new) = Len(buffer) + n + 1
          BY <1>2
        <5> HIDE DEF n
        <5> QED
          BY <1>1, <3>2, <5>1
      <4> QED
        BY <1>5, <4>1
    <3> QED
      BY <3>1, <3>2
  <2> QED
    BY <1>2, <2>1, LeadBackStays
<1>9. 1 \in 1 .. n /\ start \in 1 .. Len(new) /\ new[start].kind = "label" /\ chain[1].at = start
  BY <1>1, <1>2, <1>3, <1>5
<1>10. Spells(chain, name)
  BY <1>3 DEF Spells
<1> HIDE DEF start
<1>11. NameAt(buffer, points, name, start, new)
  BY <1>2, <1>7, <1>8, <1>9, <1>10 DEF NameAt, StandsFor, start
<1> QED
  BY <1>11 DEF start, new

\* The first labels of the name are written, and a pointer to the rest of it.
LEMMA WrittenInPart ==
    ASSUME NEW buffer \in Seq(CellSet), NEW points, NEW name \in PlainName, LeadBack(buffer),
           NEW c, NEW i \in 1 .. Len(points), NEW k \in 1 .. Len(name),
           IsChain(buffer, points[i], c), k <= Len(c), c[1].at = points[i],
           SameEnd(name, c, k), k = Len(name) => Len(c) = k
    PROVE  LET at == c[Len(c) - k + 1].at
               new == Append(buffer \o LabelsUpTo(name, Len(name) - k), Ending(at))
           IN  /\ NameAt(buffer, points, name, Len(buffer) + 1, new)
               /\ k = Len(name) => new[Len(buffer) + 1].kind = "pointer"
<1> DEFINE n == Len(name)
           f == n - k
           d == Len(c) - n
           l == Len(buffer)
           start == l + 1
           at == c[Len(c) - k + 1].at
           new == Append(buffer \o LabelsUpTo(name, n - k), Ending(at))
           chain == [j \in 1 .. n |-> IF j <= f THEN [at |-> l + j, text |-> name[j]] ELSE c[d + j]]
<1>1. /\ l \in Nat /\ n \in Nat /\ \A j \in 1 .. n : name[j] \in Seq(Nat)
      /\ c \in Seq(Link) /\ Len(c) \in Nat /\ Len(c) < l
  BY DEF PlainName, Name, IsChain
<1> HIDE DEF n, l
<1>0. /\ l \in Nat /\ n \in Nat /\ k \in Nat /\ Len(c) \in Nat
      /\ 1 <= k /\ k <= n /\ k <= Len(c) /\ Len(c) < l
      /\ f \in Nat /\ f + k = n /\ d \in Int /\ d + n = Len(c)
  <2>1. k \in 1 .. n
    BY DEF n
  <2> QED
    BY <1>1, <2>1
<1> HIDE DEF f, d
<1>2. /\ f \in 0 .. n /\ d + (f + 1) = Len(c) - k + 1 /\ Len(c) - k + 1 \in 1 .. Len(c)
      /\ \A j \in f + 1 .. n : d + j \in 1 .. Len(c)
  BY <1>0
<1>3. \A j \in 1 .. Len(c) : /\ c[j] \in Link /\ c[j].at \in 1 .. l /\ c[j].at \in Nat
                             /\ buffer[c[j].at].kind = "label"
                             /\ buffer[c[j].at].text = c[j].text
                             /\ Leads(buffer, Place(points[i], c, j), c[j].at)
                             /\ Place(points[i], c, j) \in 1 .. l
  <2> TAKE j \in 1 .. Len(c)
  <2>1. j \in 1 .. Len(c) + 1
    BY <1>1
  <2>2. c[j] \in Link
    BY <1>1
  <2> QED
    BY <1>1, <2>1, <2>2 DEF IsChain, Link, l
<1>4. /\ Place(points[i], c, Len(c) + 1) = c[Len(c)].at + 1
      /\ c[Len(c)].at + 1 \in 1 .. l /\ buffer[c[Len(c)].at + 1].kind = "end"
  <2>1. Len(c) + 1 # 1 /\ (Len(c) + 1) - 1 = Len(c) /\ Len(c) + 1 \in 1 .. Len(c) + 1
    BY <1>0
  <2>2. Place(points[i], c, Len(c) + 1) = c[Len(c)].at + 1
    BY <2>1 DEF Place
  <2> QED
    BY <2>1, <2>2 DEF IsChain, l
<1>5. at \in 1 .. l /\ at \in Nat /\ at # 0 /\ buffer[at].kind = "label" /\ at = c[d + (f + 1)].at
  <2>1. at \in 1 .. l /\ buffer[at].kind = "label" /\ at = c[d + (f + 1)].at
    BY <1>2, <1>3
  <2> HIDE DEF at
  <2>2. l \in Nat
    BY <1>0
  <2>3. at \in Nat /\ at # 0
    BY <2>1, <2>2
  <2> QED
    BY <2>1, <2>3
<1> HIDE DEF at
<1>6. /\ Longer(buffer, new) /\ Len(new) = l + f + 1
      /\ \A j \in 1 .. f : new[l + j] = Cell("label", name[j], 0)
      /\ new[l + f + 1] = Ending(at)
  <2>1. f \in 0 .. Len(name)
    BY <1>2 DEF n
  <2>2. new = Append(buffer \o LabelsUpTo(name, f), Ending(at))
    BY DEF f
  <2> HIDE DEF new
  <2> QED
    BY <1>5, <2>1, <2>2, CellsOfName DEF l
<1> HIDE DEF new
<1>7. new[l + f + 1].kind = "pointer" /\ new[l + f + 1].to = at
  BY <1>5, <1>6 DEF Ending, PointerTo, Cell
<1>8. \A j \in 1 .. l : j \in 1 .. Len(new) /\ new[j] = buffer[j]
  <2>1. Len(new) = l + f + 1
    BY <1>6
  <2>2. \A j \in 1 .. l : j \in 1 .. Len(new)
    BY <1>0, <2>1
  <2> QED
    BY <1>6, <2>2 DEF Longer, l
<1>9. /\ chain \in Seq(Link) /\ Len(chain) = n
      /\ \A j \in 1 .. f : chain[j].at = l + j /\ chain[j].text = name[j]
      /\ \A j \in f + 1 .. n : chain[j] = c[d + j]
  <2>1. \A j \in 1 .. f : j \in 1 .. n /\ [at |-> l + j, text |-> name[j]] \in Link
    <3> TAKE j \in 1 .. f
    <3>1. j \in 1 .. n /\ l + j \in Nat
      BY <1>0
    <3> QED
      BY <1>1, <3>1 DEF Link
  <2>2. \A j \in f + 1 .. n : c[d + j] \in Link /\ j \in 1 .. n /\ ~(j <= f)
    <3> TAKE j \in f + 1 .. n
    <3>1. j \in 1 .. n /\ ~(j <= f)
      BY <1>0
    <3> QED
      BY <1>2, <1>3, <3>1
  <2>3. \A j \in 1 .. n : chain[j] \in Link
    <3> TAKE j \in 1 .. n
    <3>1. j \in 1 .. f \/ j \in f + 1 .. n
      BY <1>0
    <3>2. j \in 1 .. f => j <= f
      BY <1>2
    <3> QED
      BY <2>1, <2>2, <3>1, <3>2
  <2>4. chain \in Seq(Link) /\ Len(chain) = n
    <3>1. chain \in [1 .. n -> Link]
      BY <2>3
    <3>2. Len(chain) = n
      BY <1>1
    <3> HIDE DEF chain
    <3> QED
      BY <1>1, <3>1, <3>2
  <2>5. \A j \in 1 .. f : chain[j].at = l + j /\ chain[j].text = name[j]
    <3> TAKE j \in 1 .. f
    <3>1. j \in 1 .. n /\ j <= f
      BY <1>0
    <3>2. chain[j] = [at |-> l + j, text |-> name[j]]
      BY <3>1
    <3> HIDE DEF chain
    <3> QED
      BY <3>2
  <2>6. \A j \in f + 1 .. n : chain[j] = c[d + j]
    BY <2>2
  <2> QED
    BY <2>4, <2>5, <2>6
<1> HIDE DEF chain
<1>10. \A j \in f + 1 .. n : /\ chain[j].at \in 1 .. l /\ chain[j].at \in Nat
                             /\ buffer[chain[j].at].kind = "label"
                             /\ buffer[chain[j].at].text = chain[j].text
  <2> TAKE j \in f + 1 .. n
  <2>1. d + j \in 1 .. Len(c) /\ chain[j] = c[d + j]
    BY <1>2, <1>9
  <2> QED
    BY <1>3, <2>1
\* The places of the new chain: those of the labels and the pointer that are written,
\* then those of the old one.
<1>11. \A j \in 1 .. f + 1 : Place(start, chain, j) = l + j
  <2> TAKE j \in 1 .. f + 1
  <2>1. CASE j = 1
    BY <2>1 DEF Place
  <2>2. CASE j # 1
    <3>1. j - 1 \in 1 .. f
      BY <1>2, <2>2
    <3>2. chain[j - 1].at + 1 = l + j
      BY <1>1, <1>9, <3>1
    <3> QED
      BY <2>2, <3>2 DEF Place
  <2> QED
    BY <2>1, <2>2
<1>12. \A j \in f + 2 .. n + 1 : Place(start, chain, j) = Place(points[i], c, d + j)
                                 /\ d + j \in 2 .. Len(c) + 1
  <2> TAKE j \in f + 2 .. n + 1
  <2>1. /\ j - 1 \in f + 1 .. n /\ j # 1 /\ d + (j - 1) = (d + j) - 1 /\ d + j # 1
        /\ d + j \in 2 .. Len(c) + 1
    BY <1>0
  <2>2. chain[j - 1] = c[(d + j) - 1]
    BY <1>9, <2>1
  <2> QED
    BY <2>1, <2>2 DEF Place
<1>13. \A j \in 1 .. n + 1 : Place(start, chain, j) \in 1 .. Len(new)
  <2> TAKE j \in 1 .. n + 1
  <2>1. CASE j \in 1 .. f + 1
    <3>1. Len(new) = l + f + 1 /\ Place(start, chain, j) = l + j
      BY <1>6, <1>11, <2>1
    <3>2. l + j \in 1 .. l + f + 1
      BY <1>0, <2>1
    <3> QED
      BY <3>1, <3>2
  <2>2. CASE j \in f + 2 .. n
    <3>1. j \in f + 2 .. n + 1 /\ d + j \in 1 .. Len(c)
      BY <1>0, <2>2
    <3> QED
      BY <1>3, <1>8, <1>12, <3>1
  <2>3. CASE j = n + 1
    <3>1. j \in f + 2 .. n + 1 /\ d + j = Len(c) + 1
      BY <1>0, <2>3
    <3> QED
      BY <1>4, <1>8, <1>12, <3>1
  <2> QED
    <3>1. j \in 1 .. f + 1 \/ j \in f + 2 .. n \/ j = n + 1
      BY <1>0
    <3> QED
      BY <2>1, <2>2, <2>3, <3>1
<1>14. ASSUME NEW j \in 1 .. n
       PROVE  /\ chain[j].at \in 1 .. Len(new)
              /\ new[chain[j].at].kind = "label" /\ new[chain[j].at].text = chain[j].text
              /\ Leads(new, Place(start, chain, j), chain[j].at)
  <2>1. CASE j \in 1 .. f
    <3>1. j \in 1 .. f + 1 /\ l + j \in 1 .. Len(new)
      <4>1. Len(new) = l + f + 1
        BY <1>6
      <4> QED
        BY <1>0, <2>1, <4>1
    <3>2. chain[j].at = l + j /\ chain[j].text = name[j]
          /\ new[l + j] = Cell("label", name[j], 0)
      BY <1>6, <1>9, <2>1
    <3> QED
      BY <1>11, <3>1, <3>2 DEF Leads, Cell
  <2>2. CASE j \in f + 1 .. n
    <3>1. /\ chain[j].at \in 1 .. Len(new)
          /\ new[chain[j].at].kind = "label" /\ new[chain[j].at].text = chain[j].text
      BY <1>8, <1>10, <2>2
    <3>2. CASE j = f + 1
      <4>1. j \in 1 .. f + 1 /\ l + j = l + f + 1
        BY <1>0, <3>2
      <4>2. Place(start, chain, j) = l + f + 1
        BY <1>11, <4>1
      <4>3. chain[j].at = at
        BY <1>5, <1>9, <2>2, <3>2
      <4> QED
        BY <1>7, <3>1, <4>2, <4>3 DEF Leads
    <3>3. CASE j # f + 1
      <4>1. j \in f + 2 .. n + 1 /\ d + j \in 1 .. Len(c)
        BY <1>0, <2>2, <3>3
      <4>2. Place(start, chain, j) = Place(points[i], c, d + j) /\ chain[j] = c[d + j]
        BY <1>9, <1>12, <2>2, <4>1
      <4>3. /\ Leads(buffer, Place(points[i], c, d + j), c[d + j].at)
            /\ Place(points[i], c, d + j) \in 1 .. l
        BY <1>3, <4>1
      <4> QED
        BY <1>8, <3>1, <4>2, <4>3 DEF Leads
    <3> QED
      BY <3>2, <3>3
  <2> QED
    <3>1. j \in 1 .. f \/ j \in f + 1 .. n
      BY <1>0
    <3> QED
      BY <2>1, <2>2, <3>1
<1>15. new[Place(start, chain, n + 1)].kind = "end"
  <2>1. n + 1 \in f + 2 .. n + 1 /\ d + (n + 1) = Len(c) + 1
    BY <1>0
  <2> QED
    BY <1>4, <1>8, <1>12, <2>1
<1>16. IsChain(new, start, chain)
  <2>1. n < Len(new)
    BY <1>0, <1>6
  <2> QED
    BY <1>9, <1>13, <1>14, <1>15, <2>1 DEF IsChain
<1>17. Spells(chain, name)
  <2> SUFFICES ASSUME NEW j \in 1 .. n PROVE chain[j].text = name[j]
    BY <1>9 DEF Spells, n
  <2>1. CASE j \in 1 .. f
    BY <1>9, <2>1
  <2>2. CASE j \in f + 1 .. n
    <3>1. n - j \in 0 .. k - 1 /\ n - (n - j) = j /\ Len(c) - (n - j) = d + j
      BY <1>0, <2>2
    <3>2. name[j] = c[d + j].text
      BY <3>1 DEF SameEnd, n
    <3> QED
      BY <1>9, <2>2, <3>2
  <2> QED
    <3>1. j \in 1 .. f \/ j \in f + 1 .. n
      BY <1>0
    <3> QED
      BY <2>1, <2>2, <3>1
<1>18. LeadBack(new)
  <2>1. ASSUME NEW j \in l + 1 .. Len(new), new[j].kind = "pointer"
        PROVE  new[j].to \in 1 .. l /\ buffer[new[j].to].kind = "label"
    <3>1. CASE j = l + f + 1
      BY <1>5, <1>7, <3>1
    <3>2. CASE j # l + f + 1
      <4>1. j - l \in 1 .. f /\ l + (j - l) = j
        <5>1. Len(new) = l + f + 1
          BY <1>6
        <5> QED
          BY <1>0, <3>2, <5>1
      <4>2. new[j] = Cell("label", name[j - l], 0)
        BY <1>6, <4>1
      <4> QED
        BY <2>1, <4>2 DEF Cell
    <3> QED
      BY <3>1, <3>2
  <2> QED
    BY <1>6, <2>1, LeadBackStays DEF l
<1>19. CASE f = 0
  <2>1. l + f + 1 = start /\ 1 \in f + 1 .. n /\ k = n /\ d + 1 = 1
    <3>1. Len(c) = n
      BY <1>0, <1>19 DEF n
    <3> QED
      BY <1>0, <1>19, <3>1
  <2>2. new[start].kind = "pointer" /\ new[start].to = at
    BY <1>7, <2>1
  <2>3. chain[1] = c[1] /\ at = c[1].at
    <3>1. d + (f + 1) = 1
      BY <1>19, <2>1
    <3> QED
      BY <1>5, <1>9, <2>1, <3>1
  <2>4. points[i] = chain[1].at /\ start \in 1 .. Len(new)
    BY <1>1, <1>6, <2>1, <2>3
  <2>5. NameAt(buffer, points, name, start, new)
    BY <1>6, <1>16, <1>17, <1>18, <2>2, <2>3, <2>4, ZenonT(30) DEF NameAt, StandsFor, start, l
  <2> QED
    <3>1. /\ NameAt(buffer, points, name, Len(buffer) + 1, new)
          /\ new[Len(buffer) + 1].kind = "pointer"
      BY <2>2, <2>5 DEF start, l
    <3> QED
      BY <3>1, SMTT(30) DEF new, at, n
<1>20. CASE f # 0
  <2>1. 1 \in 1 .. f /\ k # n /\ start \in 1 .. Len(new)
    BY <1>0, <1>6, <1>20
  <2>2. new[start].kind = "label" /\ chain[1].at = start
    <3>1. new[l + 1] = Cell("label", name[1], 0) /\ chain[1].at = l + 1
      BY <1>6, <1>9, <2>1
    <3> QED
      BY <3>1 DEF Cell
  <2>3. new[start].kind # "pointer"
    BY <2>2
  <2>4. NameAt(buffer, points, name, start, new)
    BY <1>6, <1>16, <1>17, <1>18, <2>1, <2>2, <2>3, ZenonT(30) DEF NameAt, StandsFor, start, l
  <2> QED
    <3>1. NameAt(buffer, points, name, Len(buffer) + 1, new) /\ k # Len(name)
      BY <2>1, <2>4 DEF start, l, n
    <3> QED
      BY <3>1, SMTT(30) DEF new, at, n
<1> QED
  BY <1>19, <1>20

\* What WriteDomainName puts into the buffer can be read as the name, and is a pointer
\* if the name is among those that are known.
LEMMA AppendNameFacts ==
    ASSUME NEW buffer \in Seq(CellSet), NEW points \in Seq(Nat), NEW name \in PlainName,
           PointsRead(buffer, points), LeadBack(buffer)
    PROVE  LET new == AppendName(buffer, points, name)
           IN  /\ NameAt(buffer, points, name, Len(buffer) + 1, new)
               /\ (\E chain : \E i \in 1 .. Len(points) :
                      IsChain(buffer, points[i], chain) /\ Spells(chain, name))
                  => new[Len(buffer) + 1].kind = "pointer"
<1> DEFINE found == SearchForDomainName(name, points, buffer)
           Known == \E chain : \E i \in 1 .. Len(points) :
                        IsChain(buffer, points[i], chain) /\ Spells(chain, name)
           new == AppendName(buffer, points, name)
<1>1. Found(name, buffer, points, found) /\ (Known => found.frag = 0)
  BY SearchFacts
<1>2. new = Append(buffer \o LabelsUpTo(name, found.frag), Ending(found.at))
  BY DEF AppendName
<1>3. Len(name) \in Nat /\ Len(name) # 0
  BY DEF PlainName, Name
<1> HIDE DEF found, new, Known
<1>4. CASE found = NoMatch(name)
  <2>1. found.frag = Len(name) /\ found.at = 0
    BY <1>4 DEF NoMatch
  <2>2. NameAt(buffer, points, name, Len(buffer) + 1, new)
    BY <1>2, <2>1, WrittenInFull
  <2> QED
    BY <1>1, <1>3, <2>1, <2>2 DEF new, Known
<1>5. ASSUME NEW chain, NEW i \in 1 .. Len(points), NEW k \in 1 .. Len(name),
             IsChain(buffer, points[i], chain), k <= Len(chain), chain[1].at = points[i],
             SameEnd(name, chain, k), k = Len(name) => Len(chain) = k,
             found = [frag |-> Len(name) - k, at |-> chain[Len(chain) - k + 1].at]
      PROVE  /\ NameAt(buffer, points, name, Len(buffer) + 1, new)
             /\ Known => new[Len(buffer) + 1].kind = "pointer"
  <2>1. new = Append(buffer \o LabelsUpTo(name, Len(name) - k),
                     Ending(chain[Len(chain) - k + 1].at))
    BY <1>2, <1>5
  <2>2. /\ NameAt(buffer, points, name, Len(buffer) + 1, new)
        /\ k = Len(name) => new[Len(buffer) + 1].kind = "pointer"
    BY <1>5, <2>1, WrittenInPart
  <2>3. Known => k = Len(name)
    BY <1>1, <1>3, <1>5
  <2> QED
    BY <2>2, <2>3
<1>6. \/ found = NoMatch(name)
      \/ /\ NameAt(buffer, points, name, Len(buffer) + 1, new)
         /\ Known => new[Len(buffer) + 1].kind = "pointer"
  BY <1>1, <1>5 DEF Found
<1> QED
  BY <1>4, <1>6 DEF new, Known
-----------------------------------------------------------------------------
(***************************************************************************)
(* A record is written.                                                    *)
(***************************************************************************)
Written == [buffer : Seq(CellSet), points : Seq(Nat), names : Seq([at : Nat, name : Name])]

\* A name is read as it was meant.
NameRead(buffer, at, name, chain) == IsChain(buffer, at, chain) /\ Spells(chain, name)

NamesRead(w) ==
    \A j \in 1 .. Len(w.names) : \E chain : NameRead(w.buffer, w.names[j].at, w.names[j].name, chain)

Short(w) ==
    \A i, j \in 1 .. Len(w.names) : i < j /\ w.names[i].name = w.names[j].name =>
        w.buffer[w.names[j].at].kind = "pointer"

\* What a client can rely on.
Readable(w) == w \in Written /\ LeadBack(w.buffer) /\ NamesRead(w) /\ Short(w)

\* The first label of every name is known to the search.
NamesKnown(w) ==
    \A j \in 1 .. Len(w.names) : \E chain :
        /\ NameRead(w.buffer, w.names[j].at, w.names[j].name, chain)
        /\ \E i \in 1 .. Len(w.points) : w.points[i] = chain[1].at

QuestionRead(w, q) ==
    /\ q.at \in Nat /\ q.name \in PlainName
    /\ \E chain : NameRead(w.buffer, q.at, q.name, chain) /\ chain[1].at = q.at

\* What the next record relies on.
Ready(w, q) ==
    /\ Readable(w) /\ PointsRead(w.buffer, w.points)
    /\ NamesKnown(w) /\ QuestionRead(w, q)

\* More in the buffer changes nothing.
LEMMA BufferGrows ==
    ASSUME NEW w, NEW q, Ready(w, q), NEW new, Longer(w.buffer, new), LeadBack(new)
    PROVE  Ready([w EXCEPT !.buffer = new], q)
<1> DEFINE r == [w EXCEPT !.buffer = new]
<1>1. /\ w \in Written /\ w.buffer \in Seq(CellSet) /\ new \in Seq(CellSet)
      /\ r \in Written /\ r.buffer = new /\ r.points = w.points /\ r.names = w.names
  BY DEF Ready, Readable, Written, Longer
<1> HIDE DEF r
<1>2. \A at, chain : IsChain(w.buffer, at, chain) => IsChain(new, at, chain)
  BY <1>1, ChainStays
<1>3. \A at, name, chain : NameRead(w.buffer, at, name, chain) => NameRead(new, at, name, chain)
  BY <1>2 DEF NameRead
<1>4. NamesRead(r) /\ NamesKnown(r)
  BY <1>1, <1>3 DEF Ready, Readable, NamesRead, NamesKnown
<1>5. Short(r)
  <2> SUFFICES ASSUME NEW i \in 1 .. Len(w.names), NEW j \in 1 .. Len(w.names), i < j,
                      w.names[i].name = w.names[j].name
               PROVE  new[w.names[j].at].kind = "pointer"
    BY <1>1 DEF Short
  <2>1. w.buffer[w.names[j].at].kind = "pointer"
    BY DEF Ready, Readable, Short
  <2>2. PICK chain : IsChain(w.buffer, w.names[j].at, chain)
    BY DEF Ready, Readable, NamesRead, NameRead
  <2>3. w.names[j].at \in 1 .. Len(w.buffer)
    <3>1. Len(chain) \in Nat /\ 1 \in 1 .. Len(chain) + 1
      BY <2>2 DEF IsChain
    <3> QED
      BY <2>2, <3>1 DEF IsChain, Place
  <2> QED
    BY <2>1, <2>3 DEF Longer
<1>6. PointsRead(new, w.points)
  BY <1>2 DEF Ready, PointsRead
<1>7. QuestionRead(r, q)
  BY <1>1, <1>3 DEF Ready, QuestionRead
<1> QED
  BY <1>1, <1>4, <1>5, <1>6, <1>7 DEF Ready, Readable, r

\* A chain can be read from its first label.
LEMMA FromFirst ==
    ASSUME NEW buffer \in Seq(CellSet), NEW at, NEW chain, IsChain(buffer, at, chain), Len(chain) # 0
    PROVE  IsChain(buffer, chain[1].at, chain) /\ chain[1].at \in Nat
<1>1. chain \in Seq(Link) /\ Len(chain) \in Nat /\ 1 \in 1 .. Len(chain) /\ Len(chain) + 1 # 1
  BY DEF IsChain
<1>2. chain[1].at \in 1 .. Len(buffer) /\ chain[1] \in Link
  BY <1>1 DEF IsChain
<1>3. \A i : i # 1 => Place(chain[1].at, chain, i) = Place(at, chain, i)
  BY DEF Place
<1>4. Place(chain[1].at, chain, 1) = chain[1].at
  BY DEF Place
<1>5. \A i \in 1 .. Len(chain) + 1 : Place(chain[1].at, chain, i) \in 1 .. Len(buffer)
  BY <1>2, <1>3, <1>4 DEF IsChain
<1>6. \A i \in 1 .. Len(chain) : Leads(buffer, Place(chain[1].at, chain, i), chain[i].at)
  <2> TAKE i \in 1 .. Len(chain)
  <2>1. CASE i = 1
    BY <1>4, <2>1 DEF Leads
  <2>2. CASE i # 1
    BY <1>3, <2>2 DEF IsChain
  <2> QED
    BY <2>1, <2>2
<1> QED
  BY <1>1, <1>2, <1>3, <1>5, <1>6 DEF IsChain, Link

\* A name is written, and its first label is known.
LEMMA NameAdded ==
    ASSUME NEW w, NEW q, Ready(w, q), NEW name \in PlainName, NEW new, NEW points, NEW chain,
           Longer(w.buffer, new), LeadBack(new),
           NameRead(new, Len(w.buffer) + 1, name, chain),
           points \in {w.points, Append(w.points, chain[1].at)},
           \E i \in 1 .. Len(points) : points[i] = chain[1].at,
           \A j \in 1 .. Len(w.names) : w.names[j].name = name =>
                new[Len(w.buffer) + 1].kind = "pointer"
    PROVE  Ready([buffer |-> new, points |-> points,
                  names |-> Append(w.names, [at |-> Len(w.buffer) + 1, name |-> name])], q)
<1> DEFINE start == Len(w.buffer) + 1
           entry == [at |-> start, name |-> name]
           names == Append(w.names, entry)
           r == [buffer |-> new, points |-> points, names |-> names]
           v == [w EXCEPT !.buffer = new]
<1>1. Ready(v, q) /\ v \in Written /\ v.buffer = new /\ v.points = w.points /\ v.names = w.names
  <2>1. Ready(v, q)
    BY BufferGrows
  <2>2. w \in Written
    BY DEF Ready, Readable
  <2> QED
    BY <2>1, <2>2 DEF Written, Longer
<1>2. /\ w.buffer \in Seq(CellSet) /\ new \in Seq(CellSet) /\ w.points \in Seq(Nat)
      /\ w.names \in Seq([at : Nat, name : Name]) /\ start \in Nat
  <2>1. w \in Written
    BY DEF Ready, Readable
  <2> QED
    BY <2>1 DEF Written, Longer
<1> HIDE DEF v, start
<1>3. entry \in [at : Nat, name : Name] /\ entry.at = start /\ entry.name = name
  BY <1>2 DEF PlainName
<1> HIDE DEF entry
<1>4. /\ names \in Seq([at : Nat, name : Name]) /\ Len(w.names) \in Nat
      /\ Len(names) = Len(w.names) + 1 /\ names[Len(w.names) + 1] = entry
      /\ \A j \in 1 .. Len(w.names) : names[j] = w.names[j]
  BY <1>2, <1>3
<1> HIDE DEF names
<1>5. Len(chain) # 0 /\ IsChain(new, chain[1].at, chain) /\ chain[1].at \in Nat
  <2>1. IsChain(new, start, chain) /\ Len(chain) = Len(name) /\ Len(name) # 0
    BY DEF NameRead, Spells, PlainName, Name, start
  <2> QED
    BY <1>2, <2>1, FromFirst
<1>6. /\ points \in Seq(Nat) /\ Len(points) \in Nat
      /\ \A i \in 1 .. Len(w.points) : i \in 1 .. Len(points) /\ points[i] = w.points[i]
      /\ \A i \in 1 .. Len(points) : i \in 1 .. Len(w.points) \/ points[i] = chain[1].at
  <2>1. CASE points = w.points
    BY <1>2, <2>1
  <2>2. CASE points = Append(w.points, chain[1].at)
    BY <1>2, <1>5, <2>2
  <2> QED
    BY <2>1, <2>2
<1>7. r \in Written /\ r.buffer = new /\ r.points = points /\ r.names = names
  BY <1>2, <1>4, <1>6 DEF Written
<1> HIDE DEF r
<1>8. \A j \in 1 .. Len(names) : j \in 1 .. Len(w.names) \/ (j = Len(w.names) + 1 /\ names[j] = entry)
  BY <1>4
<1>9. PointsRead(new, points)
  <2>1. PointsRead(new, w.points)
    BY <1>1 DEF Ready
  <2> QED
    BY <1>5, <1>6, <2>1 DEF PointsRead
<1>10. ASSUME NEW j \in 1 .. Len(names)
       PROVE  \E c : /\ NameRead(new, names[j].at, names[j].name, c)
                     /\ \E i \in 1 .. Len(points) : points[i] = c[1].at
  <2>1. CASE j \in 1 .. Len(w.names)
    <3>1. PICK c : /\ NameRead(new, w.names[j].at, w.names[j].name, c)
                   /\ \E i \in 1 .. Len(w.points) : w.points[i] = c[1].at
      <4>1. NamesKnown(v)
        BY <1>1 DEF Ready
      <4> QED
        BY <1>1, <2>1, <4>1, SMTT(30) DEF NamesKnown
    <3> QED
      BY <1>4, <1>6, <2>1, <3>1
  <2>2. CASE names[j] = entry
    <3>1. NameRead(new, names[j].at, names[j].name, chain)
      BY <1>3, <2>2 DEF start
    <3> QED
      BY <3>1
  <2> QED
    BY <1>8, <2>1, <2>2
<1>11. NamesRead(r) /\ NamesKnown(r)
  BY <1>7, <1>10 DEF NamesRead, NamesKnown
<1>12. Short(r)
  <2> SUFFICES ASSUME NEW i \in 1 .. Len(names), NEW j \in 1 .. Len(names), i < j,
                      names[i].name = names[j].name
               PROVE  new[names[j].at].kind = "pointer"
    BY <1>7 DEF Short
  <2>1. i \in 1 .. Len(w.names) /\ names[i] = w.names[i]
    <3>1. Len(names) = Len(w.names) + 1 /\ Len(w.names) \in Nat
      BY <1>4
    <3>2. i \in 1 .. Len(w.names)
      BY <3>1
    <3> QED
      BY <1>4, <3>2
  <2>2. CASE j \in 1 .. Len(w.names)
    <3>1. names[j] = w.names[j]
      BY <1>4, <2>2
    <3> QED
      BY <1>1, <2>1, <2>2, <3>1 DEF Ready, Readable, Short
  <2>3. CASE names[j] = entry
    BY <1>3, <2>1, <2>3 DEF start
  <2> QED
    BY <1>8, <2>2, <2>3
<1>13. QuestionRead(r, q)
  BY <1>1, <1>7 DEF Ready, QuestionRead
<1>14. Ready(r, q)
  BY <1>7, <1>9, <1>11, <1>12, <1>13 DEF Ready, Readable
<1> QED
  BY <1>14 DEF r, names, entry, start

\* The label at an offset, or where the pointer there leads, is known afterwards.
KnownAfter(points, new, first) ==
    /\ new \in {points, Append(points, first)}
    /\ \E i \in 1 .. Len(new) : new[i] = first

LEMMA LabelAdded ==
    ASSUME NEW points \in Seq(Nat), NEW offset \in Nat, NEW buffer, NEW first,
           StandsFor(buffer, offset, points, first)
    PROVE  KnownAfter(points, AddLabelForCompression(points, offset, buffer), first)
<1> USE DEF StandsFor, KnownAfter
<1> DEFINE new == AddLabelForCompression(points, offset, buffer)
<1>1. DOMAIN points = 1 .. Len(points) /\ Len(points) \in Nat
  OBVIOUS
<1>2. CASE \E i \in 1 .. Len(points) : points[i] = first
  <2>1. new = points
    BY <1>1, <1>2 DEF AddLabelForCompression
  <2> HIDE DEF new
  <2> QED
    BY <1>2, <2>1 DEF new
<1>3. CASE ~\E i \in 1 .. Len(points) : points[i] = first
  <2>1. offset = first /\ new = Append(points, first)
    BY <1>1, <1>3 DEF AddLabelForCompression
  <2>2. Append(points, first)[Len(points) + 1] = first /\ Len(points) + 1 \in 1 .. Len(Append(points, first))
    BY <1>1, <2>1
  <2> HIDE DEF new
  <2> QED
    BY <2>1, <2>2 DEF new
<1> QED
  BY <1>2, <1>3

LEMMA WriteDomainNameReady ==
    ASSUME NEW w, NEW q, Ready(w, q), NEW name \in PlainName
    PROVE  Ready(WriteDomainName(w, name), q)
<1> DEFINE start == Len(w.buffer) + 1
           new == AppendName(w.buffer, w.points, name)
           points == AddLabelForCompression(w.points, start, new)
<1>1. /\ w.buffer \in Seq(CellSet) /\ w.points \in Seq(Nat) /\ start \in Nat
      /\ PointsRead(w.buffer, w.points) /\ LeadBack(w.buffer)
  <2>1. w \in Written
    BY DEF Ready, Readable
  <2> QED
    BY <2>1 DEF Ready, Readable, Written
<1>2. /\ NameAt(w.buffer, w.points, name, start, new)
      /\ (\E chain : \E i \in 1 .. Len(w.points) :
             IsChain(w.buffer, w.points[i], chain) /\ Spells(chain, name))
         => new[start].kind = "pointer"
  BY <1>1, AppendNameFacts
<1>3. WriteDomainName(w, name) = [buffer |-> new, points |-> points,
          names |-> Append(w.names, [at |-> Len(w.buffer) + 1, name |-> name])]
  BY DEF WriteDomainName
<1> HIDE DEF new, start
<1>4. PICK chain :
          /\ IsChain(new, start, chain) /\ Spells(chain, name)
          /\ StandsFor(new, start, w.points, chain[1].at)
  BY <1>2 DEF NameAt
<1>5. points \in {w.points, Append(w.points, chain[1].at)}
      /\ \E i \in 1 .. Len(points) : points[i] = chain[1].at
  <2>1. KnownAfter(w.points, points, chain[1].at)
    BY <1>1, <1>4, LabelAdded
  <2> QED
    BY <2>1 DEF KnownAfter
<1> HIDE DEF points
<1>6. ASSUME NEW j \in 1 .. Len(w.names), w.names[j].name = name
      PROVE  new[start].kind = "pointer"
  <2>1. PICK c : /\ NameRead(w.buffer, w.names[j].at, name, c)
                 /\ \E i \in 1 .. Len(w.points) : w.points[i] = c[1].at
    BY <1>6 DEF Ready, NamesKnown
  <2>2. Len(c) # 0
    BY <2>1 DEF NameRead, Spells, PlainName, Name
  <2>3. IsChain(w.buffer, c[1].at, c) /\ Spells(c, name)
    BY <1>1, <2>1, <2>2, FromFirst DEF NameRead
  <2> QED
    BY <1>2, <2>1, <2>3
<1>7. Longer(w.buffer, new) /\ LeadBack(new)
  BY <1>2 DEF NameAt
<1>8. NameRead(new, Len(w.buffer) + 1, name, chain)
  BY <1>4 DEF NameRead, start
<1> QED
  BY <1>3, <1>5, <1>6, <1>7, <1>8, NameAdded DEF start

\* One cell behind the buffer.
LEMMA CellAdded ==
    ASSUME NEW buffer \in Seq(CellSet), NEW cell \in CellSet
    PROVE  LET new == Append(buffer, cell)
           IN  /\ Longer(buffer, new) /\ Len(new) = Len(buffer) + 1 /\ new[Len(buffer) + 1] = cell
               /\ Len(buffer) + 1 \in 1 .. Len(new)
BY DEF Longer

\* Bytes that are no name are written.
LEMMA DataReady ==
    ASSUME NEW w, NEW q, Ready(w, q)
    PROVE  Ready([w EXCEPT !.buffer = Append(@, Data)], q)
<1> DEFINE new == Append(w.buffer, Data)
<1>1. w.buffer \in Seq(CellSet) /\ LeadBack(w.buffer) /\ Len(w.buffer) \in Nat
  BY DEF Ready, Readable, Written
<1>2. Data \in CellSet /\ Data.kind = "data"
  BY DEF Data, Cell, CellSet
<1>3. Longer(w.buffer, new) /\ Len(new) = Len(w.buffer) + 1 /\ new[Len(w.buffer) + 1] = Data
  BY <1>1, <1>2, CellAdded
<1> HIDE DEF new
<1>4. \A i \in Len(w.buffer) + 1 .. Len(new) : new[i].kind # "pointer"
  BY <1>1, <1>2, <1>3
<1>5. LeadBack(new)
  BY <1>1, <1>3, <1>4, LeadBackStays
<1>6. Ready([w EXCEPT !.buffer = new], q)
  BY <1>3, <1>5, BufferGrows
<1> QED
  BY <1>6 DEF new

\* The names in the records are plain.
PlainRecord(record) ==
    /\ ~record.by_pointer => record.name \in PlainName
    /\ \A i \in 1 .. Len(record.rdata) : Qualified(record.rdata[i]) \in PlainName

LEMMA WriteHeaderReady ==
    ASSUME NEW w, NEW q, Ready(w, q), NEW record, PlainRecord(record)
    PROVE  Ready(WriteHeader(w, q, record), q)
<1> DEFINE start == Len(w.buffer) + 1
           new == Append(w.buffer, PointerTo(q.at))
           points == AddLabelForCompression(w.points, q.at, new)
           pointed == [buffer |-> new, points |-> points,
                       names |-> Append(w.names, [at |-> start, name |-> q.name])]
           named == IF record.by_pointer THEN pointed ELSE WriteDomainName(w, record.name)
<1>1. /\ w.buffer \in Seq(CellSet) /\ w.points \in Seq(Nat) /\ start \in Nat /\ Len(w.buffer) \in Nat
      /\ LeadBack(w.buffer) /\ q.at \in Nat /\ q.name \in PlainName
  <2>1. w \in Written
    BY DEF Ready, Readable
  <2> QED
    BY <2>1 DEF Ready, Readable, Written, QuestionRead
<1>2. WriteHeader(w, q, record) = [named EXCEPT !.buffer = Append(@, Data)]
  BY DEF WriteHeader
<1>3. Ready(pointed, q)
  <2>1. PICK chain : NameRead(w.buffer, q.at, q.name, chain) /\ chain[1].at = q.at
    BY DEF Ready, QuestionRead
  <2>2. /\ chain \in Seq(Link) /\ Len(chain) \in Nat /\ Len(chain) # 0
        /\ 1 \in 1 .. Len(chain) /\ Len(chain) + 1 # 1
    BY <1>1, <2>1 DEF NameRead, IsChain, Spells, PlainName, Name
  <2>3. q.at \in 1 .. Len(w.buffer) /\ w.buffer[q.at].kind = "label"
    BY <2>1, <2>2 DEF NameRead, IsChain
  <2>4. PointerTo(q.at) \in CellSet /\ PointerTo(q.at).kind = "pointer" /\ PointerTo(q.at).to = q.at
    BY <1>1 DEF PointerTo, Cell, CellSet
  <2>5. /\ Longer(w.buffer, new) /\ Len(new) = start /\ new[start] = PointerTo(q.at)
        /\ start \in 1 .. Len(new)
    BY <1>1, <2>4, CellAdded
  <2> HIDE DEF new
  <2>6. LeadBack(new)
    <3>1. \A i \in start .. Len(new) : i = start
      BY <1>1, <2>5
    <3> QED
      BY <1>1, <2>3, <2>4, <2>5, <3>1, LeadBackStays
  <2>7. IsChain(new, q.at, chain) /\ Spells(chain, q.name)
    BY <1>1, <2>1, <2>5, ChainStays DEF NameRead
  <2>8. IsChain(new, start, chain)
    <3>1. \A i : i # 1 => Place(start, chain, i) = Place(q.at, chain, i)
      BY DEF Place
    <3>2. Place(start, chain, 1) = start
      BY DEF Place
    <3>3. \A i \in 1 .. Len(chain) + 1 : Place(start, chain, i) \in 1 .. Len(new)
      BY <2>5, <2>7, <3>1, <3>2 DEF IsChain
    <3>4. \A i \in 1 .. Len(chain) : Leads(new, Place(start, chain, i), chain[i].at)
      <4> TAKE i \in 1 .. Len(chain)
      <4>1. CASE i = 1
        BY <2>1, <2>4, <2>5, <3>2, <4>1 DEF Leads
      <4>2. CASE i # 1
        BY <2>7, <3>1, <4>2 DEF IsChain
      <4> QED
        BY <4>1, <4>2
    <3> HIDE DEF start
    <3> QED
      BY <2>2, <2>7, <3>1, <3>3, <3>4 DEF IsChain
  <2>9. new[q.at].kind # "pointer"
    BY <2>3, <2>5 DEF Longer
  <2>10. points \in {w.points, Append(w.points, chain[1].at)}
         /\ \E i \in 1 .. Len(points) : points[i] = chain[1].at
    <3>1. StandsFor(new, q.at, w.points, chain[1].at)
      BY <2>1, <2>9 DEF StandsFor
    <3>2. KnownAfter(w.points, points, chain[1].at)
      BY <1>1, <3>1, LabelAdded
    <3> QED
      BY <3>2 DEF KnownAfter
  <2> HIDE DEF points
  <2>11. NameRead(new, Len(w.buffer) + 1, q.name, chain)
    BY <2>7, <2>8 DEF NameRead
  <2>12. new[Len(w.buffer) + 1].kind = "pointer"
    BY <2>4, <2>5
  <2> QED
    BY <1>1, <2>5, <2>6, <2>10, <2>11, <2>12, NameAdded
<1>4. ~record.by_pointer => Ready(WriteDomainName(w, record.name), q)
  BY WriteDomainNameReady DEF PlainRecord
<1>5. Ready(named, q)
  <2> HIDE DEF pointed
  <2> QED
    BY <1>3, <1>4
<1> HIDE DEF named
<1> QED
  BY <1>2, <1>5, DataReady

\* The equations of the function that WriteRecord is defined by.
IsWrite(g, w, q, record, n) ==
    g = [i \in 0 .. n |-> IF i = 0 THEN WriteHeader(w, q, record)
                          ELSE WriteDomainName(g[i - 1], Qualified(record.rdata[i]))]

\* There is such a function.
LEMMA WriteExists ==
    ASSUME NEW w, NEW q, NEW record, NEW n \in Nat
    PROVE  \E g : IsWrite(g, w, q, record, n)
<1> DEFINE first == WriteHeader(w, q, record)
           Second(before, i) == WriteDomainName(before, Qualified(record.rdata[i]))
           Good == {m \in 0 .. n : \E g : IsWrite(g, w, q, record, m)}
<1>1. 0 \in Good
  <2> DEFINE g == [i \in 0 .. 0 |-> first]
  <2>1. IsWrite(g, w, q, record, 0)
    BY DEF IsWrite
  <2> HIDE DEF g
  <2> QED
    BY <2>1
<1>2. ASSUME NEW m \in 1 .. n, m - 1 \in Good PROVE m \in Good
  <2>1. PICK g : IsWrite(g, w, q, record, m - 1)
    BY <1>2
  <2> DEFINE h == [i \in 0 .. m |-> IF i = m THEN Second(g[m - 1], m) ELSE g[i]]
  <2>2. \A i \in 0 .. m - 1 : g[i] = IF i = 0 THEN first ELSE Second(g[i - 1], i)
    BY <2>1 DEF IsWrite
  <2> HIDE DEF first, Second
  <2>3. \A i \in 0 .. m : h[i] = IF i = 0 THEN first ELSE Second(h[i - 1], i)
    <3> TAKE i \in 0 .. m
    <3>1. CASE i = m
      BY <3>1
    <3>2. CASE i # m /\ i = 0
      BY <2>2, <3>2
    <3>3. CASE i # m /\ i # 0
      <4>1. i \in 0 .. m - 1 /\ i - 1 \in 0 .. m - 1 /\ i - 1 # m
        BY <3>3
      <4> QED
        BY <2>2, <3>3, <4>1
    <3> QED
      BY <3>1, <3>2, <3>3
  <2>4. IsWrite(h, w, q, record, m)
    BY <2>3 DEF IsWrite, first, Second
  <2> HIDE DEF h
  <2> QED
    BY <2>4
<1> HIDE DEF Good
<1>3. \A m \in 0 .. n : m \in Good
  BY <1>1, <1>2, UpTo
<1> QED
  BY <1>3 DEF Good

LEMMA WriteRecordReady ==
    ASSUME NEW w, NEW q, Ready(w, q), NEW record \in Records, PlainRecord(record)
    PROVE  Ready(WriteRecord(w, q, record), q)
<1> DEFINE n == Len(record.rdata)
           first == WriteHeader(w, q, record)
           Second(before, i) == WriteDomainName(before, Qualified(record.rdata[i]))
           g == CHOOSE g : g = [i \in 0 .. n |-> IF i = 0 THEN WriteHeader(w, q, record)
                                 ELSE WriteDomainName(g[i - 1], Qualified(record.rdata[i]))]
           Good == {i \in 0 .. n : Ready(g[i], q)}
<1>1. n \in Nat
  BY RecordsAssumption
<1>2. IsWrite(g, w, q, record, n)
  <2>1. \E h : IsWrite(h, w, q, record, n)
    BY <1>1, WriteExists
  <2> HIDE DEF n
  <2> QED
    BY <2>1 DEF IsWrite
<1>3. WriteRecord(w, q, record) = g[n]
  BY DEF WriteRecord
<1> HIDE DEF g
<1>4. \A i \in 0 .. n : g[i] = IF i = 0 THEN first ELSE Second(g[i - 1], i)
  BY <1>2 DEF IsWrite
<1>5. 0 \in Good
  <2>1. g[0] = first
    <3> HIDE DEF first, Second, n
    <3> QED
      BY <1>1, <1>4
  <2> QED
    BY <1>1, <2>1, WriteHeaderReady
<1>6. ASSUME NEW i \in 1 .. n, i - 1 \in Good PROVE i \in Good
  <2>1. g[i] = Second(g[i - 1], i)
    <3> HIDE DEF first, Second, n
    <3> QED
      BY <1>1, <1>4
  <2>2. Qualified(record.rdata[i]) \in PlainName
    BY DEF PlainRecord
  <2>3. Ready(g[i], q)
    BY <1>6, <2>1, <2>2, WriteDomainNameReady
  <2> QED
    BY <1>1, <2>3
<1> HIDE DEF Good
<1>7. \A i \in 0 .. n : i \in Good
  BY <1>1, <1>5, <1>6, UpTo
<1> QED
  BY <1>1, <1>3, <1>7 DEF Good
-----------------------------------------------------------------------------
(***************************************************************************)
(* The reply.                                                              *)
(***************************************************************************)

\* The records have no empty label in their names, as those of a wildcard zone have.
PlainRecords == \A record \in Records : PlainRecord(record)

\* As soon as a record did not fit, offsets may be known that are not in the reply any
\* more; a client can still read the reply.
ReplyInv ==
    /\ parser.pc # "copied" => reply = Nothing /\ truncated = FALSE
    /\ parser.pc = "copied" => Readable(reply) /\ (~truncated => Ready(reply, question))

\* The labels of an accepted question are not empty.
LEMMA QuestionIsPlain ==
    ASSUME ParserInv, parser.pc = "accepted"
    PROVE  GetLabels \in PlainName
<1> DEFINE n == Len(parser.names)
           name == GetLabels
<1>1. /\ query \in Seq(Nat) /\ Len(query) \in Nat /\ parser.known \subseteq Label
      /\ parser.names \in Seq(Label) /\ n \in Nat /\ n # 0
  <2>1. Bytes \subseteq Nat
    BY LabelAssumption
  <2>2. query \in Seq(Bytes) /\ parser \in Parser /\ parser.names # <<>>
    BY DEF ParserInv, ParserOK, Ended
  <2>3. query \in Seq(Nat)
    <3>1. Len(query) \in Nat /\ query \in [1 .. Len(query) -> Bytes]
      BY <2>2
    <3>2. query \in [1 .. Len(query) -> Nat]
      BY <2>1, <3>1
    <3> QED
      BY <3>1, <3>2
  <2> QED
    BY <2>2, <2>3 DEF Parser
<1>2. ASSUME NEW i \in 1 .. n PROVE Text(parser.names[i]) \in Seq(Nat) \ {<<>>}
  <2> DEFINE b == parser.names[i].begin
             l == parser.names[i].len
  <2>1. parser.names[i] \in parser.known /\ parser.names[i] \in Label
    BY <1>1 DEF ParserInv, KnownInDatagram
  <2>2. b \in Nat /\ l \in Nat /\ b >= 1 /\ l # 0 /\ b + l <= Len(query) - 1
    BY <2>1 DEF ParserInv, KnownInDatagram, Label, EndOf, Size
  <2> HIDE DEF b, l
  <2>3. \A j \in b + 1 .. b + l : query[j] \in Nat
    <3> TAKE j \in b + 1 .. b + l
    <3>1. j \in 1 .. Len(query)
      BY <1>1, <2>2
    <3> QED
      BY <1>1, <3>1
  <2>4. SubSeq(query, b + 1, b + l) \in Seq(Nat) /\ Len(SubSeq(query, b + 1, b + l)) = l
    <3>1. b + 1 \in Int /\ b + l \in Int /\ b + 1 <= b + l /\ (b + l) - (b + 1) + 1 = l
      BY <2>2
    <3> QED
      BY <2>3, <3>1, SubSeqProperties
  <2> QED
    BY <2>2, <2>4 DEF Text, b, l
<1>3. name = [i \in 1 .. n |-> Text(parser.names[i])]
  BY DEF GetLabels
<1> HIDE DEF name, n
<1>4. name \in [1 .. n -> Seq(Nat)]
  BY <1>2, <1>3
<1>5. name \in Seq(Seq(Nat)) /\ Len(name) = n
  BY <1>1, <1>4
<1>6. \A i \in 1 .. Len(name) : name[i] # <<>>
  BY <1>2, <1>3, <1>5
<1> QED
  BY <1>1, <1>5, <1>6 DEF PlainName, Name, name

\* The copied question is the first name in the reply; none of the offsets is known.
LEMMA CopyQuestionReady ==
    ASSUME ParserInv, reply = Nothing, CopyQuestion
    PROVE  Ready(reply', question')
<1> DEFINE name == GetLabels
           before == <<Data>>
           middle == Append(before \o LabelsUpTo(name, Len(name)), Ending(0))
           new == Append(middle, Data)
<1>1. name \in PlainName /\ Len(name) # 0 /\ Len(name) \in Nat
  <2>1. name \in PlainName
    BY QuestionIsPlain DEF CopyQuestion
  <2> QED
    BY <2>1 DEF PlainName, Name
<1>2. Data \in CellSet /\ Data.kind = "data" /\ EndMark \in CellSet
  BY DEF Data, EndMark, Cell, CellSet
<1>3. before \in Seq(CellSet) /\ Len(before) = 1 /\ LeadBack(before)
  BY <1>2 DEF LeadBack
<1>4. question' = [at |-> 2, name |-> name]
      /\ reply' = [buffer |-> new, points |-> <<>>, names |-> <<>>]
  <2> DEFINE labels == LabelsUpTo(name, Len(name))
  <2>1. labels \in Seq(CellSet)
    <3>1. \A i \in 1 .. Len(name) : LabelCell(name[i]) \in CellSet
      BY <1>1 DEF PlainName, Name, LabelCell, EndMark, Cell, CellSet
    <3> QED
      BY <1>1, <3>1 DEF LabelsUpTo
  <2>2. reply' = [Nothing EXCEPT !.buffer = (before \o labels) \o <<EndMark, Data>>]
    BY DEF CopyQuestion, LabelsUpTo, Nothing
  <2>3. before \o labels \in Seq(CellSet)
    BY <1>3, <2>1
  <2> HIDE DEF labels
  <2>4. (before \o labels) \o <<EndMark, Data>> = Append(Append(before \o labels, EndMark), Data)
    <3> DEFINE s == before \o labels
    <3>1. s \in Seq(CellSet)
      BY <2>3
    <3> HIDE DEF s
    <3>2. s \o <<EndMark, Data>> = Append(Append(s, EndMark), Data)
      BY <1>2, <3>1
    <3> QED
      BY <3>2 DEF s
  <2>5. new = Append(Append(before \o labels, EndMark), Data)
    BY DEF Ending, labels
  <2> QED
    BY <2>2, <2>4, <2>5 DEF CopyQuestion, Nothing
<1> HIDE DEF name, before
<1>5. NameAt(before, <<>>, name, 2, middle)
  <2>1. Len(before) + 1 = 2
    BY <1>3
  <2>2. NameAt(before, <<>>, name, Len(before) + 1, middle)
    BY <1>1, <1>3, WrittenInFull
  <2> QED
    BY <2>1, <2>2
<1>6. /\ Longer(before, middle) /\ LeadBack(middle) /\ middle \in Seq(CellSet)
      /\ \E chain : IsChain(middle, 2, chain) /\ Spells(chain, name) /\ chain[1].at = 2
  BY <1>5 DEF NameAt, StandsFor, Longer
<1> HIDE DEF middle
<1>7. /\ Longer(middle, new) /\ Len(new) = Len(middle) + 1 /\ new[Len(middle) + 1] = Data
      /\ new \in Seq(CellSet)
  <2>1. Longer(middle, new) /\ Len(new) = Len(middle) + 1 /\ new[Len(middle) + 1] = Data
    BY <1>2, <1>6, CellAdded
  <2> QED
    BY <2>1 DEF Longer
<1> HIDE DEF new
<1>8. LeadBack(new)
  <2>1. Len(middle) \in Nat
    BY <1>6
  <2>2. \A i \in Len(middle) + 1 .. Len(new) : new[i].kind # "pointer"
    BY <1>2, <1>7, <2>1
  <2> QED
    BY <1>6, <1>7, <2>2, LeadBackStays
<1>9. \E chain : NameRead(new, 2, name, chain) /\ chain[1].at = 2
  <2>1. PICK chain : IsChain(middle, 2, chain) /\ Spells(chain, name) /\ chain[1].at = 2
    BY <1>6
  <2>2. NameRead(new, 2, name, chain)
    BY <1>6, <1>7, <2>1, ChainStays DEF NameRead
  <2> QED
    BY <2>1, <2>2
<1>10. /\ reply'.buffer = new /\ reply'.points = <<>> /\ reply'.names = <<>>
       /\ Len(reply'.points) = 0 /\ Len(reply'.names) = 0 /\ reply' \in Written
       /\ question'.at = 2 /\ question'.name = name
  <2>1. <<>> \in Seq(Nat) /\ <<>> \in Seq([at : Nat, name : Name]) /\ Len(<<>>) = 0
    OBVIOUS
  <2> QED
    BY <1>4, <1>7, <2>1 DEF Written
<1>11. Readable(reply') /\ NamesKnown(reply') /\ PointsRead(reply'.buffer, reply'.points)
  BY <1>8, <1>10 DEF Readable, NamesRead, Short, NamesKnown, PointsRead
<1>12. QuestionRead(reply', question')
  BY <1>1, <1>9, <1>10 DEF QuestionRead
<1> QED
  BY <1>11, <1>12 DEF Ready

\* A record that does not fit is taken back, but not the offsets that are known from it.
LEMMA StoreReply ==
    ASSUME NEW record \in Records, PlainRecord(record), Ready(reply, question), Store(record)
    PROVE  Readable(reply') /\ (~truncated' => Ready(reply', question))
<1> DEFINE written == WriteRecord(reply, question, record)
<1>1. Ready(written, question)
  BY WriteRecordReady
<1> HIDE DEF written
<1>2. CASE Len(written.buffer) <= MaxReply
  BY <1>1, <1>2 DEF Store, written, Ready
<1>3. CASE ~(Len(written.buffer) <= MaxReply)
  <2>1. truncated' = TRUE /\ reply' = Revert(written, reply)
    BY <1>3 DEF Store, written
  <2>2. written \in Written /\ reply \in Written
    BY <1>1 DEF Ready, Readable
  <2>3. reply' \in Written /\ reply'.buffer = reply.buffer /\ reply'.names = reply.names
    BY <2>1, <2>2 DEF Revert, Written
  <2>4. Readable(reply')
    BY <2>3 DEF Ready, Readable, NamesRead, Short
  <2> QED
    BY <2>1, <2>4
<1> QED
  BY <1>2, <1>3

\* The inductive invariant of the reply holds in every reachable state.
THEOREM ReplyInvariance ==
    ASSUME PlainRecords
    PROVE  Spec => []ReplyInv
<1>1. Init => ReplyInv
  BY DEF Init, Start, ReplyInv
<1>2. ASSUME ParserInv, ReplyInv, [Next]_vars PROVE ReplyInv'
  <2>1. CASE Parse
    <3>1. parser \in Parser /\ parser.pc # "copied" /\ parser'.pc # "copied"
      <4>1. parser \in Parser
        BY <1>2 DEF ParserInv, ParserOK
      <4> QED
        BY <2>1, <4>1 DEF Parse, ParseStep, Empty, RootLabel, NormalLabel, CompressedLabel,
           InvalidLength, ReadTail, Throw, Parser
    <3> QED
      BY <1>2, <2>1, <3>1 DEF Parse, ReplyInv
  <2>2. CASE CopyQuestion
    <3>1. reply = Nothing /\ truncated' = FALSE /\ parser'.pc = "copied"
      BY <1>2, <2>2 DEF CopyQuestion, ReplyInv, Start
    <3>2. Ready(reply', question')
      BY <1>2, <2>2, <3>1, CopyQuestionReady
    <3> QED
      BY <3>1, <3>2 DEF ReplyInv, Ready
  <2>3. CASE AddRecord
    <3>1. PICK record \in Records : Store(record)
      BY <2>3 DEF AddRecord
    <3>2. Ready(reply, question) /\ parser' = parser /\ question' = question /\ parser.pc = "copied"
      BY <1>2, <2>3 DEF AddRecord, ReplyInv
    <3>3. PlainRecord(record)
      BY DEF PlainRecords
    <3> QED
      BY <3>1, <3>2, <3>3, StoreReply DEF ReplyInv
  <2>4. CASE UNCHANGED vars
    BY <1>2, <2>4 DEF vars, ReplyInv
  <2> QED
    BY <1>2, <2>1, <2>2, <2>3, <2>4 DEF Next
<1> QED
  BY <1>1, <1>2, ParserInvariance, PTL DEF Spec

LEMMA NothingToRead ==
    /\ Len(Nothing.buffer) = 1 /\ DOMAIN Nothing.buffer = 1 .. 1 /\ Nothing.buffer[1].kind = "data"
    /\ DOMAIN Nothing.names = {} /\ DOMAIN Nothing.points = {}
BY DEF Nothing, Data, Cell

\* ReverseCompare follows pointers without a check: whatever records are written and
\* taken back, each pointer leads to a label before it, so that its recursion ends.
THEOREM PointersAreSafe ==
    ASSUME PlainRecords
    PROVE  Spec => []PointersLeadBack
<1>1. ReplyInv => PointersLeadBack
  <2>1. Readable(reply) => PointersLeadBack
    <3> SUFFICES ASSUME Readable(reply), NEW i \in DOMAIN reply.buffer,
                        reply.buffer[i].kind = "pointer"
                 PROVE  /\ reply.buffer[i].to < i
                        /\ reply.buffer[reply.buffer[i].to].kind = "label"
      BY DEF PointersLeadBack
    <3>1. DOMAIN reply.buffer = 1 .. Len(reply.buffer)
      BY DEF Readable, Written
    <3> QED
      BY <3>1 DEF Readable, LeadBack
  <2>2. reply = Nothing => PointersLeadBack
    BY NothingToRead DEF PointersLeadBack
  <2> QED
    BY <2>1, <2>2 DEF ReplyInv
<1> QED
  BY <1>1, ReplyInvariance, PTL

\* Every name that WriteDomainName and WriteHeader put into a reply is read as the name
\* that was meant, compressed or not, with whatever is written behind it.
THEOREM NamesAreMeant ==
    ASSUME PlainRecords
    PROVE  Spec => []NamesReadBack
<1>1. ReplyInv => NamesReadBack
  <2>1. ASSUME Readable(reply), NEW i \in DOMAIN reply.names
        PROVE  ReadName(reply.buffer, reply.names[i].at) = reply.names[i].name
    <3> DEFINE entry == reply.names[i]
    <3>1. i \in 1 .. Len(reply.names) /\ entry.name \in Name /\ reply.buffer \in Seq(CellSet)
      <4>1. reply.names \in Seq([at : Nat, name : Name]) /\ reply.buffer \in Seq(CellSet)
        BY <2>1 DEF Readable, Written
      <4>2. i \in 1 .. Len(reply.names)
        BY <2>1, <4>1
      <4>3. entry \in [at : Nat, name : Name]
        BY <4>1, <4>2, ElementOfSeq
      <4> QED
        BY <4>1, <4>2, <4>3
    <3>2. PICK chain : IsChain(reply.buffer, entry.at, chain) /\ Spells(chain, entry.name)
      BY <2>1, <3>1 DEF Readable, NamesRead, NameRead
    <3>3. Chain(reply.buffer, entry.at) = chain
      BY <3>1, <3>2, WalkReadsChain
    <3> HIDE DEF entry
    <3>4. ReadName(reply.buffer, entry.at) = [j \in 1 .. Len(entry.name) |-> entry.name[j]]
      BY <3>2, <3>3 DEF ReadName, Spells
    <3>5. entry.name = [j \in 1 .. Len(entry.name) |-> entry.name[j]]
      BY <3>1 DEF Name
    <3> QED
      BY <3>4, <3>5 DEF entry
  <2>2. reply = Nothing => NamesReadBack
    BY NothingToRead DEF NamesReadBack
  <2> QED
    BY <2>1, <2>2 DEF ReplyInv, NamesReadBack
<1> QED
  BY <1>1, ReplyInvariance, PTL

\* WriteDomainName never spells out a name that it wrote before.
THEOREM RepeatsArePointers ==
    ASSUME PlainRecords
    PROVE  Spec => []RepeatsAreShort
<1>1. ReplyInv => RepeatsAreShort
  <2>1. Readable(reply) => RepeatsAreShort
    <3> SUFFICES ASSUME Readable(reply), NEW i \in DOMAIN reply.names, NEW j \in DOMAIN reply.names,
                        i < j, reply.names[i].name = reply.names[j].name
                 PROVE  reply.buffer[reply.names[j].at].kind = "pointer"
      BY DEF RepeatsAreShort
    <3>1. DOMAIN reply.names = 1 .. Len(reply.names)
      BY DEF Readable, Written
    <3> QED
      BY <3>1 DEF Readable, Short
  <2>2. reply = Nothing => RepeatsAreShort
    BY NothingToRead DEF RepeatsAreShort
  <2> QED
    BY <2>1, <2>2 DEF ReplyInv
<1> QED
  BY <1>1, ReplyInvariance, PTL

\* The offsets that AddLabelForCompression keeps are those of labels in the reply as
\* long as Store has not thrown Truncated.
THEOREM OffsetsAreLabels ==
    ASSUME PlainRecords
    PROVE  Spec => []OffsetsInReply
<1>1. ReplyInv => OffsetsInReply
  <2>1. ASSUME Ready(reply, question), NEW i \in DOMAIN reply.points
        PROVE  /\ reply.points[i] \in DOMAIN reply.buffer
               /\ reply.buffer[reply.points[i]].kind = "label"
    <3>1. /\ i \in 1 .. Len(reply.points) /\ reply.buffer \in Seq(CellSet)
          /\ DOMAIN reply.buffer = 1 .. Len(reply.buffer)
      BY <2>1 DEF Ready, Readable, Written
    <3>2. PICK chain : /\ IsChain(reply.buffer, reply.points[i], chain) /\ Len(chain) # 0
                       /\ chain[1].at = reply.points[i]
      BY <2>1, <3>1 DEF Ready, PointsRead
    <3>3. 1 \in 1 .. Len(chain)
      BY <3>2 DEF IsChain
    <3> QED
      BY <3>1, <3>2, <3>3 DEF IsChain
  <2>2. reply = Nothing => OffsetsInReply
    BY NothingToRead DEF OffsetsInReply
  <2> QED
    BY <2>1, <2>2 DEF ReplyInv, OffsetsInReply
<1> QED
  BY <1>1, ReplyInvariance, PTL
=============================================================================
