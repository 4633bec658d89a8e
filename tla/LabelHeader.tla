---------------------------- MODULE LabelHeader ----------------------------
(***************************************************************************)
(* The parser of a DNS question, byte by byte: LabelHeader, which reads    *)
(* the labels of a name, and Question, which reads the type and the class  *)
(* behind it.                                                              *)
(*                                                                         *)
(* The datagram comes from the network and may hold anything.  The parser  *)
(* reads a length byte before it knows that it is inside of the datagram:  *)
(* "query" is the part of query_buffer from the question on, followed by   *)
(* the one byte that an earlier datagram, or nobody, has left there.       *)
(*                                                                         *)
(* Bytes keep their structure in a smaller scale: ByteMod stands for 256,  *)
(* the two highest bits of a byte tell a length (00) from a pointer (11).  *)
(* A pointer is read in the byte order of the host, taken to be little-    *)
(* endian.  A position counts from the start of the question; pointers     *)
(* count from the start of the message, HdrSize bytes before.              *)
(*                                                                         *)
(* A definition marked "Mutant" is a wrong version of the one below it: no *)
(* specification uses it; put in its place, it makes a property fail.      *)
(***************************************************************************)
EXTENDS Naturals, Sequences

CONSTANTS
    ByteMod,    \* the number of values of a byte, a multiple of 4
    Bytes,      \* the values that occur in the datagrams
    LegalChars, \* those that [a-z0-9.-] matches
    HdrSize,    \* the size of the message header
    TailSize,   \* the size of qtype and qclass
    MaxName,    \* 255: the limit for size_
    MaxQuery    \* bound: the bytes of a datagram behind its header

ASSUME LabelAssumption ==
    /\ ByteMod \in Nat /\ ByteMod % 4 = 0
    /\ Bytes \subseteq 0 .. ByteMod - 1
    /\ LegalChars \subseteq Bytes
    /\ {HdrSize, TailSize, MaxName, MaxQuery} \subseteq Nat

VARIABLES
    query,      \* the question and the byte behind the datagram
    parser      \* the state of the constructors of LabelHeader and Question

(***************************************************************************)
(* The state of the parser.  A label is a string_ref: where its text       *)
(* begins and its length.                                                  *)
(***************************************************************************)
Start ==
    [pc          |-> "parsing",  \* "parsing", "name_read", "accepted", "refused"
     p           |-> 0,          \* the next length byte
     names       |-> <<>>,       \* names_
     known       |-> {},         \* knownLabels
     size        |-> 0,          \* size_
     buffer_size |-> 0,          \* buffer_size_
     traversing  |-> FALSE]      \* is_traversing_pointer

Size == Len(query) - 1
Byte(p) == query[p + 1]
Text(label) == SubSeq(query, label.begin + 1, label.begin + label.len)

IsLength(b) == b < ByteMod \div 4
IsPointer(b) == b >= 3 * (ByteMod \div 4)

Throw == parser' = [parser EXCEPT !.pc = "refused"]

\* Bytes of this name in this buffer count only before the first pointer.
Used(n) == IF parser.traversing THEN 0 ELSE n

Empty ==
    /\ parser.pc = "parsing" /\ Size < 1
    /\ Throw

RootLabel ==
    /\ parser.pc = "parsing" /\ Size >= 1
    /\ Byte(parser.p) = 0
    /\ IF parser.size + 1 > MaxName \/ parser.names = <<>>
       THEN Throw
       ELSE parser' = [parser EXCEPT !.size = @ + 1, !.buffer_size = @ + Used(1),
                                     !.pc = "name_read"]

NormalLabel ==
    LET len   == Byte(parser.p)
        label == [begin |-> parser.p + 1, len |-> len]
    IN  /\ parser.pc = "parsing" /\ Size >= 1
        /\ len # 0 /\ IsLength(len)
        /\ IF \/ parser.p + 1 + len > Size
              \/ parser.size + len > MaxName
              \/ \E i \in 1 .. len : Text(label)[i] \notin LegalChars
           THEN Throw
           ELSE parser' = [parser EXCEPT
                    !.size = @ + len,
                    !.buffer_size = @ + Used(len + 1),
                    !.known = IF parser.traversing THEN @ ELSE @ \cup {label},
                    !.names = Append(@, label),
                    !.p = @ + 1 + len]

\* The label, as a set, that a pointer at p leads to (FindPointer).
FindPointer(p) ==
    LET pointer == (Byte(p + 1) % (ByteMod \div 4)) * ByteMod + Byte(p)
    IN  {label \in parser.known : HdrSize + label.begin = pointer}

\* Mutant: the bytes of a pointer do not count.
PointerSizeForgotten == 0

PointerSize == 2

\* Mutant: the name goes on behind the pointer.
AfterPointerHere(label) == parser.p + 2

\* The name goes on behind the label that the pointer leads to.
AfterPointer(label) == label.begin + label.len

CompressedLabel ==
    /\ parser.pc = "parsing" /\ Size >= 1
    /\ IsPointer(Byte(parser.p))
    /\ IF \/ parser.p + 1 >= Size
          \/ parser.size + PointerSize > MaxName
          \/ FindPointer(parser.p) = {}
       THEN Throw
       ELSE \E label \in FindPointer(parser.p) :
                parser' = [parser EXCEPT
                    !.size = @ + PointerSize,
                    !.buffer_size = @ + Used(2),
                    !.names = Append(@, label),
                    !.traversing = TRUE,
                    !.p = AfterPointer(label)]

InvalidLength ==
    /\ parser.pc = "parsing" /\ Size >= 1
    /\ ~IsLength(Byte(parser.p)) /\ ~IsPointer(Byte(parser.p))
    /\ Throw

\* Mutant: the bytes of type and class are not missed.
TailFitsAlways == TRUE

TailFits == parser.buffer_size + TailSize <= Size

\* The rest of the constructor of Question.
ReadTail ==
    /\ parser.pc = "name_read"
    /\ IF TailFits THEN parser' = [parser EXCEPT !.pc = "accepted"] ELSE Throw

ParseStep ==
    /\ Empty \/ RootLabel \/ NormalLabel \/ CompressedLabel \/ InvalidLength \/ ReadTail
    /\ UNCHANGED query

\* Question::GetSize, and the name as the rest of the daemon sees it.
QuestionSize == parser.buffer_size + TailSize
GetLabels == [i \in 1 .. Len(parser.names) |-> Text(parser.names[i])]
=============================================================================
