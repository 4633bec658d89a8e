---------------------------- MODULE DnsMessages ----------------------------
(***************************************************************************)
(* One query from its bytes to the bytes of its reply: the question is     *)
(* parsed (LabelHeader), copied to the reply, and records are written      *)
(* behind it whose names share their endings (NameCompression).  Which     *)
(* records these are is the business of DnsDaemon; here they are any.      *)
(***************************************************************************)
EXTENDS LabelHeader, NameCompression

CONSTANTS
    Records,    \* [by_pointer, name, rdata]
    MaxRecords, \* bound: the records of a reply
    MaxReply    \* max_reply_buffer_, in cells

Name == Seq(Seq(Nat))

ASSUME RecordsAssumption ==
    Records \subseteq [by_pointer : BOOLEAN, name : Name,
                       rdata : Seq([labels : Name, dot : BOOLEAN, zone : Name])]

VARIABLES
    question,   \* where the question's name is in the reply, and the name
    reply,      \* what is written: buffer, points, names (see WriteDomainName)
    stored,     \* the number of records
    truncated   \* Store has thrown Truncated

vars == <<query, parser, question, reply, stored, truncated>>

Nothing == [buffer |-> <<Data>>, points |-> <<>>, names |-> <<>>]

Init ==
    /\ query \in UNION {[1 .. n + 1 -> Bytes] : n \in 0 .. MaxQuery}
    /\ parser = Start
    /\ question = [at |-> 0, name |-> <<>>]
    /\ reply = Nothing
    /\ stored = 0
    /\ truncated = FALSE

Parse == ParseStep /\ UNCHANGED <<question, reply, stored, truncated>>

\* The accepted question is copied to the reply, behind the header; from here on
\* the bytes of the query are not looked at.
CopyQuestion ==
    LET labels == [i \in 1 .. Len(GetLabels) |-> LabelCell(GetLabels[i])]
    IN  /\ parser.pc = "accepted"
        /\ question' = [at |-> 2, name |-> GetLabels]
        /\ reply' = [Nothing EXCEPT !.buffer = @ \o labels \o <<EndMark, Data>>]
        /\ parser' = [Start EXCEPT !.pc = "copied"]
        /\ query' = <<>>
        /\ UNCHANGED <<stored, truncated>>

\* Mutant: the record is taken back, but the next one is tried.
StoreGoesOn(record) ==
    LET written == WriteRecord(reply, question, record)
        fits    == Len(written.buffer) <= MaxReply
    IN  /\ reply' = IF fits THEN written ELSE Revert(written, reply)
        /\ stored' = stored + 1
        /\ truncated' = FALSE

Store(record) ==
    LET written == WriteRecord(reply, question, record)
        fits    == Len(written.buffer) <= MaxReply
    IN  /\ reply' = IF fits THEN written ELSE Revert(written, reply)
        /\ stored' = IF fits THEN stored + 1 ELSE stored
        /\ truncated' = ~fits

AddRecord ==
    /\ parser.pc = "copied" /\ ~truncated
    /\ stored < MaxRecords
    /\ \E record \in Records : Store(record)
    /\ UNCHANGED <<query, parser, question>>

Next == Parse \/ CopyQuestion \/ AddRecord

Spec == Init /\ [][Next]_vars
-----------------------------------------------------------------------------
(***************************************************************************)
(* Properties.                                                             *)
(***************************************************************************)

\* A question is accepted only if all of it, the type and the class included, is
\* in the datagram: what an earlier datagram left in the buffer, and the length
\* byte that is read behind the end, decide nothing and are not copied.
QuestionInDatagram ==
    parser.pc = "accepted" =>
        /\ QuestionSize <= Size
        /\ \A i \in DOMAIN parser.names :
                parser.names[i].begin + parser.names[i].len <= Size

\* The name of an accepted question is spelled out: its labels lie one behind the
\* other and fill the bytes that are copied.  (A pointer can only lead to a label
\* of the same name, from where the parser comes back to the pointer, until the
\* limit for the size ends it.)
AcceptedIsPlain ==
    parser.pc = "accepted" =>
        /\ ~parser.traversing
        /\ \A i \in DOMAIN parser.names :
                parser.names[i].begin =
                    IF i = 1 THEN 1
                    ELSE parser.names[i - 1].begin + parser.names[i - 1].len + 1
        /\ LET last == parser.names[Len(parser.names)]
           IN  parser.buffer_size = last.begin + last.len + 1

\* No datagram keeps the parser busy for ever, or makes it keep more labels than
\* a name has bytes, pointers that lead in a circle included: every turn of its
\* loop but the last adds a label.
ParseBounded == Len(parser.names) <= MaxName

\* A client that follows the pointers reads every name as it was meant: that of
\* a record, of a server and of the question.
NamesReadBack ==
    \A i \in DOMAIN reply.names :
        ReadName(reply.buffer, reply.names[i].at) = reply.names[i].name

\* Pointers lead backwards and to a label, so that every walk along them ends:
\* ReverseCompare follows them without a check.
PointersLeadBack ==
    \A i \in DOMAIN reply.buffer : reply.buffer[i].kind = "pointer" =>
        /\ reply.buffer[i].to < i
        /\ reply.buffer[reply.buffer[i].to].kind = "label"

\* A name that the reply already has is not spelled out again.
RepeatsAreShort ==
    \A i, j \in DOMAIN reply.names :
        /\ i < j
        /\ reply.names[i].name = reply.names[j].name
        /\ reply.names[j].name # <<>>
        => reply.buffer[reply.names[j].at].kind = "pointer"

\* As long as records are written, the offsets kept for compression are those of
\* names in the reply: Revert takes a record back but not its offsets.
OffsetsInReply ==
    ~truncated =>
        \A i \in DOMAIN reply.points :
            /\ reply.points[i] \in DOMAIN reply.buffer
            /\ reply.buffer[reply.points[i]].kind = "label"
=============================================================================
