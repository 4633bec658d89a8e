----------------------------- MODULE DnsDaemon -----------------------------
(***************************************************************************)
(* The DNS daemon: the coroutine that serves one UDP endpoint              *)
(* (StartReceivingUdpAt), and how ProcesssQuerey and ProcessQuestions make *)
(* a reply of at most 512 bytes from a query and the zone tree.            *)
(*                                                                         *)
(* Abstractions.  The size of a resource record depends on how its names   *)
(* are compressed; here it is any of RecordSizes.  A query is what its     *)
(* header says and the questions that follow; a question carries the       *)
(* verdict of the label parser on it.  A record is its section, type,      *)
(* owner and content.                                                      *)
(*                                                                         *)
(* A definition marked "Mutant" is a wrong version of the one below it: no *)
(* specification uses it; put in its place, it makes a property fail.      *)
(***************************************************************************)
EXTENDS Zones, FiniteSets

CONSTANTS
    Queries,       \* the datagrams clients send, see Query
    MaxReply,      \* max_reply_buffer_
    HeaderSize,    \* MessageHeader::GetSize()
    QuestionSize,  \* the size of a question
    RecordSizes    \* the sizes resource records may have

ASSUME DnsAssumption ==
    /\ MaxReply \in Nat /\ HeaderSize \in Nat /\ QuestionSize \in Nat \ {0}
    /\ RecordSizes \subseteq Nat \ {0}
    /\ HeaderSize <= MaxReply

QType == {"A", "NS", "CNAME", "SOA", "MX", "ANY", "OTHER"}

\* "form": the label parser accepts the question, finds an illegal label (or no
\* label, or an illegal pointer), or runs out of the datagram.
Question == [name : Seq(Labels), qtype : QType, qclass : {"IN", "ANY", "OTHER"},
             form : {"ok", "illegal", "underflow"}]

\* enum Rcode
Rcode == {"OK", "FORMAT_ERROR", "SERVER_FAILURE", "NAME_ERROR", "NOT_IMPLEMENTED", "REFUSED"}

\* "kind": a datagram without a whole header, a response, a query with another
\* opcode, or a standard query.  qdcount may differ from what follows.  The flags
\* of a query mean nothing, but the header of the reply starts as a copy of them.
Query == [kind : {"short", "response", "otherop", "standard"}, aa : BOOLEAN, tc : BOOLEAN,
          rcode : Rcode, qdcount : Nat, questions : Seq(Question)]

ASSUME QueriesAssumption == Queries \subseteq Query

VARIABLES
    pc,                 \* where the endpoint's coroutine is
    query,              \* query_buffer
    questions,          \* ProcessQuestions: the questions parsed and copied
    records,            \* the resource records in reply_buffer, in order
    size,               \* reply_buffer.size()
    num,                \* per section: num_answers, num_ns, num_opt
    todo,               \* records that the current loop has yet to store
    current,            \* the number of questions processed
    authorative,        \* the AA flag to be
    authorative_zones,  \* zones to name the name servers of
    ns_zones,           \* zones to give the addresses of
    header,             \* the header written into reply_buffer
    state               \* RequestStats::state

vars == <<pc, query, questions, records, size, num, todo, current, authorative,
          authorative_zones, ns_zones, header, state>>

Sections == {"answer", "authority", "additional"}

NoQuery == [kind |-> "short", aa |-> FALSE, tc |-> FALSE, rcode |-> "OK", qdcount |-> 0,
            questions |-> <<>>]

NoHeader == [rcode |-> "none", tc |-> FALSE, aa |-> FALSE, qdcount |-> 0,
             counts |-> [s \in Sections |-> 0]]

\* The locals of ProcessQuestions as it sets them up.
FreshReply ==
    /\ questions' = <<>> /\ records' = <<>> /\ todo' = <<>> /\ current' = 0
    /\ num' = [s \in Sections |-> 0]
    /\ authorative' = TRUE
    /\ authorative_zones' = <<>> /\ ns_zones' = <<>>

Init ==
    /\ pc = "receiving"
    /\ query = NoQuery
    /\ questions = <<>> /\ records = <<>> /\ todo = <<>> /\ current = 0
    /\ num = [s \in Sections |-> 0]
    /\ authorative = TRUE
    /\ authorative_zones = <<>> /\ ns_zones = <<>>
    /\ size = 0
    /\ header = NoHeader
    /\ state = "UNSET"
-----------------------------------------------------------------------------
(***************************************************************************)
(* The loop of the endpoint.  An iteration ends with the outcome in        *)
(* "state" being counted (~RequestStats); the next one starts from fresh.  *)
(***************************************************************************)
EndQuery ==
    /\ pc' = "receiving"
    /\ query' = NoQuery
    /\ FreshReply
    /\ size' = 0
    /\ header' = NoHeader
    /\ state' = "UNSET"

\* CreateErrorReply: a header with the code and no sections is all there is.  Its
\* other flags are those of the query.
CreateErrorReply(rcode, outcome) ==
    /\ FreshReply
    /\ size' = HeaderSize
    /\ header' = [NoHeader EXCEPT !.rcode = rcode, !.aa = query.aa, !.tc = query.tc]
    /\ state' = outcome
    /\ pc' = "sending"
    /\ UNCHANGED query

\* UnknownDomain: the query is not answered.
DoNotReply ==
    /\ pc' = "ending"
    /\ UNCHANGED <<query, questions, records, size, num, todo, current, authorative,
                   authorative_zones, ns_zones, header, state>>

(***************************************************************************)
(* A datagram arrives; ProcesssQuerey looks at its header.  The exception  *)
(* for a short one leaves ProcesssQuerey with an empty reply, which is not *)
(* sent.                                                                   *)
(***************************************************************************)
Receive(q) ==
    /\ pc = "receiving"
    /\ query' = q
    /\ FreshReply
    /\ header' = NoHeader
    /\ IF q.kind = "standard"
       THEN pc' = "copying" /\ size' = HeaderSize /\ UNCHANGED state
       ELSE \/ /\ q.kind = "short"
               /\ pc' = "ending" /\ size' = 0 /\ UNCHANGED state
            \/ /\ q.kind \in {"response", "otherop"}
               /\ pc' = "rejecting" /\ size' = HeaderSize /\ UNCHANGED state

RejectKind ==
    /\ pc = "rejecting"
    /\ \/ query.kind = "response" /\ CreateErrorReply("FORMAT_ERROR", "BAD")
       \/ query.kind = "otherop" /\ CreateErrorReply("NOT_IMPLEMENTED", "UNSET")
-----------------------------------------------------------------------------
(***************************************************************************)
(* ProcessQuestions, first pass: parse the questions and copy them to the  *)
(* reply.  Each turn starts to read at the first question, for bytes_left  *)
(* is never reduced.                                                       *)
(***************************************************************************)
NextQuestion == query.questions[1]

CopyQuestion ==
    /\ pc = "copying"
    /\ Len(questions) < query.qdcount
    /\ IF query.questions = <<>> THEN CreateErrorReply("FORMAT_ERROR", "BAD")
       ELSE CASE NextQuestion.form = "illegal" -> CreateErrorReply("FORMAT_ERROR", "BAD")
              [] NextQuestion.form = "underflow" -> CreateErrorReply("SERVER_FAILURE", "UNSET")
              [] NextQuestion.form = "ok" /\ NextQuestion.qclass = "OTHER" ->
                    CreateErrorReply("REFUSED", "UNSET")
              [] OTHER ->
                    IF size + QuestionSize < MaxReply
                    THEN /\ questions' = Append(questions, NextQuestion)
                         /\ size' = size + QuestionSize
                         /\ UNCHANGED <<pc, query, records, num, todo, current, authorative,
                                        authorative_zones, ns_zones, header, state>>
                    ELSE CreateErrorReply("FORMAT_ERROR", "BAD")

QuestionsCopied ==
    /\ pc = "copying"
    /\ Len(questions) = query.qdcount
    /\ pc' = "answer"
    /\ UNCHANGED <<query, questions, records, size, num, todo, current, authorative,
                   authorative_zones, ns_zones, header, state>>
-----------------------------------------------------------------------------
(***************************************************************************)
(* ProcessQuestion.                                                        *)
(***************************************************************************)
Record(section, type, owner, data) ==
    [section |-> section, type |-> type, owner |-> owner, data |-> data]

\* The A records of a zone under a given name.
Addresses(section, owner, z) ==
    IF z = NoZone THEN <<>>
    ELSE [i \in 1 .. ZoneTable[z].a |-> Record(section, "A", owner, <<z, i>>)]

\* Names in ns and mx are relative to their zone, a cname may be to its parent.
Fdqn(label, z) == <<label>> \o DomainName[z]

FullCname(z) ==
    LET zone == ZoneTable[z]
    IN  zone.cname \o (IF zone.cname_absolute \/ zone.parent = NoZone THEN <<>>
                       ELSE DomainName[zone.parent])

\* The records that answer a question about zone z, whose SOA zone is soa.
Answers(q, z, soa) ==
    LET zone  == ZoneTable[z]
        cname == <<Record("answer", "CNAME", q.name, FullCname(z))>>
    IN  CASE q.qtype \in {"A", "ANY"} /\ zone.cname # <<>> ->
               cname \o (IF q.qtype = "A"
                         THEN Addresses("answer", FullCname(z), Lookup(FullCname(z)))
                         ELSE <<>>)
          [] q.qtype \in {"A", "ANY"} /\ zone.cname = <<>> -> Addresses("answer", q.name, z)
          [] q.qtype = "CNAME" /\ zone.cname # <<>> -> cname
          [] q.qtype = "SOA" -> <<Record("answer", "SOA", q.name, DomainName[soa])>>
          [] q.qtype = "MX" ->
               [i \in DOMAIN zone.mx |-> Record("answer", "MX", q.name, Fdqn(zone.mx[i], z))]
          [] OTHER -> <<>>

\* Mutant: the null pointer of a zone that is not ours is appended, too.
AddZoneUnchecked(list, z) == IF Contains(list, z) THEN list ELSE Append(list, z)

\* AddZone: append the zones that are there and not in the list yet.
AddZone(list, z) == IF z = NoZone \/ Contains(list, z) THEN list ELSE Append(list, z)

AddZones(list, zones) ==
    LET added[i \in 0 .. Len(zones)] ==
            IF i = 0 THEN list ELSE AddZone(added[i - 1], zones[i])
    IN  added[Len(zones)]

ProcessQuestion ==
    /\ pc = "answer" /\ todo = <<>> /\ current < Len(questions)
    /\ LET q   == questions[current + 1]
           z   == Lookup(q.name)
           soa == GetSoaZone(z)
       IN  CASE z = NoZone /\ AuthorativeDuringLookup(q.name) ->
                  CreateErrorReply("NAME_ERROR", "UNSET")
             [] z = NoZone /\ ~AuthorativeDuringLookup(q.name) -> DoNotReply
             [] z # NoZone /\ soa = Spins ->
                  /\ pc' = "spinning"
                  /\ UNCHANGED <<query, questions, records, size, num, todo, current,
                                 authorative, authorative_zones, ns_zones, header, state>>
             [] z # NoZone /\ q.qtype = "SOA"
                  /\ (soa = NoZone \/ (soa \in Zone /\ ZoneTable[soa].ns = <<>>)) ->
                  CreateErrorReply("SERVER_FAILURE", "UNSET")
             [] OTHER ->
                  /\ current' = current + 1
                  /\ authorative' = (authorative /\ soa # NoZone
                                       /\ ZoneTable[soa].authorative)
                  /\ todo' = Answers(q, z, soa)
                  /\ authorative_zones' = IF q.qtype \in {"SOA", "NS", "ANY"}
                                          THEN AddZone(authorative_zones, soa)
                                          ELSE authorative_zones
                  /\ ns_zones' = IF q.qtype = "MX"
                                 THEN AddZones(ns_zones, [i \in DOMAIN ZoneTable[z].mx |->
                                                    Lookup(Fdqn(ZoneTable[z].mx[i], z))])
                                 ELSE ns_zones
                  /\ UNCHANGED <<pc, query, questions, records, size, num, header, state>>
-----------------------------------------------------------------------------
(***************************************************************************)
(* Store writes a record and takes it back if the reply is now too long;   *)
(* then Truncated ends all the loops.                                      *)
(***************************************************************************)
\* The header of a reply is a copy of the query's with the flags and the counts
\* set; the code stays that of the query.
WriteHeader(truncated, counts, aa) ==
    /\ header' = [rcode |-> query.rcode, tc |-> truncated, aa |-> aa,
                  qdcount |-> Len(questions), counts |-> counts]
    /\ pc' = "sending"

\* Mutant: the record is counted before it is known to fit.
StoreCountsFirst(length) ==
    /\ pc \in Sections /\ todo # <<>>
    /\ num' = [num EXCEPT ![pc] = @ + 1]
    /\ IF size + length > MaxReply
       THEN WriteHeader(TRUE, num', authorative) /\ todo' = <<>> /\ UNCHANGED <<records, size>>
       ELSE /\ records' = Append(records, Head(todo))
            /\ size' = size + length
            /\ todo' = Tail(todo)
            /\ UNCHANGED <<pc, header>>
    /\ UNCHANGED <<query, questions, current, authorative, authorative_zones, ns_zones, state>>

\* Mutant: the record that does not fit is not reverted.
StoreKeeps(length) ==
    /\ pc \in Sections /\ todo # <<>>
    /\ records' = Append(records, Head(todo))
    /\ size' = size + length
    /\ num' = [num EXCEPT ![pc] = @ + 1]
    /\ IF size' > MaxReply
       THEN WriteHeader(TRUE, num', authorative) /\ todo' = <<>>
       ELSE todo' = Tail(todo) /\ UNCHANGED <<pc, header>>
    /\ UNCHANGED <<query, questions, current, authorative, authorative_zones, ns_zones, state>>

Store(length) ==
    /\ pc \in Sections /\ todo # <<>>
    /\ IF size + length > MaxReply
       THEN /\ WriteHeader(TRUE, num, authorative)
            /\ todo' = <<>>
            /\ UNCHANGED <<records, size, num>>
       ELSE /\ records' = Append(records, Head(todo))
            /\ size' = size + length
            /\ num' = [num EXCEPT ![pc] = @ + 1]
            /\ todo' = Tail(todo)
            /\ UNCHANGED <<pc, header>>
    /\ UNCHANGED <<query, questions, current, authorative, authorative_zones, ns_zones, state>>

\* ProcessNsAuthZone for every zone that was asked for its authority.
NameServers(z) ==
    [i \in DOMAIN ZoneTable[z].ns |->
        Record("authority", "NS", DomainName[z], Fdqn(ZoneTable[z].ns[i], z))]

\* Mutant: the name servers are not noted for the additional section.
ProcessNsAuthZonesNoGlue ==
    /\ pc = "answer" /\ todo = <<>> /\ current = Len(questions)
    /\ pc' = "authority"
    /\ todo' = FlattenSeq([i \in DOMAIN authorative_zones |->
                              NameServers(authorative_zones[i])])
    /\ UNCHANGED <<query, questions, records, size, num, current, authorative,
                   authorative_zones, ns_zones, header, state>>

ProcessNsAuthZones ==
    /\ pc = "answer" /\ todo = <<>> /\ current = Len(questions)
    /\ pc' = "authority"
    /\ todo' = FlattenSeq([i \in DOMAIN authorative_zones |->
                              NameServers(authorative_zones[i])])
    /\ ns_zones' = AddZones(ns_zones, [i \in DOMAIN todo' |-> Lookup(todo'[i].data)])
    /\ UNCHANGED <<query, questions, records, size, num, current, authorative,
                   authorative_zones, header, state>>

\* ProcessNsZone for every name server and mail server in the reply.
ProcessNsZones ==
    /\ pc = "authority" /\ todo = <<>>
    /\ pc' = "additional"
    /\ todo' = FlattenSeq([i \in DOMAIN ns_zones |->
                  Addresses("additional", DomainName[ns_zones[i]], ns_zones[i])])
    /\ UNCHANGED <<query, questions, records, size, num, current, authorative,
                   authorative_zones, ns_zones, header, state>>

ReplyComplete ==
    /\ pc = "additional" /\ todo = <<>>
    /\ WriteHeader(FALSE, num, authorative)
    /\ UNCHANGED <<query, questions, records, size, num, todo, current, authorative,
                   authorative_zones, ns_zones, state>>

Process ==
    \/ RejectKind \/ CopyQuestion \/ QuestionsCopied \/ ProcessQuestion
    \/ \E length \in RecordSizes : Store(length)
    \/ ProcessNsAuthZones \/ ProcessNsZones \/ ReplyComplete
-----------------------------------------------------------------------------
(***************************************************************************)
(* The reply is sent.  async_receive_from and async_send_to report errors  *)
(* by exceptions that nothing in the coroutine catches: it ends.           *)
(***************************************************************************)
Send ==
    /\ pc = "sending"
    /\ state' = "SUCESS"
    /\ pc' = "ending"
    /\ UNCHANGED <<query, questions, records, size, num, todo, current, authorative,
                   authorative_zones, ns_zones, header>>

LoopEnds == pc = "ending" /\ EndQuery

IoError ==
    /\ pc \in {"receiving", "sending"}
    /\ pc' = "ended"
    /\ query' = NoQuery /\ FreshReply /\ size' = 0 /\ header' = NoHeader
    /\ state' = "UNSET"

Next ==
    \/ \E q \in Queries : Receive(q)
    \/ Process
    \/ Send
    \/ LoopEnds
    \/ IoError

Spec == Init /\ [][Next]_vars

\* Fairness: the IO thread goes on with the query it has, and datagrams are sent.
Fairness == WF_vars(Process) /\ WF_vars(Send) /\ WF_vars(LoopEnds)

FairSpec == Spec /\ Fairness
-----------------------------------------------------------------------------
(***************************************************************************)
(* Properties.                                                             *)
(***************************************************************************)

\* The variables keep their types; in particular the zone lists that are
\* iterated to write the authority and additional sections hold no null pointer.
TypeOK ==
    /\ pc \in {"receiving", "rejecting", "copying", "spinning", "sending", "ending", "ended"}
              \cup Sections
    /\ query \in Queries \cup {NoQuery}
    /\ questions \in Seq(Question)
    /\ \A i \in DOMAIN records : records[i].section \in Sections
    /\ size \in Nat
    /\ num \in [Sections -> Nat]
    /\ current \in 0 .. Len(questions)
    /\ authorative \in BOOLEAN
    /\ authorative_zones \in Seq(Zone)
    /\ ns_zones \in Seq(Zone)
    /\ state \in {"UNSET", "BAD", "SUCESS"}

Replying == pc = "sending"

\* Questions that were copied are in the reply, unless CreateErrorReply drops them.
Answered == Replying /\ questions # <<>>

InSection(s) == {i \in DOMAIN records : records[i].section = s}

\* The counts in the header of a reply are those of what follows it, even when
\* the reply was truncated in the middle of a section or turned into an error
\* after some records had been written.  (ProcessQuestions, Store, CreateErrorReply.)
CountsMatch ==
    Replying =>
        /\ \A s \in Sections : header.counts[s] = Cardinality(InSection(s))
        /\ header.qdcount = Len(questions)
        /\ ~Answered => size = HeaderSize /\ records = <<>>

\* No datagram is longer than max_reply_buffer_: Store reverts what exceeds it.
ReplyFits == Replying => size <= MaxReply

\* A reply that is not truncated gives, under its name, every address of a name
\* server or mail server that it names and that the zone tree has under that name
\* ("Add IP addresse for NS servers we have named, and have data about").  One that
\* only a wildcard matches gets its addresses under the wildcard's own name, which
\* no client can use: see NamesReadBack in DnsMessages.
GlueComplete ==
    Answered /\ ~header.tc =>
        \A i \in DOMAIN records :
            records[i].type \in {"NS", "MX"} =>
                LET z == Lookup(records[i].data)
                IN  z # NoZone /\ DomainName[z] = records[i].data =>
                        \A n \in 1 .. ZoneTable[z].a :
                            \E j \in InSection("additional") :
                                /\ records[j].owner = records[i].data
                                /\ records[j].data = <<z, n>>

\* A zone covers a name if every label is its own or matched by a wildcard.
Covers(z, name) ==
    /\ Len(DomainName[z]) = Len(name)
    /\ \A i \in DOMAIN name : DomainName[z][i] \in {name[i], ""}

\* z matches the name in full at a level where y has the wildcard, and the two
\* agree above that level.
Beats(z, y, name) ==
    \E i \in DOMAIN name :
        /\ DomainName[z][i] = name[i] /\ DomainName[y][i] # name[i]
        /\ \A j \in i + 1 .. Len(name) : DomainName[z][j] = DomainName[y][j]

\* An address in the answer section belongs to the zone that best matches the
\* name it is given for: "If there is an ambiguity, with a matching name and an
\* empty label, the full match is used" (ZoneMgr::Lookup).
BestMatchAnswers ==
    \A i \in InSection("answer") :
        records[i].type = "A" =>
            LET z == records[i].data[1]
            IN  /\ Covers(z, records[i].owner)
                /\ \A y \in Zone : Covers(y, records[i].owner)
                                     => ~Beats(y, z, records[i].owner)

\* The name is z's or below it.
Encloses(z, name) ==
    \E i \in DOMAIN name : Covers(z, SubSeq(name, i, Len(name)))

\* NAME_ERROR denies a name only within a zone of ours ("Unknown subdomain for a
\* zone we own. Reply with error."), never one that is somebody else's.
NameErrorOnlyInOwnZones ==
    Replying /\ ~Answered /\ query.qdcount > 0 /\ header.rcode = "NAME_ERROR" =>
        \E z \in Zone : ZoneTable[z].authorative /\ Encloses(z, query.questions[1].name)

\* The zones from z up to its root.
Ancestry[z \in Zone] ==
    {z} \cup (IF ZoneTable[z].parent = NoZone THEN {} ELSE Ancestry[ZoneTable[z].parent])

\* The nearest SOA above the zone is there, and one we are authorative for.
Owned(z) ==
    LET soas == {y \in Ancestry[z] : ZoneTable[y].soa}
    IN  soas # {} /\ ZoneTable[Max(soas)].authorative

OneNameAsked ==
    \A i \in DOMAIN query.questions : query.questions[i].name = query.questions[1].name

\* To a query that asks for one name, the reply has the AA flag exactly if we are
\* authorative for that name ("If any of the questions regards a zone where we are
\* not authorative, we do not set the authorative flag").  Of several names, only
\* the first is looked at: see EachQuestionCopied.
AaIsEarned ==
    Answered /\ OneNameAsked =>
        (header.aa <=> Owned(Lookup(query.questions[1].name)))

\* The endpoint gets back to receiving from every query, unless its socket fails.
EveryQueryFinishes == pc = "sending" \/ query # NoQuery ~> pc \in {"receiving", "ended"}
-----------------------------------------------------------------------------
(***************************************************************************)
(* What comments and assertions say and the code does not do.              *)
(***************************************************************************)

\* "We therefore do a two-pass loop over the questions; first to parse and copy
\* them, and then to process them": the reply repeats the questions asked.
EachQuestionCopied ==
    Answered /\ query.qdcount <= Len(query.questions) =>
        questions = SubSeq(query.questions, 1, query.qdcount)
=============================================================================
