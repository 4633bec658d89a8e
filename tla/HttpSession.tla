---------------------------- MODULE HttpSession ----------------------------
(***************************************************************************)
(* One HTTP connection seen from the inside: Connection::ProcessRequests,  *)
(* its input buffer, ParseRequest and the reply object (CurrentReply).     *)
(*                                                                         *)
(* The client sends the requests of "stream" back to back, without waiting *)
(* for replies if it likes; the network cuts this stream of bytes into     *)
(* packets at any place.  A read returns any number of the bytes that      *)
(* follow.  The connection manager may close the socket at any time (Kill, *)
(* see ConnectionMgr), the client may disconnect at any time.              *)
(*                                                                         *)
(* Abstractions.  The buffer holds request_bytes consecutive bytes of the  *)
(* stream, so it is the position of its first byte and their number; a     *)
(* memmove advances the position.  A request is its size and its tokens,   *)
(* see RequestGrammar; its last byte is the end-of-header marker.  Boost's *)
(* tokenize_and_parse is external: it accepts a buffer that begins with a  *)
(* complete request that the grammar takes, and consumes exactly this one. *)
(*                                                                         *)
(* A definition marked "Mutant" is a wrong version of the one below it: no *)
(* specification uses it; put in its place, it makes a property fail.      *)
(***************************************************************************)
EXTENDS HttpRequests

VARIABLES
    stream,         \* the requests the client sends on this connection
    first,          \* the bytes of the stream that precede request_buffer_[0]
    request_bytes,  \* the number of bytes in request_buffer_
    current_req,    \* current_req_: the last request that was parsed
    reply,          \* current_reply_: body_ and, once DoReply has run, what is sent
    is_open,        \* socket_.is_open()
    pc,             \* where the coroutine is, see Pending and Ready
    replies         \* history: the replies the client has received in full

vars == <<stream, first, request_bytes, current_req, reply, is_open, pc, replies>>

\* The client can receive more.
Open == pc \notin {"done", "rejected"} /\ ~(pc = "replied" /\ reply.close)

\* It can not, after all: the socket is closed or the last operation failed.
Lost == Open /\ (pc = "failed" \/ ~is_open)

Service == INSTANCE HttpService WITH requests <- stream, open <- Open, lost <- Lost

\* Suspended in a socket operation that is under way, or that has completed:
\* with success or ("failed") with an error.
Pending == {"reading", "replying", "rejecting"}
Ready == {"read", "replied", "rejected", "failed"}

\* A default-constructed HttpRequest and CurrentReply.
NoRequest == BlankRequest
NoReply == [version |-> "UNKNOWN", code |-> 0, encoding |-> "none", body |-> <<>>,
            sent |-> <<>>, close |-> FALSE]

Init ==
    /\ stream \in UNION {[1 .. n -> RequestKinds] : n \in 0 .. MaxRequests}
    /\ first = 0
    /\ request_bytes = 0
    /\ current_req = NoRequest
    /\ reply = NoReply
    /\ is_open = TRUE
    /\ pc = "reading"
    /\ replies = <<>>

\* The position in the stream where each request ends.
End[i \in 0 .. Len(stream)] == IF i = 0 THEN 0 ELSE End[i - 1] + stream[i].size
-----------------------------------------------------------------------------
(***************************************************************************)
(* Connection::ParseRequest, for a buffer that holds n bytes of the stream *)
(* from position f on.                                                     *)
(***************************************************************************)

\* Mutant: the parser accepts a request of which only the beginning is there.
ParsedTooEarly(f, n) ==
    {i \in 1 .. Len(stream) : Accepted(stream[i]) /\ End[i - 1] = f /\ f < f + n}

\* The request the parser finds at the start of the buffer, as a set.
Parsed(f, n) ==
    {i \in 1 .. Len(stream) : /\ Accepted(stream[i])
                              /\ End[i - 1] = f
                              /\ End[i] <= f + n}

HasEohMarker(f, n) == \E i \in 1 .. Len(stream) : f < End[i] /\ End[i] <= f + n

\* Mutant: only a buffer without a byte of room left is too full.
ParseRequestTooLate(f, n) ==
    IF Parsed(f, n) # {} THEN "OK"
    ELSE IF n > BufSize \/ HasEohMarker(f, n) THEN "BAD"
    ELSE "INCOMPLETE"

ParseRequest(f, n) ==
    IF Parsed(f, n) # {} THEN "OK"
    ELSE IF n >= BufSize - 1 \/ HasEohMarker(f, n) THEN "BAD"
    ELSE "INCOMPLETE"
-----------------------------------------------------------------------------
(***************************************************************************)
(* CurrentReply.                                                           *)
(***************************************************************************)
\* allow holds the encodings that the configuration allows.
Prepare(rep, req, allow) ==
    [rep EXCEPT !.body = <<>>, !.encoding =
        IF req.accept_encoding_gzip /\ "gzip" \in allow THEN "gzip"
        ELSE IF req.accept_encoding_deflate /\ "deflate" \in allow THEN "deflate"
        ELSE "none"]

Allowed == {e \in {"gzip", "deflate"} : IF e = "gzip" THEN AllowGzip ELSE AllowDeflate}

Write(rep, content) == [rep EXCEPT !.body = Append(@, content)]

DoReply(rep, code, req) ==
    [rep EXCEPT !.code = code, !.version = req.version,
                !.sent = IF req.method = "HEAD" THEN <<>> ELSE rep.body]

Reply(rep, code, req) ==
    DoReply([rep EXCEPT !.close = (req.version = "HTTP_1_0")], code, req)

\* Prepare is given a default configuration, which allows no encoding.
ReplyWithError(rep, code, req) ==
    DoReply(Write(Prepare([rep EXCEPT !.close = TRUE], req, {}), ErrorText(code)),
            code, req)

(***************************************************************************)
(* Host::ProcessRequest fills the reply for the i-th request, or throws    *)
(* what ProcessRequests turns into a 404 or 405.  The site counts the hit, *)
(* see VhostManager.                                                       *)
(***************************************************************************)
ProcessRequest(rep, i, req) ==
    LET site == GetHost(req.host, NumSites).ix
        code == HostCode(HostTemplates[site], req.method, req.uri)
    IN  IF code = 200 THEN Reply(Write(rep, Page(site, i, req.do_not_track)), 200, req)
                      ELSE ReplyWithError(rep, code, req)
-----------------------------------------------------------------------------
(***************************************************************************)
(* The loop of ProcessRequests.  Each of these is a part of one turn, up   *)
(* to the next suspension; f and n are the buffer's position and size.     *)
(***************************************************************************)
Buffer(f, n) == first' = f /\ request_bytes' = n

\* An operation that is started on a closed socket fails at once.
Suspend(where) == pc' = IF is_open THEN where ELSE "failed"

\* Leaving the coroutine: ~cleanup closes the socket.
Return ==
    /\ pc' = "done"
    /\ is_open' = FALSE
    /\ UNCHANGED <<stream, first, request_bytes, current_req, reply, replies>>

\* while(socket_.is_open()) with need_mode_data.
ReadMore(f, n) ==
    /\ Buffer(f, n)
    /\ pc' = IF is_open THEN "reading" ELSE "done"
    /\ UNCHANGED <<stream, current_req, reply, is_open, replies>>

\* GetHost has thrown ExceptionUnknownHost or ExceptionRedirect.
Abandon(f, n, req) ==
    /\ Buffer(f, n)
    /\ current_req' = req
    /\ pc' = "done"
    /\ is_open' = FALSE
    /\ UNCHANGED <<stream, reply, replies>>

Respond(f, n, i, req) ==
    /\ Buffer(f, n)
    /\ current_req' = req
    /\ reply' = ProcessRequest(Prepare(reply, req, Allowed), i, req)
    /\ Suspend("replying")
    /\ UNCHANGED <<stream, is_open, replies>>

\* current_req_ is the last request that was parsed, if any.
RejectRequest(f, n) ==
    /\ Buffer(f, n)
    /\ reply' = ReplyWithError(reply, 400, current_req)
    /\ Suspend("rejecting")
    /\ UNCHANGED <<stream, current_req, is_open, replies>>

\* What the thread's parser has in its req_: another connection's request may
\* have left anything there.
Leftovers == {NoRequest} \cup {Parse(NoRequest, r) : r \in RequestKinds}

HandleBuffer(f, n) ==
    \/ /\ ParseRequest(f, n) = "OK"
       /\ \E i \in Parsed(f, n), left \in Leftovers :
            LET req == [Parse(left, stream[i]) EXCEPT !.request_length = stream[i].size]
            IN  IF GetHost(req.host, NumSites).status = "found"
                THEN Respond(f, n, i, req) ELSE Abandon(f, n, req)
    \/ ParseRequest(f, n) = "BAD" /\ RejectRequest(f, n)
    \/ ParseRequest(f, n) = "INCOMPLETE" /\ ReadMore(f, n)
-----------------------------------------------------------------------------
(***************************************************************************)
(* The steps of the coroutine.                                             *)
(***************************************************************************)
ResumeRead == pc = "read" /\ HandleBuffer(first, request_bytes)

\* Mutant: the bytes of the request are still counted.
NextRequestKeepsCount ==
    LET len == current_req.request_length
    IN  IF request_bytes = len
        THEN ReadMore(first + len, 0)
        ELSE HandleBuffer(first + len, request_bytes)

\* Mutant: the rest of the buffer is kept, but parsed only after another read.
NextRequestReadsFirst ==
    ReadMore(first + current_req.request_length,
             request_bytes - current_req.request_length)

\* The reply is written and the connection stays open: take the request off the
\* buffer and go on with what is left of it.
NextRequest ==
    LET len == current_req.request_length
    IN  IF request_bytes = len
        THEN ReadMore(first + len, 0)
        ELSE HandleBuffer(first + len, request_bytes - len)

ResumeReply ==
    /\ pc = "replied"
    /\ \/ (~is_open \/ reply.close) /\ Return
       \/ is_open /\ ~reply.close /\ NextRequest

ResumeReject == pc = "rejected" /\ Return

ResumeError == pc = "failed" /\ Return

Resume == ResumeRead \/ ResumeReply \/ ResumeReject \/ ResumeError
-----------------------------------------------------------------------------
(***************************************************************************)
(* The world outside: packets arrive, the client takes a reply or goes     *)
(* away, the connection manager kills the connection.  A read into a full  *)
(* buffer would return at once with nothing.                               *)
(***************************************************************************)
Receive(n) ==
    /\ pc = "reading"
    /\ request_bytes + n <= BufSize
    /\ first + request_bytes + n <= End[Len(stream)]
    /\ n = 0 <=> request_bytes = BufSize
    /\ request_bytes' = request_bytes + n
    /\ pc' = "read"
    /\ UNCHANGED <<stream, first, current_req, reply, is_open, replies>>

ReplyTaken ==
    /\ pc \in {"replying", "rejecting"}
    /\ pc' = IF pc = "replying" THEN "replied" ELSE "rejected"
    /\ replies' = Append(replies,
            [version |-> reply.version, code |-> reply.code, encoding |-> reply.encoding,
             body |-> reply.sent, close |-> reply.close])
    /\ UNCHANGED <<stream, first, request_bytes, current_req, reply, is_open>>

Disconnect ==
    /\ pc \in Pending
    /\ pc' = "failed"
    /\ UNCHANGED <<stream, first, request_bytes, current_req, reply, is_open, replies>>

Kill ==
    /\ is_open
    /\ is_open' = FALSE
    /\ pc' = IF pc \in Pending THEN "failed" ELSE pc
    /\ UNCHANGED <<stream, first, request_bytes, current_req, reply, replies>>

Next ==
    \/ Resume
    \/ \E n \in 0 .. BufSize : Receive(n)
    \/ ReplyTaken
    \/ Disconnect
    \/ Kill

Spec == Init /\ [][Next]_vars

(***************************************************************************)
(* Fairness: the IO thread runs a session that is ready, and the client    *)
(* sends what it has to send and takes what it is sent.                    *)
(***************************************************************************)
Fairness ==
    /\ WF_vars(Resume)
    /\ WF_vars(\E n \in 0 .. BufSize : Receive(n))
    /\ WF_vars(ReplyTaken)

FairSpec == Spec /\ Fairness
-----------------------------------------------------------------------------
(***************************************************************************)
(* Properties.                                                             *)
(***************************************************************************)

\* The types of the variables; no more replies than requests.
TypeOK ==
    /\ stream \in Seq(RequestKinds)
    /\ first \in 0 .. End[Len(stream)]
    /\ request_bytes \in 0 .. BufSize
    /\ current_req.request_length \in Nat
    /\ reply.close \in BOOLEAN
    /\ is_open \in BOOLEAN
    /\ pc \in Pending \cup Ready \cup {"done"}
    /\ Len(replies) <= Len(stream)

\* The session gives its client what HttpService promises, but for Tolerated:
\* every reply belongs to the request at the same place in the stream and depends
\* on the headers of this request only, whatever the packets were and whatever
\* the thread's parser was used for before; no request that has a site and fits
\* the buffer is rejected or hung up on; and nothing follows a reply that closes
\* the connection.
ImplementsService == Service!Spec

\* The session never starts a read without room for a byte: the read would
\* return nothing at once and the loop in ProcessRequests would spin.
RoomToRead == pc = "reading" => request_bytes < BufSize

\* A request is taken off the buffer only if the buffer holds all of it: the
\* subtraction of request_length from request_bytes does not wrap around.
ConsumesWhatItHas ==
    pc \in {"replying", "replied"} => current_req.request_length <= request_bytes

\* A client that keeps sending and reading is answered all its requests, unless
\* the session ends: in particular the last of several requests that came in one
\* packet is not left in the buffer.
EveryRequestAnswered == <>(pc = "done" \/ Len(replies) = Len(stream))
=============================================================================
