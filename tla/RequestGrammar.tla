--------------------------- MODULE RequestGrammar ---------------------------
(***************************************************************************)
(* The parser of an HTTP request: the tokens that HeaderLexer cuts the     *)
(* text into, the rules of RequestGrammar and what they set in its req_.   *)
(* There is one parser per thread, used for all of its connections.        *)
(*                                                                         *)
(* A request is given as tokens: those of its first line, and for each of  *)
(* its headers the name and the tokens of the value in the state that the  *)
(* name puts the lexer into.  "none" is text that no token of that state   *)
(* matches.  How Boost.Spirit runs lexer and grammar is external: a rule   *)
(* takes the text it can, and actions run as soon as their token is taken. *)
(*                                                                         *)
(* A definition marked "Mutant" is a wrong version of the one below it: no *)
(* specification uses it; put in its place, it makes a property fail.      *)
(***************************************************************************)
EXTENDS Hosts, Sequences

Method == {"GET", "OPTIONS", "HEAD", "POST", "PUT", "DELETE", "TRACE", "CONNECT"}

\* "any" is a method or a header name that has no token of its own.  A str_ is
\* a word; only the word in a Host header is looked at.
HeaderName == {"Host", "Dnt:", "Accept-Encoding:", "any"}
ContentToken == {"ws", "str", "none"}
DntToken == {"ws", "1", "0", "none"}
Encoding == {"gzip", "deflate", "letter"}
EncodingToken == {"ws", ",", "qvalue", "none"} \cup Encoding

Tokens(name) ==
    CASE name = "Dnt:" -> DntToken
      [] name = "Accept-Encoding:" -> EncodingToken
      [] OTHER -> ContentToken

Header(h) ==
    /\ h.name \in HeaderName
    /\ h.value \in Seq(Tokens(h.name))
    /\ h.host \in Host(STRING)

RequestText(text) ==
    /\ text.method \in Method \cup {"any"}
    /\ text.uri \in Uri
    /\ text.version \in {"HTTP_1_0", "HTTP_1_1", "none"}
    /\ text.headers \in Seq([name : HeaderName, value : Seq(STRING), host : Host(STRING)])
    /\ \A i \in DOMAIN text.headers : Header(text.headers[i])
-----------------------------------------------------------------------------
(***************************************************************************)
(* Which requests are taken.                                               *)
(***************************************************************************)
Trimmed(value) == SelectSeq(value, LAMBDA token : token # "ws")

\* One word, with blanks around it but not within.
HostAccepted(value) == Trimmed(value) = <<"str">>

DntAccepted(value) == Trimmed(value) \in {<<"1">>, <<"0">>}

\* Any number of *ws_ value *qvalue *','.  A comma or a qvalue follows what it
\* belongs to without a blank.
EncodingsAccepted(value) ==
    \A i \in DOMAIN value :
        /\ value[i] # "none"
        /\ value[i] = "qvalue" => i > 1 /\ value[i - 1] \in Encoding \cup {"qvalue"}
        /\ value[i] = "," => i > 1 /\ value[i - 1] # "ws"

\* At least one word.
AnyAccepted(value) ==
    /\ \A i \in DOMAIN value : value[i] # "none"
    /\ Trimmed(value) # <<>>

HeaderAccepted(header) ==
    CASE header.name = "Host" -> HostAccepted(header.value)
      [] header.name = "Dnt:" -> DntAccepted(header.value)
      [] header.name = "Accept-Encoding:" -> EncodingsAccepted(header.value)
      [] header.name = "any" -> AnyAccepted(header.value)

\* No other rule takes the tokens of a header that its own rule refuses.
Accepted(text) ==
    /\ text.version # "none"
    /\ \A i \in DOMAIN text.headers : HeaderAccepted(text.headers[i])
-----------------------------------------------------------------------------
(***************************************************************************)
(* What is made of a request that is taken.                                *)
(***************************************************************************)
NoHost == [name |-> "", dotted |-> FALSE, label |-> NotNumeric]

\* A HttpRequest as its Reset leaves it.
BlankRequest ==
    [method |-> "UNKNOWN", version |-> "UNKNOWN", uri |-> "", host |-> NoHost,
     do_not_track |-> FALSE, accept_encoding_gzip |-> FALSE,
     accept_encoding_deflate |-> FALSE, request_length |-> 0]

\* Mutant: req_ keeps what the last request left in it.
ResetNothing(req) == req

Reset(req) == BlankRequest

\* The actions of request_ and method_; m_any has none.
RequestLine(req, text) ==
    [req EXCEPT !.method = IF text.method = "any" THEN @ ELSE text.method,
                !.uri = text.uri, !.version = text.version]

Has(header, token) == \E i \in DOMAIN header.value : header.value[i] = token

\* The actions of host_hdr_, dnt_value_ and accept_encoding_value_.
HeaderActions(req, header) ==
    CASE header.name = "Host" -> [req EXCEPT !.host = header.host]
      [] header.name = "Dnt:" -> [req EXCEPT !.do_not_track = @ \/ Has(header, "1")]
      [] header.name = "Accept-Encoding:" ->
            [req EXCEPT !.accept_encoding_gzip = @ \/ Has(header, "gzip"),
                        !.accept_encoding_deflate = @ \/ Has(header, "deflate")]
      [] OTHER -> req

\* HttpRequestParser::Parse; req is what is in the parser's req_ before.
Parse(req, text) ==
    LET after[i \in 0 .. Len(text.headers)] ==
            IF i = 0 THEN RequestLine(Reset(req), text)
                     ELSE HeaderActions(after[i - 1], text.headers[i])
    IN  after[Len(text.headers)]
=============================================================================
