------------------------- MODULE HttpSessionProofs -------------------------
(***************************************************************************)
(* Proofs about one HTTP connection: for any requests, packets and size of *)
(* the buffer, the session takes whole requests off its buffer, always has *)
(* room to read, and gives its client what HttpService promises.           *)
(***************************************************************************)
EXTENDS HttpSession, SumTheorems

USE HostsAssumption, ServiceAssumption
-----------------------------------------------------------------------------
(***************************************************************************)
(* Where the requests end in the stream.                                   *)
(***************************************************************************)

\* End is what its recursive definition says.
LEMMA EndFacts ==
    ASSUME stream \in Seq(RequestKinds)
    PROVE  /\ End \in [0 .. Len(stream) -> Nat]
           /\ End[0] = 0
           /\ \A i \in 1 .. Len(stream) : /\ End[i] = End[i - 1] + stream[i].size
                                          /\ stream[i].size \in Nat \ {0}
<1> DEFINE n == Len(stream)
           f == [j \in 0 .. n - 1 |-> stream[j + 1].size]
<1>1. n \in Nat /\ \A i \in 1 .. n : stream[i].size \in Nat \ {0}
  BY DEF Request
<1>2. \A i \in 1 .. n : i - 1 \in 0 .. n - 1 /\ f[i - 1] = stream[i].size
  BY <1>1
<1>3. \A i \in 0 .. n - 1 : f[i] \in Nat
  BY <1>1
<1> HIDE DEF f
<1>4. PICK g \in [0 .. n -> Nat] : IsPartial(g, f, n)
  BY <1>1, <1>3, PartialExists
<1>5. g = [i \in 0 .. n |-> IF i = 0 THEN 0 ELSE g[i - 1] + stream[i].size]
  BY <1>1, <1>2, <1>4 DEF IsPartial
<1>6. End = [i \in 0 .. n |-> IF i = 0 THEN 0 ELSE End[i - 1] + stream[i].size]
  BY <1>5 DEF End
<1>7. \A i \in 0 .. n : End[i] = IF i = 0 THEN 0 ELSE End[i - 1] + stream[i].size
  BY <1>6
<1> DEFINE Good == {i \in 0 .. n : End[i] \in Nat}
<1>8. 0 \in Good /\ \A i \in 1 .. n : i - 1 \in Good => i \in Good
  BY <1>1, <1>7
<1> HIDE DEF Good
<1>9. \A i \in 0 .. n : i \in Good
  BY <1>1, <1>8, UpTo
<1>10. \A i \in 0 .. n : End[i] \in Nat
  BY <1>9 DEF Good
<1>11. End \in [0 .. n -> Nat]
  BY <1>6, <1>10
<1>12. End[0] = 0
  <2>1. 0 \in 0 .. n
    BY <1>1
  <2> QED
    BY <1>7, <2>1
<1>13. ASSUME NEW i \in 1 .. n PROVE End[i] = End[i - 1] + stream[i].size
  <2>1. i \in 0 .. n /\ i # 0
    BY <1>1
  <2> QED
    BY <1>7, <2>1
<1> QED
  BY <1>1, <1>11, <1>12, <1>13

\* No two requests end at the same place.
LEMMA EndGrows ==
    ASSUME stream \in Seq(RequestKinds)
    PROVE  \A i, j \in 0 .. Len(stream) : i < j => End[i] < End[j]
<1> DEFINE n == Len(stream)
           Good == {j \in 0 .. n : \A i \in 0 .. n : i < j => End[i] < End[j]}
<1>1. n \in Nat /\ 0 \in Good
  OBVIOUS
<1>2. ASSUME NEW j \in 1 .. n, j - 1 \in Good PROVE j \in Good
  <2>1. /\ End[j] = End[j - 1] + stream[j].size /\ stream[j].size \in Nat \ {0}
        /\ \A i \in 0 .. n : End[i] \in Nat
    BY EndFacts
  <2>2. End[j - 1] < End[j] /\ j - 1 \in 0 .. n
    BY <1>1, <2>1
  <2>3. \A i \in 0 .. n : i < j => i = j - 1 \/ End[i] < End[j - 1]
    BY <1>1, <1>2
  <2> QED
    BY <1>1, <2>1, <2>2, <2>3
<1> HIDE DEF Good
<1>3. \A j \in 0 .. n : j \in Good
  BY <1>1, <1>2, UpTo
<1> QED
  BY <1>3 DEF Good
-----------------------------------------------------------------------------
(***************************************************************************)
(* What the parser makes of a request.                                     *)
(***************************************************************************)
Version == {"HTTP_1_0", "HTTP_1_1", "none"}

HttpRequest ==
    [method : Method \cup {"UNKNOWN"}, version : Version \cup {"UNKNOWN"},
     uri : Uri \cup {""}, host : Host(STRING) \cup {NoHost},
     do_not_track : BOOLEAN, accept_encoding_gzip : BOOLEAN,
     accept_encoding_deflate : BOOLEAN, request_length : Nat]

\* One of the first i headers of the request has this name and this token.
SaysUpTo(r, i, name, token) ==
    \E j \in 1 .. i : r.headers[j].name = name /\ Has(r.headers[j], token)

\* The host of the last Host header among them.
HostUpTo(r, i, host) ==
    \/ host = NoHost /\ \A j \in 1 .. i : r.headers[j].name # "Host"
    \/ \E j \in 1 .. i : /\ r.headers[j].name = "Host" /\ host = r.headers[j].host
                         /\ \A l \in j + 1 .. i : r.headers[l].name # "Host"

\* req has in it what the first line of r and its first i headers say.
Describes(req, r, i) ==
    /\ req \in HttpRequest
    /\ req.method = MethodOf(r)
    /\ req.version = r.version
    /\ req.uri = r.uri
    /\ req.do_not_track <=> SaysUpTo(r, i, "Dnt:", "1")
    /\ req.accept_encoding_gzip <=> SaysUpTo(r, i, "Accept-Encoding:", "gzip")
    /\ req.accept_encoding_deflate <=> SaysUpTo(r, i, "Accept-Encoding:", "deflate")
    /\ HostUpTo(r, i, req.host)

\* Reset leaves a request.
LEMMA BlankType ==
    BlankRequest \in HttpRequest /\ BlankRequest.method = "UNKNOWN"
  BY DEF BlankRequest, HttpRequest

\* The first line of a request, into a request that was reset.
LEMMA RequestLineDescribes ==
    ASSUME NEW req, NEW r \in RequestKinds
    PROVE  Describes(RequestLine(Reset(req), r), r, 0)
<1> DEFINE new == RequestLine(Reset(req), r)
           method == IF r.method = "any" THEN BlankRequest.method ELSE r.method
<1>1. r.method \in Method \cup {"any"} /\ r.uri \in Uri /\ r.version \in Version
  BY DEF Request, RequestText, Version
<1>2. method = MethodOf(r) /\ method \in Method \cup {"UNKNOWN"}
  BY <1>1, BlankType DEF MethodOf
<1>3. new = [BlankRequest EXCEPT !.method = method, !.uri = r.uri, !.version = r.version]
  BY DEF RequestLine, Reset
<1> HIDE DEF new, method
<1>4. /\ new \in HttpRequest
      /\ new.method = method /\ new.uri = r.uri /\ new.version = r.version
      /\ new.host = BlankRequest.host
      /\ new.do_not_track = BlankRequest.do_not_track
      /\ new.accept_encoding_gzip = BlankRequest.accept_encoding_gzip
      /\ new.accept_encoding_deflate = BlankRequest.accept_encoding_deflate
  BY <1>1, <1>2, <1>3, BlankType DEF HttpRequest
<1>5. /\ BlankRequest.host = NoHost /\ BlankRequest.do_not_track = FALSE
      /\ BlankRequest.accept_encoding_gzip = FALSE /\ BlankRequest.accept_encoding_deflate = FALSE
  BY DEF BlankRequest
<1> QED
  BY <1>2, <1>4, <1>5 DEF Describes, SaysUpTo, HostUpTo, new

\* The actions of one more header.
LEMMA HeaderDescribes ==
    ASSUME NEW r \in RequestKinds, NEW i \in 1 .. Len(r.headers), NEW req,
           Describes(req, r, i - 1)
    PROVE  Describes(HeaderActions(req, r.headers[i]), r, i)
<1> DEFINE h == r.headers[i]
           new == HeaderActions(req, h)
<1>1. h.name \in HeaderName /\ h.host \in Host(STRING) /\ Len(r.headers) \in Nat
  <2> DEFINE Text == [name : HeaderName, value : Seq(STRING), host : Host(STRING)]
  <2>1. r.headers \in Seq(Text)
    BY DEF Request, RequestText
  <2>2. Len(r.headers) \in Nat /\ h \in Text
    <3> HIDE DEF Text
    <3> QED
      BY <2>1
  <2> QED
    BY <2>2
<1>2. ASSUME NEW name, NEW token
      PROVE  SaysUpTo(r, i, name, token) <=>
                SaysUpTo(r, i - 1, name, token) \/ (h.name = name /\ Has(h, token))
  BY <1>1 DEF SaysUpTo
<1>3. req \in HttpRequest
  BY DEF Describes
<1>4. Has(h, "1") \in BOOLEAN /\ Has(h, "gzip") \in BOOLEAN /\ Has(h, "deflate") \in BOOLEAN
  BY DEF Has
<1>5. CASE h.name = "Host"
  <2>1. new = [req EXCEPT !.host = h.host]
    BY <1>5 DEF HeaderActions
  <2> HIDE DEF new
  <2>2. /\ new \in HttpRequest /\ new.host = h.host
        /\ new.method = req.method /\ new.version = req.version /\ new.uri = req.uri
        /\ new.do_not_track = req.do_not_track
        /\ new.accept_encoding_gzip = req.accept_encoding_gzip
        /\ new.accept_encoding_deflate = req.accept_encoding_deflate
    BY <1>1, <1>3, <2>1 DEF HttpRequest
  <2>3. HostUpTo(r, i, new.host)
    BY <1>1, <1>5, <2>2 DEF HostUpTo
  <2> QED
    BY <1>2, <1>5, <2>2, <2>3 DEF Describes, new
<1>6. ASSUME h.name # "Host", NEW host, HostUpTo(r, i - 1, host) PROVE HostUpTo(r, i, host)
  BY <1>1, <1>6 DEF HostUpTo
<1>7. CASE h.name = "Dnt:"
  <2>1. new = [req EXCEPT !.do_not_track = req.do_not_track \/ Has(h, "1")]
    BY <1>3, <1>7 DEF HeaderActions
  <2> HIDE DEF new
  <2>2. /\ new \in HttpRequest /\ new.host = req.host
        /\ new.method = req.method /\ new.version = req.version /\ new.uri = req.uri
        /\ new.do_not_track <=> req.do_not_track \/ Has(h, "1")
        /\ new.accept_encoding_gzip = req.accept_encoding_gzip
        /\ new.accept_encoding_deflate = req.accept_encoding_deflate
    BY <1>3, <1>4, <2>1 DEF HttpRequest
  <2>3. HostUpTo(r, i, new.host)
    BY <1>6, <1>7, <2>2 DEF Describes
  <2> QED
    BY <1>2, <1>7, <2>2, <2>3 DEF Describes, new
<1>8. CASE h.name = "Accept-Encoding:"
  <2>1. new = [req EXCEPT !.accept_encoding_gzip = req.accept_encoding_gzip \/ Has(h, "gzip"),
                          !.accept_encoding_deflate =
                               req.accept_encoding_deflate \/ Has(h, "deflate")]
    BY <1>3, <1>8 DEF HeaderActions
  <2> HIDE DEF new
  <2>2. /\ new \in HttpRequest /\ new.host = req.host
        /\ new.method = req.method /\ new.version = req.version /\ new.uri = req.uri
        /\ new.do_not_track = req.do_not_track
        /\ new.accept_encoding_gzip <=> req.accept_encoding_gzip \/ Has(h, "gzip")
        /\ new.accept_encoding_deflate <=> req.accept_encoding_deflate \/ Has(h, "deflate")
    BY <1>3, <1>4, <2>1 DEF HttpRequest
  <2>3. HostUpTo(r, i, new.host)
    BY <1>6, <1>8, <2>2 DEF Describes
  <2> QED
    BY <1>2, <1>8, <2>2, <2>3 DEF Describes, new
<1>9. CASE h.name = "any"
  <2>1. new = req
    BY <1>9 DEF HeaderActions
  <2>2. HostUpTo(r, i, req.host)
    BY <1>6, <1>9 DEF Describes
  <2> QED
    BY <1>2, <1>9, <2>1, <2>2 DEF Describes
<1> QED
  BY <1>1, <1>5, <1>7, <1>8, <1>9 DEF HeaderName

\* The function that Parse is defined by.
IsAfter(g, req, r, n) ==
    g = [i \in 0 .. n |-> IF i = 0 THEN RequestLine(Reset(req), r)
                                  ELSE HeaderActions(g[i - 1], r.headers[i])]

\* There is such a function.
LEMMA AfterExists ==
    ASSUME NEW req, NEW r, NEW n \in Nat
    PROVE  \E g : IsAfter(g, req, r, n)
<1> DEFINE Good == {m \in 0 .. n : \E g : IsAfter(g, req, r, m)}
<1>1. 0 \in Good
  <2> DEFINE g == [i \in 0 .. 0 |-> RequestLine(Reset(req), r)]
  <2>1. IsAfter(g, req, r, 0)
    BY DEF IsAfter
  <2> HIDE DEF g
  <2> QED
    BY <2>1
<1>2. ASSUME NEW m \in 1 .. n, m - 1 \in Good PROVE m \in Good
  <2>1. PICK g : IsAfter(g, req, r, m - 1)
    BY <1>2
  <2> DEFINE h == [i \in 0 .. m |->
                      IF i = m THEN HeaderActions(g[m - 1], r.headers[m]) ELSE g[i]]
  <2>2. \A i \in 0 .. m - 1 : g[i] = IF i = 0 THEN RequestLine(Reset(req), r)
                                         ELSE HeaderActions(g[i - 1], r.headers[i])
    BY <2>1 DEF IsAfter
  <2>3. \A i \in 0 .. m : h[i] = IF i = 0 THEN RequestLine(Reset(req), r)
                                     ELSE HeaderActions(h[i - 1], r.headers[i])
    <3> TAKE i \in 0 .. m
    <3>1. CASE i = m
      BY <3>1
    <3>2. CASE i # m /\ i = 0
      BY <2>2, <3>2
    <3>3. CASE i # m /\ i # 0
      <4>1. i \in 0 .. m - 1 /\ i - 1 \in 0 .. m - 1 /\ i - 1 # m
        BY <3>3
      <4> QED
        BY <2>2, <3>3, <4>1
    <3> QED
      BY <3>1, <3>2, <3>3
  <2>4. IsAfter(h, req, r, m)
    BY <2>3 DEF IsAfter
  <2> HIDE DEF h
  <2> QED
    BY <2>4
<1> HIDE DEF Good
<1>3. n \in Good
  BY <1>1, <1>2, UpTo
<1> QED
  BY <1>3 DEF Good

\* What Parse makes of a request depends on this request only, and all of its
\* headers are in it.
LEMMA ParseDescribes ==
    ASSUME NEW req, NEW r \in RequestKinds
    PROVE  Describes(Parse(req, r), r, Len(r.headers))
<1> DEFINE n == Len(r.headers)
           g == CHOOSE g : g = [i \in 0 .. n |-> IF i = 0 THEN RequestLine(Reset(req), r)
                                  ELSE HeaderActions(g[i - 1], r.headers[i])]
<1>1. n \in Nat
  BY DEF Request, RequestText
<1>2. IsAfter(g, req, r, n)
  <2>1. PICK f : IsAfter(f, req, r, n)
    BY <1>1, AfterExists
  <2> QED
    BY <2>1 DEF IsAfter
<1>3. Parse(req, r) = g[n]
  BY DEF Parse
<1> HIDE DEF g
<1>4. \A i \in 0 .. n : g[i] = IF i = 0 THEN RequestLine(Reset(req), r)
                                   ELSE HeaderActions(g[i - 1], r.headers[i])
  BY <1>2 DEF IsAfter
<1> DEFINE Good == {i \in 0 .. n : Describes(g[i], r, i)}
<1>5. 0 \in Good
  BY <1>1, <1>4, RequestLineDescribes
<1>6. ASSUME NEW i \in 1 .. n, i - 1 \in Good PROVE i \in Good
  <2>1. Describes(g[i - 1], r, i - 1) /\ i \in 0 .. n /\ i # 0
    BY <1>1, <1>6
  <2>2. g[i] = HeaderActions(g[i - 1], r.headers[i])
    BY <1>4, <2>1
  <2> QED
    BY <2>1, <2>2, HeaderDescribes
<1> HIDE DEF Good
<1>7. \A i \in 0 .. n : i \in Good
  <2> HIDE DEF n
  <2> QED
    BY <1>1, <1>5, <1>6, UpTo
<1> QED
  BY <1>1, <1>3, <1>7 DEF Good

\* What a request asks for is what Parse finds in it.
LEMMA ParseIsRequest ==
    ASSUME NEW req, NEW r \in RequestKinds, Describes(req, r, Len(r.headers))
    PROVE  /\ req.host = HostOf(r)
           /\ req.do_not_track <=> Says(r, "Dnt:", "1")
           /\ req.accept_encoding_gzip <=> Says(r, "Accept-Encoding:", "gzip")
           /\ req.accept_encoding_deflate <=> Says(r, "Accept-Encoding:", "deflate")
<1> DEFINE n == Len(r.headers)
           at == {i \in DOMAIN r.headers : r.headers[i].name = "Host"}
<1>1. n \in Nat /\ DOMAIN r.headers = 1 .. n
  <2> DEFINE Text == [name : HeaderName, value : Seq(STRING), host : Host(STRING)]
  <2>1. r.headers \in Seq(Text)
    BY DEF Request, RequestText
  <2> HIDE DEF Text
  <2> QED
    BY <2>1
<1>2. HostUpTo(r, n, req.host)
  BY DEF Describes
<1>3. CASE req.host = NoHost /\ \A j \in 1 .. n : r.headers[j].name # "Host"
  <2>1. at = {}
    BY <1>1, <1>3
  <2> QED
    BY <1>1, <1>3, <2>1 DEF Describes, SaysUpTo, Says, HostOf
<1>4. CASE \E j \in 1 .. n : /\ r.headers[j].name = "Host" /\ req.host = r.headers[j].host
                             /\ \A l \in j + 1 .. n : r.headers[l].name # "Host"
  <2>1. PICK j \in 1 .. n : /\ r.headers[j].name = "Host" /\ req.host = r.headers[j].host
                            /\ \A l \in j + 1 .. n : r.headers[l].name # "Host"
    BY <1>4
  <2>2. j \in at /\ \A l \in at : j >= l
    BY <1>1, <2>1
  <2>3. at \in SUBSET Int
    BY <1>1
  <2>4. Max(at) = j /\ at # {}
    <3> HIDE DEF at
    <3>1. Max(at) \in at /\ \A l \in at : Max(at) >= l
      BY <2>2 DEF Max
    <3>2. Max(at) \in Int /\ j \in Int /\ Max(at) >= j /\ j >= Max(at)
      BY <2>2, <2>3, <3>1
    <3> QED
      BY <2>2, <3>2
  <2> QED
    BY <1>1, <2>1, <2>4 DEF Describes, SaysUpTo, Says, HostOf
<1> QED
  BY <1>2, <1>3, <1>4 DEF HostUpTo
-----------------------------------------------------------------------------
(***************************************************************************)
(* What the reply object is filled with.                                   *)
(***************************************************************************)
ReplyOf(version, code, encoding, body, sent, close) ==
    [version |-> version, code |-> code, encoding |-> encoding, body |-> body,
     sent |-> sent, close |-> close]

IsReply(rep) ==
    \E version, code, encoding, body, sent, close :
        close \in BOOLEAN /\ rep = ReplyOf(version, code, encoding, body, sent, close)

\* The part of it that is sent.
View(rep) == [version |-> rep.version, code |-> rep.code, encoding |-> rep.encoding,
              body |-> rep.sent, close |-> rep.close]

\* The functions of CurrentReply, one by one.
LEMMA ReplySteps ==
    ASSUME NEW v, NEW c, NEW e, NEW b, NEW s, NEW x, NEW req
    PROVE  /\ \A allow : Prepare(ReplyOf(v, c, e, b, s, x), req, allow) =
                ReplyOf(v, c, IF req.accept_encoding_gzip /\ "gzip" \in allow THEN "gzip"
                              ELSE IF req.accept_encoding_deflate /\ "deflate" \in allow
                              THEN "deflate" ELSE "none", <<>>, s, x)
           /\ \A text : Write(ReplyOf(v, c, e, <<>>, s, x), text) =
                ReplyOf(v, c, e, <<text>>, s, x)
           /\ \A code : DoReply(ReplyOf(v, c, e, b, s, x), code, req) =
                ReplyOf(req.version, code, e, b, IF req.method = "HEAD" THEN <<>> ELSE b, x)
<1> DEFINE rep == ReplyOf(v, c, e, b, s, x)
<1>1. ASSUME NEW allow
      PROVE  Prepare(rep, req, allow) =
                ReplyOf(v, c, IF req.accept_encoding_gzip /\ "gzip" \in allow THEN "gzip"
                              ELSE IF req.accept_encoding_deflate /\ "deflate" \in allow
                              THEN "deflate" ELSE "none", <<>>, s, x)
  <2> DEFINE enc == IF req.accept_encoding_gzip /\ "gzip" \in allow THEN "gzip"
                    ELSE IF req.accept_encoding_deflate /\ "deflate" \in allow
                    THEN "deflate" ELSE "none"
  <2>1. Prepare(rep, req, allow) = [rep EXCEPT !.body = <<>>, !.encoding = enc]
    BY Zenon DEF Prepare
  <2> HIDE DEF enc
  <2>2. [rep EXCEPT !.body = <<>>, !.encoding = enc] =
            [[rep EXCEPT !.body = <<>>] EXCEPT !.encoding = enc]
    OBVIOUS
  <2>3. [rep EXCEPT !.body = <<>>] = ReplyOf(v, c, e, <<>>, s, x)
    BY DEF ReplyOf
  <2>4. [ReplyOf(v, c, e, <<>>, s, x) EXCEPT !.encoding = enc] = ReplyOf(v, c, enc, <<>>, s, x)
    BY DEF ReplyOf
  <2> QED
    BY <2>1, <2>2, <2>3, <2>4, Zenon DEF enc
<1>2. ASSUME NEW text
      PROVE  Write(ReplyOf(v, c, e, <<>>, s, x), text) = ReplyOf(v, c, e, <<text>>, s, x)
  <2> DEFINE r == ReplyOf(v, c, e, <<>>, s, x)
  <2>1. Append(<<>>, text) = <<text>>
    OBVIOUS
  <2>2. r.body = <<>>
    BY DEF ReplyOf
  <2>3. Write(r, text) = [r EXCEPT !.body = <<text>>]
    BY <2>1, <2>2 DEF Write
  <2>4. [r EXCEPT !.body = <<text>>] = ReplyOf(v, c, e, <<text>>, s, x)
    BY DEF ReplyOf
  <2> QED
    BY <2>3, <2>4, Zenon
<1>3. ASSUME NEW code
      PROVE  DoReply(rep, code, req) =
                ReplyOf(req.version, code, e, b, IF req.method = "HEAD" THEN <<>> ELSE b, x)
  <2> DEFINE sent == IF req.method = "HEAD" THEN <<>> ELSE b
  <2>1. rep.body = b
    BY DEF ReplyOf
  <2>2. DoReply(rep, code, req) = [rep EXCEPT !.code = code, !.version = req.version, !.sent = sent]
    BY <2>1, Zenon DEF DoReply
  <2> HIDE DEF sent
  <2>3. [rep EXCEPT !.code = code, !.version = req.version, !.sent = sent] =
        [[[rep EXCEPT !.code = code] EXCEPT !.version = req.version] EXCEPT !.sent = sent]
    OBVIOUS
  <2>4. [rep EXCEPT !.code = code] = ReplyOf(v, code, e, b, s, x)
    BY DEF ReplyOf
  <2>5. [ReplyOf(v, code, e, b, s, x) EXCEPT !.version = req.version] =
            ReplyOf(req.version, code, e, b, s, x)
    BY DEF ReplyOf
  <2>6. [ReplyOf(req.version, code, e, b, s, x) EXCEPT !.sent = sent] =
            ReplyOf(req.version, code, e, b, sent, x)
    BY DEF ReplyOf
  <2> QED
    BY <2>2, <2>3, <2>4, <2>5, <2>6, Zenon DEF sent
<1> QED
  BY <1>1, <1>2, <1>3

\* An error is written to an empty body, for whatever request.
ErrorOf(code, req) ==
    ReplyOf(req.version, code, "none", <<ErrorText(code)>>,
            IF req.method = "HEAD" THEN <<>> ELSE <<ErrorText(code)>>, TRUE)

\* So ReplyWithError does, whatever the reply object held before.
LEMMA ErrorReply ==
    ASSUME NEW rep, IsReply(rep), NEW code, NEW req
    PROVE  ReplyWithError(rep, code, req) = ErrorOf(code, req)
<1> DEFINE text == ErrorText(code)
<1>1. PICK v, c, e, b, s, x : rep = ReplyOf(v, c, e, b, s, x)
  BY Zenon DEF IsReply
<1> HIDE DEF text
<1>2. [rep EXCEPT !.close = TRUE] = ReplyOf(v, c, e, b, s, TRUE)
  <2>1. ASSUME NEW y PROVE [rep EXCEPT !.close = y] = ReplyOf(v, c, e, b, s, y)
    BY <1>1 DEF ReplyOf
  <2> QED
    BY <2>1, Zenon
<1>3. ASSUME NEW y PROVE Prepare(ReplyOf(v, c, e, b, s, y), req, {}) = ReplyOf(v, c, "none", <<>>, s, y)
  BY ReplySteps
<1>4. ASSUME NEW y
      PROVE  Write(ReplyOf(v, c, "none", <<>>, s, y), text) = ReplyOf(v, c, "none", <<text>>, s, y)
  BY ReplySteps
<1>5. ASSUME NEW y
      PROVE  DoReply(ReplyOf(v, c, "none", <<text>>, s, y), code, req) =
                ReplyOf(req.version, code, "none", <<text>>,
                        IF req.method = "HEAD" THEN <<>> ELSE <<text>>, y)
  BY ReplySteps
<1> QED
  BY <1>2, <1>3, <1>4, <1>5, Zenon DEF ReplyWithError, ErrorOf, text

\* The reply to a request that has a site is the answer it deserves: nothing of
\* the reply before it is left.
LEMMA ReplyIsAnswer ==
    ASSUME NEW rep, IsReply(rep), NEW i, NEW req, NEW r \in RequestKinds,
           Describes(req, r, Len(r.headers))
    PROVE  LET new == ProcessRequest(Prepare(rep, req, Allowed), i, req)
           IN  IsReply(new) /\ View(new) = Answer(i, r)
<1> DEFINE encoding == IF req.accept_encoding_gzip /\ "gzip" \in Allowed THEN "gzip"
                       ELSE IF req.accept_encoding_deflate /\ "deflate" \in Allowed
                       THEN "deflate" ELSE "none"
           code == Code(Target(r).ix, r)
           page == Page(Target(r).ix, i, Says(r, "Dnt:", "1"))
           new == ProcessRequest(Prepare(rep, req, Allowed), i, req)
<1>1. PICK v, c, e, b, s, x : x \in BOOLEAN /\ rep = ReplyOf(v, c, e, b, s, x)
  BY DEF IsReply
<1>2. Prepare(rep, req, Allowed) = ReplyOf(v, c, encoding, <<>>, s, x)
  BY <1>1, ReplySteps
<1>3. /\ req.version = r.version /\ req.uri = r.uri /\ req.method = MethodOf(r)
      /\ req.host = HostOf(r)
      /\ req.do_not_track = Says(r, "Dnt:", "1")
  BY ParseIsRequest DEF Describes, HttpRequest, Says
<1>4. /\ GetHost(req.host, NumSites).ix = Target(r).ix
      /\ HostCode(HostTemplates[Target(r).ix], req.method, req.uri) = code
      /\ Page(GetHost(req.host, NumSites).ix, i, req.do_not_track) = page
  BY <1>3 DEF Target, Code, code
<1>5. encoding = IF AllowGzip /\ Says(r, "Accept-Encoding:", "gzip") THEN "gzip"
                 ELSE IF AllowDeflate /\ Says(r, "Accept-Encoding:", "deflate")
                 THEN "deflate" ELSE "none"
  BY ParseIsRequest DEF Allowed
<1>6. CASE code = 200
  <2> HIDE DEF page, encoding
  <2> DEFINE base == ReplyOf(v, c, encoding, <<>>, s, x)
  <2>2. Write(base, page) = ReplyOf(v, c, encoding, <<page>>, s, x)
    BY ReplySteps
  <2>3. Reply(ReplyOf(v, c, encoding, <<page>>, s, x), 200, req) =
            ReplyOf(req.version, 200, encoding, <<page>>,
                    IF req.method = "HEAD" THEN <<>> ELSE <<page>>, req.version = "HTTP_1_0")
    <3> DEFINE full == ReplyOf(v, c, encoding, <<page>>, s, x)
    <3>1. ASSUME NEW y PROVE [full EXCEPT !.close = y] = ReplyOf(v, c, encoding, <<page>>, s, y)
      BY DEF ReplyOf
    <3>2. ASSUME NEW y PROVE DoReply(ReplyOf(v, c, encoding, <<page>>, s, y), 200, req) =
            ReplyOf(req.version, 200, encoding, <<page>>,
                    IF req.method = "HEAD" THEN <<>> ELSE <<page>>, y)
      BY ReplySteps
    <3> DEFINE closes == req.version = "HTTP_1_0"
    <3>3. Reply(full, 200, req) = DoReply([full EXCEPT !.close = closes], 200, req)
      BY Zenon DEF Reply
    <3> HIDE DEF closes, full
    <3>4. [full EXCEPT !.close = closes] = ReplyOf(v, c, encoding, <<page>>, s, closes)
      BY <3>1
    <3>5. DoReply(ReplyOf(v, c, encoding, <<page>>, s, closes), 200, req) =
            ReplyOf(req.version, 200, encoding, <<page>>,
                    IF req.method = "HEAD" THEN <<>> ELSE <<page>>, closes)
      BY <3>2
    <3>6. Reply(full, 200, req) =
            ReplyOf(req.version, 200, encoding, <<page>>,
                    IF req.method = "HEAD" THEN <<>> ELSE <<page>>, closes)
      BY <3>3, <3>4, <3>5, Zenon
    <3> QED
      BY <3>6 DEF closes, full
  <2>4. new = Reply(Write(base, page), 200, req)
    BY <1>2, <1>4, <1>6 DEF ProcessRequest
  <2>5. new = ReplyOf(r.version, 200, encoding, <<page>>,
                      IF MethodOf(r) = "HEAD" THEN <<>> ELSE <<page>>, r.version = "HTTP_1_0")
    BY <1>3, <2>2, <2>3, <2>4
  <2> HIDE DEF new
  <2>6. IsReply(new)
    <3> DEFINE closes == r.version = "HTTP_1_0"
               sent == IF MethodOf(r) = "HEAD" THEN <<>> ELSE <<page>>
    <3>1. closes \in BOOLEAN /\ new = ReplyOf(r.version, 200, encoding, <<page>>, sent, closes)
      BY <2>5
    <3> HIDE DEF closes, sent
    <3> QED
      BY <3>1, ZenonT(30) DEF IsReply
  <2>7. View(new) = [version |-> r.version, code |-> 200, encoding |-> encoding,
                     body |-> IF MethodOf(r) = "HEAD" THEN <<>> ELSE <<page>>,
                     close |-> r.version = "HTTP_1_0"]
    BY <2>5 DEF View, ReplyOf
  <2>8. Answer(i, r) = [version |-> r.version, code |-> 200, encoding |-> encoding,
                     body |-> IF MethodOf(r) = "HEAD" THEN <<>> ELSE <<page>>,
                     close |-> r.version = "HTTP_1_0"]
    BY <1>5, <1>6 DEF Answer, AnswerOf, page, code
  <2> QED
    BY <2>6, <2>7, <2>8 DEF new
<1>7. CASE code # 200
  <2> DEFINE text == ErrorText(code)
             base == Prepare(rep, req, Allowed)
  <2>1. IsReply(base)
    BY <1>1, <1>2 DEF IsReply
  <2>2. new = ReplyWithError(base, code, req)
    BY <1>4, <1>7 DEF ProcessRequest
  <2> HIDE DEF base
  <2>3. new = ReplyOf(r.version, code, "none", <<text>>,
                      IF MethodOf(r) = "HEAD" THEN <<>> ELSE <<text>>, TRUE)
    BY <1>3, <2>1, <2>2, ErrorReply DEF ErrorOf
  <2> HIDE DEF new
  <2>4. IsReply(new)
    BY <2>3 DEF IsReply
  <2>5. View(new) = [version |-> r.version, code |-> code, encoding |-> "none",
                     body |-> IF MethodOf(r) = "HEAD" THEN <<>> ELSE <<text>>, close |-> TRUE]
    BY <2>3 DEF View, ReplyOf
  <2>6. Answer(i, r) = [version |-> r.version, code |-> code, encoding |-> "none",
                     body |-> IF MethodOf(r) = "HEAD" THEN <<>> ELSE <<text>>, close |-> TRUE]
    BY <1>7 DEF Answer, AnswerOf, code
  <2> QED
    BY <2>4, <2>5, <2>6 DEF new
<1> QED
  BY <1>6, <1>7
-----------------------------------------------------------------------------
(***************************************************************************)
(* The invariant.  It counts by the replies the client has: while the      *)
(* session reads, its buffer begins where the last answered request ends;  *)
(* the request that is being answered is taken off it only after the reply *)
(* was sent.                                                               *)
(***************************************************************************)
\* The request that is answered next, and the one that was answered last.
Now == stream[Len(replies) + 1]
Before == stream[Len(replies)]

\* req is what the parser makes of r.
Means(req, r) == Describes(req, r, Len(r.headers))

Types ==
    /\ stream \in Seq(RequestKinds)
    /\ first \in Nat
    /\ request_bytes \in 0 .. BufSize
    /\ first + request_bytes <= End[Len(stream)]
    /\ current_req.request_length \in Nat
    /\ IsReply(reply)
    /\ is_open \in BOOLEAN
    /\ pc \in Pending \cup Ready \cup {"done"}
    /\ Len(replies) \in 0 .. Len(stream)

\* current_req_ is the request that was answered last, if there is one.
Remembers == IF Len(replies) = 0 THEN current_req = NoRequest ELSE Means(current_req, Before) /\ Accepted(Before)

Reading == pc \in {"reading", "read", "rejecting"} =>
    first = End[Len(replies)] /\ Remembers

Replying == pc = "replying" =>
    /\ Len(replies) < Len(stream)
    /\ first = End[Len(replies)]
    /\ current_req.request_length = Now.size
    /\ Now.size <= request_bytes
    /\ Means(current_req, Now)
    /\ Accepted(Now) /\ HasSite(Now)
    /\ View(reply) = Answer(Len(replies) + 1, Now)

Replied == pc = "replied" =>
    /\ Len(replies) > 0
    /\ first = End[Len(replies) - 1]
    /\ current_req.request_length = Before.size
    /\ Before.size <= request_bytes
    /\ Means(current_req, Before)
    /\ Accepted(Before)

\* The reply to a request that is not taken.
BadRequest ==
    [version |-> IF Len(replies) = 0 THEN "UNKNOWN" ELSE Before.version,
     code |-> 400, encoding |-> "none",
     body |-> IF Len(replies) > 0 /\ MethodOf(Before) = "HEAD" THEN <<>> ELSE <<ErrorText(400)>>,
     close |-> TRUE]

Rejecting == pc = "rejecting" =>
    /\ Len(replies) < Len(stream)
    /\ ~Accepted(Now) \/ Now.size >= BufSize
    /\ View(reply) = BadRequest

\* A socket operation is under way only on an open socket.
Live == pc \in Pending => is_open

Inv == Types /\ Reading /\ Replying /\ Replied /\ Rejecting /\ RoomToRead /\ Live
-----------------------------------------------------------------------------
(***************************************************************************)
(* The loop.                                                               *)
(***************************************************************************)

\* The size of the request is noted in it.
LEMMA WithLength ==
    ASSUME NEW req, NEW r, NEW i, Describes(req, r, i), NEW len \in Nat
    PROVE  LET new == [req EXCEPT !.request_length = len]
           IN  Describes(new, r, i) /\ new.request_length = len
<1> DEFINE new == [req EXCEPT !.request_length = len]
<1>1. req \in HttpRequest
  BY DEF Describes
<1>2. /\ new \in HttpRequest /\ new.request_length = len
      /\ new.method = req.method /\ new.version = req.version /\ new.uri = req.uri
      /\ new.host = req.host /\ new.do_not_track = req.do_not_track
      /\ new.accept_encoding_gzip = req.accept_encoding_gzip
      /\ new.accept_encoding_deflate = req.accept_encoding_deflate
  BY <1>1 DEF HttpRequest
<1> HIDE DEF new
<1> QED
  BY <1>2 DEF Describes, new

\* ParseRequest for a buffer that begins after the k-th request: it takes the
\* next request and no other, it refuses nothing that fits, and a buffer that is
\* read on has room.
LEMMA ParseNext ==
    ASSUME stream \in Seq(RequestKinds), NEW k \in 0 .. Len(stream), NEW m \in Nat,
           End[k] + m <= End[Len(stream)]
    PROVE  /\ \A i \in Parsed(End[k], m) :
                /\ i = k + 1 /\ k < Len(stream)
                /\ Accepted(stream[i]) /\ stream[i].size <= m
           /\ ParseRequest(End[k], m) = "OK" <=> Parsed(End[k], m) # {}
           /\ ParseRequest(End[k], m) = "BAD" =>
                /\ k < Len(stream)
                /\ ~Accepted(stream[k + 1]) \/ stream[k + 1].size >= BufSize
           /\ ParseRequest(End[k], m) = "INCOMPLETE" => m < BufSize
<1> DEFINE n == Len(stream)
<1>1. n \in Nat /\ BufSize \in Nat \ {0, 1}
  BY DEF ServiceAssumption
<1>2. /\ \A i \in 0 .. n : End[i] \in Nat
      /\ \A i \in 1 .. n : End[i] = End[i - 1] + stream[i].size /\ stream[i].size \in Nat \ {0}
  BY EndFacts
<1>3. \A i, j \in 0 .. n : i < j => End[i] < End[j]
  BY EndGrows
<1>4. ASSUME NEW i \in Parsed(End[k], m)
      PROVE  i = k + 1 /\ k < n /\ Accepted(stream[i]) /\ stream[i].size <= m
  <2>1. i \in 1 .. n /\ Accepted(stream[i]) /\ End[i - 1] = End[k] /\ End[i] <= End[k] + m
    BY DEF Parsed
  <2>2. i - 1 \in 0 .. n /\ ~(i - 1 < k) /\ ~(k < i - 1)
    BY <1>1, <1>2, <1>3, <2>1
  <2>3. i = k + 1 /\ k < n
    BY <1>1, <2>1, <2>2
  <2> QED
    BY <1>2, <2>1, <2>3
<1>5. ParseRequest(End[k], m) = "OK" <=> Parsed(End[k], m) # {}
  BY DEF ParseRequest
<1>6. ASSUME ParseRequest(End[k], m) = "BAD"
      PROVE  k < n /\ (~Accepted(stream[k + 1]) \/ stream[k + 1].size >= BufSize)
  <2>1. Parsed(End[k], m) = {} /\ (m >= BufSize - 1 \/ HasEohMarker(End[k], m))
    BY <1>6 DEF ParseRequest
  <2>2. k < n
    <3>1. SUFFICES ASSUME k = n PROVE FALSE
      BY <1>1
    <3>2. m = 0
      BY <1>2, <3>1
    <3>3. PICK i \in 1 .. n : End[k] < End[i] /\ End[i] <= End[k] + m
      BY <1>1, <2>1, <3>2 DEF HasEohMarker
    <3> QED
      BY <1>2, <3>2, <3>3
  <2>3. k + 1 \in 1 .. n /\ (k + 1) - 1 = k
    BY <1>1, <2>2
  <2>4. SUFFICES ASSUME Accepted(stream[k + 1]) PROVE stream[k + 1].size >= BufSize
    BY <2>2
  <2>5. ~(End[k + 1] <= End[k] + m)
    BY <2>1, <2>3, <2>4 DEF Parsed
  <2>6. ~HasEohMarker(End[k], m)
    <3>1. SUFFICES ASSUME NEW i \in 1 .. n, End[k] < End[i], End[i] <= End[k] + m PROVE FALSE
      BY DEF HasEohMarker
    <3>2. i \in 0 .. n /\ k + 1 \in 0 .. n
      BY <1>1, <2>3
    <3>3. i > k
      BY <1>1, <1>2, <1>3, <3>1, <3>2
    <3>4. i = k + 1 \/ End[k + 1] < End[i]
      BY <1>1, <1>3, <3>2, <3>3
    <3> QED
      BY <1>2, <2>5, <3>1, <3>2, <3>4
  <2>7. End[k + 1] = End[k] + stream[k + 1].size /\ stream[k + 1].size \in Nat /\ End[k] \in Nat
    BY <1>2, <2>3
  <2> QED
    BY <1>1, <2>1, <2>5, <2>6, <2>7
<1>7. ParseRequest(End[k], m) = "INCOMPLETE" => m < BufSize
  BY <1>1 DEF ParseRequest
<1> QED
  BY <1>4, <1>5, <1>6, <1>7

\* Where the requests end does not change while the client's stream does not.
LEMMA SameEnd == ASSUME stream' = stream PROVE End' = End
  BY DEF End

\* The reply to a bad request, from what is remembered of the request before.
LEMMA RejectIsBadRequest ==
    ASSUME Types, Remembers
    PROVE  LET new == ReplyWithError(reply, 400, current_req)
           IN  IsReply(new) /\ View(new) = BadRequest
<1> DEFINE new == ReplyWithError(reply, 400, current_req)
           text == ErrorText(400)
           sent == IF current_req.method = "HEAD" THEN <<>> ELSE <<text>>
<1>1. new = ReplyOf(current_req.version, 400, "none", <<text>>, sent, TRUE)
  <2>1. IsReply(reply)
    BY DEF Types
  <2>2. new = ErrorOf(400, current_req)
    BY <2>1, ErrorReply
  <2> QED
    BY <2>2 DEF ErrorOf
<1> HIDE DEF new, sent
<1>2. IsReply(new)
  BY <1>1, ZenonT(30) DEF IsReply
<1>3. View(new) = [version |-> current_req.version, code |-> 400, encoding |-> "none",
                   body |-> sent, close |-> TRUE]
  BY <1>1 DEF View, ReplyOf
<1>4. /\ current_req.version = IF Len(replies) = 0 THEN "UNKNOWN" ELSE Before.version
      /\ sent = IF Len(replies) > 0 /\ MethodOf(Before) = "HEAD" THEN <<>> ELSE <<text>>
  <2>1. CASE Len(replies) = 0
    <3>1. current_req.version = "UNKNOWN" /\ current_req.method = "UNKNOWN"
      <4>1. current_req = BlankRequest
        BY <2>1 DEF Remembers, NoRequest
      <4>2. BlankRequest.version = "UNKNOWN" /\ BlankRequest.method = "UNKNOWN"
        BY DEF BlankRequest
      <4> QED
        BY <4>1, <4>2
    <3> QED
      BY <2>1, <3>1 DEF sent
  <2>2. CASE Len(replies) # 0
    <3>1. current_req.version = Before.version /\ current_req.method = MethodOf(Before)
      BY <2>2 DEF Remembers, Means, Describes
    <3>2. Len(replies) > 0
      BY <2>2 DEF Types
    <3> QED
      BY <2>2, <3>1, <3>2 DEF sent
  <2> QED
    BY <2>1, <2>2
<1> QED
  BY <1>2, <1>3, <1>4 DEF BadRequest, new

\* How a turn of the loop ends: in an operation on the open socket, in one that
\* fails because the socket is closed, or, if it is, or if the request is for no
\* site, with the session.
NoSite == Len(replies) < Len(stream) /\ Accepted(Now) /\ ~HasSite(Now)

Outcome ==
    \/ pc' \in {"reading", "replying", "rejecting"} /\ is_open /\ is_open'
    \/ pc' = "failed" /\ ~is_open /\ ~is_open'
    \/ pc' = "done" /\ (~is_open \/ NoSite)

\* One turn of the loop with a buffer that begins after the answered requests.
LEMMA Turn ==
    ASSUME Types, Remembers, NEW m \in 0 .. BufSize,
           End[Len(replies)] + m <= End[Len(stream)],
           HandleBuffer(End[Len(replies)], m)
    PROVE  /\ Inv'
           /\ UNCHANGED <<stream, replies>>
           /\ Outcome
<1> DEFINE k == Len(replies)
           n == Len(stream)
           f == End[k]
<1>1. /\ stream \in Seq(RequestKinds) /\ n \in Nat /\ k \in 0 .. n
      /\ f \in Nat /\ m \in Nat
  BY EndFacts DEF Types, ServiceAssumption
<1>2. /\ \A i \in Parsed(f, m) : /\ i = k + 1 /\ k < n
                                 /\ Accepted(stream[i]) /\ stream[i].size <= m
      /\ ParseRequest(f, m) = "BAD" =>
            k < n /\ (~Accepted(stream[k + 1]) \/ stream[k + 1].size >= BufSize)
      /\ ParseRequest(f, m) = "INCOMPLETE" => m < BufSize
  BY <1>1, ParseNext DEF Types
<1>3. ASSUME UNCHANGED <<stream, replies>>, first' = f, request_bytes' = m,
             is_open' \in BOOLEAN, pc' \in Pending \cup Ready \cup {"done"},
             current_req'.request_length \in Nat, IsReply(reply')
      PROVE  Types' /\ End' = End /\ Now' = Now /\ Before' = Before
  BY <1>1, <1>3, SameEnd DEF Types, Now, Before
<1>4. ASSUME ParseRequest(f, m) = "OK", NEW i \in Parsed(f, m), NEW left,
             LET req == [Parse(left, stream[i]) EXCEPT !.request_length = stream[i].size]
             IN  IF GetHost(req.host, NumSites).status = "found"
                 THEN Respond(f, m, i, req) ELSE Abandon(f, m, req)
      PROVE  /\ Inv'
             /\ UNCHANGED <<stream, replies>>
             /\ Outcome
  <2> DEFINE len == stream[i].size
             req == [Parse(left, stream[i]) EXCEPT !.request_length = len]
  <2>1. /\ i = k + 1 /\ k < n /\ Accepted(stream[i]) /\ len <= m
        /\ stream[i] \in RequestKinds /\ stream[i] = Now /\ len \in Nat
    BY <1>1, <1>2, <1>4 DEF Now, Request
  <2>2. Means(req, Now) /\ req.request_length = len
    BY <2>1, ParseDescribes, WithLength DEF Means
  <2>3. req.host = HostOf(Now)
    BY <2>1, <2>2, ParseIsRequest DEF Means
  <2> HIDE DEF req
  <2>4. CASE GetHost(req.host, NumSites).status = "found" /\ Respond(f, m, i, req)
    <3> DEFINE new == ProcessRequest(Prepare(reply, req, Allowed), i, req)
    <3>1. /\ UNCHANGED <<stream, is_open, replies>>
          /\ first' = f /\ request_bytes' = m
          /\ current_req' = req /\ reply' = new
          /\ pc' = IF is_open THEN "replying" ELSE "failed"
          /\ is_open' \in BOOLEAN
      BY <2>4 DEF Respond, Buffer, Suspend, Types
    <3>2. IsReply(new) /\ View(new) = Answer(i, Now)
      BY <2>1, <2>2, ReplyIsAnswer DEF Means, Types
    <3> HIDE DEF new
    <3>3. Types' /\ End' = End /\ Now' = Now /\ is_open' \in BOOLEAN
      BY <1>3, <2>1, <2>2, <3>1, <3>2 DEF Types, Pending, Ready
    <3>4. HasSite(Now)
      BY <2>3, <2>4 DEF HasSite, Target
    <3>5. Replying'
      BY <2>1, <2>2, <3>1, <3>2, <3>3, <3>4 DEF Replying
    <3> QED
      BY <3>1, <3>3, <3>5
      DEF Inv, Reading, Replied, Rejecting, RoomToRead, Live, Outcome, Pending
  <2>5. CASE GetHost(req.host, NumSites).status # "found" /\ Abandon(f, m, req)
    <3>1. /\ UNCHANGED <<stream, replies, reply>>
          /\ first' = f /\ request_bytes' = m
          /\ current_req' = req /\ is_open' = FALSE /\ pc' = "done"
      BY <2>5 DEF Abandon, Buffer
    <3>2. Types'
      BY <1>3, <2>1, <2>2, <3>1 DEF Types, Pending, Ready
    <3> QED
      <4>1. NoSite
        BY <2>1, <2>3, <2>5 DEF NoSite, HasSite, Target
      <4> QED
        BY <3>1, <3>2, <4>1
        DEF Inv, Reading, Replying, Replied, Rejecting, RoomToRead, Live, Outcome, Pending
  <2> QED
    BY <1>4, <2>4, <2>5 DEF req
<1>5. CASE ParseRequest(f, m) = "BAD" /\ RejectRequest(f, m)
  <2>1. /\ UNCHANGED <<stream, current_req, is_open, replies>>
        /\ first' = f /\ request_bytes' = m
        /\ reply' = ReplyWithError(reply, 400, current_req)
        /\ pc' = IF is_open THEN "rejecting" ELSE "failed"
        /\ is_open \in BOOLEAN
    BY <1>5 DEF RejectRequest, Buffer, Suspend, Types
  <2>2. IsReply(reply') /\ View(reply') = BadRequest
    BY <2>1, RejectIsBadRequest
  <2>3. Types' /\ End' = End /\ Now' = Now /\ Before' = Before
    BY <1>3, <2>1, <2>2 DEF Types, Pending, Ready
  <2>4. Remembers' /\ BadRequest' = BadRequest
    BY <2>1, <2>3 DEF Remembers, BadRequest
  <2>5. Rejecting'
    BY <1>2, <1>5, <2>1, <2>2, <2>3, <2>4 DEF Rejecting, Now
  <2> QED
    BY <2>1, <2>3, <2>4, <2>5
    DEF Inv, Reading, Replying, Replied, RoomToRead, Live, Outcome, Pending
<1>6. CASE ParseRequest(f, m) = "INCOMPLETE" /\ ReadMore(f, m)
  <2>1. /\ UNCHANGED <<stream, current_req, reply, is_open, replies>>
        /\ first' = f /\ request_bytes' = m /\ m < BufSize
        /\ pc' = IF is_open THEN "reading" ELSE "done"
        /\ is_open \in BOOLEAN
    BY <1>2, <1>6 DEF ReadMore, Buffer, Types
  <2>2. Types' /\ End' = End /\ Before' = Before
    BY <1>3, <2>1 DEF Types, Pending, Ready
  <2>3. Remembers'
    BY <2>1, <2>2 DEF Remembers
  <2> QED
    BY <2>1, <2>2, <2>3
    DEF Inv, Reading, Replying, Replied, Rejecting, RoomToRead, Live, Outcome, Pending
<1> QED
  BY <1>4, <1>5, <1>6 DEF HandleBuffer

\* A session that has nothing to do but to end keeps the invariant.
LEMMA Leaving ==
    ASSUME Types, UNCHANGED <<stream, first, request_bytes, current_req, reply, replies>>,
           is_open' \in BOOLEAN, pc' \in {"failed", "rejected", "done"}
    PROVE  Inv'
<1>1. Types'
  BY SameEnd DEF Types, Pending, Ready
<1> QED
  BY <1>1 DEF Inv, Reading, Replying, Replied, Rejecting, RoomToRead, Live, Pending

\* The reply was sent and the connection stays: the request is taken off the
\* buffer, and what follows it begins after the requests that are answered.
LEMMA Advance ==
    ASSUME Inv, pc = "replied", NextRequest, is_open
    PROVE  /\ Inv'
           /\ UNCHANGED <<stream, replies>>
           /\ Outcome
<1> DEFINE k == Len(replies)
           len == current_req.request_length
           m == request_bytes - len
<1>1. /\ k > 0 /\ first = End[k - 1] /\ len = Before.size /\ Before.size <= request_bytes
      /\ Means(current_req, Before) /\ Accepted(Before)
  BY DEF Inv, Replied
<1>2. /\ stream \in Seq(RequestKinds) /\ Len(stream) \in Nat /\ k \in 1 .. Len(stream)
      /\ BufSize \in Nat /\ request_bytes \in 0 .. BufSize /\ len \in Nat /\ first \in Nat
      /\ first + request_bytes <= End[Len(stream)] /\ End[Len(stream)] \in Nat
  BY <1>1, EndFacts, SMTT(30) DEF Inv, Types, ServiceAssumption
<1>3. End[k] = first + len
  BY <1>1, <1>2, EndFacts DEF Before
<1>4. m \in 0 .. BufSize /\ End[k] + m <= End[Len(stream)]
  BY <1>1, <1>2, <1>3
<1>5. Remembers
  BY <1>1 DEF Remembers
<1>6. CASE request_bytes = len
  <2>1. /\ UNCHANGED <<stream, current_req, reply, is_open, replies>>
        /\ first' = End[k] /\ request_bytes' = 0 /\ pc' = "reading"
    BY <1>3, <1>6 DEF NextRequest, ReadMore, Buffer
  <2>2. End' = End /\ Before' = Before
    BY <2>1, SameEnd DEF Before
  <2>3. Types'
    BY <1>2, <1>3, <1>4, <2>1, <2>2, SMTT(30) DEF Inv, Types, Pending
  <2>4. Remembers'
    BY <1>5, <2>1, <2>2 DEF Remembers
  <2> QED
    BY <1>2, <2>1, <2>2, <2>3, <2>4
    DEF Inv, Reading, Replying, Replied, Rejecting, RoomToRead, Live, Pending,
        Outcome, ServiceAssumption
<1>7. CASE request_bytes # len
  <2>1. HandleBuffer(End[k], m)
    BY <1>3, <1>7 DEF NextRequest
  <2> HIDE DEF m
  <2> QED
    BY <1>4, <1>5, <2>1, Turn DEF Inv
<1> QED
  BY <1>6, <1>7

\* The invariant holds in every state of every session.
THEOREM Invariance == Spec => []Inv
<1>1. Init => Inv
  <2> SUFFICES ASSUME Init PROVE Inv
    OBVIOUS
  <2>1. PICK n \in 0 .. MaxRequests : stream \in [1 .. n -> RequestKinds]
    BY DEF Init
  <2>2. stream \in Seq(RequestKinds) /\ Len(stream) \in Nat
    BY <2>1 DEF ServiceAssumption
  <2>3. End[0] = 0 /\ End[Len(stream)] \in Nat /\ Len(replies) = 0
    BY <2>2, EndFacts DEF Init
  <2>4. current_req.request_length \in Nat
    BY DEF Init, NoRequest, BlankRequest
  <2>5. IsReply(reply)
    <3>1. reply = ReplyOf("UNKNOWN", 0, "none", <<>>, <<>>, FALSE)
      BY DEF Init, NoReply, ReplyOf
    <3> QED
      BY <3>1, Zenon DEF IsReply
  <2>6. Types
    BY <2>2, <2>3, <2>4, <2>5 DEF Init, Types, Pending, ServiceAssumption
  <2>7. Remembers
    BY <2>3 DEF Init, Remembers
  <2> QED
    BY <2>3, <2>6, <2>7
    DEF Init, Inv, Reading, Replying, Replied, Rejecting, RoomToRead, Live, Pending,
        ServiceAssumption
<1>2. Inv /\ [Next]_vars => Inv'
  <2> SUFFICES ASSUME Inv, [Next]_vars PROVE Inv'
    OBVIOUS
  <2>1. CASE ResumeRead
    <3>1. /\ Types /\ Remembers /\ first = End[Len(replies)]
          /\ HandleBuffer(first, request_bytes)
      BY <2>1 DEF ResumeRead, Inv, Reading
    <3> QED
      BY <3>1, Turn DEF Types
  <2>2. CASE ResumeReply
    <3>1. CASE Return
      BY <3>1, Leaving DEF Inv, Return
    <3>2. CASE is_open /\ NextRequest
      BY <2>2, <3>2, Advance DEF ResumeReply
    <3> QED
      BY <2>2, <3>1, <3>2 DEF ResumeReply
  <2>3. CASE ResumeReject \/ ResumeError
    BY <2>3, Leaving DEF Inv, ResumeReject, ResumeError, Return
  <2>4. ASSUME NEW n \in 0 .. BufSize, Receive(n) PROVE Inv'
    <3>1. /\ UNCHANGED <<stream, first, current_req, reply, is_open, replies>>
          /\ pc = "reading" /\ pc' = "read" /\ request_bytes' = request_bytes + n
          /\ request_bytes + n <= BufSize
          /\ first + request_bytes + n <= End[Len(stream)]
      BY <2>4 DEF Receive
    <3>2. End' = End /\ Before' = Before
      BY <3>1, SameEnd DEF Before
    <3>3. Types'
      <4>1. End[Len(stream)] \in Nat /\ BufSize \in Nat
        BY EndFacts DEF Inv, Types, ServiceAssumption
      <4> QED
        BY <3>1, <3>2, <4>1 DEF Inv, Types, Ready
    <3>4. Remembers'
      BY <3>1, <3>2 DEF Inv, Reading, Remembers
    <3> QED
      BY <3>1, <3>2, <3>3, <3>4 DEF Inv, Reading, Replying, Replied, Rejecting, RoomToRead, Live,
           Pending
  <2>5. CASE ReplyTaken
    <3>1. CASE pc = "replying"
      <4> DEFINE k == Len(replies)
      <4>1. /\ UNCHANGED <<stream, first, request_bytes, current_req, reply, is_open>>
            /\ pc' = "replied" /\ k \in Nat /\ Len(replies') = k + 1
        BY <2>5, <3>1 DEF ReplyTaken, Inv, Types
      <4>2. Before' = Now /\ End' = End
        BY <4>1, SameEnd DEF Before, Now
      <4>3. Types' /\ Replied'
        BY <3>1, <4>1, <4>2 DEF Inv, Types, Replying, Replied, Ready
      <4> QED
        BY <4>1, <4>3 DEF Inv, Reading, Replying, Rejecting, RoomToRead, Live,
           Pending
    <3>2. CASE pc = "rejecting"
      <4>1. /\ UNCHANGED <<stream, first, request_bytes, current_req, reply, is_open>>
            /\ pc' = "rejected" /\ Len(replies') = Len(replies) + 1
        BY <2>5, <3>2 DEF ReplyTaken, Inv, Types
      <4>2. Types'
        BY <3>2, <4>1, SameEnd DEF Inv, Types, Rejecting, Ready
      <4> QED
        BY <4>1, <4>2 DEF Inv, Reading, Replying, Replied, Rejecting, RoomToRead, Live,
           Pending
    <3> QED
      BY <2>5, <3>1, <3>2 DEF ReplyTaken
  <2>6. CASE Disconnect
    BY <2>6, Leaving DEF Inv, Types, Disconnect
  <2>7. CASE Kill
    <3>1. CASE pc \in Pending
      BY <2>7, <3>1, Leaving DEF Inv, Kill
    <3>2. CASE pc \notin Pending
      <4>1. /\ UNCHANGED <<stream, first, request_bytes, current_req, reply, replies, pc>>
            /\ is_open' \in BOOLEAN
        BY <2>7, <3>2 DEF Kill
      <4>2. End' = End /\ Before' = Before /\ Now' = Now
        BY <4>1, SameEnd DEF Before, Now
      <4>3. BadRequest' = BadRequest /\ Remembers' = Remembers
        BY <4>1, <4>2 DEF BadRequest, Remembers
      <4> QED
        BY <3>2, <4>1, <4>2, <4>3 DEF Inv, Types, Reading, Replying, Replied, Rejecting, RoomToRead,
           Live, Pending
    <3> QED
      BY <3>1, <3>2
  <2>8. CASE UNCHANGED vars
    <3>1. UNCHANGED <<stream, first, request_bytes, current_req, reply, replies, pc, is_open>>
      BY <2>8 DEF vars
    <3>2. End' = End /\ Before' = Before /\ Now' = Now
      BY <3>1, SameEnd DEF Before, Now
    <3>3. BadRequest' = BadRequest /\ Remembers' = Remembers
      BY <3>1, <3>2 DEF BadRequest, Remembers
    <3> QED
      BY <3>1, <3>2, <3>3 DEF Inv, Types, Reading, Replying, Replied, Rejecting, RoomToRead, Live,
           Pending
  <2> QED
    BY <2>1, <2>2, <2>3, <2>4, <2>5, <2>6, <2>7, <2>8 DEF Next, Resume
<1> QED
  BY <1>1, <1>2, PTL DEF Spec

\* TypeOK: in particular the session never runs past the end of what the client
\* sends, and never has more replies than requests.
THEOREM TypeCorrect == Spec => []TypeOK
<1>1. Inv => TypeOK
  <2> SUFFICES ASSUME Inv PROVE TypeOK
    OBVIOUS
  <2>1. End[Len(stream)] \in Nat
    BY EndFacts DEF Inv, Types
  <2>2. reply.close \in BOOLEAN
    BY DEF Inv, Types, IsReply, ReplyOf
  <2> QED
    BY <2>1, <2>2 DEF Inv, Types, TypeOK, ServiceAssumption
<1> QED
  BY <1>1, Invariance, PTL

\* RoomToRead: async_read_some is never given an empty buffer.
THEOREM ReadsHaveRoom == Spec => []RoomToRead
<1>1. Inv => RoomToRead
  BY DEF Inv
<1> QED
  BY <1>1, Invariance, PTL

\* ConsumesWhatItHas: request_bytes -= request_length does not wrap around.
THEOREM TakesWholeRequests == Spec => []ConsumesWhatItHas
<1>1. Inv => ConsumesWhatItHas
  BY DEF Inv, Replying, Replied, ConsumesWhatItHas
<1> QED
  BY <1>1, Invariance, PTL
-----------------------------------------------------------------------------
(***************************************************************************)
(* The session implements HttpService.                                     *)
(***************************************************************************)

\* HttpService speaks of requests and answers with the same words.
LEMMA SameWords ==
    /\ \A r : Service!Accepted(r) = Accepted(r)
    /\ \A r : Service!HasSite(r) = HasSite(r)
    /\ \A r : Service!Target(r) = Target(r)
    /\ \A r : Service!HostOf(r) = HostOf(r)
    /\ Service!NoHost = NoHost
    /\ \A i, r : Service!Answer(i, r) = Answer(i, r)
    /\ \A code : Service!ErrorText(code) = ErrorText(code)
<1>1. ASSUME NEW value PROVE Service!Trimmed(value) = Trimmed(value)
  BY DEF Service!Trimmed, Trimmed
<1>2. ASSUME NEW r PROVE Service!MethodOf(r) = MethodOf(r)
  BY DEF Service!MethodOf, MethodOf
<1>3. ASSUME NEW code PROVE Service!ErrorText(code) = ErrorText(code)
  BY DEF Service!ErrorText, ErrorText
<1>4. ASSUME NEW host, NEW n PROVE Service!GetHost(host, n) = GetHost(host, n)
  BY DEF Service!GetHost, GetHost, Service!GetHostIndex, GetHostIndex,
         Service!GetHostIndexFromName, GetHostIndexFromName, Service!Castable, Castable,
         Service!Found, Found, Service!Redirect, Redirect, Service!UnknownHost, UnknownHost
<1>5. ASSUME NEW r PROVE Service!HostOf(r) = HostOf(r)
  BY DEF Service!HostOf, HostOf, Service!NoHost, NoHost, Service!NotNumeric, NotNumeric,
         Service!Max, Max
<1>6. ASSUME NEW r PROVE Service!Target(r) = Target(r)
  BY <1>4, <1>5 DEF Service!Target, Target
<1>7. ASSUME NEW r, NEW name, NEW token PROVE Service!Says(r, name, token) = Says(r, name, token)
  BY DEF Service!Says, Says, Service!Has, Has
<1>8. ASSUME NEW t, NEW method, NEW uri
      PROVE  Service!HostCode(t, method, uri) = HostCode(t, method, uri)
  BY DEF Service!HostCode, HostCode, Service!DefaultHostCode, DefaultHostCode,
         Service!StaticPageHostCode, StaticPageHostCode, Service!Refused, Refused
<1>9. ASSUME NEW site, NEW r PROVE Service!Code(site, r) = Code(site, r)
  BY <1>2, <1>8 DEF Service!Code, Code
<1>10. ASSUME NEW site, NEW i, NEW track PROVE Service!Page(site, i, track) = Page(site, i, track)
  BY DEF Service!Page, Page
<1>11. ASSUME NEW i, NEW r PROVE Service!Answer(i, r) = Answer(i, r)
  BY <1>2, <1>3, <1>6, <1>7, <1>9, <1>10 DEF Service!Answer, Answer, Service!AnswerOf, AnswerOf
<1>12. ASSUME NEW r PROVE Service!HasSite(r) = HasSite(r)
  BY <1>6 DEF Service!HasSite, HasSite
<1>13. ASSUME NEW value PROVE Service!EncodingsAccepted(value) = EncodingsAccepted(value)
  BY DEF Service!EncodingsAccepted, EncodingsAccepted, Service!Encoding, Encoding
<1>14. ASSUME NEW h PROVE Service!HeaderAccepted(h) = HeaderAccepted(h)
  BY <1>1, <1>13 DEF Service!HeaderAccepted, HeaderAccepted, Service!HostAccepted, HostAccepted,
         Service!DntAccepted, DntAccepted, Service!AnyAccepted, AnyAccepted
<1>15. ASSUME NEW r PROVE Service!Accepted(r) = Accepted(r)
  BY <1>14 DEF Service!Accepted, Accepted
<1>16. Service!NoHost = NoHost
  BY DEF Service!NoHost, NoHost, Service!NotNumeric, NotNumeric
<1> QED
  BY <1>3, <1>5, <1>6, <1>11, <1>12, <1>15, <1>16

\* The client sends no request that runs into a promise the code does not keep,
\* or the promise is given up.
DeviationsTolerated ==
    \A r \in RequestKinds :
        /\ Target(r).status = "redirect" => "moved" \in Tolerated
        /\ ~HasSite(r) /\ HostOf(r) = NoHost => "no_host" \in Tolerated
        /\ r.size = BufSize => "exact_fit" \in Tolerated

\* A step after which the client has what it had and can get more, as before; one
\* that cuts the connection; and one that ends the session where it may.
Quiet == UNCHANGED <<stream, replies>> /\ Open' = Open /\ Lost' = Lost
Cut == UNCHANGED <<stream, replies>> /\ Open /\ Open' = Open /\ Lost' = TRUE
Over == /\ UNCHANGED <<stream, replies>>
        /\ Open /\ Open' = FALSE /\ Lost' = FALSE
        /\ Lost \/ NoSite

\* Such steps are steps of the service.
LEMMA QuietCutOrOver ==
    ASSUME DeviationsTolerated, Types, Quiet \/ Cut \/ Over
    PROVE  [Service!Next]_<<stream, replies, Open, Lost>>
<1>1. Cut => Service!Lose
  BY DEF Cut, Service!Lose
<1>2. ASSUME NoSite PROVE Service!MayRefuse(Now) /\ Service!Current \in DOMAIN stream
  <2>1. /\ Len(replies) \in Nat /\ Len(stream) \in Nat /\ Len(replies) < Len(stream)
        /\ stream \in Seq(RequestKinds)
    BY <1>2 DEF NoSite, Types
  <2>2. Len(replies) + 1 \in DOMAIN stream /\ Now \in RequestKinds
    BY <2>1 DEF Now
  <2>3. Service!MayRefuse(Now)
    BY <1>2, <2>2, SameWords
    DEF NoSite, DeviationsTolerated, Service!MayRefuse, Service!IsMoved,
        Service!IsUnnamed, Service!MovedRefused, Service!NoHostRefused
  <2> QED
    BY <2>2, <2>3 DEF Service!Current
<1>3. Over => Service!HangUp
  BY <1>2 DEF Over, Service!HangUp, Service!Current, Now
<1> QED
  BY <1>1, <1>3 DEF Quiet, Service!Next

\* A session in the middle of its loop goes on, or ends where it may.
LEMMA LoopIsQuiet ==
    ASSUME Open, pc \in {"read", "replied"}, is_open \in BOOLEAN,
           UNCHANGED <<stream, replies>>, Outcome
    PROVE  Quiet \/ Over
<1>1. CASE pc' \in {"reading", "replying", "rejecting"} /\ is_open /\ is_open'
  BY <1>1 DEF Quiet, Open, Lost
<1>2. CASE pc' = "failed" /\ ~is_open /\ ~is_open'
  BY <1>2 DEF Quiet, Open, Lost
<1>3. CASE pc' = "done" /\ (~is_open \/ NoSite)
  BY <1>3 DEF Over, Open, Lost
<1> QED
  BY <1>1, <1>2, <1>3 DEF Outcome

\* A reply that the client has taken is the one the service gives it.
LEMMA TakenIsServed ==
    ASSUME DeviationsTolerated, Inv, ReplyTaken
    PROVE  Service!Serve \/ Service!Reject
<1> DEFINE k == Len(replies)
<1>1. /\ UNCHANGED <<stream, reply>> /\ replies' = Append(replies, View(reply))
      /\ stream \in Seq(RequestKinds) /\ Len(stream) \in Nat /\ k \in Nat
  BY DEF ReplyTaken, View, Inv, Types
<1>2. Service!Current = k + 1
  BY DEF Service!Current
<1>0. Open /\ Lost = FALSE /\ Lost' = FALSE
  BY DEF ReplyTaken, Inv, Live, Pending, Open, Lost
<1>3. CASE pc = "replying"
  <2>1. /\ k < Len(stream) /\ Accepted(Now) /\ HasSite(Now)
        /\ Now.size <= request_bytes /\ View(reply) = Answer(k + 1, Now)
    BY <1>3 DEF Inv, Replying
  <2>2. k + 1 \in DOMAIN stream /\ Now \in RequestKinds
    BY <1>1, <2>1 DEF Now
  <2>3. Now.size <= BufSize
    BY <2>1, <2>2 DEF Inv, Types, Request, ServiceAssumption
  <2>4. Open' = ~reply.close
    BY <1>1, <1>3 DEF Open, ReplyTaken
  <2>5. reply.close = Answer(k + 1, Now).close
    BY <2>1 DEF View
  <2>6. Answer(k + 1, Now) \in Service!Promised(k + 1, Now)
    BY <2>1, SameWords DEF Service!Promised
  <2>7. replies' = Append(replies, Answer(k + 1, Now)) /\ Open' = ~Answer(k + 1, Now).close
    BY <1>1, <2>1, <2>4, <2>5
  <2>8. /\ Service!Current = k + 1 /\ stream[k + 1] = Now
        /\ Service!Accepted(Now) = Accepted(Now)
    BY <1>2, SameWords DEF Now
  <2>9. Service!Serve
    BY <1>0, <1>1, <2>1, <2>2, <2>3, <2>6, <2>7, <2>8 DEF Service!Serve
  <2> QED
    BY <2>9
<1>4. CASE pc = "rejecting"
  <2>1. /\ k < Len(stream) /\ View(reply) = BadRequest
        /\ ~Accepted(Now) \/ Now.size >= BufSize
        /\ k = 0 \/ Accepted(Before)
    BY <1>4 DEF Inv, Rejecting, Reading, Remembers
  <2>2. /\ k + 1 \in DOMAIN stream /\ Now \in RequestKinds
        /\ k = 0 \/ Before \in RequestKinds
    BY <1>1, <2>1 DEF Now, Before
  <2>3. Open' = FALSE
    BY <1>4 DEF Open, ReplyTaken
  <2>4. ~Accepted(Now) \/ Now.size > BufSize \/ (Service!FullRefused /\ Now.size = BufSize)
    <3>1. Now.size \in Nat /\ BufSize \in Nat
      BY <2>2 DEF ServiceAssumption, Request
    <3> QED
      BY <2>1, <2>2, <3>1 DEF DeviationsTolerated, Service!FullRefused
  <2> DEFINE version == IF k = 0 THEN "UNKNOWN" ELSE Before.version
             body == IF k > 0 /\ MethodOf(Before) = "HEAD" THEN <<>> ELSE <<ErrorText(400)>>
  <2>5. version \in {"UNKNOWN", "HTTP_1_0", "HTTP_1_1"}
    <3>1. k # 0 => Before.version \in {"HTTP_1_0", "HTTP_1_1"}
      BY <2>1, <2>2 DEF Accepted, ServiceAssumption, Request, RequestText
    <3> QED
      BY <3>1
  <2>6. body \in {<<>>, <<Service!ErrorText(400)>>}
    BY SameWords
  <2>7. replies' = Append(replies, [version |-> version, code |-> 400,
                                    encoding |-> "none", body |-> body, close |-> TRUE])
    BY <1>1, <2>1 DEF BadRequest
  <2> HIDE DEF version, body
  <2>8. \E v \in {"UNKNOWN", "HTTP_1_0", "HTTP_1_1"},
           b \in {<<>>, <<Service!ErrorText(400)>>} :
             replies' = Append(replies, [version |-> v, code |-> 400, encoding |-> "none",
                                         body |-> b, close |-> TRUE])
    <3> DEFINE bad(v, b) == [version |-> v, code |-> 400, encoding |-> "none",
                             body |-> b, close |-> TRUE]
    <3>1. replies' = Append(replies, bad(version, body))
      BY <2>7
    <3> HIDE DEF bad
    <3> DEFINE V == {"UNKNOWN", "HTTP_1_0", "HTTP_1_1"}
               B == {<<>>, <<Service!ErrorText(400)>>}
    <3>2. version \in V /\ body \in B
      BY <2>5, <2>6
    <3> HIDE DEF V, B
    <3>3. \E v \in V, b \in B : replies' = Append(replies, bad(v, b))
      BY <3>1, <3>2
    <3> QED
      BY <3>3 DEF bad, V, B
  <2>9. stream[k + 1] = Now /\ Service!Accepted(Now) = Accepted(Now)
    BY SameWords DEF Now
  <2>10. Open /\ ~Lost /\ UNCHANGED <<stream, Lost>>
    BY <1>0, <1>1
  <2>11. Service!Current \in DOMAIN stream /\ stream[Service!Current] = Now
    BY <1>2, <2>2, <2>9
  <2> QED
    BY <2>3, <2>4, <2>8, <2>9, <2>10, <2>11 DEF Service!Reject
<1> QED
  BY <1>3, <1>4 DEF ReplyTaken

\* ImplementsService: for any requests, cut into any packets, with anything left
\* in the parser by other connections, the session is an HttpService.  With
\* Tolerated = {} it says that all that is documented holds for clients that name
\* a host that has not moved and whose requests do not fill the buffer exactly.
THEOREM SessionImplementsService ==
    ASSUME DeviationsTolerated
    PROVE  Spec => ImplementsService
<1>1. Init => Service!Init
  BY DEF Init, Service!Init, Open, Lost
<1>2. Inv /\ [Next]_vars => [Service!Next]_<<stream, replies, Open, Lost>>
  <2> SUFFICES ASSUME Inv, [Next]_vars
               PROVE  [Service!Next]_<<stream, replies, Open, Lost>>
    OBVIOUS
  <2>0. Types /\ is_open \in BOOLEAN
    BY DEF Inv, Types
  <2>1. CASE ResumeRead
    <3>1. /\ Types /\ Remembers /\ first = End[Len(replies)] /\ pc = "read"
          /\ HandleBuffer(first, request_bytes)
      BY <2>1 DEF ResumeRead, Inv, Reading
    <3>2. UNCHANGED <<stream, replies>> /\ Outcome /\ Open
      BY <3>1, Turn DEF Types, Open
    <3> QED
      BY <2>0, <3>1, <3>2, LoopIsQuiet, QuietCutOrOver
  <2>2. CASE ResumeReply
    <3>1. CASE (~is_open \/ reply.close) /\ Return
      <4>1. Quiet \/ Over
        BY <2>2, <3>1 DEF ResumeReply, Return, Quiet, Over, Open, Lost
      <4> QED
        BY <2>0, <4>1, QuietCutOrOver
    <3>2. CASE is_open /\ ~reply.close /\ NextRequest
      <4>1. Open /\ pc = "replied"
        BY <2>2, <3>2 DEF ResumeReply, Open
      <4>2. UNCHANGED <<stream, replies>> /\ Outcome
        BY <3>2, <4>1, Advance
      <4> QED
        BY <2>0, <4>1, <4>2, LoopIsQuiet, QuietCutOrOver
    <3> QED
      BY <2>2, <3>1, <3>2 DEF ResumeReply
  <2>3. CASE ResumeReject \/ ResumeError
    <3>1. Quiet \/ Over
      BY <2>3 DEF ResumeReject, ResumeError, Return, Quiet, Over, Open, Lost
    <3> QED
      BY <2>0, <3>1, QuietCutOrOver
  <2>4. ASSUME NEW n \in 0 .. BufSize, Receive(n)
        PROVE  [Service!Next]_<<stream, replies, Open, Lost>>
    <3>1. Quiet
      BY <2>4 DEF Receive, Quiet, Open, Lost
    <3> QED
      BY <2>0, <3>1, QuietCutOrOver
  <2>5. CASE ReplyTaken
    BY <2>5, TakenIsServed DEF Service!Next
  <2>6. CASE Disconnect \/ Kill
    <3>1. Quiet \/ Cut
      BY <2>6 DEF Disconnect, Kill, Quiet, Cut, Open, Lost, Pending
    <3> QED
      BY <2>0, <3>1, QuietCutOrOver
  <2>7. CASE UNCHANGED vars
    BY <2>7 DEF vars, Open, Lost
  <2> QED
    BY <2>1, <2>2, <2>3, <2>4, <2>5, <2>6, <2>7 DEF Next, Resume
<1> QED
  BY <1>1, <1>2, Invariance, PTL DEF Spec, ImplementsService, Service!Spec
=============================================================================
