--------------------------- MODULE MCHttpSession ---------------------------
(***************************************************************************)
(* Requests for a buffer of four bytes and two sites, the second one with  *)
(* static pages: each of the replies, each of the sizes around the limit,  *)
(* each way to name a site and to miss it.                                 *)
(***************************************************************************)
EXTENDS HttpSession

MCSiteAliases == [n \in {"blog"} |-> 1]
MCHostTemplates == [site \in 0 .. 1 |-> IF site = 0 THEN "default" ELSE "static"]

Site(n) == [name |-> "a site", dotted |-> TRUE, label |-> Number(n)]
Name(name) == [name |-> name, dotted |-> FALSE, label |-> NotNumeric]

Moved == [name |-> "moved", dotted |-> TRUE, label |-> Number(8)]

\* Headers: Host: with one word; with two; Dnt; Accept-Encoding; any other.
Hst(host) == [name |-> "Host", value |-> <<"ws", "str">>, host |-> host]
TwoHosts == [name |-> "Host", value |-> <<"ws", "str", "ws", "str">>, host |-> Site(0)]
Dnt(token) == [name |-> "Dnt:", value |-> <<"ws", token, "ws">>, host |-> NoHost]
Enc(value) == [name |-> "Accept-Encoding:", value |-> value, host |-> NoHost]
Other(value) == [name |-> "any", value |-> value, host |-> NoHost]

R(size, method, version, uri, headers) ==
    [size |-> size, method |-> method, version |-> version, uri |-> uri,
     headers |-> headers]

MCRequestKinds == {
    R(1, "GET", "HTTP_1_1", "root", <<Hst(Name("gone")), Dnt("1"), Dnt("0"), Hst(Site(0))>>),
    R(2, "GET", "HTTP_1_1", "up_file",
        <<Hst(Site(-7)), Enc(<<"ws", "gzip", "qvalue", ",", "ws", "deflate">>)>>),
    R(1, "HEAD", "HTTP_1_1", "root", <<Other(<<"str", "ws", "str">>), Hst(Site(0))>>),
    R(1, "GET", "HTTP_1_0", "root", <<Hst(Site(0)), Dnt("0")>>),
    R(2, "any", "HTTP_1_1", "root", <<Hst(Site(0)), Enc(<<"deflate">>)>>),
    R(1, "GET", "HTTP_1_1", "other", <<Hst(Name("blog"))>>),
    R(1, "GET", "HTTP_1_1", "root", <<Hst(Site(2))>>),
    R(1, "GET", "HTTP_1_1", "root", <<Hst(Moved)>>),
    R(1, "GET", "HTTP_1_1", "root", <<Dnt("1")>>),
    R(2, "GET", "HTTP_1_1", "root", <<Hst(Site(0)), Enc(<<"gzip", "ws", ",", "deflate">>)>>),
    R(1, "GET", "none", "root", <<Hst(Site(0))>>),
    R(1, "GET", "HTTP_1_1", "root", <<TwoHosts>>),
    R(4, "GET", "HTTP_1_1", "root", <<Hst(Site(0))>>),
    R(5, "GET", "HTTP_1_1", "root", <<Hst(Site(0))>>) }
=============================================================================
