---------------------------- MODULE MCDnsDaemon ----------------------------
(***************************************************************************)
(* Zone trees and queries for model checking DnsDaemon.                    *)
(***************************************************************************)
EXTENDS DnsDaemon

Node(label, parent) ==
    [label |-> label, parent |-> parent, soa |-> FALSE, authorative |-> FALSE, a |-> 0,
     ns |-> <<>>, mx |-> <<>>, cname |-> <<>>, cname_absolute |-> FALSE]

\* Like conf/dns.conf, with a wildcard, cnames of both kinds, a name server of its
\* own and one that only the wildcard matches, and a zone whose mail server is
\* not in the tree, whose SOA has no name server and that we do not own, with a
\* zone below it that we do; and a zone of ours without a SOA.
MCZoneTable ==
    << Node("com", NoZone),
       [Node("obs", 1) EXCEPT !.soa = TRUE, !.authorative = TRUE, !.a = 1,
                              !.ns = <<"ns1", "nsx">>, !.mx = <<"ns1">>],
       [Node("ns1", 2) EXCEPT !.a = 1],
       [Node("www", 2) EXCEPT !.cname = <<"obs", "com">>, !.cname_absolute = TRUE],
       [Node("blog", 2) EXCEPT !.cname = <<"ns1">>],
       [Node("", 2) EXCEPT !.a = 2],
       [Node("net", NoZone) EXCEPT !.soa = TRUE, !.a = 1, !.mx = <<"mail">>],
       [Node("own", 7) EXCEPT !.soa = TRUE, !.authorative = TRUE, !.ns = <<"ns">>],
       [Node("lone", NoZone) EXCEPT !.authorative = TRUE, !.a = 1] >>

\* conf/dns.conf:36-51: names more than one level below their SOA.
MCDeepZoneTable ==
    << Node("com", NoZone),
       [Node("obs", 1) EXCEPT !.soa = TRUE, !.ns = <<"ns1">>],
       Node("life", 2),
       [Node("the", 3) EXCEPT !.cname = <<"obs", "com">>, !.cname_absolute = TRUE] >>

MCLabels == {"com", "net", "org", "obs", "ns1", "nsx", "www", "blog", "zzz", "x", "mail",
             "own", "ns", "lone", "life", "the", ""}

MCNames == {<<"com">>, <<"org">>, <<"obs", "com">>, <<"zzz", "com">>, <<"ns1", "obs", "com">>,
            <<"www", "obs", "com">>, <<"blog", "obs", "com">>, <<"zzz", "obs", "com">>,
            <<"x", "ns1", "obs", "com">>, <<"net">>, <<"own", "net">>, <<"x", "own", "net">>,
            <<"lone">>}

Ask(name, qtype) == [name |-> name, qtype |-> qtype, qclass |-> "IN", form |-> "ok"]

Standard(qdcount, asked) ==
    [NoQuery EXCEPT !.kind = "standard", !.qdcount = qdcount, !.questions = asked]

\* A query with flags that only a reply should have.
Flagged(q, code) == [q EXCEPT !.aa = TRUE, !.tc = TRUE, !.rcode = code]

SomeQuestion == Ask(<<"obs", "com">>, "A")

\* Every name and type; and the queries that are not answered normally.
MCQueries ==
    {Standard(1, <<Ask(name, qtype)>>) : name \in MCNames, qtype \in QType}
    \cup {Standard(2, <<SomeQuestion, Ask(name, "ANY")>>) : name \in {<<"net">>, <<"org">>}}
    \cup {Standard(n, <<Ask(<<"obs", "com">>, qtype)>>) : n \in {2, 3}, qtype \in {"MX", "ANY"}}
    \cup {Standard(n, <<>>) : n \in {0, 1}}
    \cup {Standard(1, <<[SomeQuestion EXCEPT !.form = f]>>) : f \in {"illegal", "underflow"}}
    \cup {Standard(1, <<[SomeQuestion EXCEPT !.qclass = "OTHER"]>>)}
    \cup {[Standard(1, <<SomeQuestion>>) EXCEPT !.kind = k]
            : k \in {"short", "response", "otherop"}}
    \cup {Flagged(Standard(1, <<Ask(name, "ANY")>>), code) :
            name \in {<<"com">>, <<"obs", "com">>, <<"net">>, <<"org">>, <<"x", "ns1", "obs", "com">>},
            code \in {"NAME_ERROR", "REFUSED"}}
    \cup {Flagged(Standard(0, <<>>), "NAME_ERROR"), Standard(2, <<SomeQuestion, SomeQuestion>>)}

MCDeepQueries == {Standard(1, <<Ask(<<"the", "life", "obs", "com">>, "A")>>)}
=============================================================================
