--------------------------- MODULE MCDnsMessages ---------------------------
(***************************************************************************)
(* Bytes of three bits: a label has one character, 6 and 7 mark a pointer. *)
(* The characters are 1, which is also a length, and 2, which is not.      *)
(***************************************************************************)
EXTENDS DnsMessages

A == <<1>>
B == <<2>>

N(labels) == [labels |-> labels, dot |-> TRUE, zone |-> <<>>]
In(labels, zone) == [labels |-> labels, dot |-> FALSE, zone |-> zone]

Names == {<<A>>, <<B>>, <<B, A>>, <<A, B, A>>}
Servers == {N(<<A>>), N(<<A, A>>), In(<<B>>, <<A>>), In(<<A>>, <<B, A>>)}

R(by_pointer, name, rdata) == [by_pointer |-> by_pointer, name |-> name, rdata |-> rdata]

\* Addresses, aliases and mail servers of the question's name; name servers and
\* addresses of other names; the SOA.
MCRecords ==
    {R(TRUE, <<>>, <<>>)} \cup {R(TRUE, <<>>, <<s>>) : s \in Servers} \cup
    {R(FALSE, n, <<>>) : n \in Names} \cup {R(FALSE, n, <<s>>) : n \in Names, s \in Servers} \cup
    {R(TRUE, <<>>, <<In(<<A>>, z), In(<<B>>, z)>>) : z \in {<<A>>, <<B, A>>}}

\* The address of a server that only a wildcard below A matches.
WildcardRecords == MCRecords \cup {R(FALSE, <<<<>>, A>>, <<>>)}
=============================================================================
