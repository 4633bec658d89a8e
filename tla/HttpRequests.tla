---------------------------- MODULE HttpRequests ----------------------------
(***************************************************************************)
(* Requests and replies as the specifications of one HTTP connection,      *)
(* HttpService and HttpSession, see them.  Which requests are wellformed   *)
(* is taken from RequestGrammar, which site a request is for and what the  *)
(* site makes of it from Hosts.                                            *)
(***************************************************************************)
EXTENDS RequestGrammar, FiniteSetsExt

CONSTANTS
    NumSites,       \* config.num_sites
    HostTemplates,  \* host_template of each site
    AllowGzip,      \* config.allow_gzip
    AllowDeflate,   \* config.allow_deflate
    RequestKinds,   \* the requests a client may send, see Request
    MaxRequests,    \* bound: how many requests a client sends
    BufSize,        \* the size of request_buffer_
    Tolerated       \* the documented promises not asked for, see HttpService

\* A request is its text and the size of the text.
Request(r) == r.size \in Nat \ {0} /\ RequestText(r)

ASSUME ServiceAssumption ==
    /\ NumSites \in Nat
    /\ HostTemplates \in [0 .. NumSites - 1 -> HostTemplate]
    /\ AllowGzip \in BOOLEAN /\ AllowDeflate \in BOOLEAN
    /\ \A r \in RequestKinds : Request(r)
    /\ MaxRequests \in Nat
    /\ BufSize \in Nat \ {0, 1}

ASSUME ToleratedAssumption == Tolerated \subseteq {"no_host", "moved", "exact_fit"}

\* The page of a default site names the site and its visitor, whose wish not to
\* be tracked is acknowledged; a static page is the same for everyone.
Page(site, i, do_not_track) ==
    <<"page", site, i, HostTemplates[site] = "default" /\ do_not_track>>

ErrorText(code) == <<"error", code>>
-----------------------------------------------------------------------------
(***************************************************************************)
(* What a request asks for, read off its text.                             *)
(***************************************************************************)
MethodOf(r) == IF r.method = "any" THEN "UNKNOWN" ELSE r.method

\* The host of the last Host header.
HostOf(r) ==
    LET at == {i \in DOMAIN r.headers : r.headers[i].name = "Host"}
    IN  IF at = {} THEN NoHost ELSE r.headers[Max(at)].host

Says(r, name, token) ==
    \E i \in DOMAIN r.headers : r.headers[i].name = name /\ Has(r.headers[i], token)

Target(r) == GetHost(HostOf(r), NumSites)
HasSite(r) == Target(r).status = "found"

Code(site, r) == HostCode(HostTemplates[site], MethodOf(r), r.uri)

\* The reply of a site to the i-th request.
AnswerOf(site, i, r) ==
    LET ok       == Code(site, r) = 200
        content  == IF ok THEN Page(site, i, Says(r, "Dnt:", "1"))
                          ELSE ErrorText(Code(site, r))
        encoding == IF AllowGzip /\ Says(r, "Accept-Encoding:", "gzip") THEN "gzip"
                    ELSE IF AllowDeflate /\ Says(r, "Accept-Encoding:", "deflate")
                    THEN "deflate" ELSE "none"
    IN  [version  |-> r.version,
         code     |-> Code(site, r),
         encoding |-> IF ok THEN encoding ELSE "none",
         body     |-> IF MethodOf(r) = "HEAD" THEN <<>> ELSE <<content>>,
         close    |-> ~ok \/ r.version = "HTTP_1_0"]

\* The reply that the i-th request deserves: that of the site it names.
Answer(i, r) == AnswerOf(Target(r).ix, i, r)

\* The reply to a request for a site that has moved, as far as it matters here.
Redirection(r, code) ==
    [version |-> r.version, code |-> code, encoding |-> "none", body |-> <<>>,
     close |-> FALSE]
=============================================================================
