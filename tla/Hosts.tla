------------------------------- MODULE Hosts -------------------------------
(***************************************************************************)
(* How a request finds its site, and what the site makes of it: GetHost of *)
(* VectorVhostManager and the two kinds of Host.                           *)
(*                                                                         *)
(* A Host: header is a record.  "name" is the whole name without ":port",  *)
(* which GetHost strips first; "dotted" tells if the name has a dot, and   *)
(* "label" is what stands before the first dot: a number or NotNumeric.    *)
(* A uri is one of the four kinds that the hosts tell apart.               *)
(***************************************************************************)
EXTENDS Integers

CONSTANTS
    UintMod,        \* 2^32: site numbers are uint32_t
    SiteAliases,    \* config_.site_aliases, a function from names to sites
    HttpRedirects   \* config_.http_redirects, its names

NotNumeric == [number |-> FALSE, value |-> 0]
Number(n) == [number |-> TRUE, value |-> n]

Host(Name) ==
    [name : Name, dotted : BOOLEAN, label : [number : BOOLEAN, value : Int]]

\* "/" with or without arguments; another path; a path that starts with ".." and
\* that is, or is not, the name of a regular file.
Uri == {"root", "other", "up_file", "up_missing"}

HostTemplate == {"default", "static"}

ASSUME HostsAssumption ==
    /\ UintMod \in Nat \ {0}
    /\ \A n \in DOMAIN SiteAliases : SiteAliases[n] \in 0 .. UintMod - 1
-----------------------------------------------------------------------------
Found(ix) == [status |-> "found", ix |-> ix]
Redirect == [status |-> "redirect", ix |-> 0]
UnknownHost == [status |-> "unknown", ix |-> 0]

GetHostIndexFromName(name) ==
    IF name \in DOMAIN SiteAliases THEN Found(SiteAliases[name])
    ELSE IF name \in HttpRedirects THEN Redirect
    ELSE UnknownHost

\* lexical_cast<uint32_t> takes a sign: "-1" is the largest number.
Castable(n) == -UintMod < n /\ n < UintMod

GetHostIndex(host) ==
    IF host.dotted /\ host.label.number /\ Castable(host.label.value)
    THEN Found(host.label.value % UintMod)
    ELSE GetHostIndexFromName(host.name)

\* Mutant: the site behind the last one is let through.
GetHostOffByOne(host, num_sites) ==
    LET found == GetHostIndex(host)
    IN  IF found.status = "found" /\ found.ix > num_sites THEN UnknownHost ELSE found

GetHost(host, num_sites) ==
    LET found == GetHostIndex(host)
    IN  IF found.status = "found" /\ found.ix >= num_sites THEN UnknownHost ELSE found
-----------------------------------------------------------------------------
(***************************************************************************)
(* What Host::ProcessRequest decides before it writes a page: the status   *)
(* code that its return (200) or its exception leads to, and whether the   *)
(* hit was counted by then.                                                *)
(***************************************************************************)
DefaultHostCode(method, uri) ==
    IF method \notin {"GET", "HEAD"} THEN 405
    ELSE IF uri # "root" THEN 404 ELSE 200

\* page.find("..") is 0, and so false, only for a path that starts with "..";
\* every other path is refused.  The method is not looked at.
Refused(uri) == uri \notin {"up_file", "up_missing"}

StaticPageHostCode(method, uri) ==
    IF Refused(uri) \/ uri # "up_file" THEN 404 ELSE 200

HostCode(template, method, uri) ==
    IF template = "default" THEN DefaultHostCode(method, uri)
                            ELSE StaticPageHostCode(method, uri)

CountsHit(template, method, uri) ==
    IF template = "default" THEN DefaultHostCode(method, uri) = 200
                            ELSE ~Refused(uri)
=============================================================================
