---------------------------- MODULE HttpService ----------------------------
(***************************************************************************)
(* What vUbercool promises to one HTTP client: the requests it sends on a  *)
(* connection are answered one by one, in the order they were sent, each   *)
(* with its own page or error, and nothing follows a reply that announced  *)
(* "Connection: Close".  A request that names no host is for the default   *)
(* host, one for a host that has moved is redirected, and one that is not  *)
(* larger than the maximum is accepted.                                    *)
(*                                                                         *)
(* The server hangs up only where it says so: on a connection it has       *)
(* killed, or whose client is gone, and on a request for a host that it    *)
(* does not know ("Unexpected exceptions will close the connection without *)
(* notifying the user-agent").                                             *)
(*                                                                         *)
(* Three of these promises are not kept by the code.  Those in Tolerated   *)
(* are given up here; with Tolerated = {} this is what the documentation   *)
(* says.  How the bytes of the requests reach the server, and how they are *)
(* cut into requests again, is the business of HttpSession.                *)
(***************************************************************************)
EXTENDS HttpRequests

VARIABLES
    requests,   \* what the client sends
    replies,    \* what it has received, in full
    open,       \* whether it can receive more
    lost        \* the connection is cut and the server has not hung up yet

Init ==
    /\ requests \in UNION {[1 .. n -> RequestKinds] : n \in 0 .. MaxRequests}
    /\ replies = <<>>
    /\ open = TRUE
    /\ lost = FALSE

Current == Len(replies) + 1

\* The promises that may be given up.
NoHostRefused == "no_host" \in Tolerated
MovedRefused  == "moved" \in Tolerated
FullRefused   == "exact_fit" \in Tolerated

IsMoved(r) == Target(r).status = "redirect"
IsUnnamed(r) == ~HasSite(r) /\ HostOf(r) = NoHost

\* The replies to the i-th request that are right.  Which site is the default
\* host is not said.
Promised(i, r) ==
    IF HasSite(r) THEN {Answer(i, r)}
    ELSE IF IsMoved(r) THEN {Redirection(r, code) : code \in {301, 302}}
    ELSE IF IsUnnamed(r) THEN {AnswerOf(site, i, r) : site \in 0 .. NumSites - 1}
    ELSE {}

Serve ==
    /\ open /\ ~lost
    /\ Current \in DOMAIN requests
    /\ LET r == requests[Current]
       IN  /\ Accepted(r) /\ r.size <= BufSize
           /\ \E reply \in Promised(Current, r) :
                /\ replies' = Append(replies, reply)
                /\ open' = ~reply.close
    /\ UNCHANGED <<requests, lost>>

\* A request that cannot be parsed or is too long gets a 400.  In which version
\* of the protocol, and if with a text, is not said.
Reject ==
    /\ open /\ ~lost
    /\ Current \in DOMAIN requests
    /\ LET r == requests[Current]
       IN  ~Accepted(r) \/ r.size > BufSize \/ (FullRefused /\ r.size = BufSize)
    /\ \E version \in {"UNKNOWN", "HTTP_1_0", "HTTP_1_1"},
          body \in {<<>>, <<ErrorText(400)>>} :
            replies' = Append(replies, [version |-> version, code |-> 400,
                                        encoding |-> "none", body |-> body,
                                        close |-> TRUE])
    /\ open' = FALSE
    /\ UNCHANGED <<requests, lost>>

\* The client goes away or the server kills the connection.
Lose ==
    /\ open
    /\ lost' = TRUE
    /\ UNCHANGED <<requests, replies, open>>

\* A request that the server may hang up on.
MayRefuse(r) ==
    /\ Accepted(r) /\ ~HasSite(r)
    /\ IsMoved(r) => MovedRefused
    /\ IsUnnamed(r) => NoHostRefused

HangUp ==
    /\ open
    /\ \/ lost
       \/ Current \in DOMAIN requests /\ MayRefuse(requests[Current])
    /\ open' = FALSE
    /\ lost' = FALSE
    /\ UNCHANGED <<requests, replies>>

Next == Serve \/ Reject \/ Lose \/ HangUp

Spec == Init /\ [][Next]_<<requests, replies, open, lost>>
=============================================================================
