--------------------------- MODULE ConnectionMgr ---------------------------
(***************************************************************************)
(* The life of HTTP connections in vUbercool: class ConnectionMgr (one per *)
(* pipeline, that is per IO thread) and the coroutine                      *)
(* Connection::ProcessRequests that serves each socket.                    *)
(*                                                                         *)
(* A pipeline runs one handler at a time and a coroutine gives the thread  *)
(* away only where it waits for the socket, so everything between two such *)
(* points is one action.  What interleaves is: the coroutines of the       *)
(* connections, OnNewConnection, the housekeeping timer, and the network,  *)
(* which completes the pending socket operation of a connection.           *)
(*                                                                         *)
(* Abstractions.  A connection is named by its position in the sequence of *)
(* GetNextKey calls.  connections_ only grows at its back, so the deque is *)
(* the set of these names and begin() is the smallest of them.  The time   *)
(* stamp "expire" is kept relative to the current second.  What a request  *)
(* says and what is written to the client belong to HttpSession, the       *)
(* counters to Statistics; here a request is only answered, rejected with  *)
(* a 400, incomplete, or ends in an exception.                             *)
(*                                                                         *)
(* A definition marked "Mutant" is a wrong version of the one below it: no *)
(* specification uses it; put in its place, it makes a property fail.      *)
(***************************************************************************)
EXTENDS Integers, FiniteSets

CONSTANTS
    Pipelines,          \* the IO threads
    MaxAccepted,        \* bound: how many connections a behaviour creates
    MaxBacklog,         \* bound: accepted sockets waiting in one pipeline
    MaxConnections,     \* HttpConfig::max_connections, 0 for no limit
    ConnectionTimeout,  \* HttpConfig::connection_timeout, in seconds
    IntMod,             \* 2^32: the values of an int, modulo which a key is cut
    KeyMod              \* 2^64: the values of conn_key_t

ASSUME ConstantsAssumption ==
    /\ Pipelines # {}
    /\ MaxAccepted \in Nat
    /\ MaxBacklog \in Nat
    /\ MaxConnections \in Nat
    /\ ConnectionTimeout \in Nat
    /\ IntMod \in Nat \ {0}
    /\ KeyMod \in Nat
    /\ IntMod <= KeyMod
    /\ MaxAccepted < KeyMod

Conn == 1 .. MaxAccepted

\* ConnectionEntry's constructor: expire{time(nullptr) + 3}.
InitialLifetime == 3

\* housekeeping_interval_in_seconds_
HousekeepingInterval == 2

VARIABLES
    backlog,           \* per pipeline: accepted sockets dispatched to OnNewConnection
    next_key,          \* the static counter of GetNextKey
    connections,       \* per pipeline: connections_
    dead_connections,  \* per pipeline: dead_connections_
    mgr,               \* per connection: the pipeline of mgr_
    expire,            \* per connection: ConnectionEntry::expire minus the current time
    is_open,           \* per connection: socket_.is_open()
    pc,                \* per connection: where its coroutine is
    io,                \* per connection: the socket operation it waits for
    close_on_reply,    \* per connection: current_reply_.CloseOnReply()
    timer,             \* per pipeline: seconds until the housekeeping task is due
    idle,              \* history, per connection: seconds since it was created or
                       \* last answered, up to one more than ConnectionTimeout
    answered           \* history, per connection: it has been answered

vars == <<backlog, next_key, connections, dead_connections, mgr, expire,
          is_open, pc, io, close_on_reply, timer, idle, answered>>

\* "spawned": the coroutine is not started yet; "reading", "replying" and
\* "rejecting": suspended in async_read_some, in the async_write of a reply and
\* in the async_write of the 400; "done": returned, its Connection freed.
Waiting == {"reading", "replying", "rejecting"}
Active == Waiting \cup {"spawned"}

\* The types of the variables.  The timer never waits for longer than the
\* housekeeping interval and the lists hold only keys that were given out.
TypeOK ==
    /\ backlog \in [Pipelines -> 0 .. MaxBacklog]
    /\ next_key \in 0 .. MaxAccepted
    /\ connections \in [Pipelines -> SUBSET Conn]
    /\ dead_connections \in [Pipelines -> SUBSET Conn]
    /\ mgr \in [Conn -> Pipelines]
    /\ expire \in [Conn -> Int]
    /\ is_open \in [Conn -> BOOLEAN]
    /\ pc \in [Conn -> Active \cup {"none", "done"}]
    /\ io \in [Conn -> {"none", "pending", "ok", "error"}]
    /\ close_on_reply \in [Conn -> BOOLEAN]
    /\ timer \in [Pipelines -> 0 .. HousekeepingInterval]
    /\ idle \in [Conn -> 0 .. ConnectionTimeout + 1]
    /\ answered \in [Conn -> BOOLEAN]

Init ==
    /\ backlog = [p \in Pipelines |-> 0]
    /\ next_key = 0
    /\ connections = [p \in Pipelines |-> {}]
    /\ dead_connections = [p \in Pipelines |-> {}]
    /\ mgr = [c \in Conn |-> CHOOSE p \in Pipelines : TRUE]
    /\ expire = [c \in Conn |-> 0]
    /\ is_open = [c \in Conn |-> FALSE]
    /\ pc = [c \in Conn |-> "none"]
    /\ io = [c \in Conn |-> "none"]
    /\ close_on_reply = [c \in Conn |-> FALSE]
    /\ timer = [p \in Pipelines |-> HousekeepingInterval]
    /\ idle = [c \in Conn |-> 0]
    /\ answered = [c \in Conn |-> FALSE]
-----------------------------------------------------------------------------
(***************************************************************************)
(* Keys.  Lookup takes its key as an int and compares it with the entry's  *)
(* uint64_t: the key loses its upper half and is then sign-extended.       *)
(***************************************************************************)
LookupKey(key) ==
    LET low == key % IntMod
    IN  IF low < IntMod \div 2 THEN low ELSE low + (KeyMod - IntMod)

\* The entry of c in a list: what Lookup(key_, list) returns, {} for end().
Lookup(c, list) == {d \in list : d = LookupKey(c)}

\* Nothing is cut off as long as every key is a non-negative int.
KeysFitInt == MaxAccepted < IntMod \div 2

(***************************************************************************)
(* ConnectionMgr::Kill for a set of entries of pipeline p: the sockets are *)
(* closed, which aborts their pending operations (one that is already      *)
(* complete keeps its result), and the entries move to the dead list.  cs  *)
(* is connections_[p] before.                                              *)
(***************************************************************************)
\* Mutant: the entries are erased, so their Connections are freed at once.
KillFrees(p, victims, cs) ==
    /\ connections' = [connections EXCEPT ![p] = cs \ victims]
    /\ UNCHANGED dead_connections

Kill(p, victims, cs) ==
    /\ connections' = [connections EXCEPT ![p] = cs \ victims]
    /\ dead_connections' = [dead_connections EXCEPT ![p] = @ \cup victims]

\* Mutant: closing a socket does not wake up the coroutine.
AbortNothing(c) == io[c]

AbortedIo(c) == IF io[c] = "pending" THEN "error" ELSE io[c]

(***************************************************************************)
(* The end of ProcessRequests: ~cleanup calls Close(), which closes the    *)
(* socket and has the manager erase (and so free) the connection, looking  *)
(* in connections_ and then in dead_connections_.                          *)
(***************************************************************************)
\* Mutant: the dead list is not searched.
RemoveLiveOnly(c) ==
    LET p     == mgr[c]
        entry == Lookup(c, connections[p])
    IN  /\ connections' = [connections EXCEPT ![p] = @ \ entry]
        /\ expire' = [d \in Conn |-> IF d \in entry THEN 0 ELSE expire[d]]
        /\ idle' = [d \in Conn |-> IF d \in entry THEN 0 ELSE idle[d]]
        /\ answered' = [d \in Conn |-> answered[d] /\ d \notin entry]
        /\ UNCHANGED dead_connections

Remove(c) ==
    LET p       == mgr[c]
        entry   == Lookup(c, connections[p])
        corpse  == IF entry = {} THEN Lookup(c, dead_connections[p]) ELSE {}
    IN  /\ connections' = [connections EXCEPT ![p] = @ \ entry]
        /\ dead_connections' = [dead_connections EXCEPT ![p] = @ \ corpse]
        /\ expire' = [d \in Conn |-> IF d \in entry \cup corpse THEN 0 ELSE expire[d]]
        /\ idle' = [d \in Conn |-> IF d \in entry \cup corpse THEN 0 ELSE idle[d]]
        /\ answered' = [d \in Conn |-> answered[d] /\ d \notin entry \cup corpse]

EndSession(c) ==
    /\ is_open' = [is_open EXCEPT ![c] = FALSE]
    /\ pc' = [pc EXCEPT ![c] = "done"]
    /\ io' = [io EXCEPT ![c] = "none"]
    /\ close_on_reply' = [close_on_reply EXCEPT ![c] = FALSE]
    /\ Remove(c)
    /\ UNCHANGED <<backlog, next_key, mgr, timer>>

\* Suspend c in a socket operation.  An operation started on a socket that is
\* already closed completes at once with an error.
Suspend(c, where) ==
    /\ pc' = [pc EXCEPT ![c] = where]
    /\ io' = [io EXCEPT ![c] = IF is_open[c] THEN "pending" ELSE "error"]
    /\ UNCHANGED <<backlog, next_key, connections, dead_connections, mgr,
                   is_open, timer>>

\* The head of the loop "while(socket_.is_open())" with nothing buffered.
ReadMore(c) ==
    IF is_open[c]
    THEN Suspend(c, "reading") /\ UNCHANGED <<expire, close_on_reply, idle, answered>>
    ELSE EndSession(c)
-----------------------------------------------------------------------------
(***************************************************************************)
(* Accepting.  The acceptor hands the socket to any pipeline (the thread   *)
(* pool deals them out in turn) and dispatches OnNewConnection there.  An  *)
(* accept that fails only counts, which is no matter of this module; that  *)
(* remote_endpoint() can throw before the dispatch is left out.            *)
(***************************************************************************)
Accept(p) ==
    /\ backlog[p] < MaxBacklog
    /\ backlog' = [backlog EXCEPT ![p] = @ + 1]
    /\ UNCHANGED <<next_key, connections, dead_connections, mgr, expire,
                   is_open, pc, io, close_on_reply, timer, idle, answered>>

(***************************************************************************)
(* OnNewConnection: CreateConnection adds the new entry n and, when there  *)
(* are now too many, kills the oldest one; then the coroutine is spawned.  *)
(***************************************************************************)
\* Mutant: the limit is compared with the size before the entry is added.
CreateConnectionLate(p, n) ==
    LET cs == connections[p] \cup {n}
    IN  IF MaxConnections # 0 /\ Cardinality(connections[p]) > MaxConnections
        THEN \E oldest \in {c \in cs : \A d \in cs : c <= d} :
                /\ Kill(p, {oldest}, cs)
                /\ is_open' = [is_open EXCEPT ![n] = TRUE, ![oldest] = FALSE]
                /\ io' = [io EXCEPT ![oldest] = AbortedIo(oldest)]
        ELSE /\ Kill(p, {}, cs)
             /\ is_open' = [is_open EXCEPT ![n] = TRUE]
             /\ UNCHANGED io

CreateConnection(p, n) ==
    LET cs == connections[p] \cup {n}
    IN  IF MaxConnections # 0 /\ Cardinality(cs) > MaxConnections
        THEN \E oldest \in {c \in cs : \A d \in cs : c <= d} :
                /\ Kill(p, {oldest}, cs)
                /\ is_open' = [is_open EXCEPT ![n] = TRUE, ![oldest] = FALSE]
                /\ io' = [io EXCEPT ![oldest] = AbortedIo(oldest)]
        ELSE /\ Kill(p, {}, cs)
             /\ is_open' = [is_open EXCEPT ![n] = TRUE]
             /\ UNCHANGED io

OnNewConnection(p) ==
    /\ backlog[p] > 0
    /\ next_key < MaxAccepted
    /\ LET n == next_key + 1
       IN  /\ next_key' = n
           /\ backlog' = [backlog EXCEPT ![p] = @ - 1]
           /\ mgr' = [mgr EXCEPT ![n] = p]
           /\ expire' = [expire EXCEPT ![n] = InitialLifetime]
           /\ pc' = [pc EXCEPT ![n] = "spawned"]
           /\ CreateConnection(p, n)
           /\ UNCHANGED <<close_on_reply, timer, idle, answered>>

\* The coroutine starts and enters its loop.
StartSession(c) ==
    /\ pc[c] = "spawned"
    /\ ReadMore(c)
-----------------------------------------------------------------------------
(***************************************************************************)
(* The network.  The pending operation of a connection succeeds or fails.  *)
(***************************************************************************)
IoCompletes(c, result) ==
    /\ io[c] = "pending"
    /\ io' = [io EXCEPT ![c] = result]
    /\ UNCHANGED <<backlog, next_key, connections, dead_connections, mgr,
                   expire, is_open, pc, close_on_reply, timer, idle,
                   answered>>
-----------------------------------------------------------------------------
(***************************************************************************)
(* One turn of the loop with data in the buffer, by what becomes of the    *)
(* request.                                                                *)
(***************************************************************************)

\* Mutant: every packet prolongs the life of the connection.
RequestIncompleteProlongs(c) ==
    IF is_open[c]
    THEN /\ Suspend(c, "reading")
         /\ expire' = [expire EXCEPT ![c] = InitialLifetime]
         /\ UNCHANGED <<close_on_reply, idle, answered>>
    ELSE EndSession(c)

\* ParseResult::INCOMPLETE.
RequestIncomplete(c) == ReadMore(c)

\* ParseResult::BAD: write the 400.
RejectRequest(c) ==
    /\ Suspend(c, "rejecting")
    /\ UNCHANGED <<expire, close_on_reply, idle, answered>>

\* An exception from GetHost, or one that is not turned into a 404 or 405.
AbandonRequest(c) == EndSession(c)

\* ParseResult::OK: SetEndOfLife (only entries still in connections_ have one),
\* then write the reply, which says whether the connection ends with it.
AnswerRequest(c, close) ==
    LET entry == IF ConnectionTimeout = 0 THEN {}
                 ELSE Lookup(c, connections[mgr[c]])
    IN  /\ expire' = [d \in Conn |-> IF d \in entry THEN ConnectionTimeout
                                                     ELSE expire[d]]
        /\ idle' = [idle EXCEPT ![c] = 0]
        /\ answered' = [answered EXCEPT ![c] = TRUE]
        /\ close_on_reply' = [close_on_reply EXCEPT ![c] = close]
        /\ Suspend(c, "replying")

HandleRequest(c) ==
    \/ RequestIncomplete(c)
    \/ RejectRequest(c)
    \/ AbandonRequest(c)
    \/ \E close \in BOOLEAN : AnswerRequest(c, close)

\* async_read_some returns.
ResumeRead(c) ==
    /\ pc[c] = "reading"
    /\ \/ io[c] = "error" /\ EndSession(c)
       \/ io[c] = "ok" /\ HandleRequest(c)

\* The async_write of a reply returns.  If the connection goes on, the next
\* request is either in the buffer already or has to be read.
ResumeReply(c) ==
    /\ pc[c] = "replying"
    /\ \/ io[c] = "error" /\ EndSession(c)
       \/ /\ io[c] = "ok"
          /\ ~is_open[c] \/ close_on_reply[c]
          /\ EndSession(c)
       \/ /\ io[c] = "ok"
          /\ is_open[c] /\ ~close_on_reply[c]
          /\ ReadMore(c) \/ HandleRequest(c)

\* Mutant: a write that fails is tried again.
ResumeRejectRetries(c) ==
    /\ pc[c] = "rejecting"
    /\ \/ io[c] = "ok" /\ EndSession(c)
       \/ io[c] = "error" /\ RejectRequest(c)

\* The async_write of a 400 returns or throws; either way the socket is closed.
ResumeReject(c) ==
    /\ pc[c] = "rejecting"
    /\ io[c] \in {"ok", "error"}
    /\ EndSession(c)

Resume(c) == StartSession(c) \/ ResumeRead(c) \/ ResumeReply(c) \/ ResumeReject(c)
-----------------------------------------------------------------------------
(***************************************************************************)
(* The periodic task: kill the connections that expired, reschedule.  The  *)
(* expired keys are collected first and then looked up one by one.         *)
(***************************************************************************)
\* Mutant: the list is looked at only when it is over the limit.
ExpiredIfFull(p) ==
    {c \in connections[p] : Cardinality(connections[p]) > MaxConnections /\ expire[c] < 0}

\* Mutant: "expire <= now".
ExpiredEarly(p) == {c \in connections[p] : expire[c] <= 0}

Expired(p) == {c \in connections[p] : expire[c] < 0}

\* Mutant: the delay is given in milliseconds to a timer that counts seconds.
ScheduleInSeconds(p) == timer' = [timer EXCEPT ![p] = HousekeepingInterval * 1000]

ScheduleHttpHousekeeping(p) == timer' = [timer EXCEPT ![p] = HousekeepingInterval]

\* Mutant: the expired entries move to the dead list with their sockets open.
HousekeepingKeepsSockets(p) ==
    LET victims == UNION {Lookup(c, connections[p]) : c \in Expired(p)}
    IN  /\ timer[p] = 0
        /\ Kill(p, victims, connections[p])
        /\ ScheduleHttpHousekeeping(p)
        /\ UNCHANGED <<backlog, next_key, mgr, expire, is_open, pc, io,
                       close_on_reply, idle, answered>>

HttpHousekeeping(p) ==
    LET victims == UNION {Lookup(c, connections[p]) : c \in Expired(p)}
    IN  /\ timer[p] = 0
        /\ Kill(p, victims, connections[p])
        /\ is_open' = [c \in Conn |-> is_open[c] /\ c \notin victims]
        /\ io' = [c \in Conn |-> IF c \in victims THEN AbortedIo(c) ELSE io[c]]
        /\ ScheduleHttpHousekeeping(p)
        /\ UNCHANGED <<backlog, next_key, mgr, expire, pc, close_on_reply, idle,
                       answered>>

\* A second passes.
Listed == UNION {connections[p] \cup dead_connections[p] : p \in Pipelines}

Tick ==
    /\ expire' = [c \in Conn |-> IF c \in Listed /\ expire[c] >= 0
                                 THEN expire[c] - 1 ELSE expire[c]]
    /\ idle' = [c \in Conn |-> IF c \in Listed /\ idle[c] <= ConnectionTimeout
                               THEN idle[c] + 1 ELSE idle[c]]
    /\ timer' = [p \in Pipelines |-> IF timer[p] > 0 THEN timer[p] - 1 ELSE 0]
    /\ UNCHANGED <<backlog, next_key, connections, dead_connections, mgr,
                   is_open, pc, io, close_on_reply, answered>>

Next ==
    \/ \E p \in Pipelines : Accept(p) \/ OnNewConnection(p) \/ HttpHousekeeping(p)
    \/ \E c \in Conn : Resume(c) \/ \E r \in {"ok", "error"} : IoCompletes(c, r)
    \/ Tick

Spec == Init /\ [][Next]_vars

(***************************************************************************)
(* Fairness: an IO thread keeps running the handlers that are ready, and   *)
(* time passes.  Nothing is assumed of the clients.                        *)
(***************************************************************************)
Fairness ==
    /\ WF_vars(Tick)
    /\ \A p \in Pipelines : WF_vars(HttpHousekeeping(p))
    /\ \A c \in Conn : WF_vars(Resume(c))

FairSpec == Spec /\ Fairness
-----------------------------------------------------------------------------
(***************************************************************************)
(* Properties.                                                             *)
(***************************************************************************)

\* The Connection a coroutine works on exists until the coroutine has returned:
\* neither Kill nor the end of another session frees it (ProcessRequests keeps
\* using "this", its buffers and its socket after every suspension).
SessionOwnsConnection ==
    \A c \in Conn : pc[c] \in Active =>
        c \in connections[mgr[c]] \cup dead_connections[mgr[c]]

\* No entry outlives its session: when ProcessRequests has returned, Remove has
\* found the entry in one of the two lists, so nothing is leaked or killed twice.
\* It takes keys that fit the int parameter of Remove; UnremovedAreCut says what
\* is left of it without.
EntriesHaveSessions ==
    \A p \in Pipelines : \A c \in connections[p] \cup dead_connections[p] :
        pc[c] \in Active /\ mgr[c] = p

\* An entry whose session has ended is one that Remove could not name: whatever
\* the keys are, only a key that its int parameter cuts is ever leaked, and an
\* entry is always on the lists of its own manager.
UnremovedAreCut ==
    \A p \in Pipelines : \A c \in connections[p] \cup dead_connections[p] :
        mgr[c] = p /\ (pc[c] \in Active \/ LookupKey(c) # c)

\* A connection is in one of the two lists only, and the ones in the dead list
\* have lost their socket.
DeadAreClosed ==
    \A p \in Pipelines :
        /\ connections[p] \cap dead_connections[p] = {}
        /\ \A c \in dead_connections[p] : ~is_open[c]

\* "If exeeded, the oldest connection will be closed": a pipeline never serves
\* more than max_connections open sockets.
OpenSocketBound ==
    MaxConnections # 0 =>
        \A p \in Pipelines :
            Cardinality({c \in Conn : is_open[c] /\ mgr[c] = p}) <= MaxConnections

\* No lost wake-up: a coroutine whose socket was closed under it is not left
\* waiting for an operation that nothing will complete.
ClosedSocketWakes ==
    \A c \in Conn : pc[c] \in Waiting /\ ~is_open[c] => io[c] \in {"ok", "error"}

\* An answer keeps a connection alive: housekeeping drops no connection that
\* was answered at most connection_timeout seconds ago (SetEndOfLife moves the
\* deadline of the right entry, and to the right second, whatever other sessions,
\* the limit and the clock do meanwhile).
AnswerKeepsAlive ==
    [][\A p \in Pipelines : \A c \in connections[p] \cap dead_connections'[p] :
            next_key' = next_key /\ ConnectionTimeout # 0 /\ answered[c]
                => idle[c] > ConnectionTimeout]_vars

\* "Time in seconds before a connection times out": housekeeping drops no
\* connection that was created or answered at most connection_timeout seconds
\* ago.  The code gives a new connection three seconds, whatever the
\* configuration says: with the ten of the shipped http.conf this is violated.
NotDroppedEarly ==
    [][\A p \in Pipelines : \A c \in connections[p] \cap dead_connections'[p] :
            next_key' = next_key => idle[c] > ConnectionTimeout]_vars

\* A session that waits for a request ends the wait: a client that stays silent,
\* or that sends a request byte by byte, is dropped by the housekeeping.
StalledReadersEnd ==
    \A c \in Conn : pc[c] = "reading" ~> pc[c] \in {"replying", "rejecting", "done"}

\* No session waits for its client for ever, whatever it waits for (a client
\* that does not take the reply included).
NoEndlessWait ==
    \A c \in Conn : io[c] = "pending" ~> io[c] # "pending"

\* A killed connection is freed: its coroutine wakes up, returns and takes it
\* off the dead list.
DeadAreReclaimed ==
    \A c \in Conn : (\E p \in Pipelines : c \in dead_connections[p])
                        ~> (\A p \in Pipelines : c \notin dead_connections[p])
=============================================================================
