------------------------------- MODULE Daemon -------------------------------
(***************************************************************************)
(* The life of the process: main creates the parts one after the other     *)
(* while the IO threads already run what the parts give them to do, sleeps *)
(* until a signal, closes the thread pool and takes everything down.       *)
(*                                                                         *)
(* What the threads run holds references to the parts: the question is     *)
(* whether a part is there whenever something uses it.  A use of what is   *)
(* not there is recorded in "dangling" and has no other effect here; of    *)
(* what the threads do, the first such use is enough.                      *)
(*                                                                         *)
(* A handler is known by its kind: one in the set of a thread stands for   *)
(* all of its kind that are posted or suspended there.                     *)
(* The thread pool (warlib) is external: a pool that is closed lets its    *)
(* threads end between two handlers; its destructor closes it, waits for   *)
(* the threads and destroys what they have left.  Destroying a suspended   *)
(* coroutine unwinds it, on its own thread if that does it, and otherwise  *)
(* on the main thread (as the comment in ~cleanup reports).                *)
(*                                                                         *)
(* A definition marked "Mutant" is a wrong version of the one below it: no *)
(* specification uses it; put in its place, it makes a property fail.      *)
(***************************************************************************)
EXTENDS Naturals, Sequences

CONSTANTS
    Workers,        \* the threads of the pool
    FirstWorker,    \* the one of pipeline 0
    LogInterval     \* configuration.stats_update_seconds

ASSUME DaemonAssumption == FirstWorker \in Workers /\ LogInterval \in Nat

VARIABLES
    main,       \* what the main thread does next, see Startup
    alive,      \* the parts that exist
    failed,     \* an exception has ended the start
    closed,     \* the pool has been closed
    running,    \* the workers whose thread has not ended
    stuck,      \* those of them whose handler will never return
    handlers,   \* for each worker what is posted or suspended there
    dangling    \* uses of what is not there: [by, object]

vars == <<main, alive, failed, closed, running, stuck, handlers, dangling>>

Parts == {"pool", "stats", "vhosts", "http", "dns"}

\* Coroutines are named for where they are suspended.
Coroutines == {"accepting", "session_reading", "session_writing",
               "dns_receiving", "dns_sending"}
Tasks == {"log", "http_housekeeping", "dns_housekeeping", "add_stat",
          "new_connection", "dns_start"}
Kinds == Coroutines \cup Tasks

Init ==
    /\ main = "create_stats"
    /\ alive = {"pool"}
    /\ failed = FALSE
    /\ closed = FALSE
    /\ running = Workers
    /\ stuck = {}
    /\ handlers = [w \in Workers |-> {}]
    /\ dangling = {}

Give(work, w, kinds) == [work EXCEPT ![w] = @ \cup kinds]
GiveAll(work, kinds) == [w \in Workers |-> work[w] \cup kinds]
-----------------------------------------------------------------------------
(***************************************************************************)
(* main: the start.  Each step may throw instead.                          *)
(***************************************************************************)
Created(part, next) ==
    /\ alive' = alive \cup {part}
    /\ main' = next
    /\ UNCHANGED <<failed, closed, running, stuck, dangling>>

CreateStats ==
    /\ main = "create_stats"
    /\ handlers' = Give(handlers, FirstWorker, IF LogInterval > 0 THEN {"log"} ELSE {})
    /\ Created("stats", "create_vhosts")

CreateVhosts ==
    /\ main = "create_vhosts"
    /\ Created("vhosts", "create_http")
    /\ UNCHANGED handlers

\* Every ConnectionMgr schedules its housekeeping.
CreateHttp ==
    /\ main = "create_http"
    /\ handlers' = GiveAll(handlers, {"http_housekeeping"})
    /\ Created("http", "create_dns")

CreateDns ==
    /\ main = "create_dns"
    /\ Created("dns", "start_http")
    /\ UNCHANGED handlers

Spawned(kind, next) ==
    /\ \E w \in Workers : handlers' = Give(handlers, w, {kind})
    /\ main' = next
    /\ UNCHANGED <<alive, failed, closed, running, stuck, dangling>>

StartAcceptingAt == main = "start_http" /\ Spawned("accepting", "start_dns")

StartReceivingUdpAt == main = "start_dns" /\ Spawned("dns_start", "sleeping")

Startup == {"create_stats", "create_vhosts", "create_http", "create_dns",
            "start_http", "start_dns"}

\* A configuration file that cannot be read, a file that cannot be mapped, a name
\* that cannot be resolved.
StartFails ==
    /\ main \in Startup
    /\ main' = "leaving"
    /\ failed' = TRUE
    /\ UNCHANGED <<alive, closed, running, stuck, handlers, dangling>>

(***************************************************************************)
(* main: the end.  The parts go in the opposite order of their creation.   *)
(***************************************************************************)
\* Mutant: the handler of the signal only lets the main thread go on.
SignalOnly ==
    /\ main = "sleeping"
    /\ main' = "waiting"
    /\ UNCHANGED <<alive, failed, closed, running, stuck, handlers, dangling>>

Signal ==
    /\ main = "sleeping"
    /\ main' = "waiting"
    /\ closed' = TRUE
    /\ UNCHANGED <<alive, failed, running, stuck, handlers, dangling>>

\* Mutant: the main thread goes on while there are threads.
AllEndedUnchecked == TRUE

AllEnded == running = {}

WaitUntilClosed ==
    /\ main = "waiting"
    /\ AllEnded
    /\ main' = "leaving"
    /\ UNCHANGED <<alive, failed, closed, running, stuck, handlers, dangling>>

\* The part that is destroyed next, as a set.
LastCreated ==
    LET order == <<"dns", "http", "vhosts", "stats">>
    IN  {order[i] : i \in {i \in DOMAIN order :
            order[i] \in alive /\ \A j \in 1 .. i - 1 : order[j] \notin alive}}

DestroyPart ==
    /\ main = "leaving"
    /\ LastCreated # {}
    /\ alive' = alive \ LastCreated
    /\ UNCHANGED <<main, failed, closed, running, stuck, handlers, dangling>>

\* ~Threadpool
ClosePool ==
    /\ main = "leaving"
    /\ LastCreated = {}
    /\ closed' = TRUE
    /\ main' = "unwinding"
    /\ UNCHANGED <<alive, failed, running, stuck, handlers, dangling>>

Use(by, objects) == [by : {by}, object : objects]

\* Mutant: ~cleanup does not look at the thread it runs on.
CleanupAlways(kind, on) ==
    IF kind \in {"session_reading", "session_writing"} THEN {"http"} ELSE {}

\* ~cleanup closes the connection, which refers to its manager, if it runs on the
\* thread of the session and not on the main thread.
Cleanup(kind, on) ==
    IF kind \in {"session_reading", "session_writing"} /\ on = "worker" THEN {"http"} ELSE {}

\* What is left on a worker is destroyed, by the worker itself or by main.
Unwind(w, kind, on) ==
    /\ kind \in handlers[w]
    /\ handlers' = [handlers EXCEPT ![w] = @ \ {kind}]
    /\ dangling' = dangling \cup Use(on, Cleanup(kind, on) \ alive)
    /\ UNCHANGED <<main, alive, failed, closed, running, stuck>>

UnwindOnMain(w, kind) ==
    /\ main = "unwinding" /\ running = {}
    /\ Unwind(w, kind, "main")

Exit ==
    /\ main = "unwinding" /\ running = {}
    /\ \A w \in Workers : handlers[w] = {}
    /\ alive' = {}
    /\ main' = "exited"
    /\ UNCHANGED <<failed, closed, running, stuck, handlers, dangling>>

Main ==
    \/ CreateStats \/ CreateVhosts \/ CreateHttp \/ CreateDns
    \/ StartAcceptingAt \/ StartReceivingUdpAt \/ StartFails
    \/ WaitUntilClosed \/ DestroyPart \/ ClosePool
    \/ \E w \in Workers, kind \in Kinds : UnwindOnMain(w, kind)
    \/ Exit
-----------------------------------------------------------------------------
(***************************************************************************)
(* The workers.                                                            *)
(***************************************************************************)

\* The parts that a handler refers to.  GetManager, too, counts as a use: it
\* throws if there is no manager.
Uses(kind) ==
    CASE kind \in {"log", "add_stat"} -> {"stats"}
      [] kind = "http_housekeeping" -> {"http", "stats"}
      [] kind = "dns_housekeeping" -> {"dns", "stats"}
      [] kind = "accepting" -> {"http"}
      [] kind \in {"new_connection", "session_reading", "session_writing"} -> {"http", "vhosts"}
      [] kind \in {"dns_start", "dns_receiving", "dns_sending"} -> {"dns"}

\* What may be left of the handler and of what it starts on its own thread.
Becomes(kind) ==
    CASE kind = "add_stat" -> {{}}
      [] kind = "accepting" -> {{"accepting"}, {}}
      [] kind = "new_connection" -> {{"session_reading"}}
      [] kind = "session_reading" -> {{"session_reading"}, {"session_writing"}, {}}
      [] kind = "session_writing" -> {{"session_reading"}, {"session_writing"}, {}}
      [] kind = "dns_start" -> {{"dns_receiving", "dns_housekeeping"}, {}}
      [] kind = "dns_receiving" -> {{"dns_receiving"}, {"dns_sending"}, {}}
      [] kind = "dns_sending" -> {{"dns_receiving"}, {}}
      [] OTHER -> {{kind}}

\* What it gives to another thread: a connection to any, statistics to the first.
HandOver(kind) ==
    CASE kind = "accepting" -> {[to |-> w, kinds |-> {"new_connection"}] : w \in Workers}
      [] kind \in {"http_housekeeping", "dns_housekeeping"} ->
            {[to |-> FirstWorker, kinds |-> {"add_stat"}]}
      [] OTHER -> {[to |-> FirstWorker, kinds |-> {}]}

Touch(kind) ==
    dangling' = IF dangling = {} THEN Use("worker", Uses(kind) \ alive) ELSE dangling

Run(w, kind) ==
    /\ w \in running \ stuck
    /\ kind \in handlers[w]
    /\ \E left \in Becomes(kind), given \in HandOver(kind) :
        handlers' = Give([handlers EXCEPT ![w] = (@ \ {kind}) \cup left],
                         given.to, given.kinds)
    /\ Touch(kind)
    /\ UNCHANGED <<main, alive, failed, closed, running, stuck>>

\* A query about a name more than one level below its SOA: GetSoaZone loops for ever.
GetSoaZoneSpins(w) ==
    /\ w \in running \ stuck
    /\ "dns_receiving" \in handlers[w]
    /\ stuck' = stuck \cup {w}
    /\ handlers' = [handlers EXCEPT ![w] = @ \ {"dns_receiving"}]
    /\ Touch("dns_receiving")
    /\ UNCHANGED <<main, alive, failed, closed, running>>

UnwindOnWorker(w, kind) ==
    /\ closed
    /\ w \in running \ stuck
    /\ Unwind(w, kind, "worker")

WorkerEnds(w) ==
    /\ closed
    /\ w \in running \ stuck
    /\ running' = running \ {w}
    /\ UNCHANGED <<main, alive, failed, closed, stuck, handlers, dangling>>

Worker(w) ==
    \/ \E kind \in Kinds : Run(w, kind) \/ UnwindOnWorker(w, kind)
    \/ GetSoaZoneSpins(w)
    \/ WorkerEnds(w)

Next == Main \/ Signal \/ \E w \in Workers : Worker(w)

Spec == Init /\ [][Next]_vars

(***************************************************************************)
(* Fairness: the main thread goes on, and the threads of a closed pool     *)
(* end, unless a handler never returns.  The one that may not is that of a *)
(* DNS query; the others do a bounded amount of work between two           *)
(* suspensions (HttpSession, ConnectionMgr and Statistics have it as       *)
(* steps).  Nothing is assumed of signals, clients and timers.             *)
(***************************************************************************)
FairSpec == Spec /\ WF_vars(Main) /\ \A w \in Workers : WF_vars(WorkerEnds(w))
-----------------------------------------------------------------------------
(***************************************************************************)
(* Properties.                                                             *)
(***************************************************************************)

\* "the manager is initialized early and disposed late": whatever a worker runs or
\* unwinds, from the first task during the start to the last one before it ends,
\* the parts that it refers to exist, unless the start has failed; and what the
\* main thread unwinds refers to no part that is gone, in a failed start either
\* ("We therefore must check that we are executing under the correct thread").
ThreadsUseLiveParts ==
    \A use \in dangling : failed /\ use.by = "worker"

\* The process ends after a signal and after a failed start, unless a thread is lost
\* in GetSoaZone ("Then we simply shut down the the thread-pool and wait for the
\* threads in the thread-pool to finish").
ProcessEnds == main \in {"waiting", "leaving"} ~> main = "exited" \/ stuck # {}
=============================================================================
