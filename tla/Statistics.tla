----------------------------- MODULE Statistics -----------------------------
(***************************************************************************)
(* The statistics of vUbercool.  Each IO thread counts in counters of its  *)
(* own (thd_http_stats_ and thd_stats_dns_, no locks), the housekeeping of *)
(* the HTTP and of the DNS daemon sends a copy to the StatisticsManager    *)
(* and resets them, and the manager adds the copies up in a task of        *)
(* pipeline 0, where GetStats reads the totals too.                        *)
(*                                                                         *)
(* Abstractions.  Of the counters that are only ever added to, those of    *)
(* the requests and "connections" stand for all.  The pipeline's task      *)
(* queue (warlib) is external: tasks run in the order they were queued,    *)
(* one at a time; a task that is dispatched by the pipeline's own thread   *)
(* may run at once.                                                        *)
(*                                                                         *)
(* A definition marked "Mutant" is a wrong version of the one below it: no *)
(* specification uses it; put in its place, it makes a property fail.      *)
(***************************************************************************)
EXTENDS Naturals, Sequences, Sums

CONSTANTS
    NumPipelines,   \* GetNumThreads(): the number of IO threads
    MaxEvents,      \* bound: how many events are counted
    MaxGets,        \* bound: how often GetStats is called
    MaxTasks        \* bound: tasks in the queue of pipeline 0

ASSUME StatisticsAssumption ==
    /\ NumPipelines \in Nat \ {0}
    /\ MaxEvents \in Nat /\ MaxGets \in Nat /\ MaxTasks \in Nat

\* The pipelines of the pool by their numbers, and the one for the manager's tasks.
Pipelines == 0 .. NumPipelines - 1
MainPipeline == 0

StatType == {"HTTP", "DNS"}

Counter == {"connections", "ok_requests", "failed_requests", "bad_requests",
            "timeout_dropped_connections", "overflow_dropped_connections"}

VARIABLES
    thd_stats,  \* per pipeline and type: the thread's counters
    tasks,      \* the queue of pipeline 0
    stats,      \* per type: stats_, the totals
    counted,    \* history, per type: every event that was ever counted
    reported,   \* per type: the totals a GetStats callback got last
    events,     \* how many events were counted, for MaxEvents
    gets        \* how often GetStats was called, for MaxGets

vars == <<thd_stats, tasks, stats, counted, reported, events, gets>>

Zero == [c \in Counter |-> 0]

Init ==
    /\ thd_stats = [p \in Pipelines |-> [t \in StatType |-> Zero]]
    /\ tasks = <<>>
    /\ stats = [t \in StatType |-> Zero]
    /\ counted = [t \in StatType |-> Zero]
    /\ reported = [t \in StatType |-> Zero]
    /\ events = 0
    /\ gets = 0

\* Mutant: the totals are replaced.
AddUpReplaces(total, v) == v

(***************************************************************************)
(* Statistics::operator +=, which adds timeout_dropped_connections to      *)
(* itself.                                                                 *)
(***************************************************************************)
AddUp(total, v) ==
    [c \in Counter |-> IF c = "timeout_dropped_connections" THEN total[c] + total[c]
                                                            ELSE total[c] + v[c]]

\* ~RequestStats: the counter for the outcome of a request, if any.
RequestCounter(state) ==
    CASE state = "SUCESS" -> {"ok_requests"}
      [] state = "IGNORE" -> {}
      [] state \in {"FAIL", "UNSET"} -> {"failed_requests"}
      [] state = "BAD" -> {"bad_requests"}

\* One event at pipeline p bumps these counters; history follows.
Bump(s, counters) == [c \in Counter |-> IF c \in counters THEN s[c] + 1 ELSE s[c]]

Count(p, t, counters) ==
    /\ events < MaxEvents
    /\ events' = events + 1
    /\ thd_stats' = [thd_stats EXCEPT ![p][t] = Bump(@, counters)]
    /\ counted' = [counted EXCEPT ![t] = Bump(@, counters)]
    /\ UNCHANGED <<tasks, stats, reported, gets>>

RequestDone(p, t, state) == Count(p, t, RequestCounter(state))

\* The acceptor counts a new connection.
AcceptConnection(p) == Count(p, "HTTP", {"connections"})

(***************************************************************************)
(* AddStat: v is copied into a task of pipeline 0.                         *)
(***************************************************************************)
AddStat(p, t, v) ==
    \/ /\ Len(tasks) < MaxTasks
       /\ tasks' = Append(tasks, [op |-> "add", type |-> t, value |-> v])
       /\ UNCHANGED stats
    \/ /\ p = MainPipeline
       /\ stats' = [stats EXCEPT ![t] = AddUp(@, v)]
       /\ UNCHANGED tasks

\* Mutant: the counters are reset before they are copied.
UpdateStatsTooLate(p, t, current) ==
    /\ AddStat(p, t, Zero)
    /\ thd_stats' = [thd_stats EXCEPT ![p][t] = Zero]

\* UpdateStats of either daemon, for the counters "current" of pipeline p.
UpdateStats(p, t, current) ==
    /\ AddStat(p, t, current)
    /\ thd_stats' = [thd_stats EXCEPT ![p][t] = Zero]

(***************************************************************************)
(* The housekeeping tasks.  RemoveExpieredConnections counts a connection  *)
(* it drops as a timeout, RemoveConnections counts it as an overflow.      *)
(***************************************************************************)
HttpHousekeeping(p, expired) ==
    LET dropped == IF expired THEN {"timeout_dropped_connections",
                                    "overflow_dropped_connections"} ELSE {}
    IN  /\ expired => events < MaxEvents
        /\ events' = IF expired THEN events + 1 ELSE events
        /\ counted' = [counted EXCEPT !["HTTP"] = Bump(@, dropped)]
        /\ UpdateStats(p, "HTTP", Bump(thd_stats[p]["HTTP"], dropped))
        /\ UNCHANGED <<reported, gets>>

\* Mutant: the DNS daemon only reschedules its housekeeping.
DnsHousekeepingIdle(p) == UNCHANGED vars

DnsHousekeeping(p) ==
    /\ UpdateStats(p, "DNS", thd_stats[p]["DNS"])
    /\ UNCHANGED <<counted, reported, events, gets>>

(***************************************************************************)
(* GetStats copies the totals in one task and calls back in another.       *)
(***************************************************************************)
GetStats(t) ==
    /\ gets < MaxGets
    /\ Len(tasks) < MaxTasks
    /\ gets' = gets + 1
    /\ tasks' = Append(tasks, [op |-> "fetch", type |-> t, value |-> Zero])
    /\ UNCHANGED <<thd_stats, stats, counted, reported, events>>

RunTask ==
    /\ tasks # <<>>
    /\ LET task == Head(tasks)
           t    == task.type
       IN  \/ /\ task.op = "add"
              /\ stats' = [stats EXCEPT ![t] = AddUp(@, task.value)]
              /\ tasks' = Tail(tasks)
              /\ UNCHANGED reported
           \/ /\ task.op = "fetch"
              /\ tasks' = Append(Tail(tasks), [op |-> "return", type |-> t,
                                               value |-> stats[t]])
              /\ UNCHANGED <<stats, reported>>
           \/ /\ task.op = "return"
              /\ reported' = [reported EXCEPT ![t] = task.value]
              /\ tasks' = Tail(tasks)
              /\ UNCHANGED stats
    /\ UNCHANGED <<thd_stats, counted, events, gets>>

Next ==
    \/ \E p \in Pipelines :
         \/ AcceptConnection(p)
         \/ \E t \in StatType, s \in {"SUCESS", "IGNORE", "FAIL", "UNSET", "BAD"} :
              RequestDone(p, t, s)
         \/ \E expired \in BOOLEAN : HttpHousekeeping(p, expired)
         \/ DnsHousekeeping(p)
    \/ \E t \in StatType : GetStats(t)
    \/ RunTask

Spec == Init /\ [][Next]_vars

(***************************************************************************)
(* Fairness: pipeline 0 runs its tasks, and the housekeeping timer of each *)
(* pipeline fires again and again.  (Strong fairness, because MaxTasks     *)
(* disables the housekeeping now and then where the code would go on.)     *)
(***************************************************************************)
Fairness ==
    /\ WF_vars(RunTask)
    /\ \A p \in Pipelines : SF_vars(HttpHousekeeping(p, FALSE)) /\ SF_vars(DnsHousekeeping(p))

FairSpec == Spec /\ Fairness
-----------------------------------------------------------------------------
(***************************************************************************)
(* Properties.                                                             *)
(***************************************************************************)

\* What is on its way to the totals: the threads' counters and the queued copies.
InThreads(counters, t, c) == SumTo([p \in Pipelines |-> counters[p][t][c]], NumPipelines)

InTask(task, t, c) == IF task.op = "add" /\ task.type = t THEN task.value[c] ELSE 0

InTasks(queue, t, c) ==
    SumTo([i \in 0 .. Len(queue) - 1 |-> InTask(queue[i + 1], t, c)], Len(queue))

OnItsWay(t, c) == InThreads(thd_stats, t, c) + InTasks(tasks, t, c)

\* Every event is counted once: it is in a thread's counters, in a copy that is
\* on its way to pipeline 0, or in the totals.  Copy and Reset in UpdateStats lose
\* nothing and add nothing twice.  Not so timeout_dropped_connections, whose total
\* stays 0: operator += adds that counter to itself.
Conserved ==
    \A t \in StatType : \A c \in Counter \ {"timeout_dropped_connections"} :
        counted[t][c] = stats[t][c] + OnItsWay(t, c)

\* A caller of GetStats never sees a total shrink.
ReportsGrow ==
    [][\A t \in StatType, c \in Counter : reported'[t][c] >= reported[t][c]]_vars

\* When no more happens, the totals catch up with what was counted.
TotalsCatchUp ==
    <>[](\A t \in StatType : \A c \in Counter \ {"timeout_dropped_connections"} :
             stats[t][c] = counted[t][c])
=============================================================================
