-------------------------- MODULE StatisticsProofs --------------------------
(***************************************************************************)
(* Proofs about the statistics: for any number of IO threads and any queue *)
(* no event is lost or counted twice on its way to the totals, and what    *)
(* GetStats reports never shrinks.                                         *)
(***************************************************************************)
EXTENDS Statistics, SumTheorems

Stats == [Counter -> Nat]
Task == [op : {"add", "fetch", "return"}, type : StatType, value : Stats]

TypeOK ==
    /\ thd_stats \in [Pipelines -> [StatType -> Stats]]
    /\ tasks \in Seq(Task)
    /\ stats \in [StatType -> Stats]
    /\ counted \in [StatType -> Stats]
    /\ reported \in [StatType -> Stats]
    /\ events \in Nat
    /\ gets \in Nat

(***************************************************************************)
(* Why reports grow: a total that was copied for a callback waits in the   *)
(* queue while others are copied and more is added up.  The copies that    *)
(* wait are in order, none is below what was reported last, and none is    *)
(* above the totals.                                                       *)
(***************************************************************************)
Below(v, w) == \A c \in Counter : v[c] <= w[c]

IsReport(i, t) == tasks[i].op = "return" /\ tasks[i].type = t

ReportsInOrder ==
    \A t \in StatType :
        /\ Below(reported[t], stats[t])
        /\ \A i \in 1 .. Len(tasks) : IsReport(i, t) =>
              /\ Below(reported[t], tasks[i].value)
              /\ Below(tasks[i].value, stats[t])
        /\ \A i, j \in 1 .. Len(tasks) : i < j /\ IsReport(i, t) /\ IsReport(j, t) =>
              Below(tasks[i].value, tasks[j].value)

IInv ==
    /\ TypeOK
    /\ Conserved
    /\ ReportsInOrder

\* The counters that operator += adds up.
Summed == Counter \ {"timeout_dropped_connections"}

USE StatisticsAssumption
-----------------------------------------------------------------------------
(***************************************************************************)
(* Lemmas about the operators.                                             *)
(***************************************************************************)

\* operator += never makes a total smaller, and adds what it is given.
LEMMA AddUpType ==
    ASSUME NEW total \in Stats, NEW v \in Stats
    PROVE  /\ AddUp(total, v) \in Stats
           /\ Below(total, AddUp(total, v))
           /\ \A c \in Summed : AddUp(total, v)[c] = total[c] + v[c]
BY DEF AddUp, Stats, Below, Summed

\* An event adds one, or nothing, to a counter.
LEMMA BumpType ==
    ASSUME NEW s \in Stats, NEW counters
    PROVE  /\ Bump(s, counters) \in Stats
           /\ \A c \in Counter : Bump(s, counters)[c] = s[c] + (IF c \in counters THEN 1 ELSE 0)
BY DEF Bump, Stats

\* Counters that were reset.
LEMMA ZeroType ==
    Zero \in Stats /\ \A c \in Counter : Zero[c] = 0
BY DEF Zero, Stats

\* What the threads hold, when one of them gets the values v for a type.
ThreadSums(old, new, p, t, v) ==
    /\ new \in [Pipelines -> [StatType -> Stats]]
    /\ \A s \in StatType, c \in Counter :
        /\ InThreads(old, s, c) \in Nat /\ InThreads(new, s, c) \in Nat
        /\ s # t => InThreads(new, s, c) = InThreads(old, s, c)
    /\ \A c \in Counter : InThreads(new, t, c) + old[p][t][c] = InThreads(old, t, c) + v[c]

\* A change of one thread's counters changes their sums over the threads by as much.
LEMMA InThreadsUpdate ==
    ASSUME NEW old \in [Pipelines -> [StatType -> Stats]], NEW p \in Pipelines,
           NEW t \in StatType, NEW v \in Stats,
           NEW new, new = [old EXCEPT ![p][t] = v]
    PROVE  ThreadSums(old, new, p, t, v)
<1>1. new = [old EXCEPT ![p] = [old[p] EXCEPT ![t] = v]]
  OBVIOUS
<1>2. new \in [Pipelines -> [StatType -> Stats]]
  BY <1>1
<1>3. ASSUME NEW s \in StatType, NEW c \in Counter
      PROVE  /\ InThreads(old, s, c) \in Nat /\ InThreads(new, s, c) \in Nat
             /\ s # t => InThreads(new, s, c) = InThreads(old, s, c)
             /\ s = t => InThreads(new, s, c) + old[p][s][c] = InThreads(old, s, c) + v[c]
  <2> DEFINE f == [q \in Pipelines |-> old[q][s][c]]
             g == [q \in Pipelines |-> new[q][s][c]]
  <2>1. NumPipelines \in Nat /\ Pipelines = 0 .. NumPipelines - 1
    BY DEF Pipelines
  <2>2. \A q \in Pipelines : f[q] = old[q][s][c] /\ f[q] \in Nat /\ g[q] = new[q][s][c] /\ g[q] \in Nat
    BY <1>2 DEF Stats
  <2>3. \A q \in Pipelines : q # p \/ s # t => g[q] = f[q]
    BY <1>1, <2>2
  <2>4. s = t => g[p] = v[c]
    BY <1>1, <2>2
  <2>5. InThreads(old, s, c) = SumTo(f, NumPipelines) /\ InThreads(new, s, c) = SumTo(g, NumPipelines)
    BY DEF InThreads
  <2> HIDE DEF f, g
  <2>6. SumTo(f, NumPipelines) \in Nat /\ SumTo(g, NumPipelines) \in Nat
    BY <2>1, <2>2, SumStep
  <2>7. s # t => SumTo(g, NumPipelines) = SumTo(f, NumPipelines)
    BY <2>1, <2>2, <2>3, SumSame
  <2>8. s = t => SumTo(g, NumPipelines) + f[p] = SumTo(f, NumPipelines) + g[p]
    BY <2>1, <2>2, <2>3, SumUpdate, SMTT(30)
  <2> QED
    BY <2>2, <2>4, <2>5, <2>6, <2>7, <2>8
<1> QED
  BY <1>2, <1>3 DEF ThreadSums

\* What the queue holds, when a task is added at its end.
LEMMA InTasksAppend ==
    ASSUME NEW queue \in Seq(Task), NEW task \in Task, NEW t \in StatType, NEW c \in Counter
    PROVE  /\ InTasks(queue, t, c) \in Nat
           /\ InTask(task, t, c) \in Nat
           /\ InTasks(Append(queue, task), t, c) = InTasks(queue, t, c) + InTask(task, t, c)
<1> DEFINE n == Len(queue)
           more == Append(queue, task)
           f == [i \in 0 .. Len(queue) - 1 |-> InTask(queue[i + 1], t, c)]
           g == [i \in 0 .. Len(more) - 1 |-> InTask(more[i + 1], t, c)]
<1>1. \A x \in Task : InTask(x, t, c) \in Nat
  BY DEF InTask, Task, Stats
<1>2. n \in Nat /\ Len(more) = n + 1 /\ more[n + 1] = task
  OBVIOUS
<1>3. \A i \in 0 .. n - 1 : i + 1 \in 1 .. n /\ more[i + 1] = queue[i + 1] /\ queue[i + 1] \in Task
  BY <1>2
<1>4. \A i \in 0 .. n - 1 : f[i] \in Nat /\ g[i] = f[i]
  BY <1>1, <1>2, <1>3
<1>5. g[n] = InTask(task, t, c)
  BY <1>2
<1>6. InTasks(queue, t, c) = SumTo(f, n) /\ InTasks(more, t, c) = SumTo(g, n + 1)
  BY <1>2 DEF InTasks
<1> HIDE DEF f, g, n, more
<1>7. \A i \in 0 .. (n + 1) - 1 : g[i] \in Nat
  BY <1>1, <1>2, <1>4, <1>5
<1>8. n + 1 \in Nat /\ n + 1 \in 1 .. n + 1 /\ (n + 1) - 1 = n
  BY <1>2
<1>9. SumTo(g, n + 1) = SumTo(g, n) + g[n]
  BY <1>7, <1>8, SumStep
<1>10. SumTo(g, n) = SumTo(f, n) /\ SumTo(f, n) \in Nat
  BY <1>2, <1>4, SumSame, SumStep
<1> QED
  BY <1>1, <1>5, <1>6, <1>9, <1>10 DEF more

\* What is queued is a number of events.
LEMMA InTasksNat ==
    ASSUME NEW queue \in Seq(Task), NEW t \in StatType, NEW c \in Counter
    PROVE  InTasks(queue, t, c) \in Nat
<1>1. [op |-> "add", type |-> t, value |-> Zero] \in Task
  BY ZeroType DEF Task
<1> QED
  BY <1>1, InTasksAppend

\* What the queue holds, when its first task is taken off.
LEMMA InTasksTail ==
    ASSUME NEW queue \in Seq(Task), queue # <<>>, NEW t \in StatType, NEW c \in Counter
    PROVE  /\ InTasks(Tail(queue), t, c) \in Nat
           /\ InTask(Head(queue), t, c) \in Nat
           /\ InTasks(queue, t, c) = InTask(Head(queue), t, c) + InTasks(Tail(queue), t, c)
<1> DEFINE rest == Tail(queue)
           n == Len(rest)
           f == [i \in 0 .. Len(queue) - 1 |-> InTask(queue[i + 1], t, c)]
           g == [i \in 0 .. Len(rest) - 1 |-> InTask(rest[i + 1], t, c)]
<1>1. \A x \in Task : InTask(x, t, c) \in Nat
  BY DEF InTask, Task, Stats
<1>2. n \in Nat /\ Len(queue) = n + 1 /\ Head(queue) = queue[1]
  OBVIOUS
<1>3. \A i \in 1 .. n : rest[i] = queue[i + 1]
  OBVIOUS
<1>4. \A i \in 0 .. n : i + 1 \in 1 .. Len(queue) /\ queue[i + 1] \in Task
  BY <1>2
<1>5. \A i \in 0 .. n : f[i] = InTask(queue[i + 1], t, c) /\ f[i] \in Nat
  BY <1>1, <1>2, <1>4
<1>6. \A i \in 0 .. n - 1 : g[i] = f[i + 1]
  <2> TAKE i \in 0 .. n - 1
  <2>1. i + 1 \in 1 .. n /\ i + 1 \in 0 .. n /\ i \in 0 .. Len(rest) - 1
    BY <1>2
  <2> QED
    BY <1>3, <1>5, <2>1
<1>7. InTasks(queue, t, c) = SumTo(f, n + 1) /\ InTasks(rest, t, c) = SumTo(g, n)
  BY <1>2 DEF InTasks
<1>8. f[0] = InTask(Head(queue), t, c) /\ f[0] \in Nat
  <2>1. 0 \in 0 .. n /\ 0 + 1 = 1
    BY <1>2
  <2> QED
    BY <1>2, <1>5, <2>1
<1> HIDE DEF f, g, n, rest
<1>9. SumTo(f, n + 1) = f[0] + SumTo(g, n)
  BY <1>2, <1>5, <1>6, SumShift
<1>10. SumTo(g, n) \in Nat
  <2>1. \A i \in 0 .. n - 1 : g[i] \in Nat
    BY <1>2, <1>5, <1>6
  <2> QED
    BY <1>2, <2>1, SumStep
<1> QED
  BY <1>7, <1>8, <1>9, <1>10 DEF rest

\* Conserved, with the sum spelled out.
LEMMA ConservedSum ==
    Conserved <=> \A t \in StatType, c \in Summed :
                    counted[t][c] = stats[t][c] + (InThreads(thd_stats, t, c) + InTasks(tasks, t, c))
BY DEF Conserved, OnItsWay, Summed
-----------------------------------------------------------------------------
(***************************************************************************)
(* The actions preserve the invariant.                                     *)
(***************************************************************************)

\* Nothing is counted yet and nothing on its way.
LEMMA InitInv ==
    Init => IInv
<1> SUFFICES ASSUME Init PROVE IInv
  OBVIOUS
<1>1. TypeOK
  BY ZeroType DEF Init, TypeOK
<1>2. ASSUME NEW t \in StatType, NEW c \in Summed
      PROVE  counted[t][c] = stats[t][c] + (InThreads(thd_stats, t, c) + InTasks(tasks, t, c))
  <2> DEFINE f == [p \in Pipelines |-> thd_stats[p][t][c]]
             z == [p \in Pipelines |-> 0]
             Good == {n \in 0 .. NumPipelines : SumTo(f, n) = 0}
  <2>1. c \in Counter /\ counted[t][c] = 0 /\ stats[t][c] = 0
    BY ZeroType DEF Init, Summed
  <2>2. \A p \in 0 .. NumPipelines - 1 : f[p] = 0
    BY <2>1, ZeroType DEF Init, Pipelines
  <2>3. InThreads(thd_stats, t, c) = SumTo(f, NumPipelines)
    BY DEF InThreads
  <2> HIDE DEF f
  <2>4. /\ SumTo(f, 0) = 0
        /\ \A m \in 1 .. NumPipelines : SumTo(f, m) = SumTo(f, m - 1) + f[m - 1]
    BY <2>2, SumStep
  <2>5. 0 \in Good /\ \A m \in 1 .. NumPipelines : m - 1 \in Good => m \in Good
    BY <2>2, <2>4
  <2> HIDE DEF Good
  <2>6. NumPipelines \in Good
    BY <2>5, UpTo
  <2>7. InTasks(tasks, t, c) = 0
    <3> DEFINE g == [i \in 0 .. Len(tasks) - 1 |-> InTask(tasks[i + 1], t, c)]
    <3>1. Len(tasks) = 0
      BY DEF Init
    <3>2. InTasks(tasks, t, c) = SumTo(g, 0)
      BY <3>1 DEF InTasks
    <3> HIDE DEF g
    <3>3. 0 \in Nat /\ \A i \in 0 .. 0 - 1 : g[i] \in Nat
      OBVIOUS
    <3> QED
      BY <3>2, <3>3, SumStep
  <2> QED
    BY <2>1, <2>3, <2>6, <2>7 DEF Good
<1>3. ReportsInOrder
  BY ZeroType DEF Init, ReportsInOrder, Below
<1> QED
  BY <1>1, <1>2, <1>3, ConservedSum DEF IInv

\* An event is counted: in the thread's counters and in the history.
LEMMA CountInv ==
    ASSUME IInv, NEW p \in Pipelines, NEW t \in StatType, NEW counters, Count(p, t, counters)
    PROVE  IInv'
<1> USE DEF IInv
<1> DEFINE v == Bump(thd_stats[p][t], counters)
<1>1. /\ thd_stats[p][t] \in Stats /\ v \in Stats
      /\ \A c \in Counter : v[c] = thd_stats[p][t][c] + (IF c \in counters THEN 1 ELSE 0)
  BY BumpType DEF TypeOK
<1>2. /\ thd_stats' = [thd_stats EXCEPT ![p][t] = v]
      /\ UNCHANGED <<tasks, stats, reported, gets>> /\ events' = events + 1
  BY DEF Count
<1>3. /\ counted' \in [StatType -> Stats]
      /\ \A s \in StatType : s # t => counted'[s] = counted[s]
      /\ \A c \in Counter : counted'[t][c] = counted[t][c] + (IF c \in counters THEN 1 ELSE 0)
  BY BumpType DEF Count, TypeOK
<1> HIDE DEF v
<1>4. ThreadSums(thd_stats, thd_stats', p, t, v)
  BY <1>1, <1>2, InThreadsUpdate DEF TypeOK
<1>5. TypeOK'
  BY <1>2, <1>3, <1>4 DEF TypeOK, ThreadSums
<1>6. ASSUME NEW s \in StatType, NEW c \in Summed
      PROVE  counted'[s][c] = stats'[s][c] + (InThreads(thd_stats', s, c) + InTasks(tasks', s, c))
  <2>1. /\ c \in Counter
        /\ counted[s][c] = stats[s][c] + (InThreads(thd_stats, s, c) + InTasks(tasks, s, c))
    BY ConservedSum DEF Summed
  <2>2. /\ InTasks(tasks, s, c) \in Nat /\ stats[s][c] \in Nat /\ counted[s][c] \in Nat
        /\ thd_stats[p][t][c] \in Nat
    BY <2>1, InTasksNat DEF TypeOK, Stats
  <2>3. InThreads(thd_stats, s, c) \in Nat /\ InThreads(thd_stats', s, c) \in Nat
    BY <1>4, <2>1 DEF ThreadSums
  <2>4. CASE s = t
    <3>1. InThreads(thd_stats', s, c) = InThreads(thd_stats, s, c) + (IF c \in counters THEN 1 ELSE 0)
      BY <1>1, <1>4, <2>1, <2>2, <2>3, <2>4 DEF ThreadSums
    <3> QED
      BY <1>2, <1>3, <2>1, <2>2, <2>3, <2>4, <3>1
  <2>5. CASE s # t
    BY <1>2, <1>3, <1>4, <2>1, <2>5 DEF ThreadSums
  <2> QED
    BY <2>4, <2>5
<1>7. Conserved'
  BY <1>6 DEF Conserved, OnItsWay, Summed
<1>8. ReportsInOrder'
  BY <1>2 DEF ReportsInOrder, IsReport
<1> QED
  BY <1>5, <1>7, <1>8

\* The order of the reports is kept when the totals grow and when a task that is no
\* report is queued.
LEMMA OrderKept ==
    ASSUME TypeOK, TypeOK', ReportsInOrder, reported' = reported,
           \A t \in StatType : Below(stats[t], stats'[t]),
           \/ tasks' = tasks
           \/ \E task \in Task : task.op # "return" /\ tasks' = Append(tasks, task)
    PROVE  ReportsInOrder'
<1>1. \A t \in StatType, i \in 1 .. Len(tasks') : IsReport(i, t)' =>
            i \in 1 .. Len(tasks) /\ tasks'[i] = tasks[i] /\ IsReport(i, t)
  BY DEF TypeOK, IsReport
<1> SUFFICES ASSUME NEW t \in StatType
             PROVE  /\ Below(reported'[t], stats'[t])
                    /\ \A i \in 1 .. Len(tasks') : IsReport(i, t)' =>
                          /\ Below(reported'[t], tasks'[i].value)
                          /\ Below(tasks'[i].value, stats'[t])
                    /\ \A i, j \in 1 .. Len(tasks') : i < j /\ IsReport(i, t)' /\ IsReport(j, t)' =>
                          Below(tasks'[i].value, tasks'[j].value)
  BY DEF ReportsInOrder, Below, IsReport
<1>2. /\ stats[t] \in Stats /\ stats'[t] \in Stats /\ reported[t] \in Stats
      /\ \A i \in 1 .. Len(tasks) : tasks[i].value \in Stats
  <2>1. /\ stats[t] \in Stats /\ stats'[t] \in Stats /\ reported[t] \in Stats
        /\ \A i \in 1 .. Len(tasks) : tasks[i] \in Task
    BY DEF TypeOK
  <2> QED
    BY <2>1 DEF Task
<1>3. ASSUME NEW v \in Stats, Below(v, stats[t]) PROVE Below(v, stats'[t])
  BY <1>2, <1>3 DEF Below, Stats
<1> QED
  BY <1>1, <1>2, <1>3 DEF ReportsInOrder

\* The counters of a thread are copied and reset: what they held is on its way in the
\* queue, or in the totals.  "counted" may count some more that the copy has, too.
LEMMA UpdateStatsInv ==
    ASSUME IInv, NEW p \in Pipelines, NEW t \in StatType, NEW current \in Stats,
           UpdateStats(p, t, current),
           counted' \in [StatType -> Stats],
           \A s \in StatType : s # t => counted'[s] = counted[s],
           \A c \in Counter : counted'[t][c] + thd_stats[p][t][c] = counted[t][c] + current[c],
           UNCHANGED <<reported, gets>>, events' \in Nat
    PROVE  IInv'
<1> USE DEF IInv
<1> DEFINE task == [op |-> "add", type |-> t, value |-> current]
<1>1. task \in Task /\ task.op = "add" /\ task.type = t /\ task.value = current
  BY DEF Task
<1>2. ThreadSums(thd_stats, thd_stats', p, t, Zero)
  BY ZeroType, InThreadsUpdate DEF UpdateStats, TypeOK
<1>3. \/ tasks' = Append(tasks, task) /\ stats' = stats
      \/ tasks' = tasks /\ stats' = [stats EXCEPT ![t] = AddUp(stats[t], current)]
  BY DEF UpdateStats, AddStat
<1> HIDE DEF task
<1>4. /\ stats' \in [StatType -> Stats]
      /\ \A s \in StatType : Below(stats[s], stats'[s])
      /\ \A s \in StatType : s # t => stats'[s] = stats[s]
  <2>1. \A v \in Stats : Below(v, v)
    BY DEF Below, Stats
  <2>2. stats \in [StatType -> Stats] /\ stats[t] \in Stats
    BY DEF TypeOK
  <2>3. AddUp(stats[t], current) \in Stats /\ Below(stats[t], AddUp(stats[t], current))
    BY <2>2, AddUpType
  <2> QED
    BY <1>3, <2>1, <2>2, <2>3
<1>5. tasks' \in Seq(Task)
  <2>1. tasks \in Seq(Task)
    BY DEF TypeOK
  <2> QED
    BY <1>1, <1>3, <2>1
<1>6. TypeOK'
  BY <1>2, <1>4, <1>5 DEF TypeOK, ThreadSums
<1>7. ReportsInOrder'
  BY <1>1, <1>3, <1>4, <1>6, OrderKept
<1>8. ASSUME NEW s \in StatType, NEW c \in Summed
      PROVE  counted'[s][c] = stats'[s][c] + (InThreads(thd_stats', s, c) + InTasks(tasks', s, c))
  <2>1. /\ c \in Counter
        /\ counted[s][c] = stats[s][c] + (InThreads(thd_stats, s, c) + InTasks(tasks, s, c))
    BY ConservedSum DEF Summed
  <2>2. /\ InTasks(tasks, s, c) \in Nat /\ stats[s][c] \in Nat /\ stats'[s][c] \in Nat
        /\ counted[s][c] \in Nat /\ counted'[s][c] \in Nat /\ current[c] \in Nat
        /\ thd_stats[p][t][c] \in Nat
    BY <1>4, <2>1, InTasksNat DEF TypeOK, Stats
  <2>3. /\ InThreads(thd_stats, s, c) \in Nat /\ InThreads(thd_stats', s, c) \in Nat
        /\ s # t => InThreads(thd_stats', s, c) = InThreads(thd_stats, s, c)
        /\ s = t => InThreads(thd_stats', s, c) + thd_stats[p][t][c] = InThreads(thd_stats, s, c)
    BY <1>2, <2>1, <2>2, ZeroType DEF ThreadSums
  <2>4. stats'[s][c] + InTasks(tasks', s, c)
            = stats[s][c] + InTasks(tasks, s, c) + (IF s = t THEN current[c] ELSE 0)
    <3>1. CASE tasks' = Append(tasks, task) /\ stats' = stats
      <4>1. InTasks(tasks', s, c) = InTasks(tasks, s, c) + InTask(task, s, c)
        BY <1>1, <2>1, <3>1, InTasksAppend DEF TypeOK
      <4>2. InTask(task, s, c) = IF s = t THEN current[c] ELSE 0
        BY <1>1 DEF InTask
      <4> QED
        BY <2>2, <3>1, <4>1, <4>2
    <3>2. CASE tasks' = tasks /\ stats' = [stats EXCEPT ![t] = AddUp(stats[t], current)]
      <4>1. stats'[s][c] = stats[s][c] + (IF s = t THEN current[c] ELSE 0)
        BY <2>2, <3>2, AddUpType DEF TypeOK
      <4> QED
        BY <2>2, <3>2, <4>1
    <3> QED
      BY <1>3, <3>1, <3>2
  <2>5. InTasks(tasks', s, c) \in Nat
    BY <1>5, <2>1, InTasksNat
  <2>6. CASE s = t
    <3>1. counted'[s][c] + thd_stats[p][t][c] = counted[s][c] + current[c]
      BY <2>1, <2>6
    <3> QED
      BY <2>1, <2>2, <2>3, <2>4, <2>5, <2>6, <3>1
  <2>7. CASE s # t
    BY <2>1, <2>2, <2>3, <2>4, <2>5, <2>7
  <2> QED
    BY <2>6, <2>7
<1>9. Conserved'
  BY <1>8 DEF Conserved, OnItsWay, Summed
<1> QED
  BY <1>6, <1>7, <1>9

\* The housekeeping of both daemons.
LEMMA HousekeepingInv ==
    ASSUME IInv, NEW p \in Pipelines,
           (\E expired \in BOOLEAN : HttpHousekeeping(p, expired)) \/ DnsHousekeeping(p)
    PROVE  IInv'
<1> USE DEF IInv
<1>1. CASE DnsHousekeeping(p)
  <2> DEFINE current == thd_stats[p]["DNS"]
  <2>1. "DNS" \in StatType /\ current \in Stats
    BY DEF TypeOK, StatType
  <2>2. UpdateStats(p, "DNS", current) /\ UNCHANGED <<counted, reported, events, gets>>
    BY <1>1 DEF DnsHousekeeping
  <2> QED
    BY <2>1, <2>2, UpdateStatsInv DEF TypeOK
<1>2. ASSUME NEW expired \in BOOLEAN, HttpHousekeeping(p, expired) PROVE IInv'
  <2> DEFINE dropped == IF expired THEN {"timeout_dropped_connections",
                                         "overflow_dropped_connections"} ELSE {}
             current == Bump(thd_stats[p]["HTTP"], dropped)
  <2>1. /\ "HTTP" \in StatType /\ thd_stats[p]["HTTP"] \in Stats
    BY DEF TypeOK, StatType
  <2>2. /\ UpdateStats(p, "HTTP", current) /\ UNCHANGED <<reported, gets>>
        /\ counted' = [counted EXCEPT !["HTTP"] = Bump(counted["HTTP"], dropped)]
    BY <1>2 DEF HttpHousekeeping
  <2>3. events' \in Nat
    BY <1>2 DEF HttpHousekeeping, TypeOK
  <2> HIDE DEF dropped
  <2>4. /\ current \in Stats
        /\ \A c \in Counter : current[c] = thd_stats[p]["HTTP"][c] + (IF c \in dropped THEN 1 ELSE 0)
    BY <2>1, BumpType
  <2> HIDE DEF current
  <2>5. /\ counted["HTTP"] \in Stats
        /\ Bump(counted["HTTP"], dropped) \in Stats
        /\ \A c \in Counter : Bump(counted["HTTP"], dropped)[c]
                                = counted["HTTP"][c] + (IF c \in dropped THEN 1 ELSE 0)
    BY <2>1, BumpType DEF TypeOK
  <2>6. /\ counted' \in [StatType -> Stats]
        /\ \A s \in StatType : s # "HTTP" => counted'[s] = counted[s]
        /\ counted'["HTTP"] = Bump(counted["HTTP"], dropped)
    BY <2>1, <2>2, <2>5 DEF TypeOK
  <2>7. \A c \in Counter : counted'["HTTP"][c] + thd_stats[p]["HTTP"][c]
                                = counted["HTTP"][c] + current[c]
    BY <2>1, <2>4, <2>5, <2>6, SMTT(30) DEF Stats
  <2> QED
    BY <2>1, <2>2, <2>3, <2>4, <2>6, <2>7, UpdateStatsInv
<1> QED
  BY <1>1, <1>2

\* A call of GetStats only queues a task.
LEMMA GetStatsInv ==
    ASSUME IInv, NEW t \in StatType, GetStats(t)
    PROVE  IInv'
<1> USE DEF IInv
<1> DEFINE task == [op |-> "fetch", type |-> t, value |-> Zero]
<1>1. task \in Task /\ task.op = "fetch"
  BY ZeroType DEF Task
<1>2. tasks' = Append(tasks, task) /\ UNCHANGED <<thd_stats, stats, counted, reported, events>>
      /\ gets' = gets + 1
  BY DEF GetStats
<1> HIDE DEF task
<1>3. TypeOK'
  <2>1. tasks' \in Seq(Task)
    BY <1>1, <1>2 DEF TypeOK
  <2> QED
    BY <1>2, <2>1 DEF TypeOK
<1>4. ReportsInOrder'
  <2>1. \A s \in StatType : Below(stats[s], stats'[s])
    BY <1>2 DEF TypeOK, Below, Stats
  <2> QED
    BY <1>1, <1>2, <1>3, <2>1, OrderKept
<1>5. ASSUME NEW s \in StatType, NEW c \in Summed
      PROVE  InTasks(tasks', s, c) = InTasks(tasks, s, c)
  <2>1. c \in Counter /\ InTask(task, s, c) = 0
    BY <1>1 DEF Summed, InTask
  <2> QED
    BY <1>1, <1>2, <2>1, InTasksAppend DEF TypeOK
<1>6. Conserved'
  BY <1>2, <1>5 DEF Conserved, OnItsWay, Summed
<1> QED
  BY <1>3, <1>4, <1>6

\* The order of the reports when the first task is taken off the queue: the new
\* reports are the old ones, moved by one, and perhaps a copy of the totals at the end.
LEMMA OrderShifted ==
    ASSUME TypeOK, TypeOK', ReportsInOrder, tasks # <<>>,
           \A t \in StatType : Below(stats[t], stats'[t]),
           \A t \in StatType : \/ reported'[t] = reported[t]
                               \/ IsReport(1, t) /\ reported'[t] = tasks[1].value,
           \/ tasks' = Tail(tasks)
           \/ /\ \E t \in StatType :
                    tasks' = Append(Tail(tasks), [op |-> "return", type |-> t, value |-> stats[t]])
              /\ stats' = stats /\ reported' = reported
    PROVE  ReportsInOrder'
<1> DEFINE n == Len(tasks) - 1
<1>1. /\ tasks \in Seq(Task) /\ n \in Nat /\ Len(tasks) = n + 1
      /\ Len(Tail(tasks)) = n /\ Tail(tasks) \in Seq(Task)
      /\ \A i \in 1 .. n : Tail(tasks)[i] = tasks[i + 1]
  BY DEF TypeOK
<1> HIDE DEF n
<1>2. /\ \A i \in 1 .. n : i \in 1 .. Len(tasks') /\ tasks'[i] = tasks[i + 1] /\ i + 1 \in 1 .. Len(tasks)
      /\ \A i \in 1 .. Len(tasks') : i \notin 1 .. n =>
            /\ i = n + 1 /\ stats' = stats /\ reported' = reported
            /\ \E t \in StatType : tasks'[i] = [op |-> "return", type |-> t, value |-> stats[t]]
  <2>1. CASE tasks' = Tail(tasks)
    BY <1>1, <2>1
  <2>2. ASSUME NEW t \in StatType, NEW report,
               report = [op |-> "return", type |-> t, value |-> stats[t]],
               tasks' = Append(Tail(tasks), report), stats' = stats /\ reported' = reported
        PROVE  <1>2
    <3>1. report \in Task
      BY <2>2 DEF Task, TypeOK
    <3>2. /\ Len(tasks') = n + 1 /\ tasks'[n + 1] = report
          /\ \A i \in 1 .. n : tasks'[i] = Tail(tasks)[i]
      BY <1>1, <2>2, <3>1
    <3> QED
      BY <1>1, <2>2, <3>2
  <2> QED
    BY <2>1, <2>2
<1> SUFFICES ASSUME NEW t \in StatType
             PROVE  /\ Below(reported'[t], stats'[t])
                    /\ \A i \in 1 .. Len(tasks') : IsReport(i, t)' =>
                          /\ Below(reported'[t], tasks'[i].value)
                          /\ Below(tasks'[i].value, stats'[t])
                    /\ \A i, j \in 1 .. Len(tasks') : i < j /\ IsReport(i, t)' /\ IsReport(j, t)' =>
                          Below(tasks'[i].value, tasks'[j].value)
  BY DEF ReportsInOrder, Below, IsReport
<1>4. /\ stats[t] \in Stats /\ stats'[t] \in Stats /\ reported[t] \in Stats
      /\ \A i \in 1 .. Len(tasks) : tasks[i].value \in Stats
  <2>1. /\ stats[t] \in Stats /\ stats'[t] \in Stats /\ reported[t] \in Stats
        /\ \A i \in 1 .. Len(tasks) : tasks[i] \in Task
    BY DEF TypeOK
  <2> QED
    BY <2>1 DEF Task
<1>5. ASSUME NEW v \in Stats, Below(v, stats[t]) PROVE Below(v, stats'[t])
  BY <1>4, <1>5 DEF Below, Stats
<1>6. Below(stats[t], stats[t])
  BY <1>4 DEF Below, Stats
<1>7. ASSUME NEW i \in 1 .. n, IsReport(i, t)'
      PROVE  /\ IsReport(i + 1, t)
             /\ Below(reported'[t], tasks'[i].value)
             /\ Below(tasks'[i].value, stats[t]) /\ Below(tasks'[i].value, stats'[t])
  <2>1. /\ tasks'[i] = tasks[i + 1] /\ i + 1 \in 1 .. Len(tasks) /\ IsReport(i + 1, t)
        /\ 1 \in 1 .. Len(tasks) /\ 1 < i + 1
    BY <1>1, <1>2, <1>7 DEF IsReport
  <2>2. /\ Below(tasks[i + 1].value, stats[t]) /\ Below(reported[t], tasks[i + 1].value)
        /\ IsReport(1, t) => Below(tasks[1].value, tasks[i + 1].value)
    BY <2>1 DEF ReportsInOrder
  <2>3. Below(reported'[t], tasks[i + 1].value)
    BY <2>2
  <2> QED
    BY <1>4, <1>5, <2>1, <2>2, <2>3
<1>8. ASSUME NEW i \in 1 .. Len(tasks'), i \notin 1 .. n, IsReport(i, t)'
      PROVE  i = n + 1 /\ tasks'[i].value = stats[t] /\ stats'[t] = stats[t] /\ reported'[t] = reported[t]
  <2>1. PICK s \in StatType : tasks'[i] = [op |-> "return", type |-> s, value |-> stats[s]]
    BY <1>2, <1>8
  <2>2. s = t
    BY <1>8, <2>1 DEF IsReport
  <2> QED
    BY <1>2, <1>8, <2>1, <2>2
<1>9. Below(reported'[t], stats'[t])
  <2>1. Below(reported[t], stats[t])
    BY DEF ReportsInOrder
  <2>2. IsReport(1, t) => Below(tasks[1].value, stats[t])
    BY <1>1 DEF ReportsInOrder
  <2>3. 1 \in 1 .. Len(tasks)
    BY <1>1
  <2> QED
    BY <1>4, <1>5, <2>1, <2>2, <2>3
<1>10. ASSUME NEW i \in 1 .. Len(tasks'), IsReport(i, t)'
       PROVE  Below(reported'[t], tasks'[i].value) /\ Below(tasks'[i].value, stats'[t])
  <2>1. CASE i \in 1 .. n
    BY <1>7, <1>10, <2>1
  <2>2. CASE i \notin 1 .. n
    <3>1. tasks'[i].value = stats[t] /\ stats'[t] = stats[t] /\ reported'[t] = reported[t]
      BY <1>8, <1>10, <2>2
    <3> QED
      BY <1>6, <1>9, <3>1
  <2> QED
    BY <2>1, <2>2
<1>11. ASSUME NEW i \in 1 .. Len(tasks'), NEW j \in 1 .. Len(tasks'), i < j,
              IsReport(i, t)', IsReport(j, t)'
       PROVE  Below(tasks'[i].value, tasks'[j].value)
  <2>1. i \in 1 .. n
    BY <1>1, <1>2, <1>11
  <2>2. CASE j \in 1 .. n
    <3>1. IsReport(i + 1, t) /\ IsReport(j + 1, t)
      BY <1>7, <1>11, <2>1, <2>2
    <3>2. /\ i + 1 \in 1 .. Len(tasks) /\ j + 1 \in 1 .. Len(tasks) /\ i + 1 < j + 1
          /\ tasks'[i] = tasks[i + 1] /\ tasks'[j] = tasks[j + 1]
      BY <1>1, <1>2, <1>11, <2>1, <2>2
    <3>3. Below(tasks[i + 1].value, tasks[j + 1].value)
      BY <3>1, <3>2 DEF ReportsInOrder
    <3> QED
      BY <3>2, <3>3
  <2>3. CASE j \notin 1 .. n
    <3>1. tasks'[j].value = stats[t]
      BY <1>8, <1>11, <2>3
    <3> QED
      BY <1>7, <1>11, <2>1, <3>1
  <2> QED
    BY <2>2, <2>3
<1> QED
  BY <1>9, <1>10, <1>11

\* Pipeline 0 runs a task.
LEMMA RunTaskInv ==
    ASSUME IInv, RunTask
    PROVE  IInv' /\ \A t \in StatType : Below(reported[t], reported'[t])
<1> USE DEF IInv
<1> DEFINE task == Head(tasks)
           t == task.type
<1>1. /\ tasks # <<>> /\ tasks \in Seq(Task) /\ Tail(tasks) \in Seq(Task)
      /\ task = tasks[1] /\ 1 \in 1 .. Len(tasks) /\ task \in Task
      /\ UNCHANGED <<thd_stats, counted, events, gets>>
  BY DEF RunTask, TypeOK
<1>2. t \in StatType /\ task.value \in Stats /\ stats[t] \in Stats
  BY <1>1 DEF Task, TypeOK
<1>3. \A v \in Stats : Below(v, v)
  BY DEF Below, Stats
<1>4. \A s \in StatType : stats[s] \in Stats /\ reported[s] \in Stats
  BY DEF TypeOK
<1>5. ASSUME NEW s \in StatType, NEW c \in Summed
      PROVE  /\ c \in Counter
             /\ counted[s][c] = stats[s][c] + (InThreads(thd_stats, s, c) + InTasks(tasks, s, c))
             /\ InTasks(tasks, s, c) = InTask(task, s, c) + InTasks(Tail(tasks), s, c)
             /\ InTask(task, s, c) \in Nat /\ InTasks(Tail(tasks), s, c) \in Nat
             /\ InThreads(thd_stats, s, c) \in Nat
             /\ stats[s][c] \in Nat
  <2>1. c \in Counter
    BY DEF Summed
  <2>2. counted[s][c] = stats[s][c] + (InThreads(thd_stats, s, c) + InTasks(tasks, s, c))
    BY ConservedSum
  <2>3. /\ InTasks(tasks, s, c) = InTask(task, s, c) + InTasks(Tail(tasks), s, c)
        /\ InTask(task, s, c) \in Nat /\ InTasks(Tail(tasks), s, c) \in Nat
    BY <1>1, <2>1, InTasksTail
  <2>4. stats[s][c] \in Nat
    BY <1>4, <2>1 DEF Stats
  <2>5. InThreads(thd_stats, s, c) \in Nat
    <3>1. 0 \in Pipelines /\ thd_stats[0][s] \in Stats /\ thd_stats = [thd_stats EXCEPT ![0][s] = thd_stats[0][s]]
      BY DEF Pipelines, TypeOK
    <3>2. ThreadSums(thd_stats, thd_stats, 0, s, thd_stats[0][s])
      BY <3>1, InThreadsUpdate DEF TypeOK
    <3> QED
      BY <2>1, <3>2 DEF ThreadSums
  <2> QED
    BY <2>1, <2>2, <2>3, <2>4, <2>5
<1> HIDE DEF task
<1>6. CASE task.op = "add"
  <2>1. /\ stats' = [stats EXCEPT ![t] = AddUp(stats[t], task.value)]
        /\ tasks' = Tail(tasks) /\ reported' = reported
    BY <1>6 DEF RunTask, task
  <2>2. /\ AddUp(stats[t], task.value) \in Stats /\ Below(stats[t], AddUp(stats[t], task.value))
        /\ \A c \in Summed : AddUp(stats[t], task.value)[c] = stats[t][c] + task.value[c]
    BY <1>2, AddUpType
  <2>3. stats' \in [StatType -> Stats] /\ \A s \in StatType : Below(stats[s], stats'[s])
    BY <1>2, <1>3, <1>4, <2>1, <2>2 DEF TypeOK
  <2>4. TypeOK'
    BY <1>1, <2>1, <2>3 DEF TypeOK
  <2>5. ReportsInOrder'
    BY <1>1, <2>1, <2>3, <2>4, OrderShifted
  <2>6. ASSUME NEW s \in StatType, NEW c \in Summed
        PROVE  counted'[s][c] = stats'[s][c] + (InThreads(thd_stats', s, c) + InTasks(tasks', s, c))
    <3>1. stats'[s][c] = stats[s][c] + InTask(task, s, c)
      <4>1. CASE s = t
        BY <1>2, <1>6, <2>1, <2>2, <4>1 DEF InTask, TypeOK
      <4>2. CASE s # t
        BY <1>5, <2>1, <4>2 DEF InTask, TypeOK
      <4> QED
        BY <4>1, <4>2
    <3> QED
      BY <1>1, <1>5, <2>1, <3>1
  <2>7. Conserved'
    BY <2>6 DEF Conserved, OnItsWay, Summed
  <2> QED
    BY <1>3, <1>4, <2>1, <2>4, <2>5, <2>7
<1>7. ASSUME task.op # "add", tasks' \in Seq(Task), stats' = stats,
             \A s \in StatType, c \in Summed : InTasks(tasks', s, c) = InTasks(Tail(tasks), s, c)
      PROVE  Conserved'
  <2>1. ASSUME NEW s \in StatType, NEW c \in Summed
        PROVE  counted'[s][c] = stats'[s][c] + (InThreads(thd_stats', s, c) + InTasks(tasks', s, c))
    <3>1. InTask(task, s, c) = 0
      BY <1>7 DEF InTask
    <3> QED
      BY <1>1, <1>5, <1>7, <3>1
  <2> QED
    BY <2>1 DEF Conserved, OnItsWay, Summed
<1>8. CASE task.op = "fetch"
  <2> DEFINE report == [op |-> "return", type |-> t, value |-> stats[t]]
  <2>1. /\ tasks' = Append(Tail(tasks), report)
        /\ stats' = stats /\ reported' = reported
    BY <1>8 DEF RunTask, task
  <2>2. report \in Task /\ \A s \in StatType, c \in Summed : InTask(report, s, c) = 0
    BY <1>2 DEF Task, InTask
  <2>3. TypeOK'
    <3>1. tasks' \in Seq(Task)
      BY <1>1, <2>1, <2>2
    <3> QED
      BY <1>1, <2>1, <3>1 DEF TypeOK
  <2>4. ReportsInOrder'
    BY <1>1, <1>2, <1>3, <1>4, <2>1, <2>3, OrderShifted
  <2> HIDE DEF report
  <2>5. \A s \in StatType, c \in Summed : InTasks(tasks', s, c) = InTasks(Tail(tasks), s, c)
    <3> SUFFICES ASSUME NEW s \in StatType, NEW c \in Summed
                 PROVE  InTasks(tasks', s, c) = InTasks(Tail(tasks), s, c)
      OBVIOUS
    <3>1. c \in Counter /\ InTasks(Tail(tasks), s, c) \in Nat
      BY <1>5
    <3>2. InTasks(tasks', s, c) = InTasks(Tail(tasks), s, c) + InTask(report, s, c)
      BY <1>1, <2>1, <2>2, <3>1, InTasksAppend
    <3> QED
      BY <2>2, <3>1, <3>2
  <2>6. Conserved'
    BY <1>7, <1>8, <2>1, <2>3, <2>5 DEF TypeOK
  <2> QED
    BY <1>3, <1>4, <2>1, <2>3, <2>4, <2>6
<1>9. CASE task.op = "return"
  <2>1. /\ reported' = [reported EXCEPT ![t] = task.value]
        /\ tasks' = Tail(tasks) /\ stats' = stats
    BY <1>9 DEF RunTask, task
  <2>2. TypeOK'
    BY <1>1, <1>2, <2>1 DEF TypeOK
  <2>3. IsReport(1, t)
    BY <1>1, <1>9 DEF IsReport
  <2>4. \A s \in StatType : \/ reported'[s] = reported[s]
                            \/ IsReport(1, s) /\ reported'[s] = tasks[1].value
    BY <1>1, <2>1, <2>3 DEF TypeOK
  <2>5. ReportsInOrder'
    BY <1>1, <1>3, <1>4, <2>1, <2>2, <2>4, OrderShifted
  <2>6. Conserved'
    BY <1>1, <1>7, <1>9, <2>1
  <2>7. \A s \in StatType : Below(reported[s], reported'[s])
    BY <1>1, <1>3, <1>4, <2>4 DEF ReportsInOrder
  <2> QED
    BY <2>2, <2>5, <2>6, <2>7
<1> QED
  BY <1>1, <1>6, <1>8, <1>9 DEF Task

\* Every step preserves the invariant, and no report goes back.
LEMMA NextInv ==
    ASSUME IInv, [Next]_vars
    PROVE  IInv' /\ \A t \in StatType, c \in Counter : reported'[t][c] >= reported[t][c]
<1>1. \A t \in StatType, c \in Counter : reported[t][c] \in Nat
  BY DEF IInv, TypeOK, Stats
<1>2. CASE UNCHANGED vars
  <2>1. IInv'
    BY <1>2 DEF vars, IInv, TypeOK, Conserved, OnItsWay, ReportsInOrder, IsReport
  <2> QED
    BY <1>1, <1>2, <2>1 DEF vars
<1>3. CASE RunTask
  <2>1. IInv' /\ \A t \in StatType : Below(reported[t], reported'[t])
    BY <1>3, RunTaskInv
  <2>2. \A t \in StatType, c \in Counter : reported'[t][c] \in Nat
    BY <2>1 DEF IInv, TypeOK, Stats
  <2> QED
    BY <1>1, <2>1, <2>2 DEF Below
<1>4. ASSUME NEW t \in StatType, GetStats(t) PROVE IInv' /\ reported' = reported
  BY <1>4, GetStatsInv DEF GetStats
<1>5. ASSUME NEW p \in Pipelines, NEW t \in StatType, NEW counters, Count(p, t, counters)
      PROVE  IInv' /\ reported' = reported
  BY <1>5, CountInv DEF Count
<1>6. ASSUME NEW p \in Pipelines,
             (\E expired \in BOOLEAN : HttpHousekeeping(p, expired)) \/ DnsHousekeeping(p)
      PROVE  IInv' /\ reported' = reported
  BY <1>6, HousekeepingInv DEF HttpHousekeeping, DnsHousekeeping
<1>7. "HTTP" \in StatType
  BY DEF StatType
<1> QED
  BY <1>1, <1>2, <1>3, <1>4, <1>5, <1>6, <1>7 DEF Next, AcceptConnection, RequestDone
-----------------------------------------------------------------------------
(***************************************************************************)
(* The theorems.                                                           *)
(***************************************************************************)

\* The inductive invariant holds in every reachable state.
THEOREM Invariance ==
    Spec => []IInv
<1>1. Init => IInv
  BY InitInv
<1>2. IInv /\ [Next]_vars => IInv'
  BY NextInv
<1> QED
  BY <1>1, <1>2, PTL DEF Spec

\* With any number of IO threads, UpdateStats of both daemons, AddStat and its task
\* neither lose an event nor count it twice.
THEOREM NoEventLost ==
    Spec => []Conserved
<1>1. IInv => Conserved
  BY DEF IInv
<1> QED
  BY Invariance, <1>1, PTL

\* The callbacks of GetStats get totals that never shrink, although several of them
\* may wait in the queue while more is added up.
THEOREM ReportsNeverShrink ==
    Spec => ReportsGrow
<1>1. IInv /\ [Next]_vars =>
        [\A t \in StatType, c \in Counter : reported'[t][c] >= reported[t][c]]_vars
  BY NextInv
<1> QED
  BY Invariance, <1>1, PTL DEF Spec, ReportsGrow
=============================================================================
