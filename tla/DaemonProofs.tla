---------------------------- MODULE DaemonProofs ----------------------------
(***************************************************************************)
(* Proofs about the life of the process: with any number of IO threads, no *)
(* thread uses a part before it is created or after it is destroyed, be it *)
(* in a handler or in the unwinding of a coroutine.                        *)
(***************************************************************************)
EXTENDS Daemon, TLAPS

USE DaemonAssumption

(***************************************************************************)
(* The inductive invariant.  That what is posted refers to parts that are  *)
(* there (HandlersHaveParts) is not enough: an acceptor refers to the HTTP *)
(* daemon, but the connections it hands over refer to the virtual hosts as *)
(* well.  Needs is what a handler and all that may come of it refer to.    *)
(* Stages ties the parts to the progress of main, and says that the parts  *)
(* go only when no thread is left, unless the start has failed.  What the  *)
(* main thread unwinds has lost its parts by then: that it uses none rests *)
(* on the test in ~cleanup.                                                *)
(***************************************************************************)
Stage == Startup \cup {"sleeping", "waiting", "leaving", "unwinding", "exited"}

TypeOK ==
    /\ main \in Stage
    /\ alive \subseteq Parts
    /\ failed \in BOOLEAN /\ closed \in BOOLEAN
    /\ running \subseteq Workers /\ stuck \subseteq Workers
    /\ handlers \in [Workers -> SUBSET Kinds]
    /\ dangling \subseteq [by : {"main", "worker"}, object : Parts]

Needs(kind) ==
    CASE kind \in {"log", "add_stat"} -> {"stats"}
      [] kind = "http_housekeeping" -> {"http", "stats"}
      [] OTHER -> Parts

Stages ==
    /\ main = "create_vhosts" => {"stats"} \subseteq alive
    /\ main = "create_http" => {"stats", "vhosts"} \subseteq alive
    /\ main = "create_dns" => {"stats", "vhosts", "http"} \subseteq alive
    /\ main \in {"start_http", "start_dns", "sleeping", "waiting"} =>
            {"stats", "vhosts", "http", "dns"} \subseteq alive
    /\ main \in Startup \cup {"sleeping", "waiting"} => ~failed /\ "pool" \in alive
    /\ main \in {"leaving", "unwinding", "exited"} /\ ~failed => running = {}

HandlersHaveParts ==
    ~failed /\ running # {} =>
        \A w \in Workers : \A kind \in handlers[w] : Needs(kind) \subseteq alive

IInv ==
    /\ TypeOK
    /\ Stages
    /\ HandlersHaveParts
    /\ ThreadsUseLiveParts
-----------------------------------------------------------------------------
(***************************************************************************)
(* What a handler refers to and leaves behind is within its Needs.         *)
(***************************************************************************)
LEMMA NeedsCover ==
    ASSUME NEW kind \in Kinds
    PROVE  /\ Uses(kind) \subseteq Needs(kind)
           /\ Needs(kind) \subseteq Parts
BY DEF Kinds, Coroutines, Tasks, Uses, Needs, Parts

\* No handler leaves or hands over one that needs more than it needs itself.
LEMMA NeedsShrink ==
    ASSUME NEW kind \in Kinds
    PROVE  /\ \A left \in Becomes(kind) : \A k \in left : k \in Kinds /\ Needs(k) \subseteq Needs(kind)
           /\ \A given \in HandOver(kind) :
                 /\ given.to \in Workers
                 /\ \A k \in given.kinds : k \in Kinds /\ Needs(k) \subseteq Needs(kind)
<1>1. \A left \in Becomes(kind) : \A k \in left : k \in Kinds /\ Needs(k) \subseteq Needs(kind)
  BY DEF Kinds, Coroutines, Tasks, Becomes, Needs, Parts
<1>2. \A given \in HandOver(kind) :
         /\ given.to \in Workers
         /\ \A k \in given.kinds : k \in Kinds /\ Needs(k) \subseteq Needs(kind)
  BY DEF Kinds, Coroutines, Tasks, HandOver, Needs, Parts
<1> QED
  BY <1>1, <1>2

\* Nothing is given but to the worker that is named.
LEMMA GiveType ==
    ASSUME NEW work \in [Workers -> SUBSET Kinds], NEW w \in Workers, NEW kinds \in SUBSET Kinds
    PROVE  /\ Give(work, w, kinds) \in [Workers -> SUBSET Kinds]
           /\ \A v \in Workers : Give(work, w, kinds)[v] \subseteq work[v] \cup kinds
BY DEF Give
-----------------------------------------------------------------------------
(***************************************************************************)
(* The actions preserve the invariant.                                     *)
(***************************************************************************)

\* The process starts with the pool alone, and nothing to do.
LEMMA InitInv ==
    Init => IInv
BY DEF Init, IInv, TypeOK, Stage, Startup, Parts, Stages, HandlersHaveParts,
       ThreadsUseLiveParts

\* A part is created: what is posted with it needs no part that is still missing.
LEMMA CreateInv ==
    ASSUME IInv, CreateStats \/ CreateVhosts \/ CreateHttp \/ CreateDns
    PROVE  IInv'
<1> USE DEF IInv
<1>1. PICK part \in Parts, next \in Startup, kinds \in SUBSET Kinds :
        /\ Created(part, next)
        /\ handlers' \in [Workers -> SUBSET Kinds]
        /\ \A w \in Workers : handlers'[w] \subseteq handlers[w] \cup kinds
        /\ \A k \in kinds : Needs(k) \subseteq alive'
        /\ Stages'
  <2>1. CASE CreateStats
    <3> DEFINE kinds == IF LogInterval > 0 THEN {"log"} ELSE {}
    <3>1. kinds \in SUBSET Kinds
      BY DEF Kinds, Tasks
    <3>2. Created("stats", "create_vhosts") /\ handlers' = Give(handlers, FirstWorker, kinds)
      BY <2>1 DEF CreateStats
    <3>3. \A k \in kinds : Needs(k) \subseteq alive'
      BY <3>2 DEF Created, Needs
    <3>4. Stages'
      BY <2>1, <3>2 DEF CreateStats, Created, Stages, Startup
    <3> HIDE DEF kinds
    <3>5. /\ handlers' \in [Workers -> SUBSET Kinds]
          /\ \A w \in Workers : handlers'[w] \subseteq handlers[w] \cup kinds
      BY <3>1, <3>2, GiveType DEF TypeOK
    <3> QED
      BY <3>1, <3>2, <3>3, <3>4, <3>5 DEF Parts, Startup
  <2>2. CASE CreateVhosts
    <3>1. Created("vhosts", "create_http") /\ handlers' = handlers
      BY <2>2 DEF CreateVhosts
    <3>2. Stages'
      BY <2>2, <3>1 DEF CreateVhosts, Created, Stages, Startup
    <3>3. /\ {} \in SUBSET Kinds /\ \A k \in {} : Needs(k) \subseteq alive'
          /\ handlers' \in [Workers -> SUBSET Kinds]
          /\ \A w \in Workers : handlers'[w] \subseteq handlers[w] \cup {}
      BY <3>1 DEF TypeOK
    <3> QED
      BY <3>1, <3>2, <3>3 DEF Parts, Startup
  <2>3. CASE CreateHttp
    <3>1. Created("http", "create_dns") /\ handlers' = GiveAll(handlers, {"http_housekeeping"})
      BY <2>3 DEF CreateHttp
    <3>2. Stages'
      BY <2>3, <3>1 DEF CreateHttp, Created, Stages, Startup
    <3>3. {"http_housekeeping"} \in SUBSET Kinds
      BY DEF Kinds, Tasks
    <3>4. Needs("http_housekeeping") \subseteq alive'
      BY <2>3, <3>1 DEF CreateHttp, Created, Needs, Stages
    <3>5. /\ handlers' \in [Workers -> SUBSET Kinds]
          /\ \A w \in Workers : handlers'[w] \subseteq handlers[w] \cup {"http_housekeeping"}
      BY <3>1, <3>3 DEF GiveAll, TypeOK
    <3> QED
      BY <3>1, <3>2, <3>3, <3>4, <3>5 DEF Parts, Startup
  <2>4. CASE CreateDns
    <3>1. Created("dns", "start_http") /\ handlers' = handlers
      BY <2>4 DEF CreateDns
    <3>2. Stages'
      BY <2>4, <3>1 DEF CreateDns, Created, Stages, Startup
    <3>3. /\ {} \in SUBSET Kinds /\ \A k \in {} : Needs(k) \subseteq alive'
          /\ handlers' \in [Workers -> SUBSET Kinds]
          /\ \A w \in Workers : handlers'[w] \subseteq handlers[w] \cup {}
      BY <3>1 DEF TypeOK
    <3> QED
      BY <3>1, <3>2, <3>3 DEF Parts, Startup
  <2> QED
    BY <2>1, <2>2, <2>3, <2>4
<1>2. /\ alive \subseteq alive' /\ alive' = alive \cup {part} /\ main' \in Startup
      /\ UNCHANGED <<failed, closed, running, stuck, dangling>>
  BY <1>1 DEF Created
<1>3. TypeOK'
  BY <1>1, <1>2 DEF TypeOK, Stage
<1>4. HandlersHaveParts'
  BY <1>1, <1>2 DEF HandlersHaveParts, TypeOK
<1>5. ThreadsUseLiveParts'
  BY <1>2 DEF ThreadsUseLiveParts
<1> QED
  BY <1>1, <1>3, <1>4, <1>5

\* The acceptor and the DNS daemon start when all of the parts are there.
LEMMA SpawnInv ==
    ASSUME IInv, StartAcceptingAt \/ StartReceivingUdpAt
    PROVE  IInv'
<1> USE DEF IInv
<1>1. PICK kind \in Kinds, next \in {"start_dns", "sleeping"} : Spawned(kind, next)
  BY DEF StartAcceptingAt, StartReceivingUdpAt, Kinds, Coroutines, Tasks
<1>2. PICK w \in Workers : handlers' = Give(handlers, w, {kind})
  BY <1>1 DEF Spawned
<1>3. main \in {"start_http", "start_dns"} /\ main' = next
      /\ UNCHANGED <<alive, failed, closed, running, stuck, dangling>>
  BY <1>1 DEF Spawned, StartAcceptingAt, StartReceivingUdpAt
<1>4. alive = Parts
  BY <1>3 DEF Stages, Startup, TypeOK, Parts
<1>5. /\ handlers' \in [Workers -> SUBSET Kinds]
      /\ \A v \in Workers : handlers'[v] \subseteq Kinds
  BY <1>2, GiveType DEF TypeOK
<1>6. TypeOK'
  BY <1>3, <1>5 DEF TypeOK, Stage, Startup
<1>7. Stages'
  BY <1>3, <1>4 DEF Stages, Startup, Parts
<1>8. HandlersHaveParts'
  BY <1>3, <1>4, <1>5, NeedsCover DEF HandlersHaveParts
<1>9. ThreadsUseLiveParts'
  BY <1>3 DEF ThreadsUseLiveParts
<1> QED
  BY <1>6, <1>7, <1>8, <1>9

\* main goes on, or the start fails: no part and no handler is touched.
LEMMA ProceedInv ==
    ASSUME IInv, StartFails \/ Signal \/ WaitUntilClosed \/ ClosePool
    PROVE  IInv'
<1> USE DEF IInv
<1>1. UNCHANGED <<alive, running, stuck, handlers, dangling>> /\ (failed => failed')
  BY DEF StartFails, Signal, WaitUntilClosed, ClosePool, TypeOK
<1>2. TypeOK'
  BY <1>1 DEF StartFails, Signal, WaitUntilClosed, ClosePool, TypeOK, Stage
<1>3. Stages'
  BY <1>1 DEF StartFails, Signal, WaitUntilClosed, AllEnded, ClosePool, Stages, Startup
<1>4. HandlersHaveParts' /\ ThreadsUseLiveParts'
  BY <1>1 DEF HandlersHaveParts, ThreadsUseLiveParts
<1> QED
  BY <1>2, <1>3, <1>4

\* The parts are destroyed when no thread is left, or after a failed start.
LEMMA DestroyInv ==
    ASSUME IInv, DestroyPart \/ Exit
    PROVE  IInv'
<1> USE DEF IInv
<1>1. /\ main \in {"leaving", "unwinding"} /\ main' \in {"leaving", "unwinding", "exited"}
      /\ alive' \subseteq alive
      /\ UNCHANGED <<failed, closed, running, stuck, handlers, dangling>>
  BY DEF DestroyPart, Exit
<1>2. TypeOK'
  BY <1>1 DEF TypeOK, Stage
<1>3. ~failed => running = {}
  BY <1>1 DEF Stages
<1>4. Stages' /\ HandlersHaveParts'
  BY <1>1, <1>3 DEF Stages, HandlersHaveParts, Startup
<1>5. ThreadsUseLiveParts'
  BY <1>1 DEF ThreadsUseLiveParts
<1> QED
  BY <1>2, <1>4, <1>5

\* A session closes its connection if its own worker unwinds it, and then the
\* manager is there; the main thread leaves it alone.
LEMMA UnwindInv ==
    ASSUME IInv, NEW w \in Workers, NEW kind \in Kinds,
           UnwindOnMain(w, kind) \/ UnwindOnWorker(w, kind)
    PROVE  IInv'
<1> USE DEF IInv
<1>1. PICK on \in {"main", "worker"} :
        Unwind(w, kind, on) /\ (on = "worker" => w \in running)
  BY DEF UnwindOnMain, UnwindOnWorker
<1>2. /\ UNCHANGED <<main, alive, failed, closed, running, stuck>>
      /\ kind \in handlers[w]
      /\ handlers' = [handlers EXCEPT ![w] = handlers[w] \ {kind}]
      /\ dangling' = dangling \cup [by : {on}, object : Cleanup(kind, on) \ alive]
  BY <1>1 DEF Unwind, Use
<1>3. on = "main" => Cleanup(kind, on) = {}
  BY DEF Cleanup
<1>4. on = "worker" /\ ~failed => Cleanup(kind, on) \subseteq alive
  <2> SUFFICES ASSUME on = "worker", ~failed, kind \in {"session_reading", "session_writing"}
               PROVE  "http" \in alive
    BY DEF Cleanup
  <2>1. Needs(kind) \subseteq alive
    BY <1>1, <1>2 DEF HandlersHaveParts
  <2> QED
    BY <2>1 DEF Needs, Parts
<1>5. [by : {on}, object : Cleanup(kind, on) \ alive] \subseteq [by : {"main", "worker"}, object : Parts]
  BY DEF Cleanup, Parts
<1>6. TypeOK'
  BY <1>2, <1>5 DEF TypeOK
<1>7. Stages' /\ HandlersHaveParts'
  BY <1>2 DEF Stages, HandlersHaveParts, TypeOK
<1>8. ThreadsUseLiveParts'
  BY <1>2, <1>3, <1>4 DEF ThreadsUseLiveParts
<1> QED
  BY <1>6, <1>7, <1>8

\* The parts that a thread's handler refers to are there, unless the start has failed.
LEMMA TouchInv ==
    ASSUME IInv, NEW w \in running, NEW kind \in Kinds, kind \in handlers[w],
           Touch(kind), failed' = failed
    PROVE  /\ dangling' \subseteq [by : {"main", "worker"}, object : Parts]
           /\ ThreadsUseLiveParts'
<1> USE DEF IInv
<1>1. w \in Workers
  BY DEF TypeOK
<1>2. dangling' = IF dangling = {} THEN [by : {"worker"}, object : Uses(kind) \ alive] ELSE dangling
  BY DEF Touch, Use
<1>3. Uses(kind) \subseteq Parts /\ (~failed => Uses(kind) \ alive = {})
  BY <1>1, NeedsCover DEF HandlersHaveParts
<1>4. [by : {"worker"}, object : Uses(kind) \ alive] \subseteq [by : {"main", "worker"}, object : Parts]
  BY <1>3
<1> QED
  BY <1>2, <1>3, <1>4 DEF TypeOK, ThreadsUseLiveParts

\* A thread runs a handler: the parts it refers to are there, unless the start has
\* failed.
LEMMA RunInv ==
    ASSUME IInv, NEW w \in Workers, NEW kind \in Kinds, Run(w, kind)
    PROVE  IInv'
<1> USE DEF IInv
<1>1. /\ w \in running /\ kind \in handlers[w]
      /\ UNCHANGED <<main, alive, failed, closed, running, stuck>>
  BY DEF Run
<1>2. PICK left \in Becomes(kind), given \in HandOver(kind) :
        handlers' = Give([handlers EXCEPT ![w] = (handlers[w] \ {kind}) \cup left],
                         given.to, given.kinds)
  BY DEF Run
<1> DEFINE kept == [handlers EXCEPT ![w] = (handlers[w] \ {kind}) \cup left]
<1>3. /\ given.to \in Workers /\ left \subseteq Kinds /\ given.kinds \subseteq Kinds
      /\ \A k \in left \cup given.kinds : Needs(k) \subseteq Needs(kind)
  BY NeedsShrink
<1>4. /\ kept \in [Workers -> SUBSET Kinds]
      /\ \A v \in Workers : kept[v] \subseteq handlers[v] \cup left
  BY <1>3 DEF TypeOK
<1> HIDE DEF kept
<1>5. /\ handlers' \in [Workers -> SUBSET Kinds]
      /\ \A v \in Workers : handlers'[v] \subseteq handlers[v] \cup left \cup given.kinds
  <2>1. handlers' = Give(kept, given.to, given.kinds)
    BY <1>2 DEF kept
  <2> QED
    BY <1>3, <1>4, <2>1, GiveType
<1>6. ~failed => Needs(kind) \subseteq alive
  BY <1>1 DEF HandlersHaveParts
<1>7. HandlersHaveParts'
  BY <1>1, <1>3, <1>5, <1>6 DEF HandlersHaveParts, TypeOK
<1>8. TypeOK' /\ ThreadsUseLiveParts'
  <2>1. Touch(kind)
    BY DEF Run
  <2>2. /\ dangling' \subseteq [by : {"main", "worker"}, object : Parts]
        /\ ThreadsUseLiveParts'
    BY <1>1, <2>1, TouchInv
  <2> QED
    BY <1>1, <1>5, <2>2 DEF TypeOK
<1>9. Stages'
  BY <1>1 DEF Stages
<1> QED
  BY <1>7, <1>8, <1>9

\* A thread runs a query that has no end.
LEMMA SpinInv ==
    ASSUME IInv, NEW w \in Workers, GetSoaZoneSpins(w)
    PROVE  IInv'
<1> USE DEF IInv
<1>1. /\ w \in running /\ "dns_receiving" \in handlers[w]
      /\ UNCHANGED <<main, alive, failed, closed, running>>
      /\ stuck' = stuck \cup {w}
      /\ handlers' = [handlers EXCEPT ![w] = handlers[w] \ {"dns_receiving"}]
      /\ Touch("dns_receiving")
  BY DEF GetSoaZoneSpins
<1>2. /\ dangling' \subseteq [by : {"main", "worker"}, object : Parts]
      /\ ThreadsUseLiveParts'
  <2>1. "dns_receiving" \in Kinds
    BY DEF Kinds, Coroutines
  <2> QED
    BY <1>1, <2>1, TouchInv
<1>3. TypeOK'
  BY <1>1, <1>2 DEF TypeOK
<1>4. Stages' /\ HandlersHaveParts'
  BY <1>1 DEF Stages, HandlersHaveParts, TypeOK
<1> QED
  BY <1>2, <1>3, <1>4

\* A thread ends.
LEMMA WorkerEndsInv ==
    ASSUME IInv, NEW w \in Workers, WorkerEnds(w)
    PROVE  IInv'
BY DEF IInv, WorkerEnds, TypeOK, Stages, HandlersHaveParts, ThreadsUseLiveParts

\* Every step preserves the invariant.
LEMMA NextInv ==
    ASSUME IInv, [Next]_vars
    PROVE  IInv'
<1>1. CASE Main
  BY <1>1, CreateInv, SpawnInv, ProceedInv, DestroyInv, UnwindInv DEF Main
<1>2. CASE UNCHANGED vars
  BY <1>2 DEF vars, IInv, TypeOK, Stages, HandlersHaveParts, ThreadsUseLiveParts
<1>3. ASSUME NEW w \in Workers, Worker(w) PROVE IInv'
  BY <1>3, RunInv, UnwindInv, SpinInv, WorkerEndsInv DEF Worker
<1> QED
  BY <1>1, <1>2, <1>3, ProceedInv DEF Next
-----------------------------------------------------------------------------
(***************************************************************************)
(* The theorems.                                                           *)
(***************************************************************************)

\* The inductive invariant holds through the whole life of the process.
THEOREM Invariance ==
    Spec => []IInv
<1>1. Init => IInv
  BY InitInv
<1>2. IInv /\ [Next]_vars => IInv'
  BY NextInv
<1> QED
  BY <1>1, <1>2, PTL DEF Spec

\* From the first task that runs while main still creates the parts to the last one
\* before the pool is closed, a thread finds the parts that its handler refers to,
\* unless the start has failed; and what ~Threadpool unwinds on the main thread
\* touches none of the parts that are gone, in a failed start either.
THEOREM PartsOutliveTheirUse ==
    Spec => []ThreadsUseLiveParts
<1>1. IInv => ThreadsUseLiveParts
  BY DEF IInv
<1> QED
  BY Invariance, <1>1, PTL
=============================================================================
