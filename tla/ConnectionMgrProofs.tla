------------------------ MODULE ConnectionMgrProofs ------------------------
(***************************************************************************)
(* Proofs of the safety properties of ConnectionMgr for any number of      *)
(* pipelines and connections, any limits and any timeout.  Where entries   *)
(* must be found again by their key, the keys are assumed to fit the int   *)
(* parameter of Lookup and Remove (KeysFitInt); LeaksAreCutKeys says what  *)
(* remains without that assumption.                                        *)
(***************************************************************************)
EXTENDS ConnectionMgr, FiniteSetTheorems, TLAPS

(***************************************************************************)
(* The inductive invariant.  The four properties it strengthens do not     *)
(* carry themselves: that an open socket is one of a live session needs    *)
(* the link from is_open to pc, a new connection is known to be unlisted   *)
(* only because keys above next_key are unused, a kill wakes a session up  *)
(* only if a waiting session has an operation under way, and the bound on  *)
(* open sockets rests on the size of connections_.                         *)
(***************************************************************************)
OpenIsActive == \A c \in Conn : is_open[c] => pc[c] \in Active

UsedKeys == \A c \in Conn : pc[c] = "none" <=> c > next_key

WaitersHaveIo == \A c \in Conn : pc[c] \in Waiting => io[c] # "none"

SizeBound ==
    MaxConnections # 0 =>
        \A p \in Pipelines : Cardinality(connections[p]) <= MaxConnections

IInv ==
    /\ TypeOK
    /\ SessionOwnsConnection
    /\ EntriesHaveSessions
    /\ DeadAreClosed
    /\ ClosedSocketWakes
    /\ OpenIsActive
    /\ UsedKeys
    /\ WaitersHaveIo
    /\ SizeBound

\* All parts of the invariant but the types and the size bound, which the
\* actions that touch no list carry over by the same argument.
Links ==
    /\ SessionOwnsConnection
    /\ EntriesHaveSessions
    /\ DeadAreClosed
    /\ ClosedSocketWakes
    /\ OpenIsActive
    /\ UsedKeys
    /\ WaitersHaveIo
-----------------------------------------------------------------------------
(***************************************************************************)
(* Lemmas about the operators.                                             *)
(***************************************************************************)

\* A key that fits an int survives the conversion in Lookup's parameter.
LEMMA LookupKeyIsKey ==
    ASSUME KeysFitInt, NEW c \in Conn
    PROVE  LookupKey(c) = c
<1>1. /\ c \in Nat /\ c <= MaxAccepted /\ MaxAccepted \in Nat
      /\ IntMod \in Nat /\ IntMod > 0
  BY ConstantsAssumption DEF Conn
<1>2. IntMod \div 2 <= IntMod
  BY <1>1
<1>3. c < IntMod \div 2 /\ c < IntMod
  BY <1>1, <1>2 DEF KeysFitInt
<1>4. c % IntMod = c
  BY <1>1, <1>3
<1> QED
  BY <1>3, <1>4 DEF LookupKey

\* Lookup finds the entry of the connection it is asked for, and no other.
LEMMA LookupFindsOwnEntry ==
    ASSUME KeysFitInt, NEW c \in Conn, NEW list
    PROVE  Lookup(c, list) = list \cap {c}
BY LookupKeyIsKey DEF Lookup

\* The lists of connections are finite.
LEMMA ConnFinite ==
    ASSUME NEW S \in SUBSET Conn
    PROVE  IsFiniteSet(S) /\ Cardinality(S) \in Nat
<1>1. IsFiniteSet(Conn)
  BY FS_Interval, ConstantsAssumption DEF Conn
<1> QED
  BY <1>1, FS_Subset, FS_CardinalityType

\* Shrinking connections_ keeps it within the limit.
LEMMA SmallerSet ==
    ASSUME NEW T \in SUBSET Conn, NEW S \in SUBSET T
    PROVE  Cardinality(S) <= Cardinality(T)
BY ConnFinite, FS_Subset
-----------------------------------------------------------------------------
(***************************************************************************)
(* The actions preserve the invariant.                                     *)
(***************************************************************************)
LEMMA InitInv ==
    Init => IInv
<1> SUFFICES ASSUME Init PROVE IInv
  OBVIOUS
<1> USE DEF Init
<1>1. TypeOK
  BY ConstantsAssumption DEF TypeOK, HousekeepingInterval
<1>2. Links
  BY DEF Links, SessionOwnsConnection, EntriesHaveSessions, DeadAreClosed,
         ClosedSocketWakes, OpenIsActive, UsedKeys, WaitersHaveIo, Active, Waiting, Conn
<1>3. SizeBound
  BY FS_EmptySet, ConstantsAssumption DEF SizeBound
<1> QED
  BY <1>1, <1>2, <1>3 DEF IInv, Links

\* A session that starts a socket operation.
LEMMA SuspendInv ==
    ASSUME IInv, NEW c \in Conn, pc[c] \in Active, NEW where \in Waiting,
           Suspend(c, where),
           expire' \in [Conn -> Int],
           close_on_reply' \in [Conn -> BOOLEAN],
           idle' \in [Conn -> 0 .. ConnectionTimeout + 1],
           answered' \in [Conn -> BOOLEAN]
    PROVE  IInv'
<1> USE DEF IInv, Suspend
<1>1. TypeOK'
  BY DEF TypeOK, Active
<1>2. Links'
  BY DEF TypeOK, Links, SessionOwnsConnection, EntriesHaveSessions, DeadAreClosed,
         ClosedSocketWakes, OpenIsActive, UsedKeys, WaitersHaveIo, Active, Waiting
<1>3. SizeBound'
  BY DEF SizeBound
<1> QED
  BY <1>1, <1>2, <1>3 DEF Links

\* A session that ends takes its own entry, and only that one, off the lists.
LEMMA EndSessionInv ==
    ASSUME IInv, KeysFitInt, NEW c \in Conn, pc[c] \in Active, EndSession(c)
    PROVE  IInv'
<1> DEFINE p == mgr[c]
           entry == Lookup(c, connections[p])
           corpse == IF entry = {} THEN Lookup(c, dead_connections[p]) ELSE {}
<1> USE DEF IInv
<1>1. /\ p \in Pipelines
      /\ connections[p] \subseteq Conn
      /\ dead_connections[p] \subseteq Conn
  BY DEF TypeOK
<1>2. /\ entry = connections[p] \cap {c}
      /\ corpse = dead_connections[p] \cap {c}
  <2>1. Lookup(c, connections[p]) = connections[p] \cap {c}
    BY LookupFindsOwnEntry
  <2>2. Lookup(c, dead_connections[p]) = dead_connections[p] \cap {c}
    BY LookupFindsOwnEntry
  <2>3. connections[p] \cap dead_connections[p] = {}
    BY <1>1 DEF DeadAreClosed
  <2> QED
    BY <2>1, <2>2, <2>3
<1>3. /\ connections' = [connections EXCEPT ![p] = @ \ {c}]
      /\ dead_connections' = [dead_connections EXCEPT ![p] = @ \ {c}]
      /\ expire' \in [Conn -> Int]
      /\ idle' \in [Conn -> 0 .. ConnectionTimeout + 1]
      /\ answered' \in [Conn -> BOOLEAN]
  <2>1. /\ connections' = [connections EXCEPT ![p] = @ \ entry]
        /\ dead_connections' = [dead_connections EXCEPT ![p] = @ \ corpse]
        /\ expire' = [d \in Conn |-> IF d \in entry \cup corpse THEN 0 ELSE expire[d]]
        /\ idle' = [d \in Conn |-> IF d \in entry \cup corpse THEN 0 ELSE idle[d]]
        /\ answered' = [d \in Conn |-> answered[d] /\ d \notin entry \cup corpse]
    BY DEF EndSession, Remove
  <2> HIDE DEF p, entry, corpse
  <2>2. /\ connections[p] \ entry = connections[p] \ {c}
        /\ dead_connections[p] \ corpse = dead_connections[p] \ {c}
    BY <1>2
  <2>3. /\ expire' \in [Conn -> Int]
        /\ idle' \in [Conn -> 0 .. ConnectionTimeout + 1]
        /\ answered' \in [Conn -> BOOLEAN]
    BY <2>1, ConstantsAssumption DEF TypeOK
  <2> QED
    BY <2>1, <2>2, <2>3
<1> HIDE DEF p, entry, corpse
<1>4. TypeOK'
  BY <1>1, <1>3 DEF EndSession, TypeOK, Active
<1>5. Links'
  BY <1>1, <1>3 DEF p, EndSession, TypeOK, Links, SessionOwnsConnection,
         EntriesHaveSessions, DeadAreClosed, ClosedSocketWakes, OpenIsActive, UsedKeys,
         WaitersHaveIo, Active, Waiting
<1>6. SizeBound'
  <2> SUFFICES ASSUME MaxConnections # 0, NEW q \in Pipelines
               PROVE  Cardinality(connections'[q]) <= MaxConnections
    BY DEF SizeBound
  <2>1. /\ connections[q] \in SUBSET Conn
        /\ connections'[q] \in SUBSET connections[q]
    BY <1>1, <1>3 DEF TypeOK
  <2>2. Cardinality(connections[q]) <= MaxConnections
    BY DEF SizeBound
  <2>3. Cardinality(connections'[q]) <= Cardinality(connections[q])
    BY <2>1, SmallerSet
  <2>4. Cardinality(connections'[q]) \in Nat /\ Cardinality(connections[q]) \in Nat
    BY <2>1, ConnFinite
  <2> QED
    BY <2>2, <2>3, <2>4, ConstantsAssumption
<1> QED
  BY <1>4, <1>5, <1>6 DEF Links

\* The head of the loop: read again or leave.
LEMMA ReadMoreInv ==
    ASSUME IInv, KeysFitInt, NEW c \in Conn, pc[c] \in Active, ReadMore(c)
    PROVE  IInv'
<1>1. CASE is_open[c]
  <2>1. Suspend(c, "reading") /\ UNCHANGED <<expire, close_on_reply, idle, answered>>
    BY <1>1 DEF ReadMore
  <2>2. /\ expire' \in [Conn -> Int]
        /\ close_on_reply' \in [Conn -> BOOLEAN]
        /\ idle' \in [Conn -> 0 .. ConnectionTimeout + 1]
        /\ answered' \in [Conn -> BOOLEAN]
    BY <2>1 DEF IInv, TypeOK
  <2> QED
    BY <2>1, <2>2, SuspendInv DEF Waiting
<1>2. CASE ~is_open[c]
  BY <1>2, EndSessionInv DEF ReadMore
<1> QED
  BY <1>1, <1>2

\* One turn of the loop, whatever becomes of the request.
LEMMA HandleRequestInv ==
    ASSUME IInv, KeysFitInt, NEW c \in Conn, pc[c] \in Active, HandleRequest(c)
    PROVE  IInv'
<1>1. CASE RequestIncomplete(c)
  BY <1>1, ReadMoreInv DEF RequestIncomplete
<1>2. CASE RejectRequest(c)
  <2>1. /\ expire' \in [Conn -> Int]
        /\ close_on_reply' \in [Conn -> BOOLEAN]
        /\ idle' \in [Conn -> 0 .. ConnectionTimeout + 1]
        /\ answered' \in [Conn -> BOOLEAN]
    BY <1>2 DEF RejectRequest, IInv, TypeOK
  <2> QED
    BY <1>2, <2>1, SuspendInv DEF RejectRequest, Waiting
<1>3. CASE AbandonRequest(c)
  BY <1>3, EndSessionInv DEF AbandonRequest
<1>4. ASSUME NEW close \in BOOLEAN, AnswerRequest(c, close)
      PROVE  IInv'
  <2>1. /\ expire' \in [Conn -> Int]
        /\ close_on_reply' \in [Conn -> BOOLEAN]
        /\ idle' \in [Conn -> 0 .. ConnectionTimeout + 1]
        /\ answered' \in [Conn -> BOOLEAN]
    BY <1>4, ConstantsAssumption DEF AnswerRequest, IInv, TypeOK
  <2>2. Suspend(c, "replying")
    BY <1>4 DEF AnswerRequest
  <2> QED
    BY <2>1, <2>2, SuspendInv DEF Waiting
<1> QED
  BY <1>1, <1>2, <1>3, <1>4 DEF HandleRequest

\* A step of a session's coroutine.
LEMMA ResumeInv ==
    ASSUME IInv, KeysFitInt, NEW c \in Conn, Resume(c)
    PROVE  IInv'
<1>1. pc[c] \in Active
  BY DEF Resume, StartSession, ResumeRead, ResumeReply, ResumeReject, Active, Waiting
<1>2. ReadMore(c) \/ HandleRequest(c) \/ EndSession(c)
  BY DEF Resume, StartSession, ResumeRead, ResumeReply, ResumeReject
<1> QED
  BY <1>1, <1>2, ReadMoreInv, HandleRequestInv, EndSessionInv

\* The network completes an operation.
LEMMA IoCompletesInv ==
    ASSUME IInv, NEW c \in Conn, NEW r \in {"ok", "error"}, IoCompletes(c, r)
    PROVE  IInv'
<1> USE DEF IInv, IoCompletes
<1>1. TypeOK'
  BY DEF TypeOK
<1>2. Links'
  BY DEF TypeOK, Links, SessionOwnsConnection, EntriesHaveSessions, DeadAreClosed,
         ClosedSocketWakes, OpenIsActive, UsedKeys, WaitersHaveIo
<1>3. SizeBound'
  BY DEF SizeBound
<1> QED
  BY <1>1, <1>2, <1>3 DEF Links

\* Accept hands a new key to a manager and leaves the lists alone.
LEMMA AcceptInv ==
    ASSUME IInv, NEW p \in Pipelines, Accept(p)
    PROVE  IInv'
<1> USE DEF IInv, Accept
<1>1. TypeOK'
  BY ConstantsAssumption DEF TypeOK
<1>2. Links'
  BY DEF Links, SessionOwnsConnection, EntriesHaveSessions, DeadAreClosed,
         ClosedSocketWakes, OpenIsActive, UsedKeys, WaitersHaveIo
<1>3. SizeBound'
  BY DEF SizeBound
<1> QED
  BY <1>1, <1>2, <1>3 DEF Links

\* Time passes.
LEMMA TickInv ==
    ASSUME IInv, Tick
    PROVE  IInv'
<1> USE DEF IInv, Tick
<1>1. TypeOK'
  BY ConstantsAssumption DEF TypeOK, HousekeepingInterval
<1>2. Links'
  BY DEF Links, SessionOwnsConnection, EntriesHaveSessions, DeadAreClosed,
         ClosedSocketWakes, OpenIsActive, UsedKeys, WaitersHaveIo
<1>3. SizeBound'
  BY DEF SizeBound
<1> QED
  BY <1>1, <1>2, <1>3 DEF Links

\* Housekeeping moves the expired entries of its own pipeline to the dead list
\* and closes their sockets.
LEMMA HttpHousekeepingInv ==
    ASSUME IInv, KeysFitInt, NEW p \in Pipelines, HttpHousekeeping(p)
    PROVE  IInv'
<1> DEFINE victims == UNION {Lookup(c, connections[p]) : c \in Expired(p)}
<1> USE DEF IInv
<1>1. victims \subseteq connections[p] /\ connections[p] \subseteq Conn
  BY DEF Lookup, TypeOK
<1>2. /\ connections' = [connections EXCEPT ![p] = @ \ victims]
      /\ dead_connections' = [dead_connections EXCEPT ![p] = @ \cup victims]
      /\ is_open' = [c \in Conn |-> is_open[c] /\ c \notin victims]
      /\ io' = [c \in Conn |-> IF c \in victims THEN AbortedIo(c) ELSE io[c]]
      /\ timer' = [timer EXCEPT ![p] = HousekeepingInterval]
      /\ UNCHANGED <<backlog, next_key, mgr, expire, pc, close_on_reply, idle,
                     answered>>
  BY DEF HttpHousekeeping, Kill, ScheduleHttpHousekeeping
<1> HIDE DEF victims
<1>3. TypeOK'
  BY <1>1, <1>2 DEF TypeOK, AbortedIo, HousekeepingInterval
<1>4. Links'
  <2>1. SessionOwnsConnection' /\ EntriesHaveSessions'
    BY <1>1, <1>2 DEF TypeOK, SessionOwnsConnection, EntriesHaveSessions
  <2>2. DeadAreClosed'
    BY <1>1, <1>2 DEF TypeOK, DeadAreClosed
  <2>3. ClosedSocketWakes' /\ OpenIsActive' /\ WaitersHaveIo'
    BY <1>1, <1>2 DEF TypeOK, AbortedIo, ClosedSocketWakes, OpenIsActive,
       WaitersHaveIo
  <2>4. UsedKeys'
    BY <1>2 DEF UsedKeys
  <2> QED
    BY <2>1, <2>2, <2>3, <2>4 DEF Links
<1>5. SizeBound'
  <2> SUFFICES ASSUME MaxConnections # 0, NEW q \in Pipelines
               PROVE  Cardinality(connections'[q]) <= MaxConnections
    BY DEF SizeBound
  <2>1. /\ connections[q] \in SUBSET Conn
        /\ connections'[q] \in SUBSET connections[q]
    BY <1>1, <1>2 DEF TypeOK
  <2>2. Cardinality(connections[q]) <= MaxConnections
    BY DEF SizeBound
  <2>3. Cardinality(connections'[q]) <= Cardinality(connections[q])
    BY <2>1, SmallerSet
  <2>4. Cardinality(connections'[q]) \in Nat /\ Cardinality(connections[q]) \in Nat
    BY <2>1, ConnFinite
  <2> QED
    BY <2>2, <2>3, <2>4, ConstantsAssumption
<1> QED
  BY <1>3, <1>4, <1>5 DEF Links

\* A new connection: when the limit is exceeded, one entry leaves connections_.
LEMMA OnNewConnectionInv ==
    ASSUME IInv, NEW p \in Pipelines, OnNewConnection(p)
    PROVE  IInv'
<1> DEFINE n == next_key + 1
           cs == connections[p] \cup {n}
<1> USE DEF IInv
<1>1. /\ n \in Conn /\ n = next_key + 1
      /\ pc[n] = "none"
      /\ \A q \in Pipelines : n \notin connections[q] /\ n \notin dead_connections[q]
      /\ connections[p] \subseteq Conn
      /\ cs \subseteq Conn
      /\ ~is_open[n]
  <2>1. n \in Conn
    BY ConstantsAssumption DEF OnNewConnection, TypeOK, Conn
  <2>2. pc[n] = "none"
    BY <2>1 DEF UsedKeys, TypeOK
  <2> QED
    BY <2>1, <2>2 DEF TypeOK, EntriesHaveSessions, OpenIsActive, Active, Waiting
<1>2. /\ backlog[p] > 0
      /\ next_key' = n
      /\ backlog' = [backlog EXCEPT ![p] = @ - 1]
      /\ mgr' = [mgr EXCEPT ![n] = p]
      /\ expire' = [expire EXCEPT ![n] = InitialLifetime]
      /\ pc' = [pc EXCEPT ![n] = "spawned"]
      /\ UNCHANGED <<close_on_reply, timer, idle, answered>>
      /\ CreateConnection(p, n)
  BY DEF OnNewConnection
<1>3. PICK victims \in SUBSET cs :
         /\ connections' = [connections EXCEPT ![p] = cs \ victims]
         /\ dead_connections' = [dead_connections EXCEPT ![p] = @ \cup victims]
         /\ is_open' = [c \in Conn |-> (is_open[c] \/ c = n) /\ c \notin victims]
         /\ io' = [c \in Conn |-> IF c \in victims THEN AbortedIo(c) ELSE io[c]]
         /\ MaxConnections # 0 /\ Cardinality(cs) > MaxConnections
               => \E oldest \in cs : victims = {oldest}
  <2>1. CASE MaxConnections # 0 /\ Cardinality(cs) > MaxConnections
    <3>1. PICK oldest \in cs :
             /\ Kill(p, {oldest}, cs)
             /\ is_open' = [is_open EXCEPT ![n] = TRUE, ![oldest] = FALSE]
             /\ io' = [io EXCEPT ![oldest] = AbortedIo(oldest)]
      BY <1>2, <2>1 DEF CreateConnection
    <3>2. /\ is_open' = [c \in Conn |-> (is_open[c] \/ c = n) /\ c \notin {oldest}]
          /\ io' = [c \in Conn |-> IF c \in {oldest} THEN AbortedIo(c) ELSE io[c]]
      BY <1>1, <3>1 DEF TypeOK
    <3> WITNESS {oldest} \in SUBSET cs
    <3> QED
      BY <3>1, <3>2 DEF Kill
  <2>2. CASE ~(MaxConnections # 0 /\ Cardinality(cs) > MaxConnections)
    <3>1. /\ Kill(p, {}, cs)
          /\ is_open' = [is_open EXCEPT ![n] = TRUE]
          /\ UNCHANGED io
      BY <1>2, <2>2 DEF CreateConnection
    <3>2. /\ is_open' = [c \in Conn |-> (is_open[c] \/ c = n) /\ c \notin {}]
          /\ io' = [c \in Conn |-> IF c \in {} THEN AbortedIo(c) ELSE io[c]]
      BY <1>1, <3>1 DEF TypeOK
    <3> WITNESS {} \in SUBSET cs
    <3> QED
      BY <2>2, <3>1, <3>2 DEF Kill
  <2> QED
    BY <2>1, <2>2
<1> HIDE DEF cs, n
<1>4. TypeOK'
  <2>1. backlog' \in [Pipelines -> 0 .. MaxBacklog] /\ next_key' \in 0 .. MaxAccepted
    <3>1. backlog[p] \in 0 .. MaxBacklog /\ backlog \in [Pipelines -> 0 .. MaxBacklog]
      BY DEF TypeOK
    <3>2. backlog[p] - 1 \in 0 .. MaxBacklog
      BY <1>2, <3>1, ConstantsAssumption
    <3>3. next_key' \in 0 .. MaxAccepted
      BY <1>1, <1>2, ConstantsAssumption DEF Conn
    <3> QED
      BY <1>2, <3>1, <3>2, <3>3
  <2>2. /\ connections' \in [Pipelines -> SUBSET Conn]
        /\ dead_connections' \in [Pipelines -> SUBSET Conn]
    BY <1>1, <1>3 DEF TypeOK
  <2>3. /\ mgr' \in [Conn -> Pipelines]
        /\ expire' \in [Conn -> Int]
        /\ pc' \in [Conn -> Active \cup {"none", "done"}]
    BY <1>1, <1>2 DEF TypeOK, InitialLifetime, Active
  <2>4. /\ is_open' \in [Conn -> BOOLEAN]
        /\ io' \in [Conn -> {"none", "pending", "ok", "error"}]
    BY <1>3 DEF TypeOK, AbortedIo
  <2> QED
    BY <1>2, <2>1, <2>2, <2>3, <2>4 DEF TypeOK
<1>5. Links'
  <2>1. cs = connections[p] \cup {n} /\ victims \subseteq cs
    BY <1>3 DEF cs
  <2>2. /\ connections'[p] = (connections[p] \cup {n}) \ victims
        /\ dead_connections'[p] = dead_connections[p] \cup victims
        /\ \A q \in Pipelines \ {p} : /\ connections'[q] = connections[q]
                                      /\ dead_connections'[q] = dead_connections[q]
    BY <1>3, <2>1 DEF TypeOK
  <2>3. SessionOwnsConnection'
    <3> SUFFICES ASSUME NEW c \in Conn, pc'[c] \in Active
                 PROVE  c \in connections'[mgr'[c]] \cup dead_connections'[mgr'[c]]
      BY DEF SessionOwnsConnection
    <3>1. CASE c = n
      BY <1>1, <1>2, <2>2, <3>1 DEF TypeOK
    <3>2. CASE c # n
      <4>1. pc[c] \in Active /\ mgr'[c] = mgr[c] /\ mgr[c] \in Pipelines
        BY <1>1, <1>2, <3>2 DEF TypeOK
      <4>2. c \in connections[mgr[c]] \cup dead_connections[mgr[c]]
        BY <4>1 DEF SessionOwnsConnection
      <4> QED
        BY <2>2, <4>1, <4>2
    <3> QED
      BY <3>1, <3>2
  <2>4. EntriesHaveSessions'
    <3> SUFFICES ASSUME NEW q \in Pipelines,
                        NEW c \in connections'[q] \cup dead_connections'[q]
                 PROVE  pc'[c] \in Active /\ mgr'[c] = q
      BY DEF EntriesHaveSessions
    <3>1. CASE c = n
      BY <1>1, <1>2, <2>1, <2>2, <3>1 DEF TypeOK, Active
    <3>2. CASE c # n
      <4>1. c \in connections[q] \cup dead_connections[q]
        BY <2>1, <2>2, <3>2
      <4> QED
        BY <1>1, <1>2, <3>2, <4>1 DEF TypeOK, EntriesHaveSessions
    <3> QED
      BY <3>1, <3>2
  <2>5. DeadAreClosed'
    <3> SUFFICES ASSUME NEW q \in Pipelines
                 PROVE  /\ connections'[q] \cap dead_connections'[q] = {}
                        /\ \A c \in dead_connections'[q] : ~is_open'[c]
      BY DEF DeadAreClosed
    <3>1. /\ connections[q] \cap dead_connections[q] = {}
          /\ \A c \in dead_connections[q] : c \in Conn /\ ~is_open[c] /\ c # n
      BY <1>1 DEF TypeOK, DeadAreClosed
    <3>2. connections'[q] \cap dead_connections'[q] = {}
      BY <2>2, <3>1
    <3>3. \A c \in Conn : is_open'[c] <=> (is_open[c] \/ c = n) /\ c \notin victims
      BY <1>3
    <3>4. ASSUME NEW c \in dead_connections'[q] PROVE ~is_open'[c]
      <4>1. c \in dead_connections[q] \/ c \in victims
        BY <2>2
      <4>2. c \in Conn
        BY <1>1, <2>1, <3>1, <4>1
      <4> QED
        BY <3>1, <3>3, <4>1, <4>2
    <3> QED
      BY <3>2, <3>4
  <2>6. ClosedSocketWakes' /\ OpenIsActive' /\ WaitersHaveIo'
    BY <1>1, <1>2, <1>3, <2>1 DEF TypeOK, AbortedIo, ClosedSocketWakes, OpenIsActive,
       WaitersHaveIo, Active, Waiting
  <2>7. UsedKeys'
    BY <1>1, <1>2 DEF TypeOK, UsedKeys, Conn
  <2> QED
    BY <2>3, <2>4, <2>5, <2>6, <2>7 DEF Links
<1>6. SizeBound'
  <2> SUFFICES ASSUME MaxConnections # 0, NEW q \in Pipelines
               PROVE  Cardinality(connections'[q]) <= MaxConnections
    BY DEF SizeBound
  <2>1. /\ connections[q] \in SUBSET Conn /\ connections[p] \in SUBSET Conn
        /\ Cardinality(connections[q]) <= MaxConnections
        /\ Cardinality(connections[p]) <= MaxConnections
    BY DEF SizeBound, TypeOK
  <2>2. CASE q # p
    BY <1>3, <2>1, <2>2 DEF TypeOK
  <2>3. CASE q = p
    <3>1. connections'[p] = cs \ victims
      BY <1>3 DEF TypeOK
    <3>2. Cardinality(cs) = Cardinality(connections[p]) + 1 /\ IsFiniteSet(cs)
      BY <1>1, <2>1, ConnFinite, FS_AddElement DEF cs
    <3>3. Cardinality(connections[p]) \in Nat
      BY <2>1, ConnFinite
    <3>4. CASE Cardinality(cs) > MaxConnections
      <4>1. PICK oldest \in cs : victims = {oldest}
        BY <1>3, <3>4
      <4>2. Cardinality(cs \ {oldest}) = Cardinality(cs) - 1
        BY <3>2, FS_RemoveElement
      <4> QED
        BY <2>1, <2>3, <3>1, <3>2, <3>3, <4>1, <4>2, ConstantsAssumption
    <3>5. CASE ~(Cardinality(cs) > MaxConnections)
      <4>1. cs \in SUBSET Conn /\ cs \ victims \in SUBSET cs
        BY <1>1
      <4>2. Cardinality(cs \ victims) <= Cardinality(cs)
        BY <4>1, SmallerSet
      <4>3. Cardinality(cs \ victims) \in Nat
        BY <4>1, ConnFinite
      <4> QED
        BY <2>3, <3>1, <3>2, <3>3, <3>5, <4>2, <4>3, ConstantsAssumption
    <3> QED
      BY <3>4, <3>5
  <2> QED
    BY <2>2, <2>3
<1> QED
  BY <1>4, <1>5, <1>6 DEF Links
-----------------------------------------------------------------------------
(***************************************************************************)
(* The theorems.                                                           *)
(***************************************************************************)
LEMMA NextInv ==
    ASSUME KeysFitInt, IInv, [Next]_vars
    PROVE  IInv'
<1>1. ASSUME NEW p \in Pipelines, Accept(p) PROVE IInv'
  BY <1>1, AcceptInv
<1>2. ASSUME NEW p \in Pipelines, OnNewConnection(p) PROVE IInv'
  BY <1>2, OnNewConnectionInv
<1>3. ASSUME NEW p \in Pipelines, HttpHousekeeping(p) PROVE IInv'
  BY <1>3, HttpHousekeepingInv
<1>4. ASSUME NEW c \in Conn, Resume(c) PROVE IInv'
  BY <1>4, ResumeInv
<1>5. ASSUME NEW c \in Conn, NEW r \in {"ok", "error"}, IoCompletes(c, r) PROVE IInv'
  BY <1>5, IoCompletesInv
<1>6. CASE Tick
  BY <1>6, TickInv
<1>7. CASE UNCHANGED vars
  BY <1>7 DEF vars, IInv, TypeOK, SessionOwnsConnection, EntriesHaveSessions,
     DeadAreClosed, ClosedSocketWakes, OpenIsActive, UsedKeys, WaitersHaveIo, SizeBound
<1> QED
  BY <1>1, <1>2, <1>3, <1>4, <1>5, <1>6, <1>7 DEF Next

\* The inductive invariant holds of every behaviour in which the keys fit.
THEOREM Invariance ==
    ASSUME KeysFitInt
    PROVE  Spec => []IInv
<1>1. Init => IInv
  BY InitInv
<1>2. IInv /\ [Next]_vars => IInv'
  BY NextInv
<1> QED
  BY <1>1, <1>2, PTL DEF Spec

\* Neither Kill nor Remove frees the Connection of a coroutine that has not
\* returned yet, so ProcessRequests never uses a freed "this".
THEOREM NoUseAfterFree ==
    ASSUME KeysFitInt
    PROVE  Spec => []SessionOwnsConnection
<1>1. IInv => SessionOwnsConnection
  BY DEF IInv
<1> QED
  BY Invariance, <1>1, PTL

\* With keys that fit, Remove finds the entry of every session that ends:
\* nothing is leaked.  (LeaksAreCutKeys is the statement without the assumption.)
THEOREM NoLeak ==
    ASSUME KeysFitInt
    PROVE  Spec => []EntriesHaveSessions
<1>1. IInv => EntriesHaveSessions
  BY DEF IInv
<1> QED
  BY Invariance, <1>1, PTL

\* The two lists of a manager are disjoint, and what is on the dead list has
\* lost its socket.
THEOREM DeadSocketsClosed ==
    ASSUME KeysFitInt
    PROVE  Spec => []DeadAreClosed
<1>1. IInv => DeadAreClosed
  BY DEF IInv
<1> QED
  BY Invariance, <1>1, PTL

\* A coroutine whose socket is closed by Kill is woken up.
THEOREM NoLostWakeUp ==
    ASSUME KeysFitInt
    PROVE  Spec => []ClosedSocketWakes
<1>1. IInv => ClosedSocketWakes
  BY DEF IInv
<1> QED
  BY Invariance, <1>1, PTL

\* CreateConnection enforces max_connections on the open sockets of a pipeline,
\* although the sessions of killed connections still run for a while.
THEOREM ConnectionLimit ==
    ASSUME KeysFitInt
    PROVE  Spec => []OpenSocketBound
<1>1. IInv => OpenSocketBound
  <2> SUFFICES ASSUME IInv, MaxConnections # 0, NEW p \in Pipelines
               PROVE  Cardinality({c \in Conn : is_open[c] /\ mgr[c] = p})
                         <= MaxConnections
    BY DEF OpenSocketBound
  <2> DEFINE S == {c \in Conn : is_open[c] /\ mgr[c] = p}
  <2>1. S \in SUBSET connections[p]
    BY DEF IInv, TypeOK, OpenIsActive, SessionOwnsConnection, DeadAreClosed
  <2>2. connections[p] \in SUBSET Conn
    BY DEF IInv, TypeOK
  <2>3. Cardinality(S) <= Cardinality(connections[p])
    BY <2>1, <2>2, SmallerSet
  <2>4. Cardinality(connections[p]) <= MaxConnections
    BY DEF IInv, SizeBound
  <2>5. Cardinality(S) \in Nat /\ Cardinality(connections[p]) \in Nat
    BY <2>2, ConnFinite
  <2> QED
    BY <2>3, <2>4, <2>5, ConstantsAssumption
<1> QED
  BY Invariance, <1>1, PTL
-----------------------------------------------------------------------------
(***************************************************************************)
(* Leaks, whatever the keys are.  The lists alone: an entry belongs to the *)
(* manager whose list it is on, is on one list only, and stays there after *)
(* its session only if Remove, asked for it, looked for another key.       *)
(***************************************************************************)
ListsDisjoint == \A p \in Pipelines : connections[p] \cap dead_connections[p] = {}

ListedAreUsed ==
    \A p \in Pipelines : \A c \in connections[p] \cup dead_connections[p] :
        pc[c] # "none"

BInv ==
    /\ TypeOK
    /\ UsedKeys
    /\ ListsDisjoint
    /\ ListedAreUsed
    /\ UnremovedAreCut

\* Steps that move no entry to another manager, name no new connection and end
\* no session keep the lists in order.
LEMMA ListsIfKept ==
    ASSUME BInv, TypeOK', next_key' = next_key, mgr' = mgr, ListsDisjoint',
           \A p \in Pipelines :
                connections'[p] \cup dead_connections'[p]
                    \subseteq connections[p] \cup dead_connections[p],
           \A c \in Conn : /\ pc'[c] = "none" <=> pc[c] = "none"
                           /\ pc[c] \in Active => pc'[c] \in Active
    PROVE  BInv'
<1> USE DEF BInv
<1>1. UsedKeys'
  BY DEF UsedKeys
<1>2. ListedAreUsed' /\ UnremovedAreCut'
  <2> SUFFICES ASSUME NEW p \in Pipelines,
                      NEW c \in connections'[p] \cup dead_connections'[p]
               PROVE  /\ pc'[c] # "none" /\ mgr'[c] = p
                      /\ pc'[c] \in Active \/ LookupKey(c) # c
    BY DEF ListedAreUsed, UnremovedAreCut
  <2>1. c \in connections[p] \cup dead_connections[p] /\ c \in Conn
    BY DEF TypeOK
  <2> QED
    BY <2>1 DEF ListedAreUsed, UnremovedAreCut
<1> QED
  BY <1>1, <1>2

\* A session that ends takes its entry off the lists if its key survives the
\* conversion; otherwise its key is one that does not.
LEMMA EndSessionLists ==
    ASSUME BInv, NEW c \in Conn, pc[c] \in Active, EndSession(c)
    PROVE  BInv'
<1> DEFINE p == mgr[c]
           entry == Lookup(c, connections[p])
           corpse == IF entry = {} THEN Lookup(c, dead_connections[p]) ELSE {}
<1> USE DEF BInv
<1>1. p \in Pipelines
  BY DEF TypeOK
<1>2. /\ connections' = [connections EXCEPT ![p] = @ \ entry]
      /\ dead_connections' = [dead_connections EXCEPT ![p] = @ \ corpse]
      /\ expire' = [d \in Conn |-> IF d \in entry \cup corpse THEN 0 ELSE expire[d]]
      /\ idle' = [d \in Conn |-> IF d \in entry \cup corpse THEN 0 ELSE idle[d]]
      /\ answered' = [d \in Conn |-> answered[d] /\ d \notin entry \cup corpse]
      /\ pc' = [pc EXCEPT ![c] = "done"]
      /\ UNCHANGED <<next_key, mgr>>
  BY DEF EndSession, Remove
<1>3. LookupKey(c) = c =>
        c \notin connections[p] \ entry /\ c \notin dead_connections[p] \ corpse
  BY <1>1 DEF Lookup, ListsDisjoint
<1> HIDE DEF p, entry, corpse
<1>4. TypeOK'
  <2>1. /\ expire' \in [Conn -> Int]
        /\ idle' \in [Conn -> 0 .. ConnectionTimeout + 1]
        /\ answered' \in [Conn -> BOOLEAN]
    BY <1>2, ConstantsAssumption DEF TypeOK
  <2>2. /\ connections' \in [Pipelines -> SUBSET Conn]
        /\ dead_connections' \in [Pipelines -> SUBSET Conn]
    BY <1>1, <1>2 DEF TypeOK
  <2> QED
    BY <2>1, <2>2 DEF EndSession, TypeOK, Active
<1>5. /\ connections'[p] = connections[p] \ entry
      /\ dead_connections'[p] = dead_connections[p] \ corpse
      /\ \A q \in Pipelines : /\ connections'[q] \subseteq connections[q]
                              /\ dead_connections'[q] \subseteq dead_connections[q]
  BY <1>1, <1>2 DEF TypeOK
<1>6. ListsDisjoint'
  BY <1>5 DEF ListsDisjoint
<1>7. UsedKeys'
  BY <1>2 DEF UsedKeys, TypeOK, Active, Waiting
<1>8. ListedAreUsed' /\ UnremovedAreCut'
  <2> SUFFICES ASSUME NEW q \in Pipelines,
                      NEW d \in connections'[q] \cup dead_connections'[q]
               PROVE  /\ pc'[d] # "none" /\ mgr'[d] = q
                      /\ pc'[d] \in Active \/ LookupKey(d) # d
    BY DEF ListedAreUsed, UnremovedAreCut
  <2>1. d \in connections[q] \cup dead_connections[q] /\ d \in Conn
    BY <1>5 DEF TypeOK
  <2>2. /\ pc[d] # "none" /\ mgr[d] = q
        /\ pc[d] \in Active \/ LookupKey(d) # d
    BY <2>1 DEF ListedAreUsed, UnremovedAreCut
  <2>3. CASE d = c
    <3>1. q = p
      BY <2>2, <2>3 DEF p
    <3>2. LookupKey(c) # c
      BY <1>3, <1>5, <2>3, <3>1
    <3> QED
      BY <1>2, <2>2, <2>3, <3>2 DEF TypeOK
  <2>4. CASE d # c
    BY <1>2, <2>1, <2>2, <2>4 DEF TypeOK
  <2> QED
    BY <2>3, <2>4
<1> QED
  BY <1>4, <1>6, <1>7, <1>8

\* A step of a session's coroutine starts an operation or ends the session.
LEMMA ResumeLists ==
    ASSUME BInv, NEW c \in Conn, Resume(c)
    PROVE  BInv'
<1>1. pc[c] \in Active
  BY DEF Resume, StartSession, ResumeRead, ResumeReply, ResumeReject, Active, Waiting
<1>2. \/ \E where \in Waiting :
            Suspend(c, where) /\ UNCHANGED <<expire, close_on_reply, idle, answered>>
      \/ \E close \in BOOLEAN : AnswerRequest(c, close)
      \/ EndSession(c)
  BY DEF Resume, StartSession, ResumeRead, ResumeReply, ResumeReject, HandleRequest,
         RequestIncomplete, RejectRequest, AbandonRequest, ReadMore, Waiting
<1>3. ASSUME NEW where \in Waiting, Suspend(c, where),
             expire' \in [Conn -> Int],
             close_on_reply' \in [Conn -> BOOLEAN],
             idle' \in [Conn -> 0 .. ConnectionTimeout + 1],
             answered' \in [Conn -> BOOLEAN]
      PROVE  BInv'
  <2>1. TypeOK'
    BY <1>3 DEF BInv, TypeOK, Suspend, Active
  <2>2. ListsDisjoint'
    BY <1>3 DEF BInv, ListsDisjoint, Suspend
  <2>3. \A d \in Conn : /\ pc'[d] = "none" <=> pc[d] = "none"
                        /\ pc[d] \in Active => pc'[d] \in Active
    BY <1>1, <1>3 DEF BInv, TypeOK, Suspend, Active, Waiting
  <2> QED
    BY <1>3, <2>1, <2>2, <2>3, ListsIfKept DEF Suspend
<1>4. ASSUME NEW where \in Waiting, Suspend(c, where),
             UNCHANGED <<expire, close_on_reply, idle, answered>>
      PROVE  BInv'
  BY <1>3, <1>4 DEF BInv, TypeOK
<1>5. ASSUME NEW close \in BOOLEAN, AnswerRequest(c, close)
      PROVE  BInv'
  <2>1. /\ expire' \in [Conn -> Int]
        /\ close_on_reply' \in [Conn -> BOOLEAN]
        /\ idle' \in [Conn -> 0 .. ConnectionTimeout + 1]
        /\ answered' \in [Conn -> BOOLEAN]
    BY <1>5, ConstantsAssumption DEF AnswerRequest, BInv, TypeOK
  <2> QED
    BY <1>3, <1>5, <2>1 DEF AnswerRequest, Waiting
<1> QED
  BY <1>1, <1>2, <1>4, <1>5, EndSessionLists

\* A kill moves entries from one list of a manager to its other one.
LEMMA KillLists ==
    ASSUME BInv, NEW p \in Pipelines, HttpHousekeeping(p)
    PROVE  BInv'
<1> DEFINE victims == UNION {Lookup(c, connections[p]) : c \in Expired(p)}
<1> USE DEF BInv
<1>1. victims \subseteq connections[p] /\ connections[p] \subseteq Conn
  BY DEF Lookup, TypeOK
<1>2. /\ connections' = [connections EXCEPT ![p] = @ \ victims]
      /\ dead_connections' = [dead_connections EXCEPT ![p] = @ \cup victims]
      /\ is_open' = [c \in Conn |-> is_open[c] /\ c \notin victims]
      /\ io' = [c \in Conn |-> IF c \in victims THEN AbortedIo(c) ELSE io[c]]
      /\ timer' = [timer EXCEPT ![p] = HousekeepingInterval]
      /\ UNCHANGED <<backlog, next_key, mgr, expire, pc, close_on_reply, idle,
                     answered>>
  BY DEF HttpHousekeeping, Kill, ScheduleHttpHousekeeping
<1> HIDE DEF victims
<1>3. TypeOK'
  BY <1>1, <1>2 DEF TypeOK, AbortedIo, HousekeepingInterval
<1>4. ListsDisjoint'
  BY <1>1, <1>2 DEF TypeOK, ListsDisjoint
<1>5. \A q \in Pipelines : connections'[q] \cup dead_connections'[q]
                                \subseteq connections[q] \cup dead_connections[q]
  BY <1>1, <1>2 DEF TypeOK
<1> QED
  BY <1>2, <1>3, <1>4, <1>5, ListsIfKept

\* A new connection enters the list of its manager; the oldest may be killed.
LEMMA OnNewConnectionLists ==
    ASSUME BInv, NEW p \in Pipelines, OnNewConnection(p)
    PROVE  BInv'
<1> DEFINE n == next_key + 1
           cs == connections[p] \cup {n}
<1> USE DEF BInv
<1>1. /\ n \in Conn /\ n = next_key + 1 /\ pc[n] = "none"
      /\ \A q \in Pipelines : n \notin connections[q] \cup dead_connections[q]
      /\ cs \subseteq Conn
  <2>1. n \in Conn
    BY ConstantsAssumption DEF OnNewConnection, TypeOK, Conn
  <2>2. pc[n] = "none"
    BY <2>1 DEF UsedKeys, TypeOK
  <2> QED
    BY <2>1, <2>2 DEF TypeOK, ListedAreUsed
<1>2. /\ backlog[p] > 0
      /\ next_key' = n
      /\ backlog' = [backlog EXCEPT ![p] = @ - 1]
      /\ mgr' = [mgr EXCEPT ![n] = p]
      /\ expire' = [expire EXCEPT ![n] = InitialLifetime]
      /\ pc' = [pc EXCEPT ![n] = "spawned"]
      /\ UNCHANGED <<close_on_reply, timer, idle, answered>>
      /\ CreateConnection(p, n)
  BY DEF OnNewConnection
<1>3. PICK victims \in SUBSET cs :
         /\ connections' = [connections EXCEPT ![p] = cs \ victims]
         /\ dead_connections' = [dead_connections EXCEPT ![p] = @ \cup victims]
         /\ is_open' \in [Conn -> BOOLEAN]
         /\ io' \in [Conn -> {"none", "pending", "ok", "error"}]
  <2>1. CASE MaxConnections # 0 /\ Cardinality(cs) > MaxConnections
    <3>1. PICK oldest \in cs :
             /\ Kill(p, {oldest}, cs)
             /\ is_open' = [is_open EXCEPT ![n] = TRUE, ![oldest] = FALSE]
             /\ io' = [io EXCEPT ![oldest] = AbortedIo(oldest)]
      BY <1>2, <2>1 DEF CreateConnection
    <3> WITNESS {oldest} \in SUBSET cs
    <3> QED
      BY <1>1, <3>1 DEF Kill, TypeOK, AbortedIo
  <2>2. CASE ~(MaxConnections # 0 /\ Cardinality(cs) > MaxConnections)
    <3>1. /\ Kill(p, {}, cs)
          /\ is_open' = [is_open EXCEPT ![n] = TRUE]
          /\ UNCHANGED io
      BY <1>2, <2>2 DEF CreateConnection
    <3> WITNESS {} \in SUBSET cs
    <3> QED
      BY <1>1, <3>1 DEF Kill, TypeOK
  <2> QED
    BY <2>1, <2>2
<1> HIDE DEF n
<1>4. TypeOK'
  <2>1. backlog' \in [Pipelines -> 0 .. MaxBacklog] /\ next_key' \in 0 .. MaxAccepted
    <3>1. backlog[p] \in 0 .. MaxBacklog /\ backlog \in [Pipelines -> 0 .. MaxBacklog]
      BY DEF TypeOK
    <3>2. backlog[p] - 1 \in 0 .. MaxBacklog
      BY <1>2, <3>1, ConstantsAssumption
    <3>3. next_key' \in 0 .. MaxAccepted
      BY <1>1, <1>2, ConstantsAssumption DEF Conn
    <3> QED
      BY <1>2, <3>1, <3>2, <3>3
  <2>2. /\ connections' \in [Pipelines -> SUBSET Conn]
        /\ dead_connections' \in [Pipelines -> SUBSET Conn]
    BY <1>1, <1>3 DEF TypeOK
  <2>3. /\ mgr' \in [Conn -> Pipelines]
        /\ expire' \in [Conn -> Int]
        /\ pc' \in [Conn -> Active \cup {"none", "done"}]
    BY <1>1, <1>2 DEF TypeOK, InitialLifetime, Active
  <2> QED
    BY <1>2, <1>3, <2>1, <2>2, <2>3 DEF TypeOK
<1>5. /\ connections'[p] = (connections[p] \cup {n}) \ victims
      /\ dead_connections'[p] = dead_connections[p] \cup victims
      /\ victims \subseteq connections[p] \cup {n}
      /\ \A q \in Pipelines \ {p} : /\ connections'[q] = connections[q]
                                    /\ dead_connections'[q] = dead_connections[q]
  BY <1>3 DEF TypeOK
<1>6. ListsDisjoint'
  BY <1>1, <1>5 DEF ListsDisjoint
<1>7. UsedKeys'
  BY <1>1, <1>2 DEF TypeOK, UsedKeys, Conn
<1>8. ListedAreUsed' /\ UnremovedAreCut'
  <2> SUFFICES ASSUME NEW q \in Pipelines,
                      NEW c \in connections'[q] \cup dead_connections'[q]
               PROVE  /\ pc'[c] # "none" /\ mgr'[c] = q
                      /\ pc'[c] \in Active \/ LookupKey(c) # c
    BY DEF ListedAreUsed, UnremovedAreCut
  <2>1. CASE c = n
    <3>1. q = p
      BY <1>1, <1>5, <2>1
    <3> QED
      BY <1>1, <1>2, <2>1, <3>1 DEF TypeOK, Active
  <2>2. CASE c # n
    <3>1. c \in connections[q] \cup dead_connections[q] /\ c \in Conn
      BY <1>5, <2>2 DEF TypeOK
    <3> QED
      BY <1>1, <1>2, <2>2, <3>1 DEF TypeOK, ListedAreUsed, UnremovedAreCut
  <2> QED
    BY <2>1, <2>2
<1> QED
  BY <1>4, <1>6, <1>7, <1>8

\* Every step keeps the lists in order.
LEMMA NextLists ==
    ASSUME BInv, [Next]_vars
    PROVE  BInv'
<1> USE DEF BInv
<1>1. ASSUME NEW p \in Pipelines, Accept(p) PROVE BInv'
  <2>1. TypeOK'
    BY <1>1, ConstantsAssumption DEF Accept, TypeOK
  <2> QED
    BY <1>1, <2>1, ListsIfKept DEF Accept, ListsDisjoint
<1>2. ASSUME NEW p \in Pipelines, OnNewConnection(p) PROVE BInv'
  BY <1>2, OnNewConnectionLists
<1>3. ASSUME NEW p \in Pipelines, HttpHousekeeping(p) PROVE BInv'
  BY <1>3, KillLists
<1>4. ASSUME NEW c \in Conn, Resume(c) PROVE BInv'
  BY <1>4, ResumeLists
<1>5. ASSUME NEW c \in Conn, NEW r \in {"ok", "error"}, IoCompletes(c, r) PROVE BInv'
  <2>1. TypeOK'
    BY <1>5 DEF IoCompletes, TypeOK
  <2> QED
    BY <1>5, <2>1, ListsIfKept DEF IoCompletes, ListsDisjoint
<1>6. CASE Tick
  <2>1. TypeOK'
    BY <1>6, ConstantsAssumption DEF Tick, TypeOK, HousekeepingInterval
  <2> QED
    BY <1>6, <2>1, ListsIfKept DEF Tick, ListsDisjoint
<1>7. CASE UNCHANGED vars
  BY <1>7 DEF vars, TypeOK, UsedKeys, ListsDisjoint, ListedAreUsed, UnremovedAreCut
<1> QED
  BY <1>1, <1>2, <1>3, <1>4, <1>5, <1>6, <1>7 DEF Next

\* The lists are in order in every behaviour, whatever the keys are.
THEOREM ListInvariance ==
    Spec => []BInv
<1>1. Init => BInv
  <2>1. Init => TypeOK /\ UsedKeys
    BY InitInv DEF IInv
  <2> QED
    BY <2>1 DEF Init, BInv, ListsDisjoint, ListedAreUsed, UnremovedAreCut
<1>2. BInv /\ [Next]_vars => BInv'
  BY NextLists
<1> QED
  BY <1>1, <1>2, PTL DEF Spec

\* Every variable keeps its type, also when keys are cut.
THEOREM TypeCorrect ==
    Spec => []TypeOK
<1>1. BInv => TypeOK
  BY DEF BInv
<1> QED
  BY ListInvariance, <1>1, PTL

\* For every number of connections, also past 2^31: the only entries whose
\* session has returned and that are still on a list are those whose key is cut
\* by the int parameter of Remove.
THEOREM LeaksAreCutKeys ==
    Spec => []UnremovedAreCut
<1>1. BInv => UnremovedAreCut
  BY DEF BInv
<1> QED
  BY ListInvariance, <1>1, PTL
-----------------------------------------------------------------------------
(***************************************************************************)
(* Deadlines.  A connection that was answered and whose deadline has passed*)
(* was idle for longer than connection_timeout: expire counts down while   *)
(* idle counts up, and an answer starts both anew together.  A connection  *)
(* that was never answered is left out: its deadline is always three       *)
(* seconds, whatever the configured time.                                  *)
(***************************************************************************)
DeadlinesKept ==
    \A p \in Pipelines : \A c \in connections[p] :
        answered[c] => \/ idle[c] > ConnectionTimeout
                       \/ expire[c] + idle[c] >= ConnectionTimeout

UnusedAreFresh == \A c \in Conn : pc[c] = "none" => ~answered[c]

DInv == DeadlinesKept /\ UnusedAreFresh

\* A session that suspends without an answer, and one that ends: deadlines of
\* the entries that stay are not moved.
LEMMA DeadlinesIfKept ==
    ASSUME IInv, DInv,
           \A p \in Pipelines : connections'[p] \subseteq connections[p],
           \A p \in Pipelines : \A c \in connections'[p] :
                /\ expire'[c] = expire[c]
                /\ idle'[c] = idle[c]
                /\ answered'[c] = answered[c],
           \A c \in Conn : pc'[c] = "none" => pc[c] = "none" /\ answered'[c] = answered[c]
    PROVE  DInv'
BY DEF DInv, DeadlinesKept, UnusedAreFresh

\* A session that ends leaves the deadlines of the others alone.
LEMMA EndSessionDeadlines ==
    ASSUME IInv, DInv, KeysFitInt, NEW c \in Conn, pc[c] \in Active, EndSession(c)
    PROVE  DInv'
<1> USE DEF IInv
<1> DEFINE p == mgr[c]
           entry == Lookup(c, connections[p])
           corpse == IF entry = {} THEN Lookup(c, dead_connections[p]) ELSE {}
<1>1. entry = connections[p] \cap {c} /\ corpse \subseteq {c} /\ p \in Pipelines
  BY LookupFindsOwnEntry DEF TypeOK
<1>2. /\ connections' = [connections EXCEPT ![p] = @ \ entry]
      /\ expire' = [d \in Conn |-> IF d \in entry \cup corpse THEN 0 ELSE expire[d]]
      /\ idle' = [d \in Conn |-> IF d \in entry \cup corpse THEN 0 ELSE idle[d]]
      /\ answered' = [d \in Conn |-> answered[d] /\ d \notin entry \cup corpse]
      /\ pc' = [pc EXCEPT ![c] = "done"]
  BY DEF EndSession, Remove
<1> HIDE DEF entry, corpse
<1>3. \A q \in Pipelines : connections'[q] = connections[q] \ {c}
  BY <1>1, <1>2 DEF TypeOK, EntriesHaveSessions, p
<1>4. \A d \in Conn \ {c} :
        /\ expire'[d] = expire[d]
        /\ idle'[d] = idle[d]
        /\ answered'[d] = answered[d]
        /\ pc'[d] = pc[d]
  BY <1>1, <1>2 DEF TypeOK
<1>5. pc'[c] = "done"
  BY <1>2 DEF TypeOK
<1>6. \A q \in Pipelines : connections[q] \subseteq Conn
  BY DEF TypeOK
<1> QED
  BY <1>3, <1>4, <1>5, <1>6, DeadlinesIfKept

\* An answer moves the deadline of its own connection to connection_timeout
\* seconds from now.
LEMMA AnswerDeadlines ==
    ASSUME IInv, DInv, KeysFitInt, ConnectionTimeout # 0,
           NEW c \in Conn, pc[c] \in Active,
           NEW close \in BOOLEAN, AnswerRequest(c, close)
    PROVE  DInv'
<1> USE DEF IInv
<1>1. mgr[c] \in Pipelines
  BY DEF TypeOK
<1>2. Lookup(c, connections[mgr[c]]) = connections[mgr[c]] \cap {c}
  BY LookupFindsOwnEntry
<1>3. /\ expire' = [d \in Conn |-> IF d \in connections[mgr[c]] \cap {c}
                                   THEN ConnectionTimeout ELSE expire[d]]
      /\ idle' = [idle EXCEPT ![c] = 0]
      /\ answered' = [answered EXCEPT ![c] = TRUE]
      /\ connections' = connections
      /\ pc' = [pc EXCEPT ![c] = "replying"]
  BY <1>1, <1>2 DEF AnswerRequest, Suspend
<1>4. DeadlinesKept'
  <2> SUFFICES ASSUME NEW p \in Pipelines, NEW d \in connections[p], answered'[d]
               PROVE  \/ idle'[d] > ConnectionTimeout
                      \/ expire'[d] + idle'[d] >= ConnectionTimeout
    BY <1>3 DEF DeadlinesKept
  <2>1. d \in Conn /\ mgr[d] = p
    BY DEF TypeOK, EntriesHaveSessions
  <2>2. CASE d = c
    BY <1>3, <2>1, <2>2, ConstantsAssumption DEF TypeOK
  <2>3. CASE d # c
    BY <1>3, <2>1, <2>3 DEF TypeOK, DInv, DeadlinesKept
  <2> QED
    BY <2>2, <2>3
<1>5. UnusedAreFresh'
  BY <1>3 DEF DInv, UnusedAreFresh, TypeOK
<1> QED
  BY <1>4, <1>5 DEF DInv

\* A coroutine that goes on keeps its deadline, or sets it with an answer.
LEMMA ResumeDeadlines ==
    ASSUME IInv, DInv, KeysFitInt, ConnectionTimeout # 0, NEW c \in Conn, Resume(c)
    PROVE  DInv'
<1>1. pc[c] \in Active
  BY DEF Resume, StartSession, ResumeRead, ResumeReply, ResumeReject, Active, Waiting
<1>2. \/ \E where \in Waiting : Suspend(c, where) /\ UNCHANGED <<expire, idle, answered>>
      \/ \E close \in BOOLEAN : AnswerRequest(c, close)
      \/ EndSession(c)
  BY DEF Resume, StartSession, ResumeRead, ResumeReply, ResumeReject, HandleRequest,
         RequestIncomplete, RejectRequest, AbandonRequest, ReadMore, Waiting
<1>3. ASSUME NEW where \in Waiting, Suspend(c, where), UNCHANGED <<expire, idle, answered>>
      PROVE  DInv'
  <2>1. connections' = connections /\ \A d \in Conn : pc'[d] = "none" => pc[d] = "none"
    BY <1>3 DEF Suspend, IInv, TypeOK, Waiting
  <2> QED
    BY <1>3, <2>1, DeadlinesIfKept
<1> QED
  BY <1>1, <1>2, <1>3, AnswerDeadlines, EndSessionDeadlines

\* A new connection has not been answered yet.
LEMMA OnNewConnectionDeadlines ==
    ASSUME IInv, DInv, NEW p \in Pipelines, OnNewConnection(p)
    PROVE  DInv'
<1> DEFINE n == next_key + 1
<1> USE DEF IInv
<1>1. n \in Conn /\ pc[n] = "none" /\ ~answered[n]
  BY ConstantsAssumption DEF OnNewConnection, TypeOK, Conn, UsedKeys, DInv, UnusedAreFresh
<1>2. /\ expire' = [expire EXCEPT ![n] = InitialLifetime]
      /\ pc' = [pc EXCEPT ![n] = "spawned"]
      /\ idle' = idle /\ answered' = answered
      /\ \A q \in Pipelines : connections'[q] \subseteq connections[q] \cup {n}
  <2>1. \E victims : connections' = [connections EXCEPT
                                        ![p] = (connections[p] \cup {n}) \ victims]
    BY DEF OnNewConnection, CreateConnection, Kill
  <2> QED
    BY <2>1 DEF OnNewConnection, TypeOK
<1> HIDE DEF n
<1>3. DeadlinesKept'
  <2> SUFFICES ASSUME NEW q \in Pipelines, NEW d \in connections'[q], answered'[d]
               PROVE  \/ idle'[d] > ConnectionTimeout
                      \/ expire'[d] + idle'[d] >= ConnectionTimeout
    BY DEF DeadlinesKept
  <2>1. CASE d = n
    BY <1>1, <1>2, <2>1
  <2>2. CASE d # n
    <3>1. d \in connections[q] /\ d \in Conn
      BY <1>2, <2>2 DEF TypeOK
    <3> QED
      BY <1>1, <1>2, <2>2, <3>1 DEF TypeOK, DInv, DeadlinesKept
  <2> QED
    BY <2>1, <2>2
<1>4. UnusedAreFresh'
  BY <1>1, <1>2 DEF TypeOK, DInv, UnusedAreFresh
<1> QED
  BY <1>3, <1>4 DEF DInv

\* The clock takes from the deadline what it adds to the time since the last answer.
LEMMA TickDeadlines ==
    ASSUME IInv, DInv, Tick
    PROVE  DInv'
<1> USE DEF IInv
<1>1. DeadlinesKept'
  <2> SUFFICES ASSUME NEW p \in Pipelines, NEW c \in connections[p], answered[c]
               PROVE  \/ idle'[c] > ConnectionTimeout
                      \/ expire'[c] + idle'[c] >= ConnectionTimeout
    BY DEF DeadlinesKept, Tick
  <2>1. c \in Conn /\ c \in Listed /\ expire[c] \in Int /\ idle[c] \in Nat
    BY DEF TypeOK, Listed
  <2>2. /\ expire'[c] = IF expire[c] >= 0 THEN expire[c] - 1 ELSE expire[c]
        /\ idle'[c] = IF idle[c] <= ConnectionTimeout THEN idle[c] + 1 ELSE idle[c]
    BY <2>1 DEF Tick
  <2>3. idle[c] > ConnectionTimeout \/ expire[c] + idle[c] >= ConnectionTimeout
    BY DEF DInv, DeadlinesKept
  <2> QED
    BY <2>1, <2>2, <2>3, ConstantsAssumption
<1>2. UnusedAreFresh'
  BY DEF Tick, DInv, UnusedAreFresh
<1> QED
  BY <1>1, <1>2 DEF DInv

\* Every step keeps the deadlines.
LEMMA NextDeadlines ==
    ASSUME KeysFitInt, ConnectionTimeout # 0, IInv, DInv, [Next]_vars
    PROVE  DInv'
<1>1. ASSUME NEW p \in Pipelines, Accept(p) PROVE DInv'
  BY <1>1, DeadlinesIfKept DEF Accept
<1>2. ASSUME NEW p \in Pipelines, OnNewConnection(p) PROVE DInv'
  BY <1>2, OnNewConnectionDeadlines
<1>3. ASSUME NEW p \in Pipelines, HttpHousekeeping(p) PROVE DInv'
  <2>1. \A q \in Pipelines : connections'[q] \subseteq connections[q]
    BY <1>3 DEF HttpHousekeeping, Kill, IInv, TypeOK
  <2> QED
    BY <1>3, <2>1, DeadlinesIfKept DEF HttpHousekeeping
<1>4. ASSUME NEW c \in Conn, Resume(c) PROVE DInv'
  BY <1>4, ResumeDeadlines
<1>5. ASSUME NEW c \in Conn, NEW r \in {"ok", "error"}, IoCompletes(c, r) PROVE DInv'
  BY <1>5, DeadlinesIfKept DEF IoCompletes
<1>6. CASE Tick
  BY <1>6, TickDeadlines
<1>7. CASE UNCHANGED vars
  BY <1>7, DeadlinesIfKept DEF vars
<1> QED
  BY <1>1, <1>2, <1>3, <1>4, <1>5, <1>6, <1>7 DEF Next

\* Only housekeeping moves entries to the dead list without a newcomer, and it
\* takes those whose deadline has passed.
LEMMA DroppedAreIdle ==
    ASSUME KeysFitInt, IInv, DInv, [Next]_vars,
           NEW p \in Pipelines, NEW c \in connections[p] \cap dead_connections'[p],
           next_key' = next_key, answered[c]
    PROVE  idle[c] > ConnectionTimeout
<1> USE DEF IInv
<1>1. c \notin dead_connections[p] /\ c \in Conn
  BY DEF DeadAreClosed, TypeOK
<1>2. ASSUME NEW q \in Pipelines, HttpHousekeeping(q) PROVE idle[c] > ConnectionTimeout
  <2>1. dead_connections'[p] \subseteq
            dead_connections[p] \cup UNION {Lookup(d, connections[p]) : d \in Expired(p)}
    BY <1>2 DEF HttpHousekeeping, Kill, TypeOK
  <2>2. PICK d \in Expired(p) : c \in Lookup(d, connections[p])
    BY <1>1, <2>1
  <2>3. d = c
    BY <2>2, LookupFindsOwnEntry DEF Expired, TypeOK
  <2>4. expire[c] < 0 /\ expire[c] \in Int /\ idle[c] \in Nat
    BY <1>1, <2>2, <2>3 DEF Expired, TypeOK
  <2>5. idle[c] > ConnectionTimeout \/ expire[c] + idle[c] >= ConnectionTimeout
    BY DEF DInv, DeadlinesKept
  <2> QED
    BY <2>4, <2>5, ConstantsAssumption
<1>3. ASSUME NEW q \in Pipelines, OnNewConnection(q) PROVE FALSE
  BY <1>3 DEF OnNewConnection, TypeOK
<1>4. ASSUME NEW d \in Conn, Resume(d) PROVE FALSE
  <2>1. \/ UNCHANGED dead_connections
        \/ EndSession(d)
    BY <1>4 DEF Resume, StartSession, ResumeRead, ResumeReply, ResumeReject, Suspend,
           HandleRequest, RequestIncomplete, RejectRequest, AbandonRequest,
           AnswerRequest, ReadMore
  <2>2. dead_connections'[p] \subseteq dead_connections[p]
    BY <2>1 DEF EndSession, Remove, TypeOK
  <2> QED
    BY <1>1, <2>2
<1>5. CASE \/ \E q \in Pipelines : Accept(q)
           \/ \E d \in Conn, r \in {"ok", "error"} : IoCompletes(d, r)
           \/ Tick
           \/ UNCHANGED vars
  BY <1>1, <1>5 DEF Accept, IoCompletes, Tick, vars
<1> QED
  BY <1>2, <1>3, <1>4, <1>5 DEF Next

\* Housekeeping drops nobody who was answered within the configured time,
\* whatever that time is and whatever the other sessions, the limit and the
\* clock do.
THEOREM DeadlineRespected ==
    ASSUME KeysFitInt
    PROVE  Spec => AnswerKeepsAlive
<1>1. Init => DInv
  BY DEF Init, DInv, DeadlinesKept, UnusedAreFresh
<1>2. ASSUME ConnectionTimeout # 0
      PROVE  IInv /\ DInv /\ [Next]_vars => DInv'
  BY <1>2, NextDeadlines
<1>3. ASSUME ConnectionTimeout # 0
      PROVE  IInv /\ DInv /\ [Next]_vars =>
        [\A p \in Pipelines : \A c \in connections[p] \cap dead_connections'[p] :
            next_key' = next_key /\ ConnectionTimeout # 0 /\ answered[c]
                => idle[c] > ConnectionTimeout]_vars
  BY DroppedAreIdle
<1>4. CASE ConnectionTimeout # 0
  <2>1. Init /\ [][Next]_vars => []IInv
    BY Invariance DEF Spec
  <2> QED
    BY <1>1, <1>2, <1>3, <1>4, <2>1, PTL DEF Spec, AnswerKeepsAlive
<1>5. CASE ConnectionTimeout = 0
  <2>1. [Next]_vars =>
        [\A p \in Pipelines : \A c \in connections[p] \cap dead_connections'[p] :
            next_key' = next_key /\ ConnectionTimeout # 0 /\ answered[c]
                => idle[c] > ConnectionTimeout]_vars
    BY <1>5
  <2> QED
    BY <2>1, PTL DEF Spec, AnswerKeepsAlive
<1> QED
  BY <1>4, <1>5
=============================================================================
