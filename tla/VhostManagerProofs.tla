------------------------- MODULE VhostManagerProofs -------------------------
(***************************************************************************)
(* Proofs about the site table: for any number of threads, sites and       *)
(* mutexes, any width of the counters and any files and configurations, an *)
(* index stays in the mapping and the table implements PageCounters.       *)
(***************************************************************************)
EXTENDS VhostManager, TLAPS

(***************************************************************************)
(* The inductive invariant.  A step of a thread is a Hit of PageCounters   *)
(* only if the word it has loaded is still the one in the table, which is  *)
(* so because it holds the mutex of the site; a start is one of            *)
(* PageCounters only if a file that does not exist counts as empty and one *)
(* that is being sized is.                                                 *)
(***************************************************************************)
Counting == {"locked", "loaded"}

MutexHeld ==
    \A t \in Threads : thread[t].pc \in Counting => mutex[MutexOf(thread[t].ix)] = {t}

LoadedIsCurrent ==
    \A t \in Threads : thread[t].pc = "loaded" => thread[t].word = file.words[thread[t].ix + 1]

OnlyUpWorks ==
    process # "up" => \A t \in Threads : thread[t] = Idle(Counters!NoPage)

EmptyFiles ==
    /\ ~file.exists => file.words = <<>>
    /\ process = "sizing" => file.words = <<>>
    /\ process # "down" => file.exists

IInv ==
    /\ TypeOK
    /\ SiteInMapping
    /\ MutexHeld
    /\ LoadedIsCurrent
    /\ OnlyUpWorks
    /\ EmptyFiles

USE HostsAssumption, VhostAssumption
-----------------------------------------------------------------------------
(***************************************************************************)
(* Lemmas about the operators.                                             *)
(***************************************************************************)
\* What an idle thread holds is of its type.
LEMMA IdleType ==
    /\ NoWord \in Word
    /\ Counters!NoPage \in [site : Nat, hits : 0 .. HitMod - 1]
BY DEF NoWord, Word, HostTemplate, Counters!NoPage

\* The lock of a site is one of the mutexes.
LEMMA MutexOfType ==
    ASSUME NEW ix \in Nat
    PROVE  MutexOf(ix) \in 0 .. NumMutexes - 1
BY DEF MutexOf

\* The counter wraps around within its bits, and the template is not touched.
LEMMA IncrementWord ==
    ASSUME NEW word \in Word
    PROVE  /\ Increment(word) \in Word
           /\ Increment(word) = [word EXCEPT !.hostbits = (word.hostbits + 1) % HitMod]
           /\ Increment(word).hostbits = (word.hostbits + 1) % HitMod
           /\ Increment(word).host_template = word.host_template
<1>1. word.hostbits \in 0 .. HitMod - 1 /\ word.host_template \in HostTemplate
  BY DEF Word
<1>2. (word.hostbits + 1) % HitMod \in 0 .. HitMod - 1
  BY <1>1
<1> QED
  BY <1>1, <1>2 DEF Increment, Word

\* Whatever the Host header says, a site that is found is one of the table.
LEMMA FoundSiteInRange ==
    ASSUME NEW host \in Headers, NEW n \in Nat, GetHost(host, n).status = "found"
    PROVE  GetHost(host, n).ix \in Nat /\ GetHost(host, n).ix < n
<1> DEFINE found == GetHostIndex(host)
<1>1. host.label.value \in Int /\ UintMod \in Nat /\ UintMod > 0
  BY DEF Host
<1>2. host.label.value % UintMod \in 0 .. UintMod - 1
  BY <1>1
<1>3. found.status = "found" => found.ix \in Nat
  BY <1>2 DEF GetHostIndex, GetHostIndexFromName, Found, Redirect, UnknownHost
<1>4. GetHost(host, n) = IF found.status = "found" /\ found.ix >= n
                         THEN UnknownHost ELSE found
  BY DEF GetHost
<1>5. UnknownHost.status # "found"
  BY DEF UnknownHost
<1> HIDE DEF found
<1> QED
  BY <1>3, <1>4, <1>5

\* The table of a new file has the configured length.
LEMMA NewTableType ==
    ASSUME NEW n \in Nat
    PROVE  Counters!NewTable(n) \in Seq(Word) /\ Len(Counters!NewTable(n)) = n
<1>1. [hostbits |-> 0, host_template |-> "default"] \in Word
  BY DEF Word, HostTemplate
<1>2. Counters!NewTable(n) \in [1 .. n -> Word]
  BY <1>1 DEF Counters!NewTable
<1> QED
  BY <1>2
-----------------------------------------------------------------------------
(***************************************************************************)
(* The actions preserve the invariant.                                     *)
(***************************************************************************)
\* The invariant holds before the first start.
LEMMA InitInv ==
    Init => IInv
<1> SUFFICES ASSUME Init PROVE IInv
  OBVIOUS
<1>1. TypeOK
  BY IdleType DEF Init, TypeOK, Idle, Unlocked, File
<1>2. SiteInMapping /\ MutexHeld /\ LoadedIsCurrent
  BY DEF Init, SiteInMapping, MutexHeld, LoadedIsCurrent, Idle, Counting
<1>3. OnlyUpWorks /\ EmptyFiles
  BY DEF Init, OnlyUpWorks, EmptyFiles
<1> QED
  BY <1>1, <1>2, <1>3 DEF IInv

\* The process starts, is configured or ends: no thread is counting, then.
LEMMA ProcessInv ==
    ASSUME IInv, Configure \/ PreAllocateMmapFile \/ SizeMmapFile \/ Crash
    PROVE  IInv'
<1> USE DEF IInv
<1>1. CASE Configure
  BY <1>1 DEF Configure, TypeOK, SiteInMapping, MutexHeld, LoadedIsCurrent, OnlyUpWorks,
     EmptyFiles
<1>2. CASE PreAllocateMmapFile
  <2>1. file' \in File /\ process' \in {"sizing", "up"}
    <3>1. [exists |-> TRUE, words |-> <<>>] \in File
      BY DEF File
    <3> QED
      BY <1>2, <3>1 DEF PreAllocateMmapFile, TypeOK
  <2>2. process = "down" /\ \A t \in Threads : thread[t].pc = "idle"
    BY <1>2 DEF PreAllocateMmapFile, OnlyUpWorks, Idle
  <2>3. TypeOK'
    BY <1>2, <2>1 DEF PreAllocateMmapFile, TypeOK
  <2>4. SiteInMapping' /\ MutexHeld' /\ LoadedIsCurrent'
    BY <1>2, <2>2 DEF PreAllocateMmapFile, DoCreate, SiteInMapping, MutexHeld,
       LoadedIsCurrent, Counting
  <2>5. OnlyUpWorks' /\ EmptyFiles'
    BY <1>2, <2>2 DEF PreAllocateMmapFile, DoCreate, OnlyUpWorks, EmptyFiles
  <2> QED
    BY <2>3, <2>4, <2>5
<1>3. CASE SizeMmapFile
  <2> DEFINE table == Counters!NewTable(config.num_sites)
  <2>1. config.num_sites \in Nat
    BY DEF TypeOK
  <2>2. table \in Seq(Word) /\ Len(table) = config.num_sites
    BY <2>1, NewTableType
  <2>3. file' = [exists |-> file.exists, words |-> table]
    BY <1>3 DEF SizeMmapFile, TypeOK, File
  <2> HIDE DEF table
  <2>4. process = "sizing" /\ \A t \in Threads : thread[t].pc = "idle"
    BY <1>3 DEF SizeMmapFile, OnlyUpWorks, Idle
  <2>5. file.exists
    BY <2>4 DEF EmptyFiles
  <2>6. TypeOK'
    <3>1. file' \in File
      BY <2>2, <2>3 DEF TypeOK, File
    <3> QED
      BY <1>3, <3>1 DEF SizeMmapFile, TypeOK
  <2>7. SiteInMapping' /\ MutexHeld' /\ LoadedIsCurrent'
    BY <1>3, <2>2, <2>3, <2>4 DEF SizeMmapFile, SiteInMapping, MutexHeld, LoadedIsCurrent,
       Counting
  <2>8. OnlyUpWorks' /\ EmptyFiles'
    BY <1>3, <2>3, <2>5 DEF SizeMmapFile, OnlyUpWorks, EmptyFiles
  <2> QED
    BY <2>6, <2>7, <2>8
<1>4. CASE Crash
  <2>1. TypeOK'
    BY <1>4, IdleType DEF Crash, TypeOK, Idle, Unlocked
  <2>2. SiteInMapping' /\ MutexHeld' /\ LoadedIsCurrent'
    BY <1>4 DEF Crash, SiteInMapping, MutexHeld, LoadedIsCurrent, Idle, Counting
  <2>3. OnlyUpWorks' /\ EmptyFiles'
    BY <1>4 DEF Crash, OnlyUpWorks, EmptyFiles
  <2> QED
    BY <2>1, <2>2, <2>3
<1> QED
  BY <1>1, <1>2, <1>3, <1>4

\* A thread takes up a request.
LEMMA RequestInv ==
    ASSUME IInv, NEW t \in Threads, NEW h \in Headers, NEW m \in Methods, NEW u \in Uris,
           Request(t, h, m, u)
    PROVE  IInv'
<1> USE DEF IInv
<1> DEFINE found == GetHost(h, config.num_sites)
           counts == /\ found.status = "found"
                     /\ CountsHit(Data(found.ix).host_template, m, u)
           new == IF counts
                  THEN [Idle(Counters!NoPage) EXCEPT !.pc = "locking", !.ix = found.ix]
                  ELSE Idle(Counters!NoPage)
<1>1. /\ process = "up" /\ thread[t].pc = "idle"
      /\ thread' = [thread EXCEPT ![t] = new]
      /\ UNCHANGED <<config, file, process, mutex>>
  BY DEF Request
<1>2. Len(file.words) = config.num_sites /\ config.num_sites \in Nat
  BY <1>1 DEF SiteInMapping, TypeOK
<1>3. counts => found.ix \in Nat /\ found.ix < Len(file.words)
  BY <1>2, FoundSiteInRange
<1>4. /\ new \in [pc   : {"idle", "locking"},
                  ix   : Nat,
                  word : Word,
                  page : [site : Nat, hits : 0 .. HitMod - 1]]
      /\ new.pc = "locking" => new.ix < Len(file.words)
  <2> HIDE DEF found, counts
  <2>1. CASE counts
    <3>1. new = [pc |-> "locking", ix |-> found.ix, word |-> NoWord,
                 page |-> Counters!NoPage]
      BY <2>1 DEF Idle
    <3> QED
      BY <1>3, <2>1, <3>1, IdleType
  <2>2. CASE ~counts
    BY <2>2, IdleType DEF Idle
  <2> QED
    BY <2>1, <2>2
<1> HIDE DEF new
<1>5. TypeOK'
  BY <1>1, <1>4 DEF TypeOK
<1>6. SiteInMapping'
  BY <1>1, <1>2, <1>4 DEF SiteInMapping, TypeOK
<1>7. MutexHeld' /\ LoadedIsCurrent'
  BY <1>1, <1>4 DEF MutexHeld, LoadedIsCurrent, Counting, TypeOK
<1>8. OnlyUpWorks' /\ EmptyFiles'
  BY <1>1 DEF OnlyUpWorks, EmptyFiles
<1> QED
  BY <1>5, <1>6, <1>7, <1>8

\* A thread gets the mutex of its site: nobody else has it.
LEMMA LockInv ==
    ASSUME IInv, NEW t \in Threads, Lock(t)
    PROVE  IInv'
<1> USE DEF IInv
<1> DEFINE m == MutexOf(thread[t].ix)
<1>1. m \in 0 .. NumMutexes - 1 /\ mutex[m] = {}
  BY MutexOfType DEF Lock, MutexFree, TypeOK
<1>2. /\ thread[t].pc = "locking"
      /\ mutex' = [mutex EXCEPT ![m] = {t}]
      /\ thread' = [thread EXCEPT ![t] = [thread[t] EXCEPT !.pc = "locked"]]
      /\ UNCHANGED <<config, file, process>>
  BY DEF Lock
<1>3. process = "up"
  BY <1>2 DEF OnlyUpWorks, Idle
<1>4. /\ thread'[t].pc = "locked" /\ thread'[t].ix = thread[t].ix
      /\ \A other \in Threads \ {t} : thread'[other] = thread[other]
  BY <1>2 DEF TypeOK
<1>5. TypeOK'
  BY <1>1, <1>2 DEF TypeOK
<1>6. SiteInMapping'
  BY <1>2, <1>3, <1>4 DEF SiteInMapping
<1>7. MutexHeld'
  <2> SUFFICES ASSUME NEW s \in Threads, thread'[s].pc \in Counting
               PROVE  mutex'[MutexOf(thread'[s].ix)] = {s}
    BY DEF MutexHeld, MutexOf
  <2>1. CASE s = t
    BY <1>1, <1>2, <1>4, <2>1 DEF TypeOK
  <2>2. CASE s # t
    <3>1. mutex[MutexOf(thread[s].ix)] = {s} /\ thread'[s] = thread[s]
      BY <1>4, <2>2 DEF MutexHeld
    <3>2. MutexOf(thread[s].ix) # m
      BY <1>1, <3>1
    <3> QED
      BY <1>2, <3>1, <3>2, MutexOfType DEF TypeOK
  <2> QED
    BY <2>1, <2>2
<1>8. LoadedIsCurrent' /\ OnlyUpWorks' /\ EmptyFiles'
  BY <1>2, <1>3, <1>4 DEF LoadedIsCurrent, OnlyUpWorks, EmptyFiles
<1> QED
  BY <1>5, <1>6, <1>7, <1>8

\* A thread loads the word of its site, which is in the mapping.
LEMMA LoadInv ==
    ASSUME IInv, NEW t \in Threads, Load(t)
    PROVE  IInv'
<1> USE DEF IInv
<1> DEFINE word == file.words[thread[t].ix + 1]
<1>1. thread[t].pc = "locked" /\ thread[t].ix \in Nat
  BY DEF Load, TypeOK
<1>2. process = "up"
  BY <1>1 DEF OnlyUpWorks, Idle
<1>3. thread[t].ix < Len(file.words) /\ file.words \in Seq(Word)
  BY <1>1, <1>2 DEF SiteInMapping, TypeOK, File
<1>4. word \in Word /\ Data(thread[t].ix) = word
  BY <1>1, <1>3 DEF Data
<1> HIDE DEF word
<1>5. /\ thread' = [thread EXCEPT ![t] = [thread[t] EXCEPT !.pc = "loaded", !.word = word]]
      /\ UNCHANGED <<config, file, process, mutex>>
  BY <1>4 DEF Load, TypeOK
<1>6. /\ thread'[t].pc = "loaded" /\ thread'[t].ix = thread[t].ix
      /\ thread'[t].word = word
      /\ \A other \in Threads \ {t} : thread'[other] = thread[other]
  BY <1>5 DEF TypeOK
<1>7. TypeOK'
  BY <1>4, <1>5 DEF TypeOK
<1>8. SiteInMapping' /\ MutexHeld'
  <2>1. SiteInMapping'
    BY <1>1, <1>2, <1>5, <1>6 DEF SiteInMapping
  <2>2. MutexHeld'
    BY <1>1, <1>5, <1>6 DEF MutexHeld, Counting
  <2> QED
    BY <2>1, <2>2
<1>9. LoadedIsCurrent' /\ OnlyUpWorks' /\ EmptyFiles'
  BY <1>2, <1>5, <1>6 DEF word, LoadedIsCurrent, OnlyUpWorks, EmptyFiles
<1> QED
  BY <1>7, <1>8, <1>9

\* The page that shows a word of the table.
PageOf(ix, word) ==
    IF word.host_template = "default" THEN [site |-> ix, hits |-> word.hostbits]
                                      ELSE Counters!NoPage

\* Store, with the word in the table in the place of the one that was loaded.
LEMMA StoreEffect ==
    ASSUME IInv, NEW t \in Threads, Store(t),
           NEW ix, ix = thread[t].ix,
           NEW word, word = file.words[ix + 1]
    PROVE  /\ process = "up" /\ thread[t].pc = "loaded"
           /\ ix \in Nat /\ ix < Len(file.words)
           /\ word \in Word
           /\ file' = [exists |-> file.exists,
                       words  |-> [file.words EXCEPT ![ix + 1] = Increment(word)]]
           /\ mutex' = [mutex EXCEPT ![MutexOf(ix)] = {}]
           /\ thread' = [thread EXCEPT ![t] = Idle(PageOf(ix, Increment(word)))]
           /\ UNCHANGED <<config, process>>
<1> USE DEF IInv
<1>1. thread[t].pc = "loaded" /\ ix \in Nat
  BY DEF Store, TypeOK
<1>2. process = "up"
  BY <1>1 DEF OnlyUpWorks, Idle
<1>3. ix < Len(file.words) /\ file.words \in Seq(Word)
  BY <1>1, <1>2 DEF SiteInMapping, TypeOK, File
<1>4. word \in Word /\ thread[t].word = word
  BY <1>1, <1>3 DEF LoadedIsCurrent
<1>5. file' = [file EXCEPT !.words = [file.words EXCEPT ![ix + 1] = Increment(word)]]
  BY <1>4 DEF Store
<1>6. file' = [exists |-> file.exists,
               words  |-> [file.words EXCEPT ![ix + 1] = Increment(word)]]
  BY <1>5 DEF TypeOK, File
<1>7. mutex' = [mutex EXCEPT ![MutexOf(ix)] = {}] /\ UNCHANGED <<config, process>>
  BY DEF Store, Unlock
<1>8. thread' = [thread EXCEPT ![t] = Idle(PageOf(ix, Increment(word)))]
  BY <1>4 DEF Store, PageOf
<1> QED
  BY <1>1, <1>2, <1>3, <1>4, <1>6, <1>7, <1>8

\* The mutex keeps other threads away from the word: those that have loaded one
\* have loaded another one.
LEMMA StoreInv ==
    ASSUME IInv, NEW t \in Threads, Store(t)
    PROVE  IInv'
<1> USE DEF IInv
<1> DEFINE ix == thread[t].ix
           word == file.words[ix + 1]
           words == [file.words EXCEPT ![ix + 1] = Increment(word)]
           page == PageOf(ix, Increment(word))
<1>1. /\ process = "up" /\ thread[t].pc = "loaded"
      /\ ix \in Nat /\ ix < Len(file.words)
      /\ word \in Word
      /\ file' = [exists |-> file.exists, words |-> words]
      /\ mutex' = [mutex EXCEPT ![MutexOf(ix)] = {}]
      /\ thread' = [thread EXCEPT ![t] = Idle(page)]
      /\ UNCHANGED <<config, process>>
  BY StoreEffect
<1>2. words \in Seq(Word) /\ Len(words) = Len(file.words)
  BY <1>1, IncrementWord DEF TypeOK, File
<1>3. page \in [site : Nat, hits : 0 .. HitMod - 1]
  BY <1>1, IncrementWord, IdleType DEF PageOf, Word
<1>4. \A i \in 1 .. Len(file.words) : i # ix + 1 => words[i] = file.words[i]
  BY <1>1 DEF TypeOK, File
<1> HIDE DEF words, page, word
<1>5. TypeOK'
  <2>1. file' \in File
    BY <1>1, <1>2 DEF TypeOK, File
  <2>2. mutex' \in [0 .. NumMutexes - 1 -> SUBSET Threads]
    BY <1>1 DEF TypeOK
  <2>3. Idle(page) \in [pc   : {"idle"}, ix : Nat, word : Word,
                        page : [site : Nat, hits : 0 .. HitMod - 1]]
    BY <1>3, IdleType DEF Idle
  <2> QED
    BY <1>1, <2>1, <2>2, <2>3 DEF TypeOK
<1>6. thread'[t].pc = "idle" /\ \A s \in Threads \ {t} : thread'[s] = thread[s]
  BY <1>1 DEF TypeOK, Idle
<1>7. SiteInMapping'
  BY <1>1, <1>2, <1>6 DEF SiteInMapping
<1>8. ASSUME NEW s \in Threads, s # t, thread[s].pc \in Counting
      PROVE  /\ MutexOf(thread[s].ix) # MutexOf(ix) /\ thread[s].ix # ix
             /\ mutex[MutexOf(thread[s].ix)] = {s}
  BY <1>1, <1>8 DEF MutexHeld, Counting
<1>9. MutexHeld'
  <2> SUFFICES ASSUME NEW s \in Threads, thread'[s].pc \in Counting
               PROVE  mutex'[MutexOf(thread'[s].ix)] = {s}
    BY DEF MutexHeld, MutexOf
  <2>1. s # t /\ thread'[s] = thread[s] /\ thread[s].ix \in Nat
    BY <1>6 DEF Counting, TypeOK
  <2> QED
    BY <1>1, <1>8, <2>1, MutexOfType DEF TypeOK
<1>10. LoadedIsCurrent'
  <2> SUFFICES ASSUME NEW s \in Threads, thread'[s].pc = "loaded"
               PROVE  thread'[s].word = file'.words[thread'[s].ix + 1]
    BY DEF LoadedIsCurrent
  <2>1. s # t /\ thread'[s] = thread[s] /\ thread[s].ix \in Nat
    BY <1>6 DEF TypeOK
  <2>2. thread[s].ix # ix /\ thread[s].ix < Len(file.words)
    BY <1>1, <1>8, <2>1 DEF Counting, SiteInMapping
  <2>3. thread[s].ix + 1 \in 1 .. Len(file.words) /\ thread[s].ix + 1 # ix + 1
    BY <1>1, <2>1, <2>2 DEF TypeOK, File
  <2>4. words[thread[s].ix + 1] = file.words[thread[s].ix + 1]
    BY <1>4, <2>3
  <2> QED
    BY <1>1, <2>1, <2>4 DEF LoadedIsCurrent
<1>11. OnlyUpWorks' /\ EmptyFiles'
  BY <1>1 DEF OnlyUpWorks, EmptyFiles
<1> QED
  BY <1>5, <1>7, <1>9, <1>10, <1>11

\* Every step preserves the invariant.
LEMMA NextInv ==
    ASSUME IInv, [Next]_vars
    PROVE  IInv'
<1>1. CASE Configure \/ PreAllocateMmapFile \/ SizeMmapFile \/ Crash
  BY <1>1, ProcessInv
<1>2. ASSUME NEW t \in Threads, NEW h \in Headers, NEW m \in Methods, NEW u \in Uris,
             Request(t, h, m, u)
      PROVE  IInv'
  BY <1>2, RequestInv
<1>3. ASSUME NEW t \in Threads, IncHitCount(t) PROVE IInv'
  BY <1>3, LockInv, LoadInv, StoreInv DEF IncHitCount
<1>4. CASE UNCHANGED vars
  BY <1>4 DEF vars, IInv, TypeOK, SiteInMapping, MutexHeld, LoadedIsCurrent, OnlyUpWorks,
     EmptyFiles
<1> QED
  BY <1>1, <1>2, <1>3, <1>4 DEF Next
-----------------------------------------------------------------------------
(***************************************************************************)
(* The theorems.                                                           *)
(***************************************************************************)
\* The inductive invariant holds in every reachable state, crashes and restarts of
\* the process included.
THEOREM Invariance ==
    Spec => []IInv
<1>1. Init => IInv
  BY InitInv
<1>2. IInv /\ [Next]_vars => IInv'
  BY NextInv
<1> QED
  BY <1>1, <1>2, PTL DEF Spec

\* Every variable keeps its type; in particular a counter keeps its width.
THEOREM TypeCorrect ==
    Spec => []TypeOK
<1>1. IInv => TypeOK
  BY DEF IInv
<1> QED
  BY Invariance, <1>1, PTL

\* GetHost and the length check of the constructor keep data_[ix] in the mapping,
\* over every sequence of starts, crashes and configurations.
THEOREM IndexInMapping ==
    Spec => []SiteInMapping
<1>1. IInv => SiteInMapping
  BY DEF IInv
<1> QED
  BY Invariance, <1>1, PTL

(***************************************************************************)
(* The refinement: what each step is for PageCounters.                     *)
(***************************************************************************)
Pages == [t \in Threads |-> thread[t].page]
AbstractVars == <<config, file.words, process = "up", Pages>>

\* The files that are there before the first start are tables of PageCounters.
LEMMA InitRefines ==
    Init => Counters!Init
<1> SUFFICES ASSUME Init PROVE Counters!Init
  OBVIOUS
<1>1. file.words \in Seq([hostbits : 0 .. HitMod - 1, host_template : {"default", "static"}])
  BY DEF Init, File, Word, HostTemplate
<1>2. Pages = Counters!Blank
  BY DEF Init, Pages, Idle, Counters!Blank
<1> QED
  BY <1>1, <1>2 DEF Init, Pages, Counters!Init

\* The life of the process: a start that creates the file is a Reset, which leaves
\* an empty table, and a Start from it; a crash in between is no step at all.
LEMMA ProcessRefines ==
    ASSUME IInv, Configure \/ PreAllocateMmapFile \/ SizeMmapFile \/ Crash
    PROVE  [Counters!Next]_AbstractVars
<1> USE DEF IInv
<1>1. CASE Configure
  <2>1. Counters!Configure
    BY <1>1 DEF Configure, Counters!Configure
  <2> QED
    BY <2>1 DEF Counters!Next
<1>2. CASE PreAllocateMmapFile
  <2>1. process = "down" /\ UNCHANGED <<config, mutex, thread>>
    BY <1>2 DEF PreAllocateMmapFile
  <2>2. config.num_sites >= 1 /\ config.num_sites \in Nat
    BY DEF TypeOK
  <2>3. CASE DoCreate
    <3>1. file'.words = <<>> /\ process' = "sizing"
      BY <1>2, <2>3 DEF PreAllocateMmapFile
    <3>2. ~file.exists => Len(file.words) # config.num_sites
      BY <2>2 DEF EmptyFiles
    <3>3. Counters!MustReset
      BY <2>3, <3>2 DEF DoCreate, Counters!MustReset
    <3>4. Counters!Reset
      BY <2>1, <3>1, <3>3 DEF Counters!Reset
    <3> QED
      BY <3>4 DEF Counters!Next
  <2>4. CASE ~DoCreate
    <3>1. process' = "up" /\ file' = file
      BY <1>2, <2>4 DEF PreAllocateMmapFile
    <3>2. ~Counters!MustReset
      BY <2>4 DEF DoCreate, Counters!MustReset
    <3>3. Counters!Start
      BY <2>1, <3>1, <3>2 DEF Counters!Start
    <3> QED
      BY <3>3 DEF Counters!Next
  <2> QED
    BY <2>3, <2>4
<1>3. CASE SizeMmapFile
  <2>1. /\ process = "sizing" /\ process' = "up"
        /\ UNCHANGED <<config, mutex, thread>>
        /\ file.words = <<>>
    BY <1>3 DEF SizeMmapFile, EmptyFiles
  <2>2. file' = [exists |-> file.exists, words |-> Counters!NewTable(config.num_sites)]
    BY <1>3 DEF SizeMmapFile, TypeOK, File
  <2>3. Counters!Start
    BY <2>1, <2>2 DEF Counters!Start
  <2> QED
    BY <2>3 DEF Counters!Next
<1>4. CASE Crash
  <2>1. Pages' = Counters!Blank
    BY <1>4 DEF Crash, Pages, Idle, Counters!Blank
  <2>2. CASE process = "up"
    <3>1. Counters!Stop
      BY <1>4, <2>1, <2>2 DEF Crash, Counters!Stop, Pages
    <3> QED
      BY <3>1 DEF Counters!Next
  <2>3. CASE process # "up"
    <3>1. Pages = Counters!Blank
      BY <2>3 DEF OnlyUpWorks, Pages, Idle, Counters!Blank
    <3>2. file' = file /\ config' = config /\ (process = "up") = FALSE /\ (process' = "up") = FALSE
      BY <1>4, <2>3 DEF Crash
    <3> QED
      BY <2>1, <3>1, <3>2 DEF AbstractVars
  <2> QED
    BY <2>2, <2>3
<1> QED
  BY <1>1, <1>2, <1>3, <1>4

\* A request turns the page of its thread.
LEMMA RequestRefines ==
    ASSUME IInv, NEW t \in Threads, NEW h \in Headers, NEW m \in Methods, NEW u \in Uris,
           Request(t, h, m, u)
    PROVE  [Counters!Next]_AbstractVars
<1>1. PICK new : /\ process = "up"
                 /\ new.page = Counters!NoPage
                 /\ thread' = [thread EXCEPT ![t] = new]
                 /\ UNCHANGED <<config, file, process, mutex>>
  <2> DEFINE counting == [Idle(Counters!NoPage) EXCEPT !.pc = "locking",
                                    !.ix = GetHost(h, config.num_sites).ix]
  <2>1. \A ix : [Idle(Counters!NoPage) EXCEPT !.pc = "locking", !.ix = ix].page
               = Counters!NoPage
    BY DEF Idle
  <2>2. counting.page = Counters!NoPage /\ Idle(Counters!NoPage).page = Counters!NoPage
    BY <2>1 DEF Idle
  <2> HIDE DEF counting
  <2>3. \/ thread' = [thread EXCEPT ![t] = counting]
        \/ thread' = [thread EXCEPT ![t] = Idle(Counters!NoPage)]
    BY DEF Request, counting
  <2> QED
    BY <2>2, <2>3 DEF Request
<1>2. Pages' = [Pages EXCEPT ![t] = Counters!NoPage]
  BY <1>1 DEF Pages, IInv, TypeOK
<1>3. Counters!TurnPage(t)
  BY <1>1, <1>2 DEF Counters!TurnPage, Pages
<1> QED
  BY <1>3 DEF Counters!Next

\* Of the steps of IncHitCount only the store can be seen: it is the Hit.
LEMMA IncHitCountRefines ==
    ASSUME IInv, NEW t \in Threads, IncHitCount(t)
    PROVE  [Counters!Next]_AbstractVars
<1> USE DEF IInv
<1>1. CASE Lock(t)
  <2>1. Pages' = Pages
    BY <1>1 DEF Lock, Pages, TypeOK
  <2> QED
    BY <1>1, <2>1 DEF Lock, AbstractVars
<1>2. CASE Load(t)
  <2> DEFINE word == Data(thread[t].ix)
  <2>1. thread' = [thread EXCEPT ![t] = [thread[t] EXCEPT !.pc = "loaded", !.word = word]]
    BY <1>2 DEF Load, TypeOK
  <2> HIDE DEF word
  <2>2. Pages' = Pages
    BY <2>1 DEF Pages, TypeOK
  <2> QED
    BY <1>2, <2>2 DEF Load, AbstractVars
<1>3. CASE Store(t)
  <2> DEFINE ix == thread[t].ix
             word == file.words[ix + 1]
             hits == (word.hostbits + 1) % HitMod
  <2>1. /\ process = "up" /\ thread[t].pc = "loaded"
        /\ ix \in Nat /\ ix < Len(file.words)
        /\ word \in Word
        /\ file' = [exists |-> file.exists,
                    words  |-> [file.words EXCEPT ![ix + 1] = Increment(word)]]
        /\ thread' = [thread EXCEPT ![t] = Idle(PageOf(ix, Increment(word)))]
        /\ UNCHANGED <<config, process>>
    BY <1>3, StoreEffect
  <2>2. /\ Increment(word) = [word EXCEPT !.hostbits = hits]
        /\ Increment(word).hostbits = hits
        /\ Increment(word).host_template = word.host_template
    BY <2>1, IncrementWord
  <2>3. file.words \in Seq(Word) /\ ix + 1 \in 1 .. Len(file.words) /\ (ix + 1) - 1 = ix
    BY <2>1 DEF TypeOK, File
  <2>4. file'.words = [file.words EXCEPT ![ix + 1].hostbits = hits]
    BY <2>1, <2>2, <2>3
  <2>5. Pages' = [Pages EXCEPT ![t] = IF word.host_template = "default"
                                      THEN [site |-> (ix + 1) - 1, hits |-> hits]
                                      ELSE Counters!NoPage]
    BY <2>1, <2>2, <2>3 DEF Pages, PageOf, Idle, TypeOK
  <2>6. PICK i \in 1 .. Len(file.words) : i = ix + 1
    BY <2>3
  <2>7. Counters!Hit(t, i)
    BY <2>1, <2>4, <2>5, <2>6 DEF Counters!Hit, Pages
  <2> QED
    BY <2>7 DEF Counters!Next
<1> QED
  BY <1>1, <1>2, <1>3 DEF IncHitCount

\* The mapped file, its mutexes and the increments in three steps implement
\* PageCounters: for any threads, sites, mutexes and width of the counters no hit is
\* lost or shown twice, and only a configuration that asks for it sets a counter
\* back, wherever the process crashes.
THEOREM TableImplementsCounters ==
    Spec => ImplementsCounters
<1>1. Init => Counters!Init
  BY InitRefines
<1>2. IInv /\ [Next]_vars => [Counters!Next]_AbstractVars
  <2> SUFFICES ASSUME IInv, [Next]_vars PROVE [Counters!Next]_AbstractVars
    OBVIOUS
  <2>1. CASE UNCHANGED vars
    BY <2>1 DEF vars, AbstractVars, Pages
  <2> QED
    BY <2>1, ProcessRefines, RequestRefines, IncHitCountRefines DEF Next
<1> QED
  BY Invariance, <1>1, <1>2, PTL DEF Spec, ImplementsCounters, Counters!Spec, AbstractVars, Pages
=============================================================================
