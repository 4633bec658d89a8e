---------------------------- MODULE VhostManager ----------------------------
(***************************************************************************)
(* The site table of VectorVhostManager: a file that is mapped into the    *)
(* process, one packed word per site, in which the IO threads count page   *)
(* hits; and the life of that file over starts and crashes.                *)
(*                                                                         *)
(* A word is its hit counter, hostbits, and its host_template; the counter *)
(* is a bit field, so that an increment loads and stores the whole word.   *)
(* GetHost reads host_template without the mutex; the stores of other      *)
(* threads never change these bits, so that it reads the same value before *)
(* and after them.  The stores of an aligned word reach the file even if   *)
(* the process crashes; the loss of the operating system is not modelled.  *)
(*                                                                         *)
(* A definition marked "Mutant" is a wrong version of the one below it: no *)
(* specification uses it; put in its place, it makes a property fail.      *)
(***************************************************************************)
EXTENDS Hosts, Sequences

CONSTANTS
    Threads,        \* the IO threads
    Configs,        \* [num_sites, recreate] an administrator chooses from
    HitMod,         \* 2^23: hostbits has 23 bits
    NumMutexes,     \* mutex_.size()
    Files,          \* the files that may be there before the first start
    Headers,        \* the Host: headers, methods and uris of the requests
    Methods,
    Uris

Word == [hostbits : 0 .. HitMod - 1, host_template : HostTemplate]

File == [exists : BOOLEAN, words : Seq(Word)]

ASSUME VhostAssumption ==
    /\ Configs \subseteq [num_sites : 1 .. UintMod - 1, recreate : BOOLEAN]
    /\ HitMod \in Nat \ {0} /\ NumMutexes \in Nat \ {0}
    /\ Files \subseteq File
    /\ \A f \in Files : ~f.exists => f.words = <<>>
    /\ Headers \subseteq Host(STRING)
    /\ Uris \subseteq Uri

VARIABLES
    config,     \* HttpConfig: num_sites and recreate_mmap_file
    file,       \* data_mmap_file: whether it exists, and its words
    process,    \* "down", "sizing" (in PreAllocateMmapFile) or "up"
    mutex,      \* mutex_: the thread that holds it, as a set
    thread      \* what each thread does, see Idle and IncHitCount

vars == <<config, file, process, mutex, thread>>

Counters == INSTANCE PageCounters WITH
    table   <- file.words,
    serving <- process = "up",
    page    <- [t \in Threads |-> thread[t].page]

\* A thread that handles no request; "page" is what it put in the last page.
NoWord == [hostbits |-> 0, host_template |-> "default"]
Idle(page) == [pc |-> "idle", ix |-> 0, word |-> NoWord, page |-> page]
Unlocked == [m \in 0 .. NumMutexes - 1 |-> {}]

Init ==
    /\ config \in Configs
    /\ file \in Files
    /\ process = "down"
    /\ mutex = Unlocked
    /\ thread = [t \in Threads |-> Idle(Counters!NoPage)]
-----------------------------------------------------------------------------
(***************************************************************************)
(* Start and end of the process.                                           *)
(***************************************************************************)
Configure ==
    /\ process = "down"
    /\ config' \in Configs
    /\ UNCHANGED <<file, process, mutex, thread>>

DoCreate == config.recreate \/ ~file.exists \/ Len(file.words) # config.num_sites

\* The constructor; a new file is truncated before it gets its size.
PreAllocateMmapFile ==
    /\ process = "down"
    /\ IF DoCreate
       THEN /\ file' = [exists |-> TRUE, words |-> <<>>]
            /\ process' = "sizing"
       ELSE process' = "up" /\ UNCHANGED file
    /\ UNCHANGED <<config, mutex, thread>>

\* The byte at the end is written; what is before it is a hole, read as zeros.
SizeMmapFile ==
    /\ process = "sizing"
    /\ file' = [file EXCEPT !.words = Counters!NewTable(config.num_sites)]
    /\ process' = "up"
    /\ UNCHANGED <<config, mutex, thread>>

\* The process ends, in good order or not.
Crash ==
    /\ process # "down"
    /\ process' = "down"
    /\ mutex' = Unlocked
    /\ thread' = [t \in Threads |-> Idle(Counters!NoPage)]
    /\ UNCHANGED <<config, file>>
-----------------------------------------------------------------------------
(***************************************************************************)
(* A request on one of the threads.                                        *)
(***************************************************************************)

\* data_[ix]; behind the end of the mapping is what the memory happens to hold.
Data(ix) == IF ix < Len(file.words) THEN file.words[ix + 1] ELSE NoWord

\* GetHost and ProcessRequest up to the hit counter; a request that fails before
\* leaves no trace.
Request(t, host, method, uri) ==
    LET found == GetHost(host, config.num_sites)
        counts == /\ found.status = "found"
                  /\ CountsHit(Data(found.ix).host_template, method, uri)
    IN  /\ process = "up" /\ thread[t].pc = "idle"
        /\ thread' = [thread EXCEPT ![t] =
                IF counts THEN [Idle(Counters!NoPage) EXCEPT !.pc = "locking", !.ix = found.ix]
                          ELSE Idle(Counters!NoPage)]
        /\ UNCHANGED <<config, file, process, mutex>>

(***************************************************************************)
(* IncHitCount: lock, load the word, store it incremented, unlock.         *)
(***************************************************************************)
MutexOf(ix) == ix % NumMutexes

\* Mutant: nobody waits for the mutex.
AlwaysFree(ix) == TRUE

MutexFree(ix) == mutex[MutexOf(ix)] = {}

Lock(t) ==
    /\ thread[t].pc = "locking"
    /\ MutexFree(thread[t].ix)
    /\ mutex' = [mutex EXCEPT ![MutexOf(thread[t].ix)] = {t}]
    /\ thread' = [thread EXCEPT ![t].pc = "locked"]
    /\ UNCHANGED <<config, file, process>>

Load(t) ==
    /\ thread[t].pc = "locked"
    /\ thread' = [thread EXCEPT ![t].pc = "loaded", ![t].word = Data(thread[t].ix)]
    /\ UNCHANGED <<config, file, process, mutex>>

\* Mutant: the counter has no width.
IncrementWide(word) == [word EXCEPT !.hostbits = @ + 1]

Increment(word) == [word EXCEPT !.hostbits = (@ + 1) % HitMod]

\* Mutant: the mutex is not given back.
KeepLocked(ix) == mutex' = mutex

Unlock(ix) == mutex' = [mutex EXCEPT ![MutexOf(ix)] = {}]

\* The new value goes into the page of a default site.
Store(t) ==
    LET ix == thread[t].ix
        word == Increment(thread[t].word)
    IN  /\ thread[t].pc = "loaded"
        /\ file' = [file EXCEPT !.words[ix + 1] = word]
        /\ Unlock(ix)
        /\ thread' = [thread EXCEPT ![t] =
                Idle(IF word.host_template = "default"
                     THEN [site |-> ix, hits |-> word.hostbits]
                     ELSE Counters!NoPage)]
        /\ UNCHANGED <<config, process>>

IncHitCount(t) == Lock(t) \/ Load(t) \/ Store(t)

Next ==
    \/ Configure \/ PreAllocateMmapFile \/ SizeMmapFile \/ Crash
    \/ \E t \in Threads :
        \/ \E h \in Headers, m \in Methods, u \in Uris : Request(t, h, m, u)
        \/ IncHitCount(t)

Spec == Init /\ [][Next]_vars

(***************************************************************************)
(* Fairness: a thread that can go on does so.  Which of the threads that   *)
(* wait for a mutex gets it next is up to the system.                      *)
(***************************************************************************)
Fairness == \A t \in Threads : WF_vars(IncHitCount(t))

FairSpec == Spec /\ Fairness
-----------------------------------------------------------------------------
(***************************************************************************)
(* Properties.                                                             *)
(***************************************************************************)

\* The types of the variables.
TypeOK ==
    /\ config \in Configs
    /\ file \in File
    /\ process \in {"down", "sizing", "up"}
    /\ mutex \in [0 .. NumMutexes - 1 -> SUBSET Threads]
    /\ thread \in [Threads -> [pc   : {"idle", "locking", "locked", "loaded"},
                              ix   : Nat,
                              word : Word,
                              page : [site : Nat, hits : 0 .. HitMod - 1]]]

\* The mapped file, its mutexes and the increments in several steps keep what
\* PageCounters promises: no hit is lost or shown twice, counting never changes
\* the class of a site, and only a configuration that asks for it sets the
\* counters back, crashes during a start included.
ImplementsCounters == Counters!Spec

\* data_[ix] stays inside of the mapping, whose size is that of the file: the
\* site that a request was given by its name is one of this start's table.
SiteInMapping ==
    process = "up" => /\ Len(file.words) = config.num_sites
                      /\ \A t \in Threads : thread[t].pc # "idle" =>
                            thread[t].ix < Len(file.words)

\* A mutex that is taken is given back, so that the sites that share it are not
\* blocked for good, and the requests whose turn it is are counted.
MutexGivenBack ==
    \A m \in 0 .. NumMutexes - 1 : mutex[m] # {} ~> mutex[m] = {}
=============================================================================
