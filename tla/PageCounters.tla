---------------------------- MODULE PageCounters ----------------------------
(***************************************************************************)
(* What the site table promises: every page that a default site serves     *)
(* shows its own number, the one after the number on the page before; no   *)
(* count is lost or given twice, whatever the threads do, and the counts   *)
(* survive the end of the process, however it ends.  They are set back     *)
(* only if the administrator asks for it, with recreate_mmap_file or with  *)
(* another number of sites.  The static sites count without showing.       *)
(*                                                                         *)
(* VhostManager implements this specification with a mapped file, mutexes  *)
(* and increments that take several steps.                                 *)
(***************************************************************************)
EXTENDS Naturals, Sequences

CONSTANTS
    Threads,    \* the threads of the server
    Configs,    \* the configurations an administrator chooses from
    HitMod      \* 2^23: a counter has 23 bits

VARIABLES
    config,     \* [num_sites, recreate]
    table,      \* a word [hostbits, host_template] for each site
    serving,    \* whether the server runs
    page        \* for each thread the page it has made: [site, hits], or NoPage

NoPage == [site |-> 0, hits |-> 0]
NewTable(n) == [ix \in 1 .. n |-> [hostbits |-> 0, host_template |-> "default"]]
Blank == [t \in Threads |-> NoPage]

Init ==
    /\ config \in Configs
    /\ table \in Seq([hostbits : 0 .. HitMod - 1, host_template : {"default", "static"}])
    /\ serving = FALSE
    /\ page = Blank

MustReset == config.recreate \/ Len(table) # config.num_sites

Configure ==
    /\ ~serving
    /\ config' \in Configs
    /\ UNCHANGED <<table, serving, page>>

\* A server that stops while it starts may leave an empty table behind.
Reset ==
    /\ ~serving /\ MustReset
    /\ table' = <<>>
    /\ UNCHANGED <<config, serving, page>>

Start ==
    /\ ~serving
    /\ \/ ~MustReset /\ UNCHANGED table
       \/ table = <<>> /\ table' = NewTable(config.num_sites)
    /\ serving' = TRUE
    /\ UNCHANGED <<config, page>>

Stop ==
    /\ serving
    /\ serving' = FALSE
    /\ page' = Blank
    /\ UNCHANGED <<config, table>>

Hit(t, ix) ==
    LET hits == (table[ix].hostbits + 1) % HitMod
    IN  /\ serving
        /\ table' = [table EXCEPT ![ix].hostbits = hits]
        /\ page' = [page EXCEPT ![t] =
                        IF table[ix].host_template = "default"
                        THEN [site |-> ix - 1, hits |-> hits] ELSE NoPage]
        /\ UNCHANGED <<config, serving>>

\* The thread takes up another request.
TurnPage(t) ==
    /\ serving
    /\ page' = [page EXCEPT ![t] = NoPage]
    /\ UNCHANGED <<config, table, serving>>

Next ==
    \/ Configure \/ Reset \/ Start \/ Stop
    \/ \E t \in Threads : TurnPage(t) \/ \E ix \in 1 .. Len(table) : Hit(t, ix)

Spec == Init /\ [][Next]_<<config, table, serving, page>>
=============================================================================
