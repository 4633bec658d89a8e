--------------------------- MODULE MCVhostManager ---------------------------
(***************************************************************************)
(* Three sites that share two mutexes, or two; the first and the last site *)
(* of an old file are close to the limit of their counters.                *)
(***************************************************************************)
EXTENDS VhostManager

C(n, recreate) == [num_sites |-> n, recreate |-> recreate]
MCConfigs == {C(3, FALSE), C(3, TRUE), C(2, FALSE)}

W(hits, template) == [hostbits |-> hits, host_template |-> template]
MCFiles == {
    [exists |-> FALSE, words |-> <<>>],
    [exists |-> TRUE,
     words  |-> <<W(HitMod - 1, "default"), W(0, "static"), W(HitMod - 1, "default")>>] }

MCSiteAliases == [n \in {"blog", "last"} |-> IF n = "blog" THEN 1 ELSE 2]

H(name, dotted, label) == [name |-> name, dotted |-> dotted, label |-> label]
MCHeaders == {
    H("0.one", TRUE, Number(0)), H("3.one", TRUE, Number(3)),
    H("blog", FALSE, NotNumeric), H("last", FALSE, NotNumeric) }
=============================================================================
