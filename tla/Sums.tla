-------------------------------- MODULE Sums --------------------------------
(***************************************************************************)
(* Sums of the first values of a function, as a recursive function: the    *)
(* provers can reason about it (see SumTheorems), which they cannot about  *)
(* the folds with an operator as their parameter.                          *)
(***************************************************************************)
EXTENDS Naturals

\* f[0] + ... + f[n - 1]
SumTo(f, n) ==
    LET partial[i \in 0 .. n] == IF i = 0 THEN 0 ELSE partial[i - 1] + f[i - 1]
    IN  partial[n]
=============================================================================
