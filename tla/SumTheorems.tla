---------------------------- MODULE SumTheorems ----------------------------
(***************************************************************************)
(* Facts about SumTo, proved by induction.  The induction theorems of the  *)
(* library take a predicate as their parameter; here induction is used in  *)
(* the form of the least-number principle, which speaks of sets: the least *)
(* number for which a claim fails is not 0, and the one before it is no    *)
(* counterexample.                                                         *)
(***************************************************************************)
EXTENDS Sums, Integers, WellFoundedInduction, TLAPS

\* Every nonempty set of natural numbers has a least element.
LEMMA LeastNumber ==
    ASSUME NEW S \in SUBSET Nat, S # {}
    PROVE  \E n \in S : \A m \in S : n <= m
<1> DEFINE R == OpToRel(<, Nat)
<1>1. IsWellFoundedOn(R, Nat)
  BY NatLessThanWellFounded, Zenon
<1>2. PICK n \in S : \A y \in S : ~ (<<y, n>> \in R)
  <2> HIDE DEF R
  <2> QED
    BY <1>1, WFMin
<1>3. \A y \in S : ~(y < n)
  BY <1>2 DEF OpToRel
<1> QED
  BY <1>3

\* A set of numbers up to n that has 0 and with each number the next one has n.
LEMMA UpTo ==
    ASSUME NEW n \in Nat, NEW Good, 0 \in Good,
           \A i \in 1 .. n : i - 1 \in Good => i \in Good
    PROVE  \A i \in 0 .. n : i \in Good
<1> DEFINE Bad == {i \in 0 .. n : i \notin Good}
<1>1. SUFFICES ASSUME Bad # {} PROVE FALSE
  OBVIOUS
<1>2. PICK least \in Bad : \A i \in Bad : least <= i
  <2>1. Bad \in SUBSET Nat
    OBVIOUS
  <2> HIDE DEF Bad
  <2> QED
    BY <1>1, <2>1, LeastNumber
<1>3. least \in 0 .. n /\ least \notin Good /\ least # 0
  BY <1>2
<1>4. least - 1 \in 0 .. n /\ least - 1 \notin Bad
  BY <1>2, <1>3
<1> QED
  BY <1>3, <1>4

\* The equations of the function that SumTo is defined by.
IsPartial(g, f, n) ==
    g = [i \in 0 .. n |-> IF i = 0 THEN 0 ELSE g[i - 1] + f[i - 1]]

\* There is such a function, and its values are natural numbers.
LEMMA PartialExists ==
    ASSUME NEW f, NEW n \in Nat, \A i \in 0 .. n - 1 : f[i] \in Nat
    PROVE  \E g \in [0 .. n -> Nat] : IsPartial(g, f, n)
<1> DEFINE Good == {m \in 0 .. n : \E g \in [0 .. m -> Nat] : IsPartial(g, f, m)}
<1>1. 0 \in Good
  <2> DEFINE g == [i \in 0 .. 0 |-> 0]
  <2>1. g \in [0 .. 0 -> Nat] /\ IsPartial(g, f, 0)
    BY DEF IsPartial
  <2> HIDE DEF g
  <2> QED
    BY <2>1
<1>2. ASSUME NEW m \in 1 .. n, m - 1 \in Good PROVE m \in Good
  <2>1. PICK g \in [0 .. m - 1 -> Nat] : IsPartial(g, f, m - 1)
    BY <1>2
  <2> DEFINE h == [i \in 0 .. m |-> IF i = m THEN g[m - 1] + f[m - 1] ELSE g[i]]
  <2>2. f[m - 1] \in Nat /\ g[m - 1] \in Nat
    OBVIOUS
  <2>3. h \in [0 .. m -> Nat]
    BY <2>2
  <2>4. \A i \in 0 .. m - 1 : g[i] = IF i = 0 THEN 0 ELSE g[i - 1] + f[i - 1]
    BY <2>1 DEF IsPartial
  <2>5. \A i \in 0 .. m : h[i] = IF i = 0 THEN 0 ELSE h[i - 1] + f[i - 1]
    <3> TAKE i \in 0 .. m
    <3>1. CASE i = m
      BY <3>1
    <3>2. CASE i # m /\ i = 0
      BY <2>4, <3>2
    <3>3. CASE i # m /\ i # 0
      <4>1. i \in 0 .. m - 1 /\ i - 1 \in 0 .. m - 1 /\ i - 1 # m
        BY <3>3
      <4> QED
        BY <2>4, <3>3, <4>1
    <3> QED
      BY <3>1, <3>2, <3>3
  <2>6. IsPartial(h, f, m)
    BY <2>5 DEF IsPartial
  <2> HIDE DEF h
  <2> QED
    BY <2>3, <2>6
<1> HIDE DEF Good
<1>3. n \in Good
  BY <1>1, <1>2, UpTo
<1> QED
  BY <1>3 DEF Good

\* What the equations say.
LEMMA PartialEquations ==
    ASSUME NEW f, NEW n \in Nat, NEW g, IsPartial(g, f, n)
    PROVE  g[0] = 0 /\ \A i \in 1 .. n : g[i] = g[i - 1] + f[i - 1]
<1>1. \A i \in 0 .. n : g[i] = IF i = 0 THEN 0 ELSE g[i - 1] + f[i - 1]
  BY DEF IsPartial
<1> QED
  BY <1>1

\* SumTo is the last value of any such function.
LEMMA SumIsPartial ==
    ASSUME NEW f, NEW n \in Nat, \A i \in 0 .. n - 1 : f[i] \in Nat,
           NEW h, IsPartial(h, f, n)
    PROVE  SumTo(f, n) = h[n]
<1> DEFINE g == CHOOSE g : g = [i \in 0 .. n |-> IF i = 0 THEN 0 ELSE g[i - 1] + f[i - 1]]
<1>1. IsPartial(g, f, n)
  BY DEF IsPartial
<1>2. SumTo(f, n) = g[n]
  BY DEF SumTo
<1> HIDE DEF g
<1> DEFINE Good == {m \in 0 .. n : g[m] = h[m]}
<1>3. 0 \in Good
  BY <1>1, PartialEquations
<1>4. ASSUME NEW m \in 1 .. n, m - 1 \in Good PROVE m \in Good
  BY <1>1, <1>4, PartialEquations
<1> HIDE DEF Good
<1>5. n \in Good
  BY <1>3, <1>4, UpTo
<1> QED
  BY <1>2, <1>5 DEF Good
-----------------------------------------------------------------------------
(***************************************************************************)
(* The facts that are used elsewhere.                                      *)
(***************************************************************************)

\* The empty sum; the last term; a sum of natural numbers is one.
LEMMA SumStep ==
    ASSUME NEW f, NEW n \in Nat, \A i \in 0 .. n - 1 : f[i] \in Nat
    PROVE  /\ SumTo(f, n) \in Nat
           /\ SumTo(f, 0) = 0
           /\ \A m \in 1 .. n : SumTo(f, m) = SumTo(f, m - 1) + f[m - 1]
<1>1. SumTo(f, n) \in Nat
  BY PartialExists, SumIsPartial
<1>2. SumTo(f, 0) = 0
  <2>1. 0 \in Nat /\ \A i \in 0 .. 0 - 1 : f[i] \in Nat
    OBVIOUS
  <2>2. PICK g \in [0 .. 0 -> Nat] : IsPartial(g, f, 0)
    BY <2>1, PartialExists
  <2>3. SumTo(f, 0) = g[0]
    BY <2>1, <2>2, SumIsPartial
  <2> QED
    BY <2>2, <2>3, PartialEquations
<1>3. ASSUME NEW m \in 1 .. n PROVE SumTo(f, m) = SumTo(f, m - 1) + f[m - 1]
  <2>1. m \in Nat /\ m - 1 \in Nat /\ \A i \in 0 .. m - 1 : f[i] \in Nat
    OBVIOUS
  <2>2. PICK g \in [0 .. m -> Nat] : IsPartial(g, f, m)
    BY <2>1, PartialExists
  <2> DEFINE h == [i \in 0 .. m - 1 |-> g[i]]
  <2>3. \A i \in 0 .. m : g[i] = IF i = 0 THEN 0 ELSE g[i - 1] + f[i - 1]
    BY <2>2 DEF IsPartial
  <2>4. \A i \in 0 .. m - 1 : h[i] = IF i = 0 THEN 0 ELSE h[i - 1] + f[i - 1]
    BY <2>1, <2>3
  <2>5. IsPartial(h, f, m - 1) /\ h[m - 1] = g[m - 1]
    BY <2>1, <2>4 DEF IsPartial
  <2> HIDE DEF h
  <2>6. SumTo(f, m) = g[m] /\ SumTo(f, m - 1) = g[m - 1]
    BY <2>1, <2>2, <2>5, SumIsPartial
  <2> QED
    BY <2>3, <2>6
<1> QED
  BY <1>1, <1>2, <1>3

\* Every partial sum is a natural number.
LEMMA SumNat ==
    ASSUME NEW f, NEW n \in Nat, \A i \in 0 .. n - 1 : f[i] \in Nat
    PROVE  \A m \in 0 .. n : SumTo(f, m) \in Nat
BY SumStep

\* Functions with the same terms have the same sum.
LEMMA SumSame ==
    ASSUME NEW f, NEW g, NEW n \in Nat, \A i \in 0 .. n - 1 : f[i] \in Nat /\ g[i] = f[i]
    PROVE  SumTo(g, n) = SumTo(f, n)
<1> DEFINE Good == {m \in 0 .. n : SumTo(g, m) = SumTo(f, m)}
<1>1. 0 \in Good
  BY SumStep
<1>2. ASSUME NEW m \in 1 .. n, m - 1 \in Good PROVE m \in Good
  BY <1>2, SumStep
<1> HIDE DEF Good
<1>3. n \in Good
  BY <1>1, <1>2, UpTo
<1> QED
  BY <1>3 DEF Good

\* The first term taken off.
LEMMA SumShift ==
    ASSUME NEW f, NEW g, NEW n \in Nat, \A i \in 0 .. n : f[i] \in Nat,
           \A i \in 0 .. n - 1 : g[i] = f[i + 1]
    PROVE  SumTo(f, n + 1) = f[0] + SumTo(g, n)
<1> DEFINE Good == {m \in 0 .. n : SumTo(f, m + 1) = f[0] + SumTo(g, m)}
<1>1. n + 1 \in Nat /\ \A i \in 0 .. (n + 1) - 1 : f[i] \in Nat
  OBVIOUS
<1>2. \A i \in 0 .. n - 1 : g[i] \in Nat
  OBVIOUS
<1>3. /\ \A m \in 0 .. n + 1 : SumTo(f, m) \in Nat
      /\ SumTo(f, 0) = 0
      /\ \A m \in 1 .. n + 1 : SumTo(f, m) = SumTo(f, m - 1) + f[m - 1]
  BY <1>1, SumStep, SumNat
<1>4. /\ \A m \in 0 .. n : SumTo(g, m) \in Nat
      /\ SumTo(g, 0) = 0
      /\ \A m \in 1 .. n : SumTo(g, m) = SumTo(g, m - 1) + g[m - 1]
  BY <1>2, SumStep, SumNat
<1>5. 0 \in Good
  <2>1. SumTo(f, 1) = SumTo(f, 1 - 1) + f[1 - 1]
    BY <1>3
  <2> QED
    BY <1>3, <1>4, <2>1
<1>6. ASSUME NEW m \in 1 .. n, m - 1 \in Good PROVE m \in Good
  <2>1. SumTo(f, m) = f[0] + SumTo(g, m - 1)
    BY <1>6
  <2>2. SumTo(f, m + 1) = SumTo(f, m) + f[m]
    <3>1. m + 1 \in 1 .. n + 1 /\ (m + 1) - 1 = m
      OBVIOUS
    <3> QED
      BY <1>3, <3>1
  <2>3. SumTo(g, m) = SumTo(g, m - 1) + g[m - 1] /\ g[m - 1] = f[m]
    BY <1>4
  <2>4. /\ f[0] \in Nat /\ f[m] \in Nat /\ SumTo(g, m - 1) \in Nat
    BY <1>4
  <2> QED
    BY <2>1, <2>2, <2>3, <2>4
<1> HIDE DEF Good
<1>7. n \in Good
  <2>1. \A m \in 1 .. n : m - 1 \in Good => m \in Good
    BY <1>6
  <2>2. \A m \in 0 .. n : m \in Good
    BY <1>5, <2>1, UpTo
  <2> QED
    BY <2>2
<1> QED
  BY <1>7 DEF Good

\* One term changed.
LEMMA SumUpdate ==
    ASSUME NEW f, NEW g, NEW n \in Nat, NEW k \in 0 .. n - 1,
           \A i \in 0 .. n - 1 : f[i] \in Nat /\ g[i] \in Nat,
           \A i \in 0 .. n - 1 : i # k => g[i] = f[i]
    PROVE  SumTo(g, n) + f[k] = SumTo(f, n) + g[k]
<1> DEFINE Good == {m \in 0 .. n : IF m <= k THEN SumTo(g, m) = SumTo(f, m)
                                   ELSE SumTo(g, m) + f[k] = SumTo(f, m) + g[k]}
<1>1. /\ \A m \in 0 .. n : SumTo(f, m) \in Nat /\ SumTo(g, m) \in Nat
      /\ SumTo(f, 0) = 0 /\ SumTo(g, 0) = 0
      /\ \A m \in 1 .. n : /\ SumTo(f, m) = SumTo(f, m - 1) + f[m - 1]
                           /\ SumTo(g, m) = SumTo(g, m - 1) + g[m - 1]
  BY SumStep, SumNat
<1>2. 0 \in Good
  BY <1>1
<1>3. ASSUME NEW m \in 1 .. n, m - 1 \in Good PROVE m \in Good
  <2>1. /\ m - 1 \in 0 .. n - 1 /\ m - 1 \in 0 .. n
        /\ SumTo(f, m) = SumTo(f, m - 1) + f[m - 1]
        /\ SumTo(g, m) = SumTo(g, m - 1) + g[m - 1]
    BY <1>1
  <2>2. /\ SumTo(f, m - 1) \in Nat /\ SumTo(g, m - 1) \in Nat
        /\ f[m - 1] \in Nat /\ g[m - 1] \in Nat /\ f[k] \in Nat /\ g[k] \in Nat
    BY <1>1, <2>1
  <2>3. CASE m - 1 = k
    BY <1>3, <2>1, <2>2, <2>3
  <2>4. CASE m - 1 # k
    <3>1. g[m - 1] = f[m - 1]
      BY <2>1, <2>4
    <3> QED
      BY <1>3, <2>1, <2>2, <2>4, <3>1
  <2> QED
    BY <2>3, <2>4
<1> HIDE DEF Good
<1>4. n \in Good
  BY <1>2, <1>3, UpTo
<1> QED
  BY <1>4 DEF Good
=============================================================================
