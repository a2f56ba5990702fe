--------------------------- MODULE DataInduction ---------------------------
(***************************************************************************)
(* Induction over the data, for the proofs about recursive functions.  The *)
(* library states induction for a predicate given as an operator, which    *)
(* the provers do not instantiate; here it is stated for a set, from the   *)
(* fact that the order of the natural numbers is well-founded.             *)
(***************************************************************************)
EXTENDS Integers, WellFoundedInduction, TLAPS

\* Every set of natural numbers has a least one.
LEMMA LeastNat ==
  ASSUME NEW T, T \subseteq Nat, T # {}
  PROVE  \E x \in T : \A y \in T : x <= y
<1> DEFINE R == {ss \in Nat \X Nat : ss[1] < ss[2]}
<1>1. IsWellFoundedOn(R, Nat)
  BY NatLessThanWellFounded, Zenon DEF OpToRel
<1> HIDE DEF R
<1>2. PICK x \in T : \A y \in T : ~(<<y, x>> \in R)
  BY <1>1, WFMin
<1>3. ASSUME NEW y \in T PROVE x <= y
  <2>1. ~(<<y, x>> \in R)
    BY <1>2
  <2> QED
    BY <2>1 DEF R
<1> QED
  BY <1>3

\* A set that holds 0, and with a number the next, up to n, holds all numbers up to n.
LEMMA UpTo ==
  ASSUME NEW n \in Nat, NEW T, 0 \in T, \A i \in 1..n : i - 1 \in T => i \in T
  PROVE  0..n \subseteq T
<1> DEFINE Missing == {i \in 0..n : i \notin T}
<1> SUFFICES ASSUME Missing # {} PROVE FALSE
  OBVIOUS
<1>1. Missing \subseteq Nat
  OBVIOUS
<1>2. PICK m \in Missing : \A y \in Missing : m <= y
  <2> HIDE DEF Missing
  <2> QED
    BY <1>1, LeastNat
<1>3. m \in 1..n /\ m - 1 \in 0..n /\ m - 1 \notin Missing
  BY <1>2
<1> QED
  BY <1>2, <1>3

\* The hypotheses and conclusions below have names so that the provers match them
\* unexpanded.  Where f and g agree at a number, they agree at the next.
GoAlike(f, g, n) ==
  f[0] = g[0] /\ \A i \in 1..n : f[i - 1] = g[i - 1] => f[i] = g[i]

\* The step takes a value and a number; its values stay in S.
StaysIn(step, S, n) == \A s \in S, i \in 1..n : step[<<s, i>>] \in S

\* f begins with a and goes on by the step.
Follows(f, step, S, n, a) ==
  f \in [0..n -> S] /\ f[0] = a /\ \A i \in 1..n : f[i] = step[<<f[i - 1], i>>]

\* What agrees at 0, and at each number if it does at the one before, agrees.
LEMMA SameUpTo ==
  ASSUME NEW n \in Nat, NEW f, NEW g, GoAlike(f, g, n)
  PROVE  \A i \in 0..n : f[i] = g[i]
<1> DEFINE T == {i \in 0..n : f[i] = g[i]}
<1>1. 0 \in T /\ \A i \in 1..n : i - 1 \in T => i \in T
  BY DEF GoAlike
<1>2. 0..n \subseteq T
  <2> HIDE DEF T
  <2> QED
    BY <1>1, UpTo
<1> QED
  BY <1>2

\* A function may be defined up to n by what it is at 0 and how it goes on.
LEMMA Recursion ==
  ASSUME NEW S, NEW n \in Nat, NEW a \in S, NEW step, StaysIn(step, S, n)
  PROVE  \E f : Follows(f, step, S, n, a)
<1> USE DEF StaysIn
<1> DEFINE Def(m) == {f \in [0..m -> S] :
                       f[0] = a /\ \A i \in 1..m : f[i] = step[<<f[i - 1], i>>]}
           T == {m \in 0..n : Def(m) # {}}
<1>1. 0 \in T
  <2>1. [i \in 0..0 |-> a] \in Def(0)
    OBVIOUS
  <2> QED
    BY <2>1
<1>2. ASSUME NEW m \in 1..n, m - 1 \in T PROVE m \in T
  <2>1. PICK f : f \in Def(m - 1)
    BY <1>2
  <2>2. m - 1 \in 0..n /\ f[m - 1] \in S /\ f \in [0..(m - 1) -> S]
    BY <2>1
  <2>3. step[<<f[m - 1], m>>] \in S
    BY <2>2
  <2> DEFINE g == [i \in 0..m |-> IF i = m THEN step[<<f[m - 1], m>>] ELSE f[i]]
  <2>4. g \in [0..m -> S]
    BY <2>2, <2>3
  <2>5. g[0] = a
    BY <2>1
  <2>6. ASSUME NEW i \in 1..m PROVE g[i] = step[<<g[i - 1], i>>]
    <3>1. i - 1 \in 0..(m - 1) /\ g[i - 1] = f[i - 1]
      OBVIOUS
    <3>2. CASE i = m
      BY <3>1, <3>2
    <3>3. CASE i # m
      BY <2>1, <3>1, <3>3
    <3> QED
      BY <3>2, <3>3
  <2>7. g \in Def(m)
    <3> HIDE DEF g
    <3> QED
      BY <2>4, <2>5, <2>6
  <2> QED
    BY <2>7
<1>3. 0..n \subseteq T
  <2> HIDE DEF T
  <2> QED
    BY <1>1, <1>2, UpTo
<1> QED
  BY <1>3 DEF Follows

=============================================================================
