-------------------------- MODULE NaturalRecursion --------------------------
(***************************************************************************)
(* Induction and recursion on numbers.  A recursive function is a CHOOSE   *)
(* expression, of which nothing is known unless there is a function to     *)
(* choose.  Recursion shows that there is, by an induction over sets of    *)
(* numbers (UpTo) that rests on the library's well-foundedness of Nat.     *)
(***************************************************************************)
EXTENDS Integers, WellFoundedInduction, TLAPS

\* Numbers go down no further than to zero.
LEMMA LessIsWellFounded == IsWellFoundedOn({p \in Nat \X Nat : p[1] < p[2]}, Nat)
BY NatLessThanWellFounded DEF OpToRel

\* There is a smallest number of every kind.
LEMMA Smallest ==
    ASSUME NEW S \in SUBSET Nat, S # {}
    PROVE  \E x \in S : \A y \in S : x =< y
<1> DEFINE R == {p \in Nat \X Nat : p[1] < p[2]}
<1>1. IsWellFoundedOn(R, Nat)
  BY LessIsWellFounded
<1>2. PICK x \in S : \A y \in S : ~ (<<y, x>> \in R)
  <2> HIDE DEF R
  <2> QED BY <1>1, WFMin
<1>3. ASSUME NEW y \in S PROVE x =< y
  <2>1. ~ (y < x)
    BY <1>2
  <2> QED BY <2>1
<1> QED BY <1>3

\* What holds of 0, and of a number if it holds of the one before it.
LEMMA UpTo ==
    ASSUME NEW n \in Nat, NEW T, 0 \in T, \A i \in 1 .. n : i - 1 \in T => i \in T
    PROVE  0 .. n \subseteq T
<1> DEFINE Bad == {i \in 0 .. n : i \notin T}
<1> SUFFICES ASSUME Bad # {} PROVE FALSE
  OBVIOUS
<1>1. Bad \in SUBSET Nat
  OBVIOUS
<1>2. PICK m \in Bad : \A y \in Bad : m =< y
  <2> HIDE DEF Bad
  <2> QED BY <1>1, Smallest
<1>3. m \in 1 .. n /\ m - 1 \in 0 .. n /\ ~ (m =< m - 1)
  BY <1>2
<1>4. m - 1 \in T
  BY <1>2, <1>3
<1> QED BY <1>2, <1>3, <1>4

\* The values of f are computed in steps, each from the one before it.
InSteps(f, first, n, step) == f[0] = first /\ \A i \in 1 .. n : f[i] = step[<<i, f[i - 1]>>]

\* Whatever can be computed in steps is a function.
LEMMA Recursion ==
    ASSUME NEW S, NEW first \in S, NEW n \in Nat, NEW step \in [(1 .. n) \X S -> S]
    PROVE  \E f \in [0 .. n -> S] : InSteps(f, first, n, step)
<1> USE DEF InSteps
<1> DEFINE Good(m) == \E f \in [0 .. m -> S] : InSteps(f, first, m, step)
           T == {m \in 0 .. n : Good(m)}
<1>1. 0 \in T
  <2> DEFINE f == [i \in 0 .. 0 |-> first]
  <2>1. f \in [0 .. 0 -> S] /\ f[0] = first /\ 1 .. 0 = {}
    OBVIOUS
  <2> HIDE DEF f
  <2>2. Good(0)
    BY <2>1
  <2> HIDE DEF Good
  <2> QED BY <2>2
<1>2. ASSUME NEW m \in 1 .. n, m - 1 \in T PROVE m \in T
  <2>1. PICK f \in [0 .. (m - 1) -> S] : InSteps(f, first, m - 1, step)
    BY <1>2
  <2> DEFINE g == [i \in 0 .. m |-> IF i = m THEN step[<<m, f[m - 1]>>] ELSE f[i]]
  <2>2. m \in Nat /\ m # 0 /\ m - 1 \in 0 .. (m - 1)
    OBVIOUS
  <2>3. step[<<m, f[m - 1]>>] \in S
    BY <2>1, <2>2
  <2>4. g \in [0 .. m -> S]
    BY <2>1, <2>2, <2>3
  <2>5. g[0] = first
    BY <2>1, <2>2
  <2>6. ASSUME NEW i \in 1 .. m PROVE g[i] = step[<<i, g[i - 1]>>]
    <3>1. i - 1 \in 0 .. (m - 1) /\ i - 1 # m
      BY <2>2
    <3>2. g[i - 1] = f[i - 1]
      BY <2>2, <3>1
    <3>3. CASE i = m
      <4>1. g[m] = step[<<m, f[m - 1]>>]
        BY <2>2
      <4> QED BY <3>2, <3>3, <4>1
    <3>4. CASE i # m
      <4>1. i \in 1 .. (m - 1)
        BY <3>4
      <4> QED BY <2>1, <3>2, <3>4, <4>1
    <3> QED BY <3>3, <3>4
  <2> HIDE DEF g
  <2> QED BY <2>4, <2>5, <2>6
<1> HIDE DEF Good
<1>3. 0 .. n \subseteq T
  <2> HIDE DEF T
  <2> QED BY <1>1, <1>2, UpTo
<1>4. Good(n)
  BY <1>3
<1> QED BY <1>4 DEF Good
=============================================================================
