--------------------------- MODULE RamTable_proofs --------------------------
(***************************************************************************)
(* Proofs about RamTable: the table traced from a memory is accepted and   *)
(* replays it, for any widths of the limbs and any number of lanes.        *)
(*                                                                         *)
(* The tracer computes limbs and carries in machine integers; the          *)
(* constraints add limb by limb.  LimbsAdd joins the two: with the         *)
(* carries of timestampCarries what is left of a sum after each step is    *)
(* what is left of its parts and the carry, so each limb adds up, and      *)
(* StampsFit leaves no carry for the most significant one.  RunsFound and  *)
(* RunIsAccess find the accesses in the log; TableInv, RecordingInv and    *)
(* AccessesRecoverable say what the rows made of them need.                *)
(*                                                                         *)
(* The recursive functions of RamTable are CHOOSE expressions: that there  *)
(* is a function to choose, and what holds of all its values, comes from   *)
(* NaturalRecursion.                                                       *)
(***************************************************************************)
EXTENDS RamTable, RandomAccess_proofs, NaturalRecursion

-----------------------------------------------------------------------------
\* Limbs.

\* A shift of a machine word is a positive number.
LEMMA Pow2Positive ==
    ASSUME NEW w \in Nat
    PROVE  Pow2(w) \in Nat \ {0}
<1> DEFINE Doubled(p) == p = [i \in 0 .. w |-> IF i = 0 THEN 1 ELSE 2 * p[i - 1]]
           step == [x \in (1 .. w) \X Nat |-> 2 * x[2]]
           power == CHOOSE p : Doubled(p)
<1>1. \E p : Doubled(p)
  <2>1. step \in [(1 .. w) \X Nat -> Nat]
    OBVIOUS
  <2>2. PICK f \in [0 .. w -> Nat] : InSteps(f, 1, w, step)
    <3>1. 1 \in Nat
      OBVIOUS
    <3> HIDE DEF step
    <3> QED BY <2>1, <3>1, Recursion, Zenon
  <2>3. ASSUME NEW i \in 0 .. w, i # 0 PROVE f[i] = 2 * f[i - 1]
    <3>1. i \in 1 .. w /\ i - 1 \in 0 .. w
      BY <2>3
    <3> QED BY <2>2, <3>1 DEF InSteps
  <2>4. Doubled(f)
    BY <2>2, <2>3 DEF InSteps
  <2> QED BY <2>4
<1>2. Doubled(power)
  <2> HIDE DEF Doubled
  <2> QED BY <1>1
<1>3. Pow2(w) = power[w]
  BY DEF Pow2
<1> HIDE DEF power
<1> DEFINE T == {i \in 0 .. w : power[i] \in Nat \ {0}}
<1>4. 0 \in T
  BY <1>2
<1>5. ASSUME NEW i \in 1 .. w, i - 1 \in T PROVE i \in T
  <2>1. power[i] = 2 * power[i - 1] /\ i \in 0 .. w
    BY <1>2
  <2>2. power[i - 1] \in Nat \ {0}
    BY <1>5
  <2> QED BY <2>1, <2>2
<1>6. 0 .. w \subseteq T
  <2> HIDE DEF T
  <2> QED BY <1>4, <1>5, UpTo
<1> QED BY <1>3, <1>6

\* The limb of each step is a limb, and its size a positive number.
LEMMA LimbOfStep ==
    ASSUME NEW s \in 1 .. Len(TsWidths)
    PROVE  /\ LimbAt(s) \in Limbs /\ LimbAt(LimbAt(s)) = s
           /\ Pow2(TsWidths[LimbAt(s)]) \in Nat \ {0}
<1>1. Len(TsWidths) \in Nat /\ LimbAt(s) \in 1 .. Len(TsWidths)
  BY WidthsAssumption DEF LimbAt
<1>2. TsWidths[LimbAt(s)] \in Nat
  BY <1>1, WidthsAssumption
<1>3. Pow2(TsWidths[LimbAt(s)]) \in Nat \ {0}
  BY <1>2, Pow2Positive
<1>4. LimbAt(LimbAt(s)) = s
  BY <1>1 DEF LimbAt
<1> QED BY <1>1, <1>3, <1>4 DEF Limbs

\* What is left of a stamp after each step.
LEMMA ShiftedInSteps ==
    ASSUME NEW x \in Nat
    PROVE  /\ Shifted(x) \in [0 .. Len(TsWidths) -> Nat] /\ Shifted(x)[0] = x
           /\ \A s \in 1 .. Len(TsWidths) :
                 Shifted(x)[s] = Shifted(x)[s - 1] \div Pow2(TsWidths[LimbAt(s)])
<1> DEFINE L == Len(TsWidths)
           Divided(f) == f = [s \in 0 .. L |-> IF s = 0 THEN x
                                   ELSE f[s - 1] \div Pow2(TsWidths[LimbAt(s)])]
           step == [p \in (1 .. L) \X Nat |-> p[2] \div Pow2(TsWidths[LimbAt(p[1])])]
           rest == CHOOSE f : Divided(f)
<1>0. L \in Nat
  BY WidthsAssumption
<1>1. \A s \in 1 .. L : \A y \in Nat : y \div Pow2(TsWidths[LimbAt(s)]) \in Nat
  <2> TAKE s \in 1 .. L
  <2> TAKE y \in Nat
  <2> DEFINE q == Pow2(TsWidths[LimbAt(s)])
  <2>1. q \in Nat \ {0}
    BY LimbOfStep
  <2> HIDE DEF q
  <2>2. y \div q \in Nat
    BY <2>1, SMT
  <2> QED BY <2>2 DEF q
<1>2. \E f : Divided(f)
  <2>1. step \in [(1 .. L) \X Nat -> Nat]
    BY <1>1
  <2>2. PICK f \in [0 .. L -> Nat] : InSteps(f, x, L, step)
    <3> HIDE DEF step, L
    <3> QED BY <1>0, <2>1, Recursion, Zenon
  <2>3. ASSUME NEW s \in 0 .. L, s # 0 PROVE f[s] = f[s - 1] \div Pow2(TsWidths[LimbAt(s)])
    <3>1. s \in 1 .. L /\ s - 1 \in 0 .. L
      BY <1>0, <2>3
    <3>2. <<s, f[s - 1]>> \in (1 .. L) \X Nat
      BY <2>2, <3>1
    <3> QED BY <2>2, <3>1, <3>2 DEF InSteps
  <2>4. Divided(f)
    BY <2>2, <2>3 DEF InSteps
  <2> QED BY <2>4
<1>3. Divided(rest)
  <2> HIDE DEF Divided
  <2> QED BY <1>2
<1>4. Shifted(x) = rest
  BY DEF Shifted
<1> HIDE DEF rest
<1> DEFINE T == {s \in 0 .. L : rest[s] \in Nat}
<1>5. 0 \in T
  BY <1>0, <1>3
<1>6. ASSUME NEW s \in 1 .. L, s - 1 \in T PROVE s \in T
  <2>1. s \in 0 .. L /\ s # 0
    BY <1>0
  <2>2. rest[s] = rest[s - 1] \div Pow2(TsWidths[LimbAt(s)])
    BY <1>3, <2>1
  <2> QED BY <1>1, <1>6, <2>1, <2>2
<1>7. 0 .. L \subseteq T
  <2> HIDE DEF T, L
  <2> QED BY <1>0, <1>5, <1>6, UpTo
<1>8. rest[0] = x /\ \A s \in 1 .. L : rest[s] = rest[s - 1] \div Pow2(TsWidths[LimbAt(s)])
  BY <1>0, <1>3
<1>9. rest \in [0 .. L -> Nat]
  BY <1>3, <1>7
<1> QED BY <1>4, <1>8, <1>9

\* Quotient and remainder are unique.
LEMMA Quotient ==
    ASSUME NEW q \in Nat \ {0}, NEW z \in Nat, NEW e \in 0 .. (q - 1), NEW x, x = z * q + e
    PROVE  x \in Nat /\ x \div q = z /\ x % q = e
<1>1. z * q \in Nat
  BY SMT
<1>2. x \in Nat /\ x \in LanesFrom(z * q, q)
  <2> DEFINE y == z * q
  <2> HIDE DEF y
  <2> QED BY <1>1, SMT DEF LanesFrom, y
<1>3. x \div q = z
  BY <1>2, DivRow
<1>4. x = q * (x \div q) + (x % q) /\ x % q \in Int
  BY <1>2, SMT
<1>5. q * z = z * q
  BY SMT
<1>6. x % q = e
  <2> DEFINE y == z * q
             r == x % q
  <2>1. y \in Nat /\ r \in Int /\ x = y + r /\ x = y + e
    BY <1>1, <1>3, <1>4, <1>5
  <2> HIDE DEF y, r
  <2> QED BY <2>1, SMT DEF r
<1> QED BY <1>2, <1>3, <1>6

\* One limb of an addition: what carries over adds to what is left of both.
CarriesOver(q, a, b, c) ==
    LET total == (a % q) + (b % q) + c
        k     == total \div q
    IN  /\ k \in {0, 1} /\ k * q + ((a + b + c) % q) = total
        /\ (a + b + c) \div q = (a \div q) + (b \div q) + k

\* It does for numbers of any size.
LEMMA LimbSum ==
    ASSUME NEW q \in Nat \ {0}, NEW a \in Nat, NEW b \in Nat, NEW c \in {0, 1}
    PROVE  CarriesOver(q, a, b, c)
<1> USE DEF CarriesOver
<1> DEFINE x == a \div q
           y == b \div q
           r == a % q
           d == b % q
           total == r + d + c
           z == x + y
           sum == a + b + c
<1>1. x \in Nat /\ r \in 0 .. (q - 1) /\ a = q * x + r
  BY SMT
<1>2. y \in Nat /\ d \in 0 .. (q - 1) /\ b = q * y + d
  BY SMT
<1> HIDE DEF x, y, r, d
<1>3. q * x \in Nat /\ q * y \in Nat /\ z * q = q * x + q * y
  BY <1>1, <1>2, SMT
<1>4. z \in Nat /\ z * q \in Nat /\ sum = z * q + total
  <2> DEFINE v == q * x
             w == q * y
             u == z * q
  <2>1. v \in Nat /\ w \in Nat /\ u = v + w /\ a = v + r /\ b = w + d
    BY <1>1, <1>2, <1>3
  <2>2. z \in Nat
    BY <1>1, <1>2
  <2> HIDE DEF v, w, u, z
  <2>3. u \in Nat /\ sum = u + total
    BY <1>1, <1>2, <2>1
  <2> QED BY <2>2, <2>3 DEF u
<1>5. total \in Nat /\ total <= 2 * q - 1
  BY <1>1, <1>2
<1> HIDE DEF total, z, sum
<1>6. CASE total < q
  <2>1. total \in 0 .. (q - 1) /\ total = 0 * q + total
    BY <1>5, <1>6
  <2>2. total \div q = 0
    BY <2>1, Quotient
  <2>3. sum \div q = z /\ sum % q = total
    BY <1>4, <2>1, Quotient
  <2> QED BY <1>4, <1>5, <2>2, <2>3 DEF total, x, y, r, d, z, sum
<1>7. CASE ~ (total < q)
  <2> DEFINE e == total - q
  <2>1. e \in 0 .. (q - 1) /\ total = 1 * q + e
    BY <1>5, <1>7
  <2>2. total \div q = 1
    BY <2>1, Quotient
  <2>3. z + 1 \in Nat /\ (z + 1) * q = z * q + q
    BY <1>4, SMT
  <2>4. sum = (z + 1) * q + e
    <3> DEFINE u == z * q
               t == (z + 1) * q
    <3>1. u \in Nat /\ t = u + q /\ sum = u + total
      BY <1>4, <2>3
    <3> HIDE DEF u, t
    <3>2. sum = t + e
      BY <1>5, <3>1
    <3> QED BY <3>2 DEF t
  <2> HIDE DEF e
  <2>5. sum \div q = z + 1 /\ sum % q = e
    <3> DEFINE n == z + 1
    <3>1. n \in Nat /\ sum = n * q + e
      BY <2>3, <2>4
    <3> HIDE DEF n
    <3>2. sum \div q = n /\ sum % q = e
      BY <2>1, <3>1, Quotient
    <3> QED BY <3>2 DEF n
  <2>6. 1 * q + (sum % q) = total
    BY <2>1, <2>5
  <2> QED BY <1>4, <2>2, <2>5, <2>6 DEF total, x, y, r, d, z, sum
<1> QED BY <1>6, <1>7

\* The limbs of a stamp, by step.
LEMMA SplitInSteps ==
    ASSUME NEW x \in Nat
    PROVE  /\ \A s \in 1 .. Len(TsWidths) :
                 Split(x)[LimbAt(s)] = Shifted(x)[s - 1] % Pow2(TsWidths[LimbAt(s)])
           /\ \A i \in Limbs : Split(x)[i] \in 0 .. (Pow2(TsWidths[i]) - 1)
<1>0. Len(TsWidths) \in Nat
  BY WidthsAssumption
<1>1. ASSUME NEW s \in 1 .. Len(TsWidths)
      PROVE  Split(x)[LimbAt(s)] = Shifted(x)[s - 1] % Pow2(TsWidths[LimbAt(s)])
  <2>1. LimbAt(s) \in Limbs /\ Len(TsWidths) - LimbAt(s) = s - 1
    BY <1>0, LimbOfStep DEF LimbAt
  <2> QED BY <2>1 DEF Split
<1>2. ASSUME NEW i \in Limbs PROVE Split(x)[i] \in 0 .. (Pow2(TsWidths[i]) - 1)
  <2> DEFINE s == LimbAt(i)
             q == Pow2(TsWidths[i])
             y == Shifted(x)[s - 1]
  <2>1. s \in 1 .. Len(TsWidths) /\ LimbAt(s) = i
    BY <1>0 DEF LimbAt, Limbs
  <2>2. q \in Nat \ {0}
    <3> HIDE DEF s
    <3> QED BY <2>1, LimbOfStep
  <2>3. y \in Nat
    <3> HIDE DEF s
    <3>1. s - 1 \in 0 .. Len(TsWidths)
      BY <1>0, <2>1
    <3> QED BY <3>1, ShiftedInSteps
  <2>4. Split(x)[i] = y % q
    <3> HIDE DEF s
    <3> QED BY <1>1, <2>1
  <2> HIDE DEF q, y
  <2>5. y % q \in 0 .. (q - 1)
    BY <2>2, <2>3, SMT
  <2> QED BY <2>4, <2>5 DEF q
<1> QED BY <1>1, <1>2

\* The carries of a sum of limbs are bits.
LEMMA CarriesInSteps ==
    ASSUME NEW x \in Nat, NEW y \in Nat
    PROVE  LET c == CarriesFrom(Split(x), Split(y))
           IN  /\ c[0] = 1
               /\ \A s \in 1 .. Len(TsWidths) :
                     c[s] = (Split(x)[LimbAt(s)] + Split(y)[LimbAt(s)] + c[s - 1])
                               \div Pow2(TsWidths[LimbAt(s)])
               /\ \A s \in 0 .. Len(TsWidths) : c[s] \in {0, 1}
<1> DEFINE L == Len(TsWidths)
           r == Split(x)
           d == Split(y)
           total(s, c) == r[LimbAt(s)] + d[LimbAt(s)] + c
           Carried(f) == f = [s \in 0 .. L |-> IF s = 0 THEN 1
                                 ELSE total(s, f[s - 1]) \div Pow2(TsWidths[LimbAt(s)])]
           step == [p \in (1 .. L) \X {0, 1} |-> total(p[1], p[2]) \div Pow2(TsWidths[LimbAt(p[1])])]
           carry == CHOOSE f : Carried(f)
<1>0. L \in Nat
  BY WidthsAssumption
<1>1. \A s \in 1 .. L : \A c \in {0, 1} : total(s, c) \div Pow2(TsWidths[LimbAt(s)]) \in {0, 1}
  <2> TAKE s \in 1 .. L
  <2> TAKE c \in {0, 1}
  <2> DEFINE q == Pow2(TsWidths[LimbAt(s)])
             a == r[LimbAt(s)]
             b == d[LimbAt(s)]
  <2>1. q \in Nat \ {0}
    BY LimbOfStep
  <2>2. a \in 0 .. (q - 1) /\ b \in 0 .. (q - 1)
    <3>1. LimbAt(s) \in Limbs
      BY LimbOfStep
    <3> QED BY <3>1, SplitInSteps
  <2> HIDE DEF q, a, b
  <2>3. a \in Nat /\ b \in Nat /\ a % q = a /\ b % q = b
    BY <2>1, <2>2, SMT
  <2>4. ((a % q) + (b % q) + c) \div q \in {0, 1}
    <3>1. CarriesOver(q, a, b, c)
      BY <2>1, <2>3, LimbSum
    <3> QED BY <3>1 DEF CarriesOver
  <2> QED BY <2>3, <2>4 DEF q, a, b
<1> HIDE DEF total
<1>2. \E f : Carried(f)
  <2>1. step \in [(1 .. L) \X {0, 1} -> {0, 1}]
    BY <1>1
  <2>2. PICK f \in [0 .. L -> {0, 1}] : InSteps(f, 1, L, step)
    <3>1. 1 \in {0, 1}
      OBVIOUS
    <3> HIDE DEF step, L
    <3> QED BY <1>0, <2>1, <3>1, Recursion, Zenon
  <2>3. ASSUME NEW s \in 0 .. L, s # 0
        PROVE  f[s] = total(s, f[s - 1]) \div Pow2(TsWidths[LimbAt(s)])
    <3>1. s \in 1 .. L /\ s - 1 \in 0 .. L
      BY <1>0, <2>3
    <3>2. <<s, f[s - 1]>> \in (1 .. L) \X {0, 1}
      BY <2>2, <3>1
    <3> QED BY <2>2, <3>1, <3>2 DEF InSteps
  <2>4. Carried(f)
    BY <2>2, <2>3 DEF InSteps
  <2> QED BY <2>4
<1>3. Carried(carry)
  <2> HIDE DEF Carried
  <2> QED BY <1>2
<1>4. CarriesFrom(r, d) = carry
  BY DEF CarriesFrom, total
<1> HIDE DEF carry
<1>5. carry[0] = 1
  BY <1>0, <1>3
<1>6. \A s \in 1 .. L : carry[s] = total(s, carry[s - 1]) \div Pow2(TsWidths[LimbAt(s)])
  BY <1>0, <1>3
<1> DEFINE T == {s \in 0 .. L : carry[s] \in {0, 1}}
<1>7. 0 \in T
  BY <1>0, <1>5
<1>8. ASSUME NEW s \in 1 .. L, s - 1 \in T PROVE s \in T
  <2>1. s \in 0 .. L
    BY <1>0
  <2>2. carry[s] \in {0, 1}
    BY <1>1, <1>6, <1>8
  <2> QED BY <2>1, <2>2
<1>9. 0 .. L \subseteq T
  <2> HIDE DEF T, L
  <2> QED BY <1>0, <1>7, <1>8, UpTo
<1> QED BY <1>4, <1>5, <1>6, <1>9 DEF total

\* Division keeps the order.
LEMMA QuotientsOrdered ==
    ASSUME NEW q \in Nat \ {0}, NEW a \in Nat, NEW b \in Nat, a <= b
    PROVE  a \div q <= b \div q
<1> DEFINE x == a \div q
           y == b \div q
<1>1. x \in Nat /\ a % q \in 0 .. (q - 1) /\ a = q * x + (a % q)
  BY SMT
<1>2. y \in Nat /\ b % q \in 0 .. (q - 1) /\ b = q * y + (b % q)
  BY SMT
<1> SUFFICES ASSUME y < x PROVE FALSE
  BY <1>1, <1>2
<1> HIDE DEF x, y
<1>3. PICK z \in Nat : x = y + 1 + z
  <2>1. x - y - 1 \in Nat /\ x = y + 1 + (x - y - 1)
    BY <1>1, <1>2
  <2> QED BY <2>1
<1>4. q * x = q * y + q + q * z /\ q * z \in Nat /\ q * y \in Nat
  BY <1>2, <1>3, SMT
<1> DEFINE u == q * x
           v == q * y
           w == q * z
           r == a % q
           e == b % q
<1>5. /\ u = v + q + w /\ v \in Nat /\ w \in Nat /\ a = u + r /\ b = v + e
      /\ r \in 0 .. (q - 1) /\ e \in 0 .. (q - 1)
  BY <1>1, <1>2, <1>4
<1> HIDE DEF u, v, w, r, e
<1> QED BY <1>5

\* No stamp of the memory has anything above its most significant limb.
LEMMA NothingAbove ==
    ASSUME NEW x \in Nat, x <= MaxClock
    PROVE  Shifted(x)[Len(TsWidths)] = 0
<1> DEFINE L == Len(TsWidths)
           T == {s \in 0 .. L : Shifted(x)[s] <= Shifted(MaxClock)[s]}
<1>0. L \in Nat /\ MaxClock \in Nat
  BY WidthsAssumption, ClockAssumption
<1>1. 0 \in T
  BY <1>0, ShiftedInSteps
<1>2. ASSUME NEW s \in 1 .. L, s - 1 \in T PROVE s \in T
  <2> DEFINE q == Pow2(TsWidths[LimbAt(s)])
             a == Shifted(x)[s - 1]
             b == Shifted(MaxClock)[s - 1]
  <2>1. q \in Nat \ {0} /\ s \in 0 .. L /\ s - 1 \in 0 .. L
    BY <1>0, LimbOfStep
  <2>2. a \in Nat /\ b \in Nat /\ a <= b
    BY <1>0, <1>2, <2>1, ShiftedInSteps
  <2>3. Shifted(x)[s] = a \div q /\ Shifted(MaxClock)[s] = b \div q
    BY <1>0, ShiftedInSteps
  <2> HIDE DEF q, a, b
  <2>4. a \div q <= b \div q
    BY <2>1, <2>2, QuotientsOrdered
  <2> QED BY <2>1, <2>3, <2>4
<1>3. 0 .. L \subseteq T
  <2> HIDE DEF T, L
  <2> QED BY <1>0, <1>1, <1>2, UpTo
<1>4. L \in 0 .. L
  BY <1>0
<1>5. Shifted(x)[L] <= Shifted(MaxClock)[L] /\ Shifted(x)[L] \in Nat
  BY <1>3, <1>4, ShiftedInSteps
<1> QED BY <1>5, StampsFit

\* The limbs of zero are zero.
LEMMA LimbsOfZero == Split(0) = [i \in Limbs |-> 0]
<1> DEFINE L == Len(TsWidths)
           T == {s \in 0 .. L : Shifted(0)[s] = 0}
<1>0. L \in Nat /\ 0 \in Nat
  BY WidthsAssumption
<1>1. 0 \in T
  BY <1>0, ShiftedInSteps
<1>2. ASSUME NEW s \in 1 .. L, s - 1 \in T PROVE s \in T
  <2> DEFINE q == Pow2(TsWidths[LimbAt(s)])
  <2>1. q \in Nat \ {0} /\ s \in 0 .. L
    BY <1>0, LimbOfStep
  <2>2. Shifted(0)[s] = 0 \div q
    BY <1>0, <1>2, ShiftedInSteps
  <2> HIDE DEF q
  <2>3. 0 \div q = 0
    BY <2>1, SMT
  <2> QED BY <2>1, <2>2, <2>3
<1>3. 0 .. L \subseteq T
  <2> HIDE DEF T, L
  <2> QED BY <1>0, <1>1, <1>2, UpTo
<1>4. ASSUME NEW i \in Limbs PROVE Split(0)[i] = 0
  <2> DEFINE s == LimbAt(i)
             q == Pow2(TsWidths[i])
  <2>1. s \in 1 .. L /\ LimbAt(s) = i /\ s - 1 \in 0 .. L
    BY <1>0 DEF LimbAt, Limbs
  <2> HIDE DEF s
  <2>2. q \in Nat \ {0}
    BY <2>1, LimbOfStep
  <2>3. Split(0)[i] = 0 % q
    <3>1. Split(0)[i] = Shifted(0)[s - 1] % q
      BY <1>0, <2>1, SplitInSteps
    <3>2. Shifted(0)[s - 1] = 0
      BY <1>3, <2>1
    <3> QED BY <3>1, <3>2
  <2> HIDE DEF q
  <2> QED BY <2>2, <2>3, SMT
<1>5. Split(0) = [i \in Limbs |-> Split(0)[i]]
  BY DEF Split
<1> QED BY <1>4, <1>5

\* The limbs and carries of a sum satisfy the limb-wise addition, whatever the
\* widths of the limbs, if the sum is a stamp of the memory.
LEMMA LimbsAdd ==
    ASSUME NEW x \in Nat, NEW y \in Nat, NEW sum, sum = x + y + 1, sum <= MaxClock
    PROVE  LimbIncrement(Split(sum), Split(x), Split(y), Carries(x, y))
<1> DEFINE L == Len(TsWidths)
           c == CarriesFrom(Split(x), Split(y))
           size(s) == Pow2(TsWidths[LimbAt(s)])
           rest(s) == Shifted(sum)[s] = Shifted(x)[s] + Shifted(y)[s] + c[s]
           T == {s \in 0 .. L : rest(s)}
           adds(s) == Split(x)[LimbAt(s)] + Split(y)[LimbAt(s)] + c[s - 1]
                          = Split(sum)[LimbAt(s)] + c[s] * size(s)
<1>0. L \in Nat \ {0} /\ sum \in Nat
  BY WidthsAssumption
<1>1. 0 \in T
  BY <1>0, ShiftedInSteps, CarriesInSteps
<1>2. ASSUME NEW s \in 1 .. L, rest(s - 1) PROVE rest(s) /\ adds(s)
  <2> DEFINE q == size(s)
             a == Shifted(x)[s - 1]
             b == Shifted(y)[s - 1]
             w == Shifted(sum)[s - 1]
             k == c[s - 1]
  <2>1. q \in Nat \ {0} /\ s - 1 \in 0 .. L
    BY <1>0, LimbOfStep
  <2>2. a \in Nat /\ b \in Nat /\ k \in {0, 1} /\ w = a + b + k
    BY <1>0, <1>2, <2>1, ShiftedInSteps, CarriesInSteps
  <2>3. /\ Shifted(x)[s] = a \div q /\ Split(x)[LimbAt(s)] = a % q
        /\ Shifted(y)[s] = b \div q /\ Split(y)[LimbAt(s)] = b % q
        /\ Shifted(sum)[s] = w \div q /\ Split(sum)[LimbAt(s)] = w % q
    BY <1>0, ShiftedInSteps, SplitInSteps
  <2>4. c[s] = (Split(x)[LimbAt(s)] + Split(y)[LimbAt(s)] + k) \div q
    BY CarriesInSteps
  <2> HIDE DEF q, a, b, w, k, c
  <2>5. c[s] = ((a % q) + (b % q) + k) \div q
    BY <2>3, <2>4
  <2>6. /\ c[s] \in {0, 1} /\ c[s] * q + (w % q) = (a % q) + (b % q) + k
        /\ w \div q = (a \div q) + (b \div q) + c[s]
    <3> DEFINE t == ((a % q) + (b % q) + k) \div q
    <3>1. /\ t \in {0, 1} /\ t * q + ((a + b + k) % q) = (a % q) + (b % q) + k
          /\ (a + b + k) \div q = (a \div q) + (b \div q) + t
      <4>1. CarriesOver(q, a, b, k)
        BY <2>1, <2>2, LimbSum
      <4> QED BY <4>1 DEF CarriesOver
    <3>2. c[s] = t /\ w = a + b + k
      BY <2>2, <2>5
    <3> HIDE DEF t
    <3> QED BY <3>1, <3>2
  <2>7. rest(s)
    BY <2>3, <2>6
  <2>8. adds(s)
    <3> DEFINE m == c[s] * q
               e == w % q
    <3>1. m \in Nat /\ e \in Nat
      BY <2>1, <2>2, <2>6, SMT
    <3> HIDE DEF m, e
    <3>2. (a % q) + (b % q) + k = e + m
      BY <2>6, <3>1 DEF m, e
    <3> QED BY <2>3, <3>2 DEF m, e, q, k
  <2> QED BY <2>7, <2>8
<1>3. 0 .. L \subseteq T
  <2>1. ASSUME NEW s \in 1 .. L, s - 1 \in T PROVE s \in T
    <3>1. s \in 0 .. L /\ rest(s - 1)
      BY <1>0, <2>1
    <3> HIDE DEF rest, adds
    <3> QED BY <1>2, <3>1
  <2> HIDE DEF T, L
  <2> QED BY <1>0, <1>1, <2>1, UpTo
<1>4. ASSUME NEW s \in 1 .. L PROVE adds(s)
  <2>1. s - 1 \in 0 .. L
    BY <1>0
  <2>2. rest(s - 1)
    BY <1>3, <2>1
  <2> HIDE DEF rest, adds
  <2> QED BY <1>2, <2>2
<1>5. c[L] = 0
  <2>1. L \in 0 .. L
    BY <1>0
  <2>2. rest(L) /\ Shifted(sum)[L] = 0
    BY <1>0, <1>3, <2>1, NothingAbove
  <2>3. Shifted(x)[L] \in Nat /\ Shifted(y)[L] \in Nat /\ c[L] \in {0, 1}
    BY <2>1, ShiftedInSteps, CarriesInSteps
  <2> HIDE DEF c, L
  <2> QED BY <2>2, <2>3
<1>6. c[0] = 1
  BY CarriesInSteps
<1>7. \A i \in Limbs \ {1} : Carries(x, y)[i] = c[LimbAt(i)]
  BY DEF Carries
<1> HIDE DEF c
<1>8. ASSUME NEW i \in Limbs
      PROVE  Split(x)[i] + Split(y)[i] + (IF i = L THEN 1 ELSE Carries(x, y)[i + 1])
                = Split(sum)[i] + (IF i = 1 THEN 0 ELSE Carries(x, y)[i] * Pow2(TsWidths[i]))
  <2> DEFINE s == LimbAt(i)
  <2>1. s \in 1 .. L /\ LimbAt(s) = i /\ (i = L <=> s = 1) /\ (i = 1 <=> s = L)
    BY <1>0 DEF LimbAt, Limbs
  <2>2. i # L => i + 1 \in Limbs \ {1} /\ LimbAt(i + 1) = s - 1
    BY <1>0 DEF LimbAt, Limbs
  <2>3. (IF i = L THEN 1 ELSE Carries(x, y)[i + 1]) = c[s - 1]
    <3> HIDE DEF s
    <3>1. CASE i = L
      BY <1>6, <2>1, <3>1
    <3>2. CASE i # L
      BY <1>7, <2>2, <3>2
    <3> QED BY <3>1, <3>2
  <2>4. (IF i = 1 THEN 0 ELSE Carries(x, y)[i] * Pow2(TsWidths[i])) = c[s] * size(s)
    <3>1. CASE i = 1
      <4>1. c[s] = 0
        BY <1>5, <2>1, <3>1
      <4>2. size(s) \in Nat
        <5> HIDE DEF s
        <5> QED BY <2>1, LimbOfStep
      <4> HIDE DEF size, s
      <4>3. 0 * size(s) = 0
        BY <4>2
      <4> QED BY <3>1, <4>1, <4>3
    <3>2. CASE i # 1
      <4>1. Carries(x, y)[i] = c[s]
        BY <1>7, <3>2
      <4>2. size(s) = Pow2(TsWidths[i])
        BY <2>1
      <4> HIDE DEF s
      <4> QED BY <3>2, <4>1, <4>2
    <3> QED BY <3>1, <3>2
  <2>5. Split(x)[i] + Split(y)[i] + c[s - 1] = Split(sum)[i] + c[s] * size(s)
    <3> HIDE DEF s
    <3>1. adds(s)
      BY <1>4, <2>1
    <3> QED BY <2>1, <3>1
  <2> HIDE DEF s, size, adds
  <2> QED BY <2>3, <2>4, <2>5
<1> QED BY <1>8 DEF LimbIncrement

-----------------------------------------------------------------------------
\* Runs of records.

\* A log of k accesses whose stamps count up from a clock.
IsStamped(l, k, t) ==
    /\ l \in Seq(Access) /\ k \in Nat /\ t \in Nat /\ Len(l) = Lanes * k
    /\ \A i \in 1 .. Len(l) : l[i].writeStamp = t + 1 + ((i - 1) \div Lanes)

\* A record is of the access of the one before it, or the first of the next one.
LEMMA NextRecord ==
    ASSUME NEW i \in Nat, i > 1
    PROVE  LET q == (i - 1) \div Lanes
               p == (i - 2) \div Lanes
           IN  /\ q \in Nat /\ p \in Nat
               /\ q = p \/ (q = p + 1 /\ i = q * Lanes + 1)
<1> USE LanesAssumption
<1> DEFINE q == (i - 1) \div Lanes
           p == (i - 2) \div Lanes
           e == (i - 1) % Lanes
           u == q * Lanes
<1>1. q \in Nat /\ e \in 0 .. (Lanes - 1) /\ i - 1 = Lanes * q + e /\ u = Lanes * q
  BY SMT
<1>2. u \in Nat
  BY <1>1, SMT
<1>3. CASE e = 0
  <2>1. i = u + 1 /\ q > 0
    <3>1. i = u + 1
      BY <1>1, <1>2, <1>3
    <3>2. q # 0
      BY <1>1, <1>2, <1>3, <3>1
    <3> QED BY <1>1, <3>1, <3>2
  <2> DEFINE z == q - 1
             v == z * Lanes
             f == Lanes - 1
  <2>2. z \in Nat /\ u = v + Lanes /\ v \in Nat /\ f \in 0 .. (Lanes - 1)
    BY <1>1, <2>1, SMT
  <2>3. i - 2 = v + f
    <3> HIDE DEF u, v
    <3> QED BY <2>1, <2>2
  <2> HIDE DEF z, f, u
  <2>4. p = z
    BY <2>2, <2>3, Quotient
  <2> QED BY <1>1, <2>1, <2>2, <2>4 DEF z, u
<1>4. CASE e # 0
  <2> DEFINE f == e - 1
  <2>1. f \in 0 .. (Lanes - 1)
    BY <1>1, <1>4
  <2>2. i - 2 = u + f
    <3> HIDE DEF u
    <3> QED BY <1>1, <1>2
  <2> HIDE DEF f, q, e
  <2>3. p = q
    BY <1>1, <2>1, <2>2, Quotient
  <2> QED BY <1>1, <2>3 DEF q
<1> QED BY <1>3, <1>4

\* The tracer finds the first record of each access.
LEMMA RunsFound ==
    ASSUME NEW l, NEW k, NEW t, IsStamped(l, k, t)
    PROVE  /\ RunStarts(l) \in Seq(Nat) /\ Len(RunStarts(l)) = k
           /\ \A n \in 1 .. k : RunStarts(l)[n] = (n - 1) * Lanes + 1
<1> USE LanesAssumption
<1> DEFINE N == Len(l)
           new(i) == i = 1 \/ l[i - 1].writeStamp # l[i].writeStamp
           Scanned(f) == f = [i \in 0 .. N |-> IF i = 0 THEN <<>>
                                 ELSE IF new(i) THEN Append(f[i - 1], i) ELSE f[i - 1]]
           step == [p \in (1 .. N) \X Seq(Nat) |->
                       IF new(p[1]) THEN Append(p[2], p[1]) ELSE p[2]]
           starts == CHOOSE f : Scanned(f)
           count(i) == IF i = 0 THEN 0 ELSE ((i - 1) \div Lanes) + 1
<1>0. N \in Nat /\ k \in Nat /\ t \in Nat
  BY DEF IsStamped
<1>1. \E f : Scanned(f)
  <2>1. step \in [(1 .. N) \X Seq(Nat) -> Seq(Nat)]
    <3> HIDE DEF new
    <3>1. ASSUME NEW p \in (1 .. N) \X Seq(Nat)
          PROVE  (IF new(p[1]) THEN Append(p[2], p[1]) ELSE p[2]) \in Seq(Nat)
      <4>1. p[1] \in Nat /\ p[2] \in Seq(Nat)
        BY <1>0
      <4>2. Append(p[2], p[1]) \in Seq(Nat)
        BY <4>1, AppendProperties
      <4> QED BY <4>1, <4>2
    <3> QED BY <3>1
  <2>2. PICK f \in [0 .. N -> Seq(Nat)] : InSteps(f, <<>>, N, step)
    <3>1. <<>> \in Seq(Nat)
      BY EmptySeq
    <3> HIDE DEF step, N
    <3> QED BY <1>0, <2>1, <3>1, Recursion, Zenon
  <2> HIDE DEF new
  <2>3. ASSUME NEW i \in 0 .. N, i # 0
        PROVE  f[i] = IF new(i) THEN Append(f[i - 1], i) ELSE f[i - 1]
    <3>1. i \in 1 .. N /\ i - 1 \in 0 .. N
      BY <1>0, <2>3
    <3>2. f[i] = step[<<i, f[i - 1]>>]
      BY <2>2, <3>1 DEF InSteps
    <3>3. <<i, f[i - 1]>> \in (1 .. N) \X Seq(Nat)
      BY <2>2, <3>1
    <3> QED BY <3>2, <3>3
  <2>4. f = [i \in 0 .. N |-> f[i]] /\ f[0] = <<>>
    BY <2>2 DEF InSteps
  <2>5. [i \in 0 .. N |-> f[i]]
            = [i \in 0 .. N |-> IF i = 0 THEN <<>>
                                ELSE IF new(i) THEN Append(f[i - 1], i) ELSE f[i - 1]]
    BY <2>3, <2>4
  <2>6. Scanned(f)
    BY <2>4, <2>5
  <2> QED BY <2>6
<1>2. Scanned(starts)
  <2> HIDE DEF Scanned
  <2> QED BY <1>1
<1>3. RunStarts(l) = starts[N]
  BY DEF RunStarts
<1> HIDE DEF starts
<1>4. starts[0] = <<>>
  BY <1>0, <1>2
<1>5. ASSUME NEW i \in 1 .. N
      PROVE  starts[i] = IF new(i) THEN Append(starts[i - 1], i) ELSE starts[i - 1]
  <2>1. i \in 0 .. N /\ i # 0
    BY <1>0
  <2> HIDE DEF new
  <2> QED BY <1>2, <2>1
<1> DEFINE T == {i \in 0 .. N : /\ starts[i] \in Seq(Nat) /\ Len(starts[i]) = count(i)
                                /\ \A n \in 1 .. count(i) : starts[i][n] = (n - 1) * Lanes + 1}
<1>6. 0 \in T
  <2>1. count(0) = 0 /\ 0 \in 0 .. N
    BY <1>0
  <2>2. starts[0] \in Seq(Nat) /\ Len(starts[0]) = 0
    <3>1. <<>> \in Seq(Nat) /\ Len(<<>>) = 0
      BY EmptySeq
    <3> QED BY <1>4, <3>1, Zenon
  <2>3. \A n \in 1 .. 0 : starts[0][n] = (n - 1) * Lanes + 1
    OBVIOUS
  <2> HIDE DEF count, N
  <2> QED BY <2>1, <2>2, <2>3
<1>7. ASSUME NEW i \in 1 .. N, i - 1 \in T PROVE i \in T
  <2> DEFINE s == starts[i - 1]
             c == count(i - 1)
  <2>1. s \in Seq(Nat) /\ Len(s) = c /\ \A n \in 1 .. c : s[n] = (n - 1) * Lanes + 1
    BY <1>7
  <2>2. i \in 0 .. N /\ i \in Nat /\ i # 0
    BY <1>0
  <2>3. /\ c \in Nat /\ count(i) \in Nat
        /\ \/ ~ new(i) /\ count(i) = c
           \/ new(i) /\ count(i) = c + 1 /\ i = c * Lanes + 1
    <3>1. CASE i = 1
      <4>1. 0 \div Lanes = 0 /\ 0 * Lanes = 0
        BY SMT
      <4> QED BY <3>1, <4>1
    <3>2. CASE i # 1
      <4> DEFINE q == (i - 1) \div Lanes
                 p == (i - 2) \div Lanes
      <4>1. q \in Nat /\ p \in Nat /\ (q = p \/ (q = p + 1 /\ i = q * Lanes + 1))
        <5>1. i > 1
          BY <2>2, <3>2
        <5> QED BY <2>2, <5>1, NextRecord
      <4>2. count(i) = q + 1
        BY <2>2
      <4>3. c = p + 1
        <5>1. i - 1 # 0 /\ (i - 1) - 1 = i - 2
          BY <2>2, <3>2
        <5> QED BY <5>1
      <4>4. new(i) <=> q # p
        <5>1. i - 1 \in 1 .. N /\ (i - 1) - 1 = i - 2
          BY <1>0, <2>2, <3>2
        <5>2. l[i - 1].writeStamp = t + 1 + p /\ l[i].writeStamp = t + 1 + q
          BY <5>1 DEF IsStamped
        <5> HIDE DEF p, q
        <5> QED BY <1>0, <3>2, <4>1, <5>2
      <4> HIDE DEF new, c, count, p, q
      <4>5. c = q => i = c * Lanes + 1 \/ q = p
        BY <4>1
      <4> QED BY <4>1, <4>2, <4>3, <4>4, <4>5
    <3> QED BY <3>1, <3>2
  <2> HIDE DEF s, c
  <2>4. CASE ~ new(i)
    <3>1. starts[i] = s /\ count(i) = c
      BY <1>5, <2>3, <2>4 DEF s
    <3> HIDE DEF count, new
    <3> QED BY <2>1, <2>2, <3>1
  <2>5. CASE new(i)
    <3>1. starts[i] = Append(s, i) /\ count(i) = c + 1 /\ i = c * Lanes + 1
      BY <1>5, <2>3, <2>5 DEF s
    <3> HIDE DEF count, new
    <3>2. /\ Append(s, i) \in Seq(Nat) /\ Len(Append(s, i)) = c + 1
          /\ \A n \in 1 .. c : Append(s, i)[n] = s[n]
          /\ Append(s, i)[c + 1] = i
      BY <2>1, <2>2, AppendProperties
    <3>3. ASSUME NEW n \in 1 .. (c + 1) PROVE Append(s, i)[n] = (n - 1) * Lanes + 1
      <4>1. CASE n \in 1 .. c
        BY <2>1, <3>2, <4>1
      <4>2. CASE n = c + 1
        BY <2>3, <3>1, <3>2, <4>2
      <4>3. n \in 1 .. c \/ n = c + 1
        <5>1. c \in Nat
          BY <2>3
        <5> QED BY <5>1
      <4> QED BY <4>1, <4>2, <4>3
    <3> QED BY <2>2, <3>1, <3>2, <3>3
  <2> QED BY <2>4, <2>5
<1>8. 0 .. N \subseteq T
  <2> HIDE DEF T, N
  <2> QED BY <1>0, <1>6, <1>7, UpTo
<1>9. N \in T
  <2>1. N \in 0 .. N
    BY <1>0
  <2> HIDE DEF T, N
  <2> QED BY <1>8, <2>1
<1>10. count(N) = k
  <2>1. CASE k = 0
    <3>1. Lanes * 0 = 0
      BY SMT
    <3>2. N = 0
      BY <2>1, <3>1 DEF IsStamped
    <3> QED BY <2>1, <3>2
  <2>2. CASE k # 0
    <3> DEFINE z == k - 1
               v == Lanes * z
    <3>1. z \in Nat /\ v \in Nat /\ N = v + Lanes /\ Lanes \in 1 .. Lanes
      <4>1. z \in Nat /\ Lanes * k = Lanes * z + Lanes /\ Lanes * z \in Nat
        BY <1>0, <2>2, SMT
      <4> QED BY <4>1 DEF IsStamped
    <3> HIDE DEF v
    <3>2. (v + Lanes - 1) \div Lanes = z
      BY <3>1, PlaceInLog DEF v
    <3>3. N # 0 /\ N - 1 = v + Lanes - 1
      BY <3>1
    <3>4. count(N) = z + 1
      <4> HIDE DEF N, z
      <4> QED BY <3>2, <3>3
    <3> QED BY <1>0, <3>4
  <2> QED BY <2>1, <2>2
<1> QED BY <1>3, <1>9, <1>10

\* The run that starts at the first record of an access has all of its lanes.
LEMMA RunIsAccess ==
    ASSUME NEW l, NEW k, NEW t, IsStamped(l, k, t), NEW n \in 1 .. k
    PROVE  LET i == (n - 1) * Lanes + 1
           IN  /\ i \in 1 .. Len(l) /\ i + Lanes - 1 <= Len(l)
               /\ RunFrom(l, i) = i .. (i + Lanes - 1)
               /\ \A m \in 0 .. (Lanes - 1) : (i + m - 1) \div Lanes = n - 1 /\ (i + m - 1) % Lanes = m
<1> USE LanesAssumption
<1> DEFINE z == n - 1
           v == z * Lanes
           i == v + 1
           N == Len(l)
<1>0. k \in Nat /\ t \in Nat /\ N \in Nat /\ z \in Nat /\ z < k
  BY DEF IsStamped
<1>1. v \in Nat /\ v + Lanes <= N
  <2>1. PICK d \in Nat : k = z + 1 + d
    <3>1. k - z - 1 \in Nat /\ k = z + 1 + (k - z - 1)
      BY <1>0
    <3> QED BY <3>1
  <2> HIDE DEF z
  <2>2. Lanes * k = z * Lanes + Lanes + Lanes * d /\ Lanes * d \in Nat /\ z * Lanes \in Nat
    BY <1>0, <2>1, SMT
  <2>3. N = Lanes * k
    BY DEF IsStamped
  <2> DEFINE e == Lanes * d
  <2>4. N = v + Lanes + e /\ e \in Nat /\ v \in Nat
    BY <2>2, <2>3
  <2> HIDE DEF e, v, N
  <2> QED BY <2>4
<1>2. ASSUME NEW m \in 0 .. (Lanes - 1)
      PROVE  (v + m) \div Lanes = z /\ (v + m) % Lanes = m
  <2> DEFINE x == v + m
  <2>1. x = z * Lanes + m
    OBVIOUS
  <2> HIDE DEF x, z
  <2>2. x \div Lanes = z /\ x % Lanes = m
    BY <1>0, <2>1, Quotient
  <2> QED BY <2>2 DEF x
<1> HIDE DEF v
<1>3. i \in 1 .. N /\ i + Lanes - 1 <= N
  BY <1>0, <1>1
<1>4. ASSUME NEW m \in 0 .. (Lanes - 1) PROVE l[i + m].writeStamp = t + 1 + z
  <2>1. i + m \in 1 .. N /\ (i + m) - 1 = v + m
    BY <1>0, <1>1
  <2>2. (v + m) \div Lanes = z
    BY <1>2
  <2>3. l[i + m].writeStamp = t + 1 + ((v + m) \div Lanes)
    BY <2>1 DEF IsStamped
  <2> QED BY <2>2, <2>3
<1>5. i + Lanes - 1 < N => l[i + Lanes].writeStamp # l[i].writeStamp
  <2> SUFFICES ASSUME i + Lanes - 1 < N PROVE l[i + Lanes].writeStamp # l[i].writeStamp
    OBVIOUS
  <2>1. i + Lanes \in 1 .. N /\ (i + Lanes) - 1 = v + Lanes
    BY <1>0, <1>1
  <2> DEFINE y == z + 1
             x == v + Lanes
  <2>2. y \in Nat /\ x = y * Lanes + 0 /\ 0 \in 0 .. (Lanes - 1)
    <3>1. (z + 1) * Lanes = z * Lanes + Lanes
      BY <1>0, SMT
    <3> QED BY <1>0, <1>1, <3>1 DEF v
  <2> HIDE DEF x, y
  <2>3. x \div Lanes = y
    BY <2>2, Quotient
  <2>4. l[i + Lanes].writeStamp = t + 1 + (x \div Lanes)
    BY <2>1 DEF IsStamped, x
  <2>5. l[i].writeStamp = t + 1 + z
    <3>1. 0 \in 0 .. (Lanes - 1) /\ i + 0 = i
      BY <1>1
    <3>2. l[i + 0].writeStamp = t + 1 + z
      BY <1>4, <3>1
    <3> QED BY <3>1, <3>2
  <2> QED BY <1>0, <2>3, <2>4, <2>5 DEF y
<1>6. RunFrom(l, i) = i .. (i + Lanes - 1)
  <2>1. ASSUME NEW j \in i .. (i + Lanes - 1) PROVE j \in RunFrom(l, i)
    <3>1. j \in i .. N
      BY <1>0, <1>1
    <3>2. ASSUME NEW h \in i .. j PROVE l[h].writeStamp = l[i].writeStamp
      <4>1. h - i \in 0 .. (Lanes - 1) /\ i + (h - i) = h /\ 0 \in 0 .. (Lanes - 1) /\ i + 0 = i
        BY <1>1
      <4>2. l[i + (h - i)].writeStamp = t + 1 + z /\ l[i + 0].writeStamp = t + 1 + z
        BY <1>4, <4>1
      <4> QED BY <4>1, <4>2
    <3> QED BY <3>1, <3>2 DEF RunFrom
  <2>2. ASSUME NEW j \in RunFrom(l, i) PROVE j \in i .. (i + Lanes - 1)
    <3>1. j \in i .. N /\ \A h \in i .. j : l[h].writeStamp = l[i].writeStamp
      BY <2>2 DEF RunFrom
    <3>2. ASSUME j > i + Lanes - 1 PROVE FALSE
      <4>1. i + Lanes \in i .. j /\ i + Lanes - 1 < N
        BY <1>0, <1>1, <3>1, <3>2
      <4> QED BY <1>5, <3>1, <4>1
    <3> QED BY <1>0, <1>1, <3>1, <3>2
  <2> QED BY <2>1, <2>2
<1>7. ASSUME NEW m \in 0 .. (Lanes - 1)
      PROVE  (i + m - 1) \div Lanes = z /\ (i + m - 1) % Lanes = m
  <2>1. i + m - 1 = v + m
    BY <1>1
  <2> HIDE DEF i
  <2> QED BY <1>2, <2>1
<1> QED BY <1>3, <1>6, <1>7 DEF v

-----------------------------------------------------------------------------
\* What the table needs of the memory beyond what the log chains.

\* No stamp outgrows the clock's bound, and a read stores back what it found.
TableInv ==
    /\ clock \in 0 .. MaxClock
    /\ saved = NoCheckpoint \/ saved.clock \in 0 .. MaxClock
    /\ \A i \in 1 .. Len(log) : ~ log[i].isWrite => log[i].valueRead = log[i].valueWritten

\* An access keeps it: the values a read writes are those it found.
LEMMA TableInvAfterAccess ==
    ASSUME RecordingInv, TableInv, NEW row \in Row, NEW isWrite \in BOOLEAN,
           NEW written \in [0 .. (Lanes - 1) -> Value],
           AccessRow(row, written, isWrite),
           ~ isWrite => written = ValuesFrom(data, row * Lanes, Lanes)
    PROVE  TableInv'
<1> USE LanesAssumption
<1> DEFINE first == row * Lanes
           t == clock + 1
           n == Len(log)
           lanes == LaneAccesses(data, first, Lanes, written, t, isWrite)
<1>1. /\ clock \in Nat /\ t \in Nat /\ IsMemory(data) /\ log \in Seq(Access) /\ n \in Nat
  BY DEF TableInv, RecordingInv, MemoriesSound, Sound
<1>2. first \in Nat
  BY RowAssumption, SMT
<1>3. clock' \in 0 .. MaxClock /\ saved' = saved /\ log' = log \o lanes
  BY <1>1, ClockAssumption DEF AccessRow, TableInv
<1> HIDE DEF first, t
<1>4. AreLaneRecords(lanes, data, first, written, t, isWrite)
  BY <1>1, <1>2, LaneAccessesShape
<1> HIDE DEF lanes
<1>5. lanes \in Seq(Access) /\ Len(lanes) = Lanes
  BY <1>4 DEF AreLaneRecords
<1>6. /\ Len(log') = n + Lanes
      /\ \A i \in 1 .. n + Lanes : log'[i] = IF i <= n THEN log[i] ELSE lanes[i - n]
  BY <1>1, <1>3, <1>5, ConcatProperties
<1> HIDE DEF n
<1>7. ASSUME NEW i \in 1 .. Len(log'), ~ log'[i].isWrite
      PROVE  log'[i].valueRead = log'[i].valueWritten
  <2>1. i \in 1 .. n + Lanes
    BY <1>6
  <2>2. CASE i <= n
    <3>1. log'[i] = log[i] /\ i \in 1 .. Len(log)
      BY <1>1, <1>6, <2>1, <2>2 DEF n
    <3> QED BY <1>7, <3>1 DEF TableInv
  <2>3. CASE ~ i <= n
    <3> DEFINE l == i - n
    <3>1. l \in 1 .. Lanes /\ l - 1 \in 0 .. (Lanes - 1) /\ first + l - 1 = first + (l - 1)
      BY <1>1, <1>2, <2>1, <2>3
    <3>2. log'[i] = lanes[l]
      BY <1>6, <2>1, <2>3
    <3> HIDE DEF l
    <3>3. /\ lanes[l].isWrite = isWrite /\ lanes[l].valueWritten = written[l - 1]
          /\ lanes[l].valueRead = CellAt(data, first + l - 1).value
      BY <1>4, <3>1 DEF AreLaneRecords
    <3>4. written = ValuesFrom(data, first, Lanes)
      BY <1>7, <3>2, <3>3 DEF first
    <3>5. written[l - 1] = CellAt(data, first + (l - 1)).value
      BY <3>1, <3>4 DEF ValuesFrom
    <3> QED BY <3>1, <3>2, <3>3, <3>5
  <2> QED BY <2>2, <2>3
<1> QED BY <1>3, <1>7 DEF TableInv

\* It holds in every state.
LEMMA TableInvariant == Spec => []TableInv
<1>1. Init => TableInv
  BY ClockAssumption, EmptyLog DEF Init, TableInv
<1>2. RecordingInv /\ TableInv /\ [Next]_vars => TableInv'
  <2> SUFFICES ASSUME RecordingInv, TableInv, [Next]_vars PROVE TableInv'
    OBVIOUS
  <2>1. ASSUME NEW row \in Row, ReadRow(row) PROVE TableInv'
    <3>1. IsMemory(data)
      BY DEF RecordingInv, MemoriesSound, Sound
    <3>2. ValuesFrom(data, row * Lanes, Lanes) \in [0 .. (Lanes - 1) -> Value]
      BY <3>1, CellAtType DEF ValuesFrom, Cell
    <3> QED BY <2>1, <3>2, TableInvAfterAccess DEF ReadRow
  <2>2. ASSUME NEW row \in Row, WriteRow(row) PROVE TableInv'
    <3>1. PICK written \in [0 .. (Lanes - 1) -> Value] : AccessRow(row, written, TRUE)
      BY <2>2 DEF WriteRow
    <3> QED BY <3>1, TableInvAfterAccess
  <2>3. CASE Checkpoint
    BY <2>3 DEF TableInv, Checkpoint
  <2>4. CASE Restore
    BY <2>4, EmptyLog DEF TableInv, Restore
  <2>5. CASE Initialise
    BY <2>5, EmptyLog, ClockAssumption DEF TableInv, Initialise
  <2>6. CASE UNCHANGED vars
    BY <2>6 DEF vars, TableInv
  <2> QED BY <2>1, <2>2, <2>3, <2>4, <2>5, <2>6 DEF Next
<1> QED BY <1>1, <1>2, RecordingInvariant, PTL DEF Spec

-----------------------------------------------------------------------------
\* The rows of the table.

\* Where the run of the n-th access starts.
FirstOf(n) == (n - 1) * Lanes + 1

\* The table of a log: the row of padding, then one row per access.
HasRows(tab, l, k) ==
    /\ DOMAIN tab = 1 .. (k + 1) /\ tab[1] = PaddingRow
    /\ \A n \in 1 .. k : tab[n + 1] = AccessRowOf(l, n, FirstOf(n))

\* The tracer writes that table.
LEMMA TableHasRows ==
    ASSUME NEW l, NEW k, NEW t, IsStamped(l, k, t)
    PROVE  HasRows(Table(l), l, k)
<1> DEFINE starts == RunStarts(l)
           rows == [n \in 1 .. Len(starts) |-> AccessRowOf(l, n, starts[n])]
           S == {PaddingRow} \cup {AccessRowOf(l, n, starts[n]) : n \in 1 .. Len(starts)}
<1>1. starts \in Seq(Nat) /\ Len(starts) = k /\ \A n \in 1 .. k : starts[n] = FirstOf(n)
  BY RunsFound DEF FirstOf
<1>2. k \in Nat
  BY DEF IsStamped
<1> HIDE DEF starts
<1>3. rows \in Seq(S) /\ Len(rows) = k
  BY <1>1, <1>2
<1>4. <<PaddingRow>> \in Seq(S) /\ Len(<<PaddingRow>>) = 1 /\ <<PaddingRow>>[1] = PaddingRow
  <2>1. PaddingRow \in S
    OBVIOUS
  <2> HIDE DEF S
  <2> QED BY <2>1
<1>5. Table(l) = <<PaddingRow>> \o rows
  BY DEF Table, starts
<1>6. \A n \in 1 .. k : rows[n] = AccessRowOf(l, n, FirstOf(n))
  BY <1>1
<1> HIDE DEF S, rows
<1>7. /\ Table(l) \in Seq(S) /\ Len(Table(l)) = 1 + k
      /\ \A i \in 1 .. 1 + k : Table(l)[i] = IF i <= 1 THEN <<PaddingRow>>[i] ELSE rows[i - 1]
  BY <1>3, <1>4, <1>5, ConcatProperties
<1>8. DOMAIN Table(l) = 1 .. (k + 1)
  BY <1>2, <1>7
<1>9. Table(l)[1] = PaddingRow
  BY <1>2, <1>4, <1>7
<1>10. ASSUME NEW n \in 1 .. k PROVE Table(l)[n + 1] = AccessRowOf(l, n, FirstOf(n))
  <2>1. n + 1 \in 1 .. 1 + k /\ ~ n + 1 <= 1 /\ (n + 1) - 1 = n
    BY <1>2
  <2> QED BY <1>6, <1>7, <2>1
<1> QED BY <1>8, <1>9, <1>10 DEF HasRows

\* What the row r of the n-th access says: its records are those of the lanes
\* from place i on, w is the stamp they wrote and p the stamp they read.
IsRowOf(r, l, n, i, w, p) ==
    /\ r.exec = 1
    /\ r.isWrite = (IF l[i].isWrite THEN 1 ELSE 0)
    /\ r.execWrite = (IF l[i].isWrite THEN 1 ELSE 0)
    /\ r.execRead = (IF l[i].isWrite THEN 0 ELSE 1)
    /\ r.address = l[i].address \div Lanes
    /\ r.valueWritten = [m \in 0 .. (Lanes - 1) |-> l[i + m].valueWritten]
    /\ r.valueRead = [m \in 0 .. (Lanes - 1) |-> l[i + m].valueRead]
    /\ r.tsWritten = Split(w) /\ r.temporalTs = Split(w)
    /\ r.tsRead = Split(p) /\ r.tsDelta = Split(w - p - 1)
    /\ r.tsCarry = Carries(p, w - p - 1)
    /\ r.temporalTsCarry = Carries(IF n = 1 THEN 0 ELSE w - 1, 0)

\* The row of an access says that of the lanes the access touched.
LEMMA RowOfAccess ==
    ASSUME NEW l, NEW k, NEW t, IsStamped(l, k, t), NEW n \in 1 .. k
    PROVE  /\ IsRowOf(AccessRowOf(l, n, FirstOf(n)), l, n, FirstOf(n), t + n,
                      l[FirstOf(n)].readStamp)
           /\ \A m \in 0 .. (Lanes - 1) : /\ FirstOf(n) + m \in 1 .. Len(l)
                                          /\ l[FirstOf(n) + m].writeStamp = t + n
<1> USE LanesAssumption
<1> DEFINE i == FirstOf(n)
           r == AccessRowOf(l, n, i)
           run == RunFrom(l, i)
<1>0. k \in Nat /\ t \in Nat /\ n \in Nat /\ Len(l) \in Nat
  BY DEF IsStamped
<1>1. i \in 1 .. Len(l)
  BY RunIsAccess DEF FirstOf
<1>2. i + Lanes - 1 <= Len(l)
  BY RunIsAccess DEF FirstOf
<1>3. run = i .. (i + Lanes - 1)
  BY RunIsAccess DEF FirstOf
<1>4. \A m \in 0 .. (Lanes - 1) : (i + m - 1) \div Lanes = n - 1
  BY RunIsAccess DEF FirstOf
<1> HIDE DEF i
<1>5. ASSUME NEW m \in 0 .. (Lanes - 1)
      PROVE  i + m \in 1 .. Len(l) /\ l[i + m].writeStamp = t + n
  <2>1. i + m \in 1 .. Len(l)
    BY <1>0, <1>1, <1>2
  <2> DEFINE h == i + m
  <2>2. (h - 1) \div Lanes = n - 1
    <3>1. h - 1 = i + m - 1
      BY <1>1
    <3>2. (i + m - 1) \div Lanes = n - 1
      BY <1>4
    <3> HIDE DEF h
    <3> QED BY <3>1, <3>2
  <2> HIDE DEF h
  <2>3. l[h].writeStamp = t + 1 + ((h - 1) \div Lanes)
    BY <2>1 DEF IsStamped, h
  <2>4. l[h].writeStamp = t + n
    BY <1>0, <2>2, <2>3
  <2> QED BY <2>1, <2>4 DEF h
<1>6. l[i].writeStamp = t + n
  <2>1. 0 \in 0 .. (Lanes - 1) /\ i + 0 = i
    BY <1>1
  <2>2. l[i + 0].writeStamp = t + n
    BY <1>5, <2>1
  <2> QED BY <2>1, <2>2
<1>7. ASSUME NEW j \in 1 .. k PROVE TemporalOf(l, j) = t + j
  <2>1. 1 \in 1 .. Len(l) /\ (1 - 1) \div Lanes = 0
    <3>1. 0 \div Lanes = 0
      BY SMT
    <3> QED BY <1>0, <1>1, <3>1
  <2>2. l[1].writeStamp = t + 1 + ((1 - 1) \div Lanes)
    BY <2>1 DEF IsStamped
  <2>3. l[1].writeStamp = t + 1
    BY <1>0, <2>1, <2>2
  <2> QED BY <1>0, <2>3 DEF TemporalOf
<1>8. TemporalOf(l, n) = t + n
  BY <1>7
<1>9. n # 1 => TemporalOf(l, n - 1) = t + n - 1
  <2> SUFFICES ASSUME n # 1 PROVE TemporalOf(l, n - 1) = t + n - 1
    OBVIOUS
  <2>1. n - 1 \in 1 .. k
    BY <1>0
  <2>2. TemporalOf(l, n - 1) = t + (n - 1)
    BY <1>7, <2>1
  <2> QED BY <1>0, <2>2
<1>10. {j - i : j \in run} = 0 .. (Lanes - 1)
  <2>1. ASSUME NEW m \in 0 .. (Lanes - 1) PROVE m \in {j - i : j \in run}
    <3>1. i + m \in run /\ m = (i + m) - i
      BY <1>1, <1>3
    <3> HIDE DEF run
    <3> QED BY <3>1
  <2>2. ASSUME NEW j \in run PROVE j - i \in 0 .. (Lanes - 1)
    BY <1>1, <1>3
  <2> HIDE DEF run
  <2> QED BY <2>1, <2>2
<1>11. IsRowOf(r, l, n, i, t + n, l[i].readStamp)
  <2> DEFINE w == t + n
             p == l[i].readStamp
             prev == IF n = 1 THEN 0 ELSE TemporalOf(l, n - 1)
  <2>1. prev = IF n = 1 THEN 0 ELSE w - 1
    <3>1. CASE n = 1
      BY <3>1
    <3>2. CASE n # 1
      <4>1. TemporalOf(l, n - 1) = w - 1
        BY <1>0, <1>9, <3>2
      <4> QED BY <3>2, <4>1, Zenon
    <3> QED BY <3>1, <3>2
  <2>2. [m \in {j - i : j \in run} |-> l[i + m].valueWritten]
          = [m \in 0 .. (Lanes - 1) |-> l[i + m].valueWritten]
    BY <1>10, Zenon
  <2>3. [m \in {j - i : j \in run} |-> l[i + m].valueRead]
          = [m \in 0 .. (Lanes - 1) |-> l[i + m].valueRead]
    BY <1>10, Zenon
  <2>4. /\ r.exec = 1
        /\ r.isWrite = (IF l[i].isWrite THEN 1 ELSE 0)
        /\ r.execWrite = (IF l[i].isWrite THEN 1 ELSE 0)
        /\ r.execRead = (IF l[i].isWrite THEN 0 ELSE 1)
        /\ r.address = l[i].address \div Lanes
    BY DEF AccessRowOf
  <2>5. /\ r.valueWritten = [m \in {j - i : j \in run} |-> l[i + m].valueWritten]
        /\ r.valueRead = [m \in {j - i : j \in run} |-> l[i + m].valueRead]
    BY Zenon DEF AccessRowOf
  <2>6. /\ r.tsWritten = Split(w) /\ r.tsRead = Split(p)
        /\ r.tsDelta = Split(w - p - 1) /\ r.tsCarry = Carries(p, w - p - 1)
    BY <1>6 DEF AccessRowOf
  <2>7. r.temporalTs = Split(TemporalOf(l, n)) /\ r.temporalTsCarry = Carries(prev, 0)
    BY DEF AccessRowOf
  <2>8. r.temporalTs = Split(w)
    BY <1>8, <2>7
  <2> HIDE DEF r, run, prev
  <2>9. r.valueWritten = [m \in 0 .. (Lanes - 1) |-> l[i + m].valueWritten]
    BY <2>2, <2>5, Zenon
  <2>10. r.valueRead = [m \in 0 .. (Lanes - 1) |-> l[i + m].valueRead]
    BY <2>3, <2>5, Zenon
  <2>11. r.temporalTsCarry = Carries(IF n = 1 THEN 0 ELSE w - 1, 0)
    BY <2>1, <2>7, Zenon
  <2> QED BY <2>4, <2>6, <2>8, <2>9, <2>10, <2>11, Zenon DEF IsRowOf
<1> QED BY <1>5, <1>11 DEF i

-----------------------------------------------------------------------------
\* Every constraint holds of every row.

\* The recorded log, seen from the clock of the recording's start.
RecordedAs(k, t) ==
    /\ IsStamped(log, k, t) /\ k + t = clock

\* What the memory promises the table.
RowsSound ==
    /\ RecordingInv /\ AccessesRecoverable /\ TableInv

\* The log is a whole number of accesses, one per reading of the clock.
LEMMA LogIsStamped ==
    ASSUME RowsSound
    PROVE  RecordedAs(clock - start.clock, start.clock)
<1>1. /\ clock \in Nat /\ start.clock \in 0 .. clock /\ log \in Seq(Access)
  BY DEF RowsSound, RecordingInv, MemoriesSound
<1>2. clock - start.clock \in Nat /\ start.clock \in Nat
      /\ (clock - start.clock) + start.clock = clock
  BY <1>1
<1>3. /\ Len(log) = Lanes * (clock - start.clock)
      /\ \A i \in 1 .. Len(log) : log[i].writeStamp = start.clock + 1 + ((i - 1) \div Lanes)
  BY DEF RowsSound, AccessesRecoverable
<1> QED BY <1>1, <1>2, <1>3, Zenon DEF RecordedAs, IsStamped

\* The stamps of an access fit the clock; a read writes back what it read, in
\* every lane.
LEMMA AccessFits ==
    ASSUME RowsSound, NEW k, NEW t, RecordedAs(k, t), NEW n \in 1 .. k
    PROVE  LET i == FirstOf(n)
           IN  /\ i \in 1 .. Len(log) /\ log[i] \in Access
               /\ t + n \in Nat /\ t + n <= MaxClock
               /\ log[i].readStamp \in Nat /\ log[i].readStamp < t + n
               /\ ~ log[i].isWrite => \A m \in 0 .. (Lanes - 1) :
                     log[i + m].valueRead = log[i + m].valueWritten
<1> USE LanesAssumption
<1> DEFINE i == FirstOf(n)
<1>1. IsStamped(log, k, t) /\ k \in Nat /\ t \in Nat /\ k + t = clock
  BY DEF RecordedAs, IsStamped
<1>2. \A m \in 0 .. (Lanes - 1) : i + m \in 1 .. Len(log) /\ log[i + m].writeStamp = t + n
  BY <1>1, RowOfAccess
<1> HIDE DEF i
<1>3. i \in 1 .. Len(log) /\ log[i].writeStamp = t + n
  <2>1. i \in Nat
    <3>1. i \in 1 .. Len(log)
      BY <1>1, RunIsAccess DEF FirstOf, i
    <3> QED BY <3>1
  <2>2. 0 \in 0 .. (Lanes - 1) /\ i + 0 = i
    BY <2>1
  <2>3. i + 0 \in 1 .. Len(log) /\ log[i + 0].writeStamp = t + n
    BY <1>2, <2>2
  <2> QED BY <2>2, <2>3
<1>4. log \in Seq(Access) /\ clock \in 0 .. MaxClock
  BY DEF RowsSound, RecordingInv, TableInv
<1>5. log[i] \in Access
  BY <1>3, <1>4
<1>6. log[i].readStamp \in Nat
  BY <1>5 DEF Access
<1>7. log[i].readStamp < t + n
  <2>1. log[i].readStamp < log[i].writeStamp
    BY <1>3 DEF RowsSound, RecordingInv, ReadsThePast
  <2> QED BY <1>3, <2>1
<1>8. t + n \in Nat /\ t + n <= MaxClock
  BY <1>1, <1>4, ClockAssumption
<1>9. ASSUME ~ log[i].isWrite, NEW m \in 0 .. (Lanes - 1)
      PROVE  log[i + m].valueRead = log[i + m].valueWritten
  <2>1. i + m \in 1 .. Len(log) /\ log[i + m].writeStamp = log[i].writeStamp
    BY <1>2, <1>3
  <2>2. log[i + m].isWrite = log[i].isWrite
    BY <1>3, <2>1 DEF RowsSound, AccessesRecoverable
  <2> QED BY <1>9, <2>1, <2>2 DEF RowsSound, TableInv
<1> QED BY <1>3, <1>5, <1>6, <1>7, <1>8, <1>9 DEF i

\* A carry is a bit.
LEMMA CarriesAreBits ==
    ASSUME NEW x \in Nat, NEW y \in Nat, NEW j \in Limbs \ {1}
    PROVE  Carries(x, y)[j] \in {0, 1}
<1> DEFINE c == CarriesFrom(Split(x), Split(y))
<1>1. LimbAt(j) \in 0 .. Len(TsWidths)
  BY WidthsAssumption DEF LimbAt, Limbs
<1>2. \A s \in 0 .. Len(TsWidths) : c[s] \in {0, 1}
  BY CarriesInSteps
<1>3. Carries(x, y)[j] = c[LimbAt(j)]
  BY DEF Carries
<1> HIDE DEF c
<1> QED BY <1>1, <1>2, <1>3

\* The rows of accesses: the selectors, the limb-wise additions and the ranges.
RowAccepted(r) ==
    /\ r.exec = 1 /\ r.isWrite \in {0, 1}
    /\ r.execWrite = r.isWrite /\ r.execWrite + r.execRead = 1
    /\ LimbIncrement(r.tsWritten, r.tsRead, r.tsDelta, r.tsCarry)
    /\ r.isWrite = 0 => r.valueRead = r.valueWritten

\* The limbs and carries of a row are in range.
RowInRange(r) ==
    \A j \in Limbs :
        /\ \A limbs \in {r.tsWritten, r.tsRead, r.tsDelta, r.temporalTs} :
              limbs[j] \in 0 .. (Pow2(TsWidths[j]) - 1)
        /\ j # 1 => r.tsCarry[j] \in {0, 1} /\ r.temporalTsCarry[j] \in {0, 1}

\* The row of an access satisfies the constraints on a single row.
LEMMA AccessRowAccepted ==
    ASSUME RowsSound, NEW k, NEW t, RecordedAs(k, t), NEW n \in 1 .. k
    PROVE  LET r == AccessRowOf(log, n, FirstOf(n))
           IN  /\ RowAccepted(r) /\ RowInRange(r)
               /\ r.temporalTs = Split(t + n)
               /\ r.temporalTsCarry = Carries(IF n = 1 THEN 0 ELSE t + n - 1, 0)
<1> DEFINE i == FirstOf(n)
           r == AccessRowOf(log, n, i)
           w == t + n
           p == log[i].readStamp
           d == w - p - 1
           q == IF n = 1 THEN 0 ELSE w - 1
<1>1. IsStamped(log, k, t) /\ k \in Nat /\ t \in Nat
  BY DEF RecordedAs, IsStamped
<1>2. IsRowOf(r, log, n, i, w, p)
  BY <1>1, RowOfAccess
<1>3. /\ log[i] \in Access /\ w \in Nat /\ w <= MaxClock /\ p \in Nat /\ p < w
  BY AccessFits
<1>4. ~ log[i].isWrite => \A m \in 0 .. (Lanes - 1) :
                             log[i + m].valueRead = log[i + m].valueWritten
  BY AccessFits
<1>5. log[i].isWrite \in BOOLEAN
  BY <1>3 DEF Access
<1>6. d \in Nat /\ w = p + d + 1 /\ q \in Nat
  BY <1>1, <1>3
<1>7. /\ r.tsWritten = Split(w) /\ r.temporalTs = Split(w) /\ r.tsRead = Split(p)
      /\ r.tsDelta = Split(d) /\ r.tsCarry = Carries(p, d) /\ r.temporalTsCarry = Carries(q, 0)
  BY <1>2, Zenon DEF IsRowOf
<1>14. q = IF n = 1 THEN 0 ELSE t + n - 1
  BY <1>1
<1> HIDE DEF w, p, d, q, i, r
<1>8. LimbIncrement(r.tsWritten, r.tsRead, r.tsDelta, r.tsCarry)
  <2>1. LimbIncrement(Split(w), Split(p), Split(d), Carries(p, d))
    BY <1>3, <1>6, LimbsAdd
  <2> QED BY <1>7, <2>1, Zenon
<1>9. /\ r.exec = 1 /\ r.isWrite = (IF log[i].isWrite THEN 1 ELSE 0)
      /\ r.execWrite = (IF log[i].isWrite THEN 1 ELSE 0)
      /\ r.execRead = (IF log[i].isWrite THEN 0 ELSE 1)
      /\ r.valueWritten = [m \in 0 .. (Lanes - 1) |-> log[i + m].valueWritten]
      /\ r.valueRead = [m \in 0 .. (Lanes - 1) |-> log[i + m].valueRead]
  BY <1>2, Zenon DEF IsRowOf
<1>10. RowAccepted(r)
  <2>1. r.exec = 1 /\ r.isWrite \in {0, 1} /\ r.execWrite = r.isWrite
        /\ r.execWrite + r.execRead = 1
    BY <1>5, <1>9
  <2>2. r.isWrite = 0 => ~ log[i].isWrite
    BY <1>5, <1>9
  <2>3. ~ log[i].isWrite =>
          [m \in 0 .. (Lanes - 1) |-> log[i + m].valueRead]
            = [m \in 0 .. (Lanes - 1) |-> log[i + m].valueWritten]
    BY <1>4
  <2>4. r.isWrite = 0 => r.valueRead = r.valueWritten
    BY <1>9, <2>2, <2>3, Zenon
  <2> QED BY <1>8, <2>1, <2>4, Zenon DEF RowAccepted
<1>11. RowInRange(r)
  <2> SUFFICES ASSUME NEW j \in Limbs
      PROVE  /\ \A limbs \in {r.tsWritten, r.tsRead, r.tsDelta, r.temporalTs} :
                  limbs[j] \in 0 .. (Pow2(TsWidths[j]) - 1)
             /\ j # 1 => r.tsCarry[j] \in {0, 1} /\ r.temporalTsCarry[j] \in {0, 1}
    BY Zenon DEF RowInRange
  <2>1. \A x \in {w, p, d} : Split(x)[j] \in 0 .. (Pow2(TsWidths[j]) - 1)
    BY <1>3, <1>6, SplitInSteps
  <2>2. j # 1 => Carries(p, d)[j] \in {0, 1}
    BY <1>3, <1>6, CarriesAreBits
  <2>3. j # 1 => Carries(q, 0)[j] \in {0, 1}
    BY <1>6, CarriesAreBits
  <2> QED BY <1>7, <2>1, <2>2, <2>3, Zenon
<1>12. r.temporalTs = Split(t + n)
  BY <1>7 DEF w
<1>13. r.temporalTsCarry = Carries(IF n = 1 THEN 0 ELSE t + n - 1, 0)
  BY <1>7, <1>14, Zenon
<1> QED BY <1>10, <1>11, <1>12, <1>13 DEF r, i

\* The row of padding satisfies them too.
LEMMA PaddingAccepted ==
    /\ PaddingRow.exec = 0 /\ PaddingRow.isWrite = 0
    /\ PaddingRow.execWrite = 0 /\ PaddingRow.execRead = 0
    /\ RowInRange(PaddingRow)
<1>1. /\ PaddingRow.exec = 0 /\ PaddingRow.isWrite = 0
      /\ PaddingRow.execWrite = 0 /\ PaddingRow.execRead = 0
  BY DEF PaddingRow
<1>2. /\ PaddingRow.tsWritten = Split(0) /\ PaddingRow.tsRead = Split(0)
      /\ PaddingRow.tsDelta = Split(0) /\ PaddingRow.temporalTs = Split(0)
      /\ PaddingRow.tsCarry = [j \in Limbs \ {1} |-> 0]
      /\ PaddingRow.temporalTsCarry = [j \in Limbs \ {1} |-> 0]
  BY DEF PaddingRow
<1>3. ASSUME NEW j \in Limbs PROVE Split(0)[j] \in 0 .. (Pow2(TsWidths[j]) - 1)
  BY SplitInSteps
<1>4. ASSUME NEW j \in Limbs, j # 1 PROVE [h \in Limbs \ {1} |-> 0][j] = 0
  BY <1>4
<1>5. RowInRange(PaddingRow)
  BY <1>2, <1>3, <1>4, Zenon DEF RowInRange
<1> QED BY <1>1, <1>5

\* A table with those rows satisfies every constraint.
LEMMA RowsAccepted ==
    ASSUME RowsSound, NEW k, NEW t, RecordedAs(k, t), NEW tab, HasRows(tab, log, k)
    PROVE  /\ GeneralConstraints(tab) /\ ExecConstraints(tab)
           /\ ChronologyConstraints(tab) /\ RangeConstraints(tab)
<1>1. k \in Nat /\ t \in Nat /\ k + t = clock /\ clock \in Nat /\ clock <= MaxClock
  <2>1. clock \in 0 .. MaxClock
    BY DEF RowsSound, TableInv
  <2> QED BY <2>1, ClockAssumption DEF RecordedAs, IsStamped
<1>2. DOMAIN tab = 1 .. (k + 1) /\ tab[1] = PaddingRow
  BY DEF HasRows
<1>3. ASSUME NEW n \in DOMAIN tab, n # 1
      PROVE  /\ n - 1 \in 1 .. k /\ RowAccepted(tab[n]) /\ RowInRange(tab[n])
             /\ tab[n].temporalTs = Split(t + (n - 1))
             /\ tab[n].temporalTsCarry = Carries(IF n - 1 = 1 THEN 0 ELSE t + (n - 1) - 1, 0)
  <2> DEFINE a == n - 1
  <2>1. a \in 1 .. k /\ n = a + 1
    BY <1>1, <1>2, <1>3
  <2> HIDE DEF a
  <2>2. tab[n] = AccessRowOf(log, a, FirstOf(a))
    BY <2>1 DEF HasRows
  <2>3. /\ RowAccepted(tab[n]) /\ RowInRange(tab[n])
        /\ tab[n].temporalTs = Split(t + a)
    BY <2>1, <2>2, AccessRowAccepted
  <2>4. tab[n].temporalTsCarry = Carries(IF a = 1 THEN 0 ELSE t + a - 1, 0)
    BY <2>1, <2>2, AccessRowAccepted
  <2> QED BY <1>1, <2>1, <2>3, <2>4 DEF a
<1>4. GeneralConstraints(tab)
  <2>1. ASSUME NEW n \in DOMAIN tab
        PROVE  /\ tab[n].exec \in {0, 1} /\ tab[n].isWrite \in {0, 1}
               /\ n > 1 /\ tab[n - 1].exec = 1 => tab[n].exec = 1
               /\ tab[n].execWrite = tab[n].exec * tab[n].isWrite
               /\ tab[n].execWrite + tab[n].execRead = tab[n].exec
    <3>1. CASE n = 1
      <4>1. ~ 1 > 1 /\ 0 = 0 * 0 /\ 0 + 0 = 0
        BY SMT
      <4> QED BY <1>2, <3>1, <4>1, PaddingAccepted
    <3>2. CASE n # 1
      <4>1. RowAccepted(tab[n])
        BY <1>3, <3>2
      <4> QED BY <4>1 DEF RowAccepted
    <3> QED BY <3>1, <3>2
  <2> QED BY <1>2, <2>1, PaddingAccepted DEF GeneralConstraints
<1>5. ExecConstraints(tab)
  <2>1. ASSUME NEW n \in DOMAIN tab, tab[n].exec # 0
        PROVE  /\ LimbIncrement(tab[n].tsWritten, tab[n].tsRead, tab[n].tsDelta, tab[n].tsCarry)
               /\ tab[n].isWrite = 0 => tab[n].valueRead = tab[n].valueWritten
    <3>1. n # 1
      BY <1>2, <2>1, PaddingAccepted
    <3>2. RowAccepted(tab[n])
      BY <1>3, <3>1
    <3> QED BY <3>2 DEF RowAccepted
  <2> QED BY <2>1, Zenon DEF ExecConstraints
<1>6. ChronologyConstraints(tab)
  <2>1. ASSUME NEW n \in DOMAIN tab \ {1}, tab[n - 1].exec = 1
        PROVE  LimbIncrement(tab[n].temporalTs, tab[n - 1].temporalTs,
                             [j \in Limbs |-> 0], tab[n].temporalTsCarry)
    <3> DEFINE w == t + (n - 1)
               p == t + (n - 2)
    <3>1. n - 1 # 1
      BY <1>2, <2>1, PaddingAccepted
    <3>2. n - 1 \in DOMAIN tab /\ n \in DOMAIN tab /\ n # 1
      BY <1>1, <1>2
    <3>3. tab[n - 1].temporalTs = Split(p)
      <4>1. tab[n - 1].temporalTs = Split(t + ((n - 1) - 1))
        BY <1>3, <3>1, <3>2
      <4>2. (n - 1) - 1 = n - 2
        BY <1>1, <1>2
      <4> QED BY <4>1, <4>2
    <3>4. tab[n].temporalTs = Split(w)
      BY <1>3, <3>2
    <3>5. tab[n].temporalTsCarry = Carries(p, 0)
      <4>1. tab[n].temporalTsCarry = Carries(IF n - 1 = 1 THEN 0 ELSE t + (n - 1) - 1, 0)
        BY <1>3, <3>2
      <4>2. t + (n - 1) - 1 = p
        BY <1>1, <1>2
      <4>3. (IF n - 1 = 1 THEN 0 ELSE t + (n - 1) - 1) = p
        BY <3>1, <4>2
      <4> QED BY <4>1, <4>3
    <3>6. p \in Nat /\ w = p + 0 + 1 /\ w <= MaxClock
      <4>1. n \in 1 .. (k + 1) /\ n # 1 /\ n - 1 # 1
        BY <1>2, <3>1
      <4>2. p \in Nat /\ w = p + 0 + 1
        BY <1>1, <4>1
      <4>3. w <= k + t
        BY <1>1, <4>1
      <4>4. w \in Nat /\ MaxClock \in Nat
        BY <4>2, ClockAssumption
      <4> HIDE DEF w
      <4>5. w <= MaxClock
        BY <1>1, <4>3, <4>4
      <4> QED BY <4>2, <4>5
    <3> HIDE DEF p, w
    <3>7. LimbIncrement(Split(w), Split(p), Split(0), Carries(p, 0))
      BY <3>6, LimbsAdd
    <3> QED BY <3>3, <3>4, <3>5, <3>7, LimbsOfZero, Zenon
  <2> QED BY <2>1, Zenon DEF ChronologyConstraints
<1>7. RangeConstraints(tab)
  <2>1. ASSUME NEW n \in DOMAIN tab PROVE RowInRange(tab[n])
    BY <1>2, <1>3, PaddingAccepted
  <2> QED BY <2>1, Zenon DEF RangeConstraints, RowInRange
<1> QED BY <1>4, <1>5, <1>6, <1>7

\* What the memory promises the table holds in every state.
LEMMA RowsStaySound == Spec => []RowsSound
<1>1. RecordingInv /\ AccessesRecoverable /\ TableInv => RowsSound
  BY DEF RowsSound
<1> QED BY <1>1, RecordingInvariant, AccessesAreRecoverable, TableInvariant, PTL

\* Whatever the widths of the limbs and the number of lanes, the table traced
\* from any execution satisfies every constraint of the RAM module
\* (process_ram.go, traceReadWriteMemory; translate_ram.go).
THEOREM TracedTablesAreAccepted == Spec => []TableAccepted
<1>1. RowsSound => TableAccepted
  <2> SUFFICES ASSUME RowsSound PROVE TableAccepted
    OBVIOUS
  <2> DEFINE k == clock - start.clock
  <2>1. RecordedAs(k, start.clock)
    BY LogIsStamped
  <2> HIDE DEF k
  <2>2. HasRows(Table(log), log, k)
    BY <2>1, TableHasRows DEF RecordedAs
  <2> QED BY <2>1, <2>2, RowsAccepted DEF TableAccepted
<1> QED BY <1>1, RowsStaySound, PTL

-----------------------------------------------------------------------------
\* The last row of an address has what the memory holds there.

\* A set of numbers with a bound has a latest element.
LEMMA LatestExists ==
    ASSUME NEW n \in Nat, NEW S \in SUBSET (1 .. n), S # {}
    PROVE  Latest(S) \in S /\ \A s \in S : s =< Latest(S)
<1> DEFINE D == {n - s : s \in S}
<1>1. D \in SUBSET Nat /\ D # {}
  <2>1. \A s \in S : n - s \in Nat
    OBVIOUS
  <2> QED BY <2>1
<1>2. PICK d \in D : \A e \in D : d =< e
  <2> HIDE DEF D
  <2> QED BY <1>1, Smallest
<1>3. PICK m \in S : d = n - m
  BY <1>2
<1>4. ASSUME NEW s \in S PROVE s =< m
  <2>1. n - s \in D
    OBVIOUS
  <2>2. n - m =< n - s
    BY <1>2, <1>3, <2>1
  <2>3. s \in Nat /\ m \in Nat
    OBVIOUS
  <2> QED BY <2>2, <2>3
<1>5. \E x \in S : \A s \in S : s =< x
  BY <1>4
<1> QED BY <1>5, Zenon DEF Latest

\* Every record is a lane of an access.
LEMMA AccessOfRecord ==
    ASSUME NEW l, NEW k, NEW t, IsStamped(l, k, t), NEW j \in 1 .. Len(l)
    PROVE  LET n == ((j - 1) \div Lanes) + 1
               m == (j - 1) % Lanes
           IN  n \in 1 .. k /\ m \in 0 .. (Lanes - 1) /\ j = FirstOf(n) + m
<1> USE LanesAssumption
<1> DEFINE z == (j - 1) \div Lanes
           m == (j - 1) % Lanes
           u == Lanes * z
           N == Len(l)
<1>0. k \in Nat /\ t \in Nat /\ N \in Nat /\ j \in Nat
  BY DEF IsStamped
<1>1. z \in Nat /\ m \in 0 .. (Lanes - 1) /\ j - 1 = u + m /\ u = z * Lanes /\ u \in Nat
  BY <1>0, SMT
<1>2. z < k
  <2> SUFFICES ASSUME z >= k PROVE FALSE
    BY <1>0, <1>1
  <2> DEFINE e == z - k
             v == Lanes * k
             w == Lanes * e
  <2>1. e \in Nat /\ z = k + e
    BY <1>0, <1>1
  <2> HIDE DEF z, e
  <2>2. u = v + w /\ v \in Nat /\ w \in Nat
    BY <1>0, <2>1, SMT
  <2>3. N = v
    BY DEF IsStamped
  <2> HIDE DEF u, v, w, m, N
  <2>4. j <= N
    BY <1>0 DEF N
  <2> QED BY <1>0, <1>1, <2>2, <2>3, <2>4
<1>3. j = FirstOf(z + 1) + m
  <2>1. (z + 1) - 1 = z
    BY <1>1
  <2>2. FirstOf(z + 1) = u + 1
    BY <1>1, <2>1 DEF FirstOf
  <2> HIDE DEF z, m, u
  <2> QED BY <1>0, <1>1, <2>2
<1>4. z + 1 \in 1 .. k
  <2> HIDE DEF z
  <2> QED BY <1>0, <1>1, <1>2
<1> QED BY <1>1, <1>3, <1>4

\* The lanes of an access are those of the row its trace row names, in order.
LEMMA LanesOfAccess ==
    ASSUME RowsSound, NEW k, NEW t, RecordedAs(k, t), NEW n \in 1 .. k,
           NEW m \in 0 .. (Lanes - 1)
    PROVE  LET row == log[FirstOf(n)].address \div Lanes
               j == FirstOf(n) + m
           IN  /\ j \in 1 .. Len(log) /\ log[j].address \in Nat
               /\ log[j].address \div Lanes = row
               /\ log[j].address % Lanes = m
               /\ log[j].address = row * Lanes + m
<1> USE LanesAssumption
<1> DEFINE i == FirstOf(n)
           j == i + m
           a == log[j].address
<1>1. IsStamped(log, k, t)
  BY DEF RecordedAs
<1>2. i \in 1 .. Len(log) /\ log[i] \in Access
  BY AccessFits
<1>3. \A h \in 0 .. (Lanes - 1) : i + h \in 1 .. Len(log) /\ log[i + h].writeStamp = t + n
  BY <1>1, RowOfAccess
<1>4. (j - 1) % Lanes = m
  <2>1. (i + m - 1) % Lanes = m
    BY <1>1, RunIsAccess DEF FirstOf
  <2> HIDE DEF i
  <2>2. j - 1 = i + m - 1
    BY <1>2
  <2> HIDE DEF j
  <2> QED BY <2>1, <2>2
<1> HIDE DEF i
<1>5. j \in 1 .. Len(log) /\ log[j].writeStamp = t + n
  BY <1>3
<1>6. log[i].writeStamp = t + n
  <2>1. 0 \in 0 .. (Lanes - 1) /\ i + 0 = i
    BY <1>2
  <2>2. log[i + 0].writeStamp = t + n
    BY <1>3, <2>1
  <2> QED BY <2>1, <2>2
<1> HIDE DEF j
<1>7. a \div Lanes = log[i].address \div Lanes
  BY <1>2, <1>5, <1>6 DEF RowsSound, AccessesRecoverable
<1>8. a % Lanes = m
  BY <1>4, <1>5 DEF RowsSound, AccessesRecoverable
<1>9. a \in Nat
  <2>1. log \in Seq(Access)
    BY DEF RowsSound, RecordingInv
  <2>2. log[j] \in Access
    BY <1>5, <2>1
  <2> QED BY <2>2 DEF Access
<1>10. a = (a \div Lanes) * Lanes + (a % Lanes)
  <2> HIDE DEF a
  <2> QED BY <1>9, SMT
<1> QED BY <1>5, <1>7, <1>8, <1>9, <1>10, Zenon DEF i, j

\* No later record has an address of the last access to its row.
LEMMA LastAccessIsLast ==
    ASSUME RowsSound, NEW k, NEW t, RecordedAs(k, t), NEW n \in 1 .. k,
           \A b \in 1 .. k : log[FirstOf(b)].address \div Lanes
                                = log[FirstOf(n)].address \div Lanes => b =< n,
           NEW m \in 0 .. (Lanes - 1), NEW h \in (FirstOf(n) + m + 1) .. Len(log)
    PROVE  log[h].address # log[FirstOf(n) + m].address
<1> USE LanesAssumption
<1> DEFINE i == FirstOf(n)
           j == i + m
           b == ((h - 1) \div Lanes) + 1
           c == (h - 1) % Lanes
<1> SUFFICES ASSUME log[h].address = log[j].address PROVE FALSE
  BY DEF i, j
<1>1. IsStamped(log, k, t) /\ k \in Nat /\ Len(log) \in Nat
  BY DEF RecordedAs, IsStamped
<1>2. j \in 1 .. Len(log) /\ log[j].address \div Lanes = log[i].address \div Lanes
      /\ log[j].address % Lanes = m
  BY LanesOfAccess
<1> HIDE DEF j
<1>3. h \in 1 .. Len(log) /\ j < h
  BY <1>1, <1>2 DEF j
<1>4. b \in 1 .. k /\ c \in 0 .. (Lanes - 1) /\ h = FirstOf(b) + c
  BY <1>1, <1>3, AccessOfRecord
<1> HIDE DEF b, c, i
<1>5. log[h].address \div Lanes = log[FirstOf(b)].address \div Lanes
      /\ log[h].address % Lanes = c
  BY <1>4, LanesOfAccess
<1>6. c = m
  BY <1>2, <1>5
<1>7. b =< n
  BY <1>2, <1>4, <1>5 DEF i
<1>8. b # n
  BY <1>3, <1>4, <1>6 DEF i, j
<1>9. ASSUME b < n PROVE h < j
  <2>1. PICK d \in Nat : n = b + 1 + d
    <3>1. n - b - 1 \in Nat /\ n = b + 1 + (n - b - 1)
      BY <1>1, <1>4, <1>9
    <3> QED BY <3>1
  <2> DEFINE u == (b - 1) * Lanes
             v == Lanes * d
  <2>2. (n - 1) * Lanes = u + Lanes + v /\ u \in Nat /\ v \in Nat
    BY <1>4, <2>1, SMT
  <2> HIDE DEF u, v
  <2>3. FirstOf(b) = u + 1 /\ i = u + Lanes + v + 1
    BY <2>2 DEF FirstOf, i, u
  <2> QED BY <1>4, <1>6, <2>2, <2>3 DEF j
<1>10. b \in Nat /\ n \in Nat /\ h \in Nat /\ j \in Nat
  BY <1>1, <1>2, <1>3, <1>4
<1> QED BY <1>3, <1>7, <1>8, <1>9, <1>10

\* The row of the last access to a row of the memory says what is there.
LEMMA LastRowIsMemory ==
    ASSUME RowsSound, NEW k, NEW t, RecordedAs(k, t), NEW n \in 1 .. k, NEW row \in Nat,
           log[FirstOf(n)].address \div Lanes = row,
           \A b \in 1 .. k : log[FirstOf(b)].address \div Lanes = row => b =< n
    PROVE  [m \in 0 .. (Lanes - 1) |-> log[FirstOf(n) + m].valueWritten]
              = ValuesFrom(data, row * Lanes, Lanes)
<1> SUFFICES ASSUME NEW m \in 0 .. (Lanes - 1)
             PROVE  log[FirstOf(n) + m].valueWritten = CellAt(data, row * Lanes + m).value
  BY DEF ValuesFrom
<1> DEFINE j == FirstOf(n) + m
<1>1. j \in 1 .. Len(log) /\ log[j].address = row * Lanes + m
  BY LanesOfAccess
<1>2. \A h \in (j + 1) .. Len(log) : log[h].address # log[j].address
  BY LastAccessIsLast
<1> HIDE DEF j
<1>3. CellAt(data, log[j].address) =
         [value |-> log[j].valueWritten, stamp |-> log[j].writeStamp]
  BY <1>1, <1>2 DEF RowsSound, RecordingInv, CellsMatchLog
<1> QED BY <1>1, <1>3 DEF j

\* The rows of the table replay the memory: whole accesses in the program's
\* order, stamped as the memory stamped them, the last of an address with what
\* the memory holds there (process_ram.go, groupRamAccesses).
THEOREM TracedTablesReplayMemory == Spec => []TableReplaysMemory
<1>1. RowsSound => TableReplaysMemory
  <2> SUFFICES ASSUME RowsSound PROVE TableReplaysMemory
    OBVIOUS
  <2> DEFINE k == clock - start.clock
             t == start.clock
             tab == Table(log)
             rowsOf(a) == {n \in DOMAIN tab \ {1} : tab[n].address = a}
  <2>1. RecordedAs(k, t)
    BY LogIsStamped
  <2> HIDE DEF k, t
  <2>2. IsStamped(log, k, t) /\ k \in Nat
    BY <2>1 DEF RecordedAs, IsStamped
  <2>3. HasRows(tab, log, k)
    BY <2>2, TableHasRows
  <2> HIDE DEF tab
  <2>4. DOMAIN tab = 1 .. (k + 1) /\ tab[1] = PaddingRow
    BY <2>3 DEF HasRows
  <2>5. ASSUME NEW n \in 1 .. k
        PROVE  /\ tab[n + 1].address = log[FirstOf(n)].address \div Lanes
               /\ tab[n + 1].valueWritten
                     = [m \in 0 .. (Lanes - 1) |-> log[FirstOf(n) + m].valueWritten]
               /\ tab[n + 1].temporalTs = tab[n + 1].tsWritten
    <3>1. tab[n + 1] = AccessRowOf(log, n, FirstOf(n))
      BY <2>3 DEF HasRows
    <3>2. IsRowOf(tab[n + 1], log, n, FirstOf(n), t + n, log[FirstOf(n)].readStamp)
      BY <2>2, <3>1, RowOfAccess
    <3> QED BY <3>2, Zenon DEF IsRowOf
  <2>6. ASSUME NEW n \in DOMAIN tab
        PROVE  /\ DOMAIN tab[n].valueWritten = 0 .. (Lanes - 1)
               /\ tab[n].temporalTs = tab[n].tsWritten
    <3>1. CASE n = 1
      BY <2>4, <3>1 DEF PaddingRow
    <3>2. CASE n # 1
      <4>1. n - 1 \in 1 .. k /\ (n - 1) + 1 = n
        BY <2>2, <2>4, <3>2
      <4>2. /\ tab[n].temporalTs = tab[n].tsWritten
            /\ tab[n].valueWritten
                  = [m \in 0 .. (Lanes - 1) |-> log[FirstOf(n - 1) + m].valueWritten]
        BY <2>5, <4>1
      <4> QED BY <4>2, Zenon
    <3> QED BY <3>1, <3>2
  <2>7. ASSUME NEW row \in Row, rowsOf(row) # {}
        PROVE  tab[Latest(rowsOf(row))].valueWritten = ValuesFrom(data, row * Lanes, Lanes)
    <3> DEFINE S == rowsOf(row)
               last == Latest(S)
               n == last - 1
    <3>1. S \in SUBSET (1 .. (k + 1)) /\ k + 1 \in Nat
      BY <2>2, <2>4
    <3>2. last \in S /\ \A s \in S : s =< last
      <4> HIDE DEF S
      <4> QED BY <2>7, <3>1, LatestExists DEF S
    <3>3. last \in 1 .. (k + 1) /\ last # 1 /\ tab[last].address = row
      <4> HIDE DEF last
      <4> QED BY <2>4, <3>2
    <3> HIDE DEF last
    <3>4. n \in 1 .. k /\ last = n + 1
      BY <2>2, <3>3
    <3> HIDE DEF n
    <3>5. log[FirstOf(n)].address \div Lanes = row
      BY <2>5, <3>3, <3>4
    <3>6. ASSUME NEW b \in 1 .. k, log[FirstOf(b)].address \div Lanes = row
          PROVE  b =< n
      <4>1. b + 1 \in DOMAIN tab \ {1}
        BY <2>2, <2>4
      <4>2. tab[b + 1].address = row
        BY <2>5, <3>6
      <4>3. b + 1 =< last
        BY <3>2, <4>1, <4>2
      <4> QED BY <2>2, <3>4, <4>3
    <3>7. row \in Nat
      BY RowAssumption
    <3>8. [m \in 0 .. (Lanes - 1) |-> log[FirstOf(n) + m].valueWritten]
             = ValuesFrom(data, row * Lanes, Lanes)
      BY <2>1, <3>4, <3>5, <3>6, <3>7, LastRowIsMemory
    <3>9. tab[last].valueWritten = ValuesFrom(data, row * Lanes, Lanes)
      BY <2>5, <3>4, <3>8
    <3> QED BY <3>9 DEF last
  <2> QED BY <2>6, <2>7 DEF TableReplaysMemory, tab
<1> QED BY <1>1, RowsStaySound, PTL
=============================================================================
