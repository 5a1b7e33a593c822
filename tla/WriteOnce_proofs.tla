-------------------------- MODULE WriteOnce_proofs --------------------------
(***************************************************************************)
(* Proofs about WriteOnce, for every set of rows, every number of lanes,   *)
(* every set of values and every number of writes.                         *)
(*                                                                         *)
(* ExecutionInv is inductive.  A lane fits if the array, as it was before  *)
(* the instruction, has no cell for it or has the value (LaneFits): the    *)
(* lanes before it write other cells.  So what is written stays            *)
(* (WritesAreKept), and an instruction fails only inside the array, which  *)
(* therefore has its whole row already and does not grow (WholeRows).      *)
(* That a cell the array grew over holds Zero, and what else a cell may    *)
(* hold, is CellsExplained; failures are explained by it.                  *)
(***************************************************************************)
EXTENDS WriteOnce, SequenceTheorems, TLAPS

\* A whole number of rows, as a multiple of Lanes.
IsRows(cells) == cells \in Seq(Value) /\ \E k \in Nat : Len(cells) = k * Lanes

Writes == [address : Nat, value : Value]

\* Every cell was written in this execution, or is as the execution found it,
\* or was filled with Zero for the sake of a higher address.
CellsExplained ==
    \A i \in 1 .. Len(data) :
        \/ \E k \in DOMAIN writes : writes[k].address = i - 1
        \/ i =< Len(base) /\ base[i] = data[i]
        \/ data[i] = Zero /\ \E k \in DOMAIN writes : writes[k].address > i - 1

ExecutionInv ==
    /\ IsRows(data) /\ IsRows(saved)
    /\ base \in Seq(Value)
    /\ writes \in Seq(Writes)
    /\ WritesAreKept
    /\ CellsExplained
    /\ FailuresExplained

-----------------------------------------------------------------------------
\* Arithmetic of rows and lanes.

\* A multiple of L leaves no remainder.
LEMMA NoRemainder ==
    ASSUME NEW L \in Nat \ {0}, NEW k \in Nat
    PROVE  (k * L) % L = 0
<1> DEFINE a == k * L
           q == a \div L
           m == a % L
<1>1. a \in Nat
  BY SMT
<1>2. q \in Nat /\ a = L * q + m /\ m \in 0 .. (L - 1)
  BY <1>1, SMT
<1>3. CASE k = q
  BY <1>2, <1>3, SMT
<1>4. CASE k < q
  <2>1. L * (k + 1) =< L * q
    BY <1>2, <1>4, SMT
  <2> QED BY <2>1, <1>2, SMT
<1>5. CASE k > q
  <2>1. L * (q + 1) =< L * k
    BY <1>2, <1>5, SMT
  <2> QED BY <2>1, <1>2, SMT
<1> QED BY <1>2, <1>3, <1>4, <1>5, SMT

\* If one lane of a row is inside k rows, all of its lanes are.
LEMMA RowInside ==
    ASSUME NEW L \in Nat \ {0}, NEW r \in Nat, NEW k \in Nat, NEW n \in Nat,
           r * L + n < k * L
    PROVE  r * L + L =< k * L
<1>1. r < k
  <2>1. SUFFICES ASSUME k =< r PROVE FALSE
    BY SMT
  <2>2. k * L =< r * L
    BY <2>1, SMT
  <2> QED BY <2>2, SMT
<1>2. (r + 1) * L =< k * L
  BY <1>1, SMT
<1> QED BY <1>2, SMT

-----------------------------------------------------------------------------
\* What an instruction leaves in the array.

\* The first n lanes of a row hold what is written, what is behind the array's
\* end and below them zeroes, and all else is as it was.
LEMMA FilledProperties ==
    ASSUME data \in Seq(Value), NEW first \in Nat, NEW n \in 0 .. Lanes,
           NEW written \in [1 .. Lanes -> Value]
    PROVE  LET f == Filled(first, written, n)
           IN  /\ f \in Seq(Value)
               /\ Len(f) = IF n = 0 THEN Len(data) ELSE Expanded(data, first + n)
               /\ \A i \in 1 .. Len(f) :
                     f[i] = IF i > first /\ i =< first + n THEN written[i - first]
                            ELSE IF i =< Len(data) THEN data[i] ELSE Zero
<1> USE WriteOnceAssumption
<1>0. Len(data) \in Nat /\ \A i \in 1 .. Len(data) : data[i] \in Value
  BY LenProperties, ElementOfSeq
<1>1. CASE n = 0
  <2>1. Filled(first, written, n) = data
    BY <1>1 DEF Filled
  <2> QED BY <2>1, <1>0, <1>1, SMT
<1>2. CASE n # 0
  <2> DEFINE m == Expanded(data, first + n)
             g(i) == IF i > first /\ i =< first + n THEN written[i - first]
                     ELSE IF i =< Len(data) THEN data[i] ELSE Zero
             f == [i \in 1 .. m |-> g(i)]
  <2>1. m \in Nat
    BY <1>0, SMT DEF Expanded
  <2>3. \A i \in 1 .. m : g(i) \in Value
    <3> TAKE i \in 1 .. m
    <3>1. CASE i > first /\ i =< first + n
      BY <3>1, <2>1, i - first \in 1 .. Lanes, SMT
    <3>2. CASE ~(i > first /\ i =< first + n)
      BY <3>2, <1>0, <2>1, SMT
    <3> QED BY <3>1, <3>2
  <2>4. f \in Seq(Value) /\ Len(f) = m /\ \A i \in 1 .. m : f[i] = g(i)
    <3> HIDE DEF m, g
    <3>1. f \in [1 .. m -> Value]
      BY <2>3
    <3>2. f \in Seq(Value)
      BY <3>1, <2>1, SeqDef
    <3>3. Len(f) = m
      BY <3>1, <2>1, <3>2, LenProperties, SMT
    <3> QED BY <3>2, <3>3
  <2>5. Filled(first, written, n) = f
    BY <1>2 DEF Filled
  <2> QED BY <2>4, <2>5, <1>2
<1> QED BY <1>1, <1>2

\* Whether a lane fits is decided by the array before the instruction.
LEMMA LaneFits ==
    ASSUME data \in Seq(Value), NEW first \in Nat, NEW n \in 1 .. Lanes,
           NEW written \in [1 .. Lanes -> Value]
    PROVE  Fits(first, written, n)
             <=> (first + n - 1 < Len(data) => data[first + n] = written[n])
<1> USE WriteOnceAssumption
<1> DEFINE f == Filled(first, written, n - 1)
<1>0. Len(data) \in Nat /\ n - 1 \in 0 .. Lanes
  BY LenProperties, SMT
<1>1. /\ f \in Seq(Value)
      /\ Len(f) = IF n - 1 = 0 THEN Len(data) ELSE Expanded(data, first + (n - 1))
      /\ \A i \in 1 .. Len(f) :
            f[i] = IF i > first /\ i =< first + (n - 1) THEN written[i - first]
                   ELSE IF i =< Len(data) THEN data[i] ELSE Zero
  BY <1>0, FilledProperties
<1> HIDE DEF f
<1>2. first + n - 1 < Len(f) <=> first + n - 1 < Len(data)
  BY <1>0, <1>1, SMT DEF Expanded
<1>3. ASSUME first + n - 1 < Len(data) PROVE f[first + n] = data[first + n]
  BY <1>0, <1>1, <1>2, <1>3, SMT
<1>4. Agrees(f, first + n - 1, written[n])
         <=> (first + n - 1 < Len(f) => f[first + n] = written[n])
  <2>1. (first + n - 1) + 1 = first + n
    BY SMT
  <2> QED BY <2>1 DEF Agrees
<1>5. Agrees(f, first + n - 1, written[n])
         <=> (first + n - 1 < Len(data) => data[first + n] = written[n])
  BY <1>2, <1>3, <1>4
<1> QED BY <1>5 DEF f, Fits
-----------------------------------------------------------------------------
\* The step of an instruction.

\* An instruction on sound state, taken apart: what it leaves in the array and
\* in the history, and where it stops.
LEMMA WriteRowEffect ==
    ASSUME ExecutionInv, NEW row \in Row, WriteRow(row)
    PROVE  \E first \in Nat, made \in 0 .. Lanes, written \in [1 .. Lanes -> Value] :
             /\ first = row * Lanes
             /\ failed = NoFailure
             /\ \A n \in 1 .. made : first + n - 1 < Len(data) => data[first + n] = written[n]
             /\ made < Lanes => /\ first + made < Len(data)
                                /\ data[first + made + 1] # written[made + 1]
             /\ data' \in Seq(Value)
             /\ Len(data') = IF made = 0 THEN Len(data) ELSE Expanded(data, first + made)
             /\ \A i \in 1 .. Len(data') :
                   data'[i] = IF i > first /\ i =< first + made THEN written[i - first]
                              ELSE IF i =< Len(data) THEN data[i] ELSE Zero
             /\ writes' \in Seq(Writes)
             /\ Len(writes') = Len(writes) + made
             /\ \A k \in 1 .. Len(writes) : writes'[k] = writes[k]
             /\ \A n \in 1 .. made :
                   writes'[Len(writes) + n] = [address |-> first + n - 1, value |-> written[n]]
             /\ failed' = IF made = Lanes THEN NoFailure
                          ELSE [address |-> first + made, value |-> written[made + 1]]
             /\ UNCHANGED <<saved, base>>
<1> USE WriteOnceAssumption
<1>1. PICK written \in [1 .. Lanes -> Value], made \in 0 .. Lanes :
        /\ failed = NoFailure
        /\ \A n \in 1 .. made : Fits(FirstLane(row), written, n)
        /\ made < Lanes => ~Fits(FirstLane(row), written, made + 1)
        /\ data' = Filled(FirstLane(row), written, made)
        /\ writes' = writes \o [n \in 1 .. made |->
                        [address |-> FirstLane(row) + n - 1, value |-> written[n]]]
        /\ failed' = IF made = Lanes THEN NoFailure
                     ELSE [address |-> FirstLane(row) + made, value |-> written[made + 1]]
        /\ UNCHANGED <<saved, base>>
  BY DEF WriteRow
<1> DEFINE first == FirstLane(row)
           new == [n \in 1 .. made |-> [address |-> first + n - 1, value |-> written[n]]]
<1>2. first = row * Lanes /\ first \in Nat
  BY SMT DEF FirstLane
<1>3. data \in Seq(Value) /\ writes \in Seq(Writes) /\ Len(data) \in Nat /\ Len(writes) \in Nat
  BY LenProperties DEF ExecutionInv, IsRows
<1> HIDE DEF first
<1>4. \A n \in 1 .. made : first + n - 1 < Len(data) => data[first + n] = written[n]
  <2> TAKE n \in 1 .. made
  <2>1. n \in 1 .. Lanes
    BY SMT
  <2>2. Fits(first, written, n)
    BY <1>1 DEF first
  <2> QED BY <2>1, <2>2, <1>2, <1>3, LaneFits
<1>5. ASSUME made < Lanes
      PROVE  first + made < Len(data) /\ data[first + made + 1] # written[made + 1]
  <2> DEFINE n == made + 1
  <2>1. n \in 1 .. Lanes /\ first + n - 1 = first + made /\ first + n = first + made + 1
    BY <1>2, <1>5, SMT
  <2>2. ~Fits(first, written, n)
    BY <1>1, <1>5 DEF first
  <2>3. ~(first + n - 1 < Len(data) => data[first + n] = written[n])
    <3> HIDE DEF n
    <3> QED BY <2>1, <2>2, <1>2, <1>3, LaneFits
  <2> QED BY <2>1, <2>3
<1>6. /\ data' \in Seq(Value)
      /\ Len(data') = IF made = 0 THEN Len(data) ELSE Expanded(data, first + made)
      /\ \A i \in 1 .. Len(data') :
            data'[i] = IF i > first /\ i =< first + made THEN written[i - first]
                       ELSE IF i =< Len(data) THEN data[i] ELSE Zero
  <2>1. data' = Filled(first, written, made)
    BY <1>1 DEF first
  <2> QED BY <2>1, <1>2, <1>3, FilledProperties
<1>7. new \in Seq(Writes) /\ Len(new) = made
  <2>1. \A n \in 1 .. made : first + n - 1 \in Nat /\ written[n] \in Value
    BY <1>2, SMT
  <2>2. \A n \in 1 .. made : [address |-> first + n - 1, value |-> written[n]] \in Writes
    BY <2>1 DEF Writes
  <2>3. new \in [1 .. made -> Writes] /\ made \in Nat
    BY <2>2, SMT
  <2>4. new \in Seq(Writes)
    BY <2>3, SeqDef
  <2> QED BY <2>3, <2>4, LenProperties, SMT
<1>8. writes' = writes \o new
  BY <1>1 DEF first
<1>9. /\ writes' \in Seq(Writes)
      /\ Len(writes') = Len(writes) + made
      /\ \A k \in 1 .. Len(writes) : writes'[k] = writes[k]
      /\ \A n \in 1 .. made :
            writes'[Len(writes) + n] = [address |-> first + n - 1, value |-> written[n]]
  <2>1. \A n \in 1 .. made :
            new[n] = [address |-> first + n - 1, value |-> written[n]]
    OBVIOUS
  <2> HIDE DEF new
  <2>2. /\ writes' \in Seq(Writes)
        /\ Len(writes') = Len(writes) + made
        /\ \A i \in 1 .. Len(writes) + Len(new) :
              writes'[i] = IF i =< Len(writes) THEN writes[i] ELSE new[i - Len(writes)]
    BY <1>3, <1>7, <1>8, ConcatProperties
  <2>3. \A k \in 1 .. Len(writes) : writes'[k] = writes[k]
    BY <2>2, <1>3, <1>7, SMT
  <2>4. \A n \in 1 .. made : writes'[Len(writes) + n] = new[n]
    <3> TAKE n \in 1 .. made
    <3>1. /\ Len(writes) + n \in 1 .. Len(writes) + Len(new)
          /\ ~(Len(writes) + n =< Len(writes)) /\ (Len(writes) + n) - Len(writes) = n
      BY <1>3, <1>7, SMT
    <3> QED BY <3>1, <2>2
  <2> QED BY <2>1, <2>2, <2>3, <2>4
<1>10. /\ failed = NoFailure
       /\ failed' = IF made = Lanes THEN NoFailure
                    ELSE [address |-> first + made, value |-> written[made + 1]]
       /\ UNCHANGED <<saved, base>>
  BY <1>1 DEF first
<1> HIDE DEF new
<1> QED
  <2> WITNESS first \in Nat, made \in 0 .. Lanes, written \in [1 .. Lanes -> Value]
  <2> QED BY <1>2, <1>4, <1>5, <1>6, <1>9, <1>10

\* A row that fails part of the way was in the array as a whole already.
LEMMA WriteRowInv ==
    ASSUME ExecutionInv, NEW row \in Row, WriteRow(row)
    PROVE  ExecutionInv'
<1> USE WriteOnceAssumption
<1>1. PICK first \in Nat, made \in 0 .. Lanes, written \in [1 .. Lanes -> Value] :
        /\ first = row * Lanes
        /\ failed = NoFailure
        /\ \A n \in 1 .. made : first + n - 1 < Len(data) => data[first + n] = written[n]
        /\ made < Lanes => /\ first + made < Len(data)
                           /\ data[first + made + 1] # written[made + 1]
        /\ data' \in Seq(Value)
        /\ Len(data') = IF made = 0 THEN Len(data) ELSE Expanded(data, first + made)
        /\ \A i \in 1 .. Len(data') :
              data'[i] = IF i > first /\ i =< first + made THEN written[i - first]
                         ELSE IF i =< Len(data) THEN data[i] ELSE Zero
        /\ writes' \in Seq(Writes)
        /\ Len(writes') = Len(writes) + made
        /\ \A k \in 1 .. Len(writes) : writes'[k] = writes[k]
        /\ \A n \in 1 .. made :
              writes'[Len(writes) + n] = [address |-> first + n - 1, value |-> written[n]]
        /\ failed' = IF made = Lanes THEN NoFailure
                     ELSE [address |-> first + made, value |-> written[made + 1]]
        /\ UNCHANGED <<saved, base>>
  BY WriteRowEffect
<1>2. /\ data \in Seq(Value) /\ Len(data) \in Nat
      /\ writes \in Seq(Writes) /\ Len(writes) \in Nat
      /\ base \in Seq(Value) /\ Len(base) \in Nat
      /\ DOMAIN writes = 1 .. Len(writes)
      /\ Len(data') \in Nat /\ Len(writes') \in Nat
      /\ DOMAIN writes' = 1 .. Len(writes')
  BY <1>1, LenProperties DEF ExecutionInv, IsRows
<1>3. \A k \in 1 .. Len(writes) : writes[k].address \in Nat /\ writes[k].value \in Value
  <2> TAKE k \in 1 .. Len(writes)
  <2>1. writes[k] \in Writes
    BY <1>2, ElementOfSeq
  <2> QED BY <2>1 DEF Writes
<1>4. Len(data) =< Len(data') /\ (made > 0 => first + made =< Len(data'))
  BY <1>1, <1>2, SMT DEF Expanded
\* Cells that existed keep what they hold.
<1>5. \A i \in 1 .. Len(data) : data'[i] = data[i]
  <2> TAKE i \in 1 .. Len(data)
  <2>1. i \in 1 .. Len(data')
    BY <1>2, <1>4, SMT
  <2>2. CASE i > first /\ i =< first + made
    <3>1. i - first \in 1 .. made /\ first + (i - first) - 1 < Len(data)
            /\ first + (i - first) = i
      BY <2>2, <1>2, SMT
    <3>2. data[i] = written[i - first]
      BY <3>1, <1>1
    <3> QED BY <3>2, <2>1, <2>2, <1>1
  <2>3. CASE ~(i > first /\ i =< first + made)
    BY <2>1, <2>3, <1>1, <1>2, SMT
  <2> QED BY <2>2, <2>3
<1>6. IsRows(data')
  <2>1. PICK k \in Nat : Len(data) = k * Lanes
    BY DEF ExecutionInv, IsRows
  <2>2. row \in Nat /\ row + 1 \in Nat /\ first + Lanes = (row + 1) * Lanes
    BY <1>1, SMT
  <2>3. CASE made < Lanes
    <3>1. row * Lanes + made < k * Lanes
      BY <1>1, <2>1, <2>3
    <3>2. row * Lanes + Lanes =< k * Lanes
      BY <3>1, <2>2, RowInside, SMT
    <3> DEFINE end == k * Lanes
    <3>3. first + Lanes =< end /\ end = Len(data)
      BY <3>2, <2>1, <1>1
    <3> HIDE DEF end
    <3>4. Len(data') = Len(data)
      BY <3>3, <1>1, <1>2, <2>3, SMT DEF Expanded
    <3> QED BY <3>4, <2>1, <1>1 DEF IsRows
  <2>4. CASE made = Lanes
    <3>1. made # 0
      BY <2>4, SMT
    <3>2. Len(data') = Len(data) \/ Len(data') = first + Lanes
      BY <3>1, <2>4, <1>1 DEF Expanded
    <3> QED BY <3>2, <2>1, <2>2, <1>1 DEF IsRows
  <2> QED BY <2>3, <2>4, SMT
<1>7. \A k \in 1 .. Len(writes') :
         \/ k \in 1 .. Len(writes)
         \/ \E n \in 1 .. made : k = Len(writes) + n
  <2> TAKE k \in 1 .. Len(writes')
  <2>1. CASE k > Len(writes)
    <3>1. k - Len(writes) \in 1 .. made /\ k = Len(writes) + (k - Len(writes))
      BY <2>1, <1>1, <1>2, SMT
    <3> QED BY <3>1
  <2>2. CASE ~(k > Len(writes))
    BY <2>2, <1>2, SMT
  <2> QED BY <2>1, <2>2
<1>8. WritesAreKept'
  <2> SUFFICES ASSUME NEW k \in 1 .. Len(writes')
               PROVE  /\ writes'[k].address < Len(data')
                      /\ data'[writes'[k].address + 1] = writes'[k].value
    BY <1>2 DEF WritesAreKept
  <2>1. CASE k \in 1 .. Len(writes)
    <3> DEFINE a == writes[k].address
    <3>1. writes'[k] = writes[k] /\ a \in Nat
      BY <1>1, <1>3, <2>1
    <3>2. a < Len(data) /\ data[a + 1] = writes[k].value
      BY <1>2, <2>1 DEF ExecutionInv, WritesAreKept
    <3>3. a + 1 \in 1 .. Len(data) /\ a < Len(data')
      BY <3>1, <3>2, <1>2, <1>4, SMT
    <3> QED BY <3>1, <3>2, <3>3, <1>5
  <2>2. CASE \E n \in 1 .. made : k = Len(writes) + n
    <3>1. PICK n \in 1 .. made : k = Len(writes) + n
      BY <2>2
    <3>2. writes'[k] = [address |-> first + n - 1, value |-> written[n]]
      BY <3>1, <1>1
    <3>3. /\ first + n \in 1 .. Len(data') /\ first + n - 1 < Len(data')
          /\ first + n > first /\ first + n =< first + made
          /\ (first + n) - first = n /\ (first + n - 1) + 1 = first + n
      BY <1>2, <1>4, SMT
    <3>4. data'[first + n] = written[n]
      BY <3>3, <1>1
    <3> QED BY <3>2, <3>3, <3>4
  <2> QED BY <2>1, <2>2, <1>7
<1>9. CellsExplained'
  <2> SUFFICES ASSUME NEW i \in 1 .. Len(data')
               PROVE  \/ \E k \in 1 .. Len(writes') : writes'[k].address = i - 1
                      \/ i =< Len(base) /\ base[i] = data'[i]
                      \/ /\ data'[i] = Zero
                         /\ \E k \in 1 .. Len(writes') : writes'[k].address > i - 1
    BY <1>1, <1>2 DEF CellsExplained
  <2>0. \A k \in 1 .. Len(writes) : k \in 1 .. Len(writes') /\ writes'[k] = writes[k]
    BY <1>1, <1>2, SMT
  <2>1. CASE i \in 1 .. Len(data)
    <3>1. \/ \E k \in 1 .. Len(writes) : writes[k].address = i - 1
          \/ i =< Len(base) /\ base[i] = data[i]
          \/ data[i] = Zero /\ \E k \in 1 .. Len(writes) : writes[k].address > i - 1
      BY <2>1, <1>2 DEF ExecutionInv, CellsExplained
    <3>2. data'[i] = data[i]
      BY <2>1, <1>5
    <3>3. CASE \E k \in 1 .. Len(writes) : writes[k].address = i - 1
      BY <3>3, <2>0
    <3>4. CASE i =< Len(base) /\ base[i] = data[i]
      BY <3>4, <3>2
    <3>5. CASE data[i] = Zero /\ \E k \in 1 .. Len(writes) : writes[k].address > i - 1
      BY <3>5, <3>2, <2>0
    <3> QED BY <3>1, <3>3, <3>4, <3>5
  <2>2. CASE ~(i \in 1 .. Len(data))
    <3>1. made # 0 /\ Len(data') = first + made /\ i > Len(data)
      BY <2>2, <1>1, <1>2, SMT DEF Expanded
    <3>2. CASE i > first
      <4> DEFINE n == i - first
      <4>1. n \in 1 .. made /\ first + n - 1 = i - 1
        BY <3>1, <3>2, <1>2, SMT
      <4>2. Len(writes) + n \in 1 .. Len(writes')
        BY <4>1, <1>1, <1>2, SMT
      <4>3. writes'[Len(writes) + n] = [address |-> first + n - 1, value |-> written[n]]
        BY <4>1, <1>1
      <4>4. writes'[Len(writes) + n].address = i - 1
        BY <4>1, <4>3
      <4> QED BY <4>2, <4>4
    <3>3. CASE ~(i > first)
      <4>1. data'[i] = Zero
        BY <3>1, <3>3, <1>1, <1>2, SMT
      <4>2. made \in 1 .. made /\ Len(writes) + made \in 1 .. Len(writes')
        BY <3>1, <1>1, <1>2, SMT
      <4>3. writes'[Len(writes) + made] = [address |-> first + made - 1, value |-> written[made]]
        BY <4>2, <1>1
      <4>4. first + made - 1 > i - 1
        BY <3>1, <3>3, <1>2, SMT
      <4>5. writes'[Len(writes) + made].address > i - 1
        BY <4>3, <4>4
      <4> QED BY <4>1, <4>2, <4>5
    <3> QED BY <3>2, <3>3
  <2> QED BY <2>1, <2>2
<1>10. FailuresExplained'
  <2> SUFFICES ASSUME failed' # NoFailure
               PROVE  LET earlier == {i \in 1 .. Len(writes') : writes'[i].address = failed'.address}
                      IN  \/ \E i \in earlier : writes'[i].value # failed'.value
                          \/ failed'.address < Len(base) /\ base[failed'.address + 1] # failed'.value
                          \/ /\ earlier = {} /\ failed'.value # Zero
                             /\ \E i \in 1 .. Len(writes') : writes'[i].address > failed'.address
    BY <1>1, <1>2 DEF FailuresExplained
  <2> DEFINE a == first + made
             v == written[made + 1]
  <2>1. made < Lanes /\ failed' = [address |-> a, value |-> v]
    BY <1>1, SMT
  <2>2. failed'.address = a /\ failed'.value = v
    BY <2>1
  <2>3. /\ a \in Nat /\ a + 1 \in 1 .. Len(data) /\ a + 1 = first + made + 1
        /\ (a + 1) - 1 = a
    <3>1. first + made < Len(data)
      BY <2>1, <1>1
    <3> QED BY <3>1, <1>2, SMT
  <2>4. data[a + 1] # v /\ data'[a + 1] = data[a + 1]
    BY <2>1, <2>3, <1>1, <1>5
  <2>5. a + 1 \in 1 .. Len(data')
    BY <2>3, <1>2, <1>4, SMT
  <2> HIDE DEF a, v
  <2>6. \A k \in 1 .. Len(writes') : writes'[k].address = a => writes'[k].value # v
    BY <1>8, <1>2, <2>4 DEF WritesAreKept
  <2>7. \/ \E k \in 1 .. Len(writes') : writes'[k].address = a
        \/ a + 1 =< Len(base) /\ base[a + 1] = data'[a + 1]
        \/ data'[a + 1] = Zero /\ \E k \in 1 .. Len(writes') : writes'[k].address > a
    <3>1. \A i \in 1 .. Len(data') :
             \/ \E k \in 1 .. Len(writes') : writes'[k].address = i - 1
             \/ i =< Len(base) /\ base[i] = data'[i]
             \/ data'[i] = Zero /\ \E k \in 1 .. Len(writes') : writes'[k].address > i - 1
      BY <1>1, <1>2, <1>9 DEF CellsExplained
    <3>2. \A i \in 1 .. Len(data') : i = a + 1 => i - 1 = a
      BY <2>3
    <3> QED BY <2>5, <3>1, <3>2
  <2>8. a + 1 =< Len(base) => a < Len(base)
    BY <2>3, <1>2, SMT
  <2> QED BY <2>2, <2>4, <2>6, <2>7, <2>8
<1> QED BY <1>1, <1>6, <1>8, <1>9, <1>10 DEF ExecutionInv, IsRows

-----------------------------------------------------------------------------
\* The other steps, and the theorems.

\* An array of no cells is one of no rows.
LEMMA EmptyArray == IsRows(<<>>) /\ Len(<<>>) = 0
<1>1. <<>> \in Seq(Value) /\ Len(<<>>) = 0
  BY EmptySeq
<1>2. 0 = 0 * Lanes
  BY WriteOnceAssumption, SMT
<1> QED BY <1>1, <1>2 DEF IsRows

\* A history that starts from some contents explains them.
LEMMA FreshHistory ==
    ASSUME IsRows(data)', base' = data', writes' = <<>>, failed' = NoFailure, IsRows(saved)'
    PROVE  ExecutionInv'
<1>1. writes' \in Seq(Writes) /\ DOMAIN writes' = {}
  BY EmptySeq
<1>2. WritesAreKept'
  BY <1>1 DEF WritesAreKept
<1>3. CellsExplained'
  BY SMT DEF CellsExplained, IsRows
<1> QED BY <1>1, <1>2, <1>3 DEF ExecutionInv, IsRows, FailuresExplained

\* The invariant holds at the start.
LEMMA InitInv == Init => ExecutionInv
<1> SUFFICES ASSUME Init PROVE ExecutionInv
  OBVIOUS
<1>1. writes \in Seq(Writes) /\ DOMAIN writes = {} /\ base \in Seq(Value)
  BY EmptySeq DEF Init
<1>2. CellsExplained
  BY EmptyArray, SMT DEF CellsExplained, Init
<1> QED BY <1>1, <1>2, EmptyArray DEF Init, ExecutionInv, IsRows, WritesAreKept, FailuresExplained

\* Every step keeps the invariant.
LEMMA StepInv == ExecutionInv /\ [Next]_vars => ExecutionInv'
<1> SUFFICES ASSUME ExecutionInv, [Next]_vars PROVE ExecutionInv'
  OBVIOUS
<1>1. ASSUME NEW row \in Row, WriteRow(row) PROVE ExecutionInv'
  BY <1>1, WriteRowInv
<1>2. CASE Checkpoint
  BY <1>2 DEF Checkpoint, ExecutionInv, IsRows, WritesAreKept, CellsExplained, FailuresExplained
<1>3. CASE Restore
  BY <1>3, FreshHistory DEF Restore, ExecutionInv, IsRows
<1>4. CASE Initialise
  BY <1>4, EmptyArray, FreshHistory DEF Initialise, ExecutionInv, IsRows
<1>5. CASE UNCHANGED vars
  BY <1>5 DEF vars, ExecutionInv, IsRows, WritesAreKept, CellsExplained, FailuresExplained
<1> QED BY <1>1, <1>2, <1>3, <1>4, <1>5 DEF Next

\* The inductive invariant holds throughout every execution of an output
\* memory (wom.go).
THEOREM ExecutionSound == Spec => []ExecutionInv
BY InitInv, StepInv, PTL DEF Spec

\* Whatever is written and wherever a write fails, the array has a whole
\* number of rows: the trace table drops no remainder (wom.go, Write; Pack).
THEOREM RowsWhole == Spec => []WholeRows
<1>1. ExecutionInv => WholeRows
  <2> SUFFICES ASSUME ExecutionInv PROVE WholeRows
    OBVIOUS
  <2>1. PICK k \in Nat : Len(data) = k * Lanes
    BY DEF ExecutionInv, IsRows
  <2>2. (k * Lanes) % Lanes = 0
    BY NoRemainder, WriteOnceAssumption
  <2> QED BY <2>1, <2>2 DEF ExecutionInv, IsRows, WholeRows
<1> QED BY <1>1, ExecutionSound, PTL

\* What an execution has written stays in the array, whatever it writes later
\* (wom.go, Write).
THEOREM WritesKept == Spec => []WritesAreKept
<1>1. ExecutionInv => WritesAreKept
  BY DEF ExecutionInv
<1> QED BY <1>1, ExecutionSound, PTL

\* A write fails only over an earlier write, over what was restored, or over
\* the zero that filled the cell (wom.go, Write and expand).
THEOREM FailuresHaveCause == Spec => []FailuresExplained
<1>1. ExecutionInv => FailuresExplained
  BY DEF ExecutionInv
<1> QED BY <1>1, ExecutionSound, PTL
=============================================================================
