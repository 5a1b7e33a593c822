------------------------------ MODULE WriteOnce ------------------------------
(***************************************************************************)
(* An output memory of the zkc VM (vm/internal/interpreter/wom.go): a flat *)
(* array that grows to the last address written, in which a cell that      *)
(* exists may only be written with the value it holds.  An instruction     *)
(* writes a row of Lanes cells one after the other and fails at the first  *)
(* that disagrees.                                                         *)
(***************************************************************************)
EXTENDS Integers, Sequences

CONSTANTS Row, Lanes, Value, Zero, MaxWrites

ASSUME WriteOnceAssumption ==
    Row \subseteq Nat /\ Lanes \in Nat \ {0} /\ Zero \in Value /\ MaxWrites \in Nat

VARIABLES data,       \* the array
          writes,     \* history: the cell writes made, in order
          failed,     \* the cell write that failed, or NoFailure
          saved,      \* the contents a checkpoint keeps
          base        \* history: the contents this execution started from

vars == <<data, writes, failed, saved, base>>

NoFailure == [address |-> -1]

\* Faulty Agrees: nothing is compared.
AgreesAlways(cells, a, v) == TRUE

\* Faulty Agrees: a cell that exists admits no write at all.
AgreesIfNew(cells, a, v) == a >= Len(cells)

\* Write: does the cell at a (0-based) admit the value?
Agrees(cells, a, v) == a < Len(cells) => cells[a + 1] = v

\* expand: the length that makes room for the cells up to end.
Expanded(cells, end) == IF Len(cells) >= end THEN Len(cells) ELSE end

\* The array after the first n lanes of a row were written.
Filled(first, written, n) ==
    IF n = 0 THEN data
    ELSE [i \in 1 .. Expanded(data, first + n) |->
             IF i > first /\ i =< first + n THEN written[i - first]
             ELSE IF i =< Len(data) THEN data[i] ELSE Zero]

\* Can the n-th lane be written once those before it were?
Fits(first, written, n) ==
    Agrees(Filled(first, written, n - 1), first + n - 1, written[n])

\* Faulty FirstLane: the row address is taken for a cell address.
FirstLaneUnscaled(row) == row

\* decodeAddress
FirstLane(row) == row * Lanes

\* WR_WOM: the lanes are written in turn, up to the first that does not agree.
WriteRow(row) ==
    \E written \in [1 .. Lanes -> Value], made \in 0 .. Lanes :
        LET first == FirstLane(row)
        IN  /\ failed = NoFailure /\ Len(writes) + Lanes =< MaxWrites
            /\ \A n \in 1 .. made : Fits(first, written, n)
            /\ made < Lanes => ~Fits(first, written, made + 1)
            /\ data' = Filled(first, written, made)
            /\ writes' = writes \o [n \in 1 .. made |->
                            [address |-> first + n - 1, value |-> written[n]]]
            /\ failed' = IF made = Lanes THEN NoFailure
                         ELSE [address |-> first + made, value |-> written[made + 1]]
            /\ UNCHANGED <<saved, base>>

\* The contents are saved as they are.
Checkpoint == failed = NoFailure /\ saved' = data /\ UNCHANGED <<data, writes, failed, base>>

\* A machine resumes from the saved contents; its history is its own.
Restore ==
    /\ data' = saved /\ writes' = <<>> /\ failed' = NoFailure /\ base' = saved
    /\ UNCHANGED saved

\* Initialise(nil)
Initialise ==
    /\ data' = <<>> /\ writes' = <<>> /\ failed' = NoFailure /\ base' = <<>>
    /\ UNCHANGED saved

Init == data = <<>> /\ writes = <<>> /\ failed = NoFailure /\ saved = <<>> /\ base = <<>>

Next ==
    \/ \E row \in Row : WriteRow(row)
    \/ Checkpoint
    \/ Restore
    \/ Initialise

Spec == Init /\ [][Next]_vars

-----------------------------------------------------------------------------

\* The array holds values; its length is a whole number of rows although rows
\* are written lane by lane and a write may fail between two lanes: the trace
\* table has a row per Lanes cells and would drop a remainder.
WholeRows == data \in Seq(Value) /\ Len(data) % Lanes = 0

\* Every write made in an execution is still in the array, whatever was
\* written later: the lookup of each finds its row in the final table.
WritesAreKept ==
    \A i \in DOMAIN writes :
        writes[i].address < Len(data) /\ data[writes[i].address + 1] = writes[i].value

\* A write fails only if it disagrees with an earlier write of the cell, with
\* the contents the execution was restored to, or with the zero that filled
\* the cell when a higher address was written before it.
FailuresExplained ==
    failed # NoFailure =>
        LET earlier == {i \in DOMAIN writes : writes[i].address = failed.address}
        IN  \/ \E i \in earlier : writes[i].value # failed.value
            \/ failed.address < Len(base) /\ base[failed.address + 1] # failed.value
            \/ /\ earlier = {} /\ failed.value # Zero
               /\ \E i \in DOMAIN writes : writes[i].address > failed.address

=============================================================================
