--------------------------- MODULE MemoryContract ---------------------------
(***************************************************************************)
(* What a read-write memory promises to the program that runs over it and  *)
(* to the proof made of it, row by row and without lanes, arrays or        *)
(* records: the contract in vm/internal/interpreter/memory_log.go and in   *)
(* the comments of ram.go.  RandomAccess implements it.                    *)
(***************************************************************************)
EXTENDS Integers, Sequences

CONSTANTS Row, RowValue, ZeroRow, MaxClock

VARIABLES rows,       \* what each row holds, and when it was last accessed
          time,       \* the memory's clock
          accesses,   \* the accesses since recording began, in order
          kept        \* the rows and the time a checkpoint keeps, if any

contractVars == <<rows, time, accesses, kept>>

Nothing == [time |-> -1]

Untouched == [r \in Row |-> [value |-> ZeroRow, stamp |-> 0]]

\* An access gives the row a value and the next reading of the clock; its
\* record pairs what the row was with what it is now.
Touch(r, value, isWrite) ==
    LET now == [value |-> value, stamp |-> time + 1]
    IN  /\ time < MaxClock
        /\ time' = time + 1
        /\ rows' = [rows EXCEPT ![r] = now]
        /\ accesses' = Append(accesses,
               [row |-> r, before |-> rows[r], after |-> now, isWrite |-> isWrite])
        /\ UNCHANGED kept

ReadBack(r) == Touch(r, rows[r].value, FALSE)

Store(r) == \E value \in RowValue : Touch(r, value, TRUE)

Keep == kept' = [time |-> time, rows |-> rows] /\ UNCHANGED <<rows, time, accesses>>

Resume ==
    /\ kept # Nothing
    /\ rows' = kept.rows /\ time' = kept.time /\ accesses' = <<>>
    /\ UNCHANGED kept

Reboot == rows' = Untouched /\ time' = 0 /\ accesses' = <<>> /\ UNCHANGED kept

ContractInit == rows = Untouched /\ time = 0 /\ accesses = <<>> /\ kept = Nothing

ContractNext ==
    \/ \E r \in Row : ReadBack(r) \/ Store(r)
    \/ Keep \/ Resume \/ Reboot

Contract == ContractInit /\ [][ContractNext]_contractVars
=============================================================================
