----------------------------- MODULE TimedCells -----------------------------
(***************************************************************************)
(* The timestamped cells a read-write memory of the zkc VM is made of, the *)
(* records of its access log, and the encoding of cells in a checkpoint.   *)
(*                                                                         *)
(* A memory is a flat array of cells.  One logical access (one RD_RAM or   *)
(* WR_RAM instruction) touches a row: Lanes consecutive cells, all stamped *)
(* with the same reading of the memory's clock.  The operators below are   *)
(* shared by the unpaged memory (RandomAccess), the paged one              *)
(* (PagedRandomAccess) and the hand-over between machines of different     *)
(* word widths (MemoryHandover).                                           *)
(***************************************************************************)
EXTENDS Integers, Sequences

CONSTANTS Value,      \* values of a cell (machine words, abstracted)
          Zero        \* the zero value of a cell

ASSUME ZeroAssumption == Zero \in Value

-----------------------------------------------------------------------------

\* A cell holds a value and the clock reading of the last access to it.
Cell == [value : Value, stamp : Nat]

\* The state of a cell nobody touched; a stamp is zero only here.
ZeroCell == [value |-> Zero, stamp |-> 0]

\* The contents of a memory: cells at the addresses it has allocated.
IsMemory(cells) ==
    /\ DOMAIN cells \subseteq Nat
    /\ cells \in [DOMAIN cells -> Cell]

\* What the recording log keeps of the access to one lane.
Access == [address : Nat, valueRead : Value, readStamp : Nat,
           valueWritten : Value, writeStamp : Nat, isWrite : BOOLEAN]

\* valueAt: an address that is not allocated reads as the zero cell.
CellAt(cells, a) == IF a \in DOMAIN cells THEN cells[a] ELSE ZeroCell

\* The flat addresses of the row whose first lane is at first.
LanesFrom(first, lanes) == first .. (first + lanes - 1)

\* Faulty Restamp: only the first lane of the row gets the stamp.
RestampOneLane(cells, first, lanes, written, stamp, backing) ==
    [a \in backing |->
        IF a \in LanesFrom(first, lanes)
        THEN [value |-> written[a - first],
              stamp |-> IF a = first THEN stamp ELSE CellAt(cells, a).stamp]
        ELSE CellAt(cells, a)]

\* The cells after every lane of the row at first was restamped with stamp
\* and given its value in written; backing is the set of addresses the memory
\* has allocated by then, new ones being zero cells.
Restamp(cells, first, lanes, written, stamp, backing) ==
    [a \in backing |->
        IF a \in LanesFrom(first, lanes)
        THEN [value |-> written[a - first], stamp |-> stamp]
        ELSE CellAt(cells, a)]

\* The values a read of the row finds, lane by lane.
ValuesFrom(cells, first, lanes) ==
    [l \in 0 .. (lanes - 1) |-> CellAt(cells, first + l).value]

\* The log records of one logical access: one per lane, lowest lane first.
LaneAccesses(cells, first, lanes, written, stamp, isWrite) ==
    [i \in 1 .. lanes |->
        LET cell == CellAt(cells, first + i - 1)
        IN  [address |-> first + i - 1,
             valueRead |-> cell.value, readStamp |-> cell.stamp,
             valueWritten |-> written[i - 1], writeStamp |-> stamp,
             isWrite |-> isWrite]]

-----------------------------------------------------------------------------

\* The largest element of a non-empty set of clock readings.
Latest(S) == CHOOSE m \in S : \A s \in S : s =< m

\* PackTimed: the values of the cells, and one stamp per logical row, the
\* latest of the row's cells.  (The byte encoding of a value loses nothing; a
\* value split over several lanes is MemoryHandover's subject.)
PackTimed(cells, lanes) ==
    [values |-> [a \in DOMAIN cells |-> cells[a].value],
     stamps |-> [r \in {a \div lanes : a \in DOMAIN cells} |->
                    Latest({cells[a].stamp :
                              a \in {b \in DOMAIN cells : b \div lanes = r}})]]

\* UnpackTimed: the stamp of a row is fanned out across its cells.
UnpackTimed(page, lanes) ==
    [a \in DOMAIN page.values |->
        [value |-> page.values[a], stamp |-> page.stamps[a \div lanes]]]

=============================================================================
