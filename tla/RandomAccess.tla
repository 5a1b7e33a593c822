---------------------------- MODULE RandomAccess ----------------------------
(***************************************************************************)
(* One unpaged read-write memory of the zkc VM while a trace of it is      *)
(* recorded (vm/internal/interpreter/ram.go with a TraceableMemoryLog):    *)
(* booting, reading and writing rows, being saved in a checkpoint and      *)
(* restored from one.                                                      *)
(*                                                                         *)
(* The log is all that proof generation sees of the memory.  What the RAM  *)
(* argument needs of it is a chain: the read side of every record is the   *)
(* write side of the last record at the same address, or the cell the      *)
(* memory started from.                                                    *)
(***************************************************************************)
EXTENDS TimedCells

CONSTANTS Row,        \* row addresses the program uses
          Lanes,      \* data lines of the memory
          MaxClock    \* bound on the clock, for model checking

ASSUME RowAssumption   == Row \subseteq Nat
ASSUME LanesAssumption == Lanes \in Nat \ {0}
ASSUME ClockAssumption == MaxClock \in Nat

VARIABLES data,       \* the cells, by address
          clock,      \* timestamp: readings taken so far
          log,        \* accessLog: one record per lane touched
          saved,      \* the last checkpoint of this memory, or NoCheckpoint
          start       \* history: the cells and the clock when the log was reset

vars == <<data, clock, log, saved, start>>

NoCheckpoint == [clock |-> -1]

\* What the recording starts from after booting the machine.
Blank == [cells |-> <<>>, clock |-> 0]

-----------------------------------------------------------------------------

\* expand: the array grows up to the last lane touched.
Expanded(first) == DOMAIN data \cup 0 .. (first + Lanes - 1)

\* One logical access: the clock ticks once, then every lane is restamped and
\* logged.
AccessRow(row, written, isWrite) ==
    LET first == row * Lanes
    IN  /\ clock < MaxClock
        /\ clock' = clock + 1
        /\ data' = Restamp(data, first, Lanes, written, clock + 1, Expanded(first))
        /\ log' = log \o LaneAccesses(data, first, Lanes, written, clock + 1, isWrite)
        /\ UNCHANGED <<saved, start>>

\* RD_RAM: a read stores the value back unchanged.
ReadRow(row) == AccessRow(row, ValuesFrom(data, row * Lanes, Lanes), FALSE)

\* WR_RAM
WriteRow(row) ==
    \E written \in [0 .. (Lanes - 1) -> Value] : AccessRow(row, written, TRUE)

\* The memory is saved with the clock; the machine keeps running.
Checkpoint ==
    /\ saved' = [clock |-> clock, page |-> PackTimed(data, Lanes)]
    /\ UNCHANGED <<data, clock, log, start>>

\* Faulty Restore: the clock starts again from zero.
RestoreRestarting ==
    /\ saved # NoCheckpoint
    /\ clock' = 0
    /\ data' = UnpackTimed(saved.page, Lanes)
    /\ start' = [cells |-> UnpackTimed(saved.page, Lanes), clock |-> saved.clock]
    /\ log' = <<>>
    /\ UNCHANGED saved

\* A machine is restored: the clock resumes, the log starts afresh.
Restore ==
    /\ saved # NoCheckpoint
    /\ clock' = saved.clock
    /\ data' = UnpackTimed(saved.page, Lanes)
    /\ start' = [cells |-> UnpackTimed(saved.page, Lanes), clock |-> saved.clock]
    /\ log' = <<>>
    /\ UNCHANGED saved

\* Booting the machine initialises the memory.
Initialise ==
    /\ clock' = 0
    /\ data' = <<>>
    /\ start' = Blank
    /\ log' = <<>>
    /\ UNCHANGED saved

Init ==
    /\ clock = 0
    /\ data = <<>>
    /\ start = Blank
    /\ log = <<>>
    /\ saved = NoCheckpoint

Next ==
    \/ \E row \in Row : ReadRow(row) \/ WriteRow(row)
    \/ Checkpoint
    \/ Restore
    \/ Initialise

Spec == Init /\ [][Next]_vars

-----------------------------------------------------------------------------

\* Records i and j > i of one address with no record of it between them.
NextAt(i, j) ==
    /\ i < j
    /\ log[i].address = log[j].address
    /\ \A k \in (i + 1) .. (j - 1) : log[k].address # log[j].address

\* Record j is the first of its address.
FirstAt(j) == \A k \in 1 .. (j - 1) : log[k].address # log[j].address

\* The cells, the log, the checkpoint and the start have their shapes.
TypeOK ==
    /\ clock \in Nat
    /\ IsMemory(data)
    /\ IsMemory(start.cells)
    /\ start.clock \in 0 .. clock
    /\ log \in Seq(Access)
    /\ saved.clock \in Nat \cup {-1}

\* The read side of a record is the write side of the previous record at that
\* address, or the cell the recording started from when there is none: the
\* consistency argument of proof generation pairs them (memory_log.go: "the
\* read-side of any access is simply that tracked state immediately before the
\* access").
LogChained ==
    \A j \in 1 .. Len(log) :
        /\ \A i \in 1 .. Len(log) : NextAt(i, j) =>
              /\ log[j].valueRead = log[i].valueWritten
              /\ log[j].readStamp = log[i].writeStamp
        /\ FirstAt(j) =>
              LET cell == CellAt(start.cells, log[j].address)
              IN  log[j].valueRead = cell.value /\ log[j].readStamp = cell.stamp

\* A record reads a cell strictly older than itself and no later than the
\* clock: TIMESTAMP_DELTA = written - read - 1 of the trace row never wraps
\* around, not even for cells restored from a checkpoint.
ReadsThePast ==
    \A i \in 1 .. Len(log) :
        /\ log[i].readStamp < log[i].writeStamp
        /\ log[i].writeStamp =< clock

\* The log splits into logical accesses by equal write stamps, as the trace
\* builder splits it: the stamps count up by one per access from where the
\* recording started, and the records of an access are the lanes of one row
\* in order, all of one kind and all with one read stamp.
AccessesRecoverable ==
    /\ Len(log) = Lanes * (clock - start.clock)
    /\ \A i \in 1 .. Len(log) :
          /\ log[i].writeStamp = start.clock + 1 + ((i - 1) \div Lanes)
          /\ log[i].address % Lanes = (i - 1) % Lanes
    /\ \A i, j \in 1 .. Len(log) : log[i].writeStamp = log[j].writeStamp =>
          /\ log[i].address \div Lanes = log[j].address \div Lanes
          /\ log[i].readStamp = log[j].readStamp
          /\ log[i].isWrite = log[j].isWrite

\* Saving the memory and restoring it gives back every cell with its stamp,
\* although a checkpoint keeps one stamp per row.
CheckpointLossless == UnpackTimed(PackTimed(data, Lanes), Lanes) = data

-----------------------------------------------------------------------------
\* The inductive invariant behind these properties.

\* Cells a memory whose clock reads t can hold: whole rows, the cells of a row
\* stamped alike, no stamp from the future.
Sound(cells, t) ==
    /\ IsMemory(cells)
    /\ \A a \in DOMAIN cells :
          /\ cells[a].stamp =< t
          /\ LanesFrom((a \div Lanes) * Lanes, Lanes) \subseteq DOMAIN cells
    /\ \A a, b \in DOMAIN cells :
          a \div Lanes = b \div Lanes => cells[a].stamp = cells[b].stamp

\* The memory, what it started from and what it would be restored to are sound.
MemoriesSound ==
    /\ clock \in Nat /\ start.clock \in 0 .. clock
    /\ Sound(data, clock)
    /\ Sound(start.cells, start.clock)
    /\ saved = NoCheckpoint \/ /\ saved.clock \in Nat
                               /\ Sound(UnpackTimed(saved.page, Lanes), saved.clock)

\* A cell is what the last record of its address wrote, or what the recording
\* started from.
CellsMatchLog ==
    /\ \A i \in 1 .. Len(log) :
          (\A k \in (i + 1) .. Len(log) : log[k].address # log[i].address) =>
              CellAt(data, log[i].address) =
                  [value |-> log[i].valueWritten, stamp |-> log[i].writeStamp]
    /\ \A a \in DOMAIN data \cup DOMAIN start.cells :
          (\A k \in 1 .. Len(log) : log[k].address # a) =>
              CellAt(data, a) = CellAt(start.cells, a)

RecordingInv ==
    /\ MemoriesSound
    /\ log \in Seq(Access)
    /\ CellsMatchLog
    /\ LogChained
    /\ ReadsThePast

-----------------------------------------------------------------------------
(* The memory implements MemoryContract: a row of the contract is the      *)
(* row's lanes in the flat array, an access of the contract is a group of  *)
(* Lanes records of the log, and what the contract keeps is what Restore   *)
(* would unpack from the checkpoint.                                       *)

RowsIn(cells) ==
    [r \in Row |-> [value |-> ValuesFrom(cells, r * Lanes, Lanes),
                    stamp |-> CellAt(cells, r * Lanes).stamp]]

\* The n-th group of Lanes records.
Grouped(n) ==
    LET first == (n - 1) * Lanes + 1
    IN  [row |-> log[first].address \div Lanes,
         before |-> [value |-> [l \in 0 .. (Lanes - 1) |-> log[first + l].valueRead],
                     stamp |-> log[first].readStamp],
         after |-> [value |-> [l \in 0 .. (Lanes - 1) |-> log[first + l].valueWritten],
                    stamp |-> log[first].writeStamp],
         isWrite |-> log[first].isWrite]

Memory == INSTANCE MemoryContract WITH
    RowValue <- [0 .. (Lanes - 1) -> Value],
    ZeroRow  <- [l \in 0 .. (Lanes - 1) |-> Zero],
    rows     <- RowsIn(data),
    time     <- clock,
    accesses <- [n \in 1 .. (Len(log) \div Lanes) |-> Grouped(n)],
    kept     <- IF saved = NoCheckpoint
                THEN [time |-> -1]
                ELSE [time |-> saved.clock,
                      rows |-> RowsIn(UnpackTimed(saved.page, Lanes))]

\* Every step of the memory with its lanes, its array that grows on demand
\* and its checkpoints is a step of the contract.
MemoryKeepsContract == Memory!Contract
=============================================================================
