--------------------------- MODULE MemoryHandover ---------------------------
(***************************************************************************)
(* A read-write memory handed from one machine to another of a different   *)
(* word width.  Checkpoints are taken by the fast machine, where a row is  *)
(* a few wide cells, and restored in the tracing machine, where the same   *)
(* row is more and narrower ones (vm/internal/interpreter/memory.go,       *)
(* ram.go, paged_ram.go).  Both then execute the same accesses: the        *)
(* tracing machine replays the very part of the execution that the fast    *)
(* machine went on to run.                                                 *)
(*                                                                         *)
(* A row is a tuple of bytes, in the order a checkpoint encodes them.  A   *)
(* machine cuts it where its registers end, each of a width of its own: a  *)
(* row of a u8 and a u24 ends at <<1, 4>> on a machine of 32 bit words,    *)
(* and at <<1, 2, 4>> where the u24 is a u8 and a u16.                     *)
(***************************************************************************)
EXTENDS Integers, Sequences, FiniteSets

CONSTANTS Row, Byte, RowBytes,
          FastEnds, TraceEnds,   \* where each register's bytes end in a row
          PageSize,              \* cells per page, the same on both machines
          MaxClock

\* Registers cover the row one after the other.
IsGeometry(ends) ==
    /\ ends \in Seq(1 .. RowBytes) /\ ends # <<>>
    /\ \A k, l \in 1 .. Len(ends) : k < l => ends[k] < ends[l]
    /\ ends[Len(ends)] = RowBytes

ASSUME GeometryAssumption ==
    /\ Row \subseteq Nat
    /\ RowBytes \in Nat \ {0} /\ PageSize \in Nat \ {0}
    /\ IsGeometry(FastEnds) /\ IsGeometry(TraceEnds)
    /\ 0 \in Byte

FastLanes == Len(FastEnds)
TraceLanes == Len(TraceEnds)

\* Bytewidth: the bytes before a lane's own, and how many are its own.
Start(ends, lane) == IF lane = 0 THEN 0 ELSE ends[lane]
Width(ends, lane) == ends[lane + 1] - Start(ends, lane)

\* The lane that holds byte b of a row.
LaneOf(ends, b) ==
    CHOOSE lane \in 0 .. (Len(ends) - 1) : Start(ends, lane) < b /\ b =< ends[lane + 1]

\* A cell is a word wide enough for any register: the register's bytes, and
\* zeros in what is left of it.
Word == [1 .. RowBytes -> Byte]

\* unpackCell: width bytes that follow the first offset ones.
UnpackCell(bytes, offset, width) ==
    [i \in 1 .. RowBytes |-> IF i =< width THEN bytes[offset + i] ELSE 0]

Zeros == [i \in 1 .. RowBytes |-> 0]

Cells == INSTANCE TimedCells WITH Value <- Word, Zero <- Zeros

VARIABLES paged,                \* is the memory a paged one?
          fast, fastClock,      \* cells and clock of the fast machine
          trace, traceClock,    \* cells and clock of the tracing machine
          tracing               \* is the tracing machine replaying?

vars == <<paged, fast, fastClock, trace, traceClock, tracing>>

-----------------------------------------------------------------------------
\* Geometry.

\* The addresses a memory with the given cells has once it holds addrs.
Backing(cells, addrs) ==
    IF paged
    THEN DOMAIN cells \cup
         UNION {LET p == a \div PageSize IN p * PageSize .. (p * PageSize + PageSize - 1)
                  : a \in addrs}
    ELSE DOMAIN cells \cup UNION {0 .. a : a \in addrs}

\* The lanes a row of bytes is split into.
Split(bytes, ends) ==
    [l \in 0 .. (Len(ends) - 1) |-> UnpackCell(bytes, Start(ends, l), Width(ends, l))]

\* The bytes of the row whose first cell is at first, in a memory whose cell at
\* an address is at(address).
RowOf(at(_), first, ends) ==
    [b \in 1 .. RowBytes |->
        at(first + LaneOf(ends, b)).value[b - Start(ends, LaneOf(ends, b))]]

FastAt(a) == Cells!CellAt(fast, a)
TraceAt(a) == Cells!CellAt(trace, a)

-----------------------------------------------------------------------------
\* Checkpoints.

\* The runs of cells a checkpoint saves: one of everything, or one per page.
Chunks(cells) ==
    IF paged
    THEN {p * PageSize .. (p * PageSize + PageSize - 1) : p \in {a \div PageSize : a \in DOMAIN cells}}
    ELSE {DOMAIN cells}

\* The page of a run: its row address, the bytes of its cells register by
\* register, and a stamp per row.
PageOf(chunk) ==
    LET first == IF chunk = {} THEN 0 ELSE CHOOSE a \in chunk : \A b \in chunk : a =< b
        rows  == Cardinality(chunk) \div FastLanes
        row(i) == RowOf(FastAt, first + i * FastLanes, FastEnds)
    IN  [address |-> first \div FastLanes,
         bytes |-> [b \in 1 .. (rows * RowBytes) |->
                       row((b - 1) \div RowBytes)[((b - 1) % RowBytes) + 1]],
         stamps |-> [i \in 1 .. rows |->
                       Cells!Latest({fast[a].stamp :
                           a \in {c \in chunk : (c - first) \div FastLanes = i - 1}})]]

\* Checkpoint: a page for every run.
Saved == {PageOf(chunk) : chunk \in Chunks(fast)}

\* Faulty Unpacked: the bytes are cut where the other machine's registers end.
UnpackedWide(page) ==
    LET start == page.address * TraceLanes
        rows  == Len(page.bytes) \div RowBytes
        row(a) == (a - start) \div FastLanes
        lane(a) == (a - start) % FastLanes
    IN  [a \in start .. (start + rows * FastLanes - 1) |->
            [value |-> UnpackCell(page.bytes, row(a) * RowBytes + Start(FastEnds, lane(a)),
                                  Width(FastEnds, lane(a))),
             stamp |-> page.stamps[row(a) + 1]]]

\* Faulty Unpacked: every cell gets the stamp of the run's first row.
UnpackedOneStamp(page) ==
    LET start == page.address * TraceLanes
        rows  == Len(page.bytes) \div RowBytes
        row(a) == (a - start) \div TraceLanes
        lane(a) == (a - start) % TraceLanes
    IN  [a \in start .. (start + rows * TraceLanes - 1) |->
            [value |-> UnpackCell(page.bytes, row(a) * RowBytes + Start(TraceEnds, lane(a)),
                                  Width(TraceEnds, lane(a))),
             stamp |-> page.stamps[1]]]

\* Restore: the bytes of a run are cut where this machine's registers end, over
\* and over, and each cell gets its row's stamp; a run starts at the first cell
\* of its row address.
Unpacked(page) ==
    LET start == page.address * TraceLanes
        rows  == Len(page.bytes) \div RowBytes
        row(a) == (a - start) \div TraceLanes
        lane(a) == (a - start) % TraceLanes
    IN  [a \in start .. (start + rows * TraceLanes - 1) |->
            [value |-> UnpackCell(page.bytes, row(a) * RowBytes + Start(TraceEnds, lane(a)),
                                  Width(TraceEnds, lane(a))),
             stamp |-> page.stamps[row(a) + 1]]]

Restored(pages) ==
    LET decoded == UNION {DOMAIN Unpacked(page) : page \in pages}
    IN  [a \in Backing(<<>>, decoded) |->
            IF a \in decoded
            THEN Unpacked(CHOOSE page \in pages : a \in DOMAIN Unpacked(page))[a]
            ELSE Cells!ZeroCell]

-----------------------------------------------------------------------------

\* The fast machine is saved and the tracing machine takes over from there.
\* Checkpoint asserts that a page holds whole rows of the machine that is saved;
\* nothing is asked of the pages they are restored to.
Handover ==
    /\ paged => PageSize % FastLanes = 0
    /\ trace' = Restored(Saved)
    /\ traceClock' = fastClock
    /\ tracing' = TRUE
    /\ UNCHANGED <<paged, fast, fastClock>>

\* The addresses an access leaves allocated: a read of a paged memory
\* allocates nothing.
After(cells, first, lanes, isWrite) ==
    IF paged /\ ~isWrite THEN DOMAIN cells
                         ELSE Backing(cells, first .. (first + lanes - 1))

\* One access by the fast machine, and by the tracing machine if it replays.
AccessRow(r, fastLanes, traceLanes, isWrite) ==
    /\ fastClock < MaxClock
    /\ fastClock' = fastClock + 1
    /\ fast' = Cells!Restamp(fast, r * FastLanes, FastLanes, fastLanes, fastClock + 1,
                            After(fast, r * FastLanes, FastLanes, isWrite))
    /\ IF tracing
       THEN /\ traceClock' = traceClock + 1
            /\ trace' = Cells!Restamp(trace, r * TraceLanes, TraceLanes, traceLanes,
                            traceClock + 1, After(trace, r * TraceLanes, TraceLanes, isWrite))
       ELSE UNCHANGED <<trace, traceClock>>
    /\ UNCHANGED <<paged, tracing>>

ReadRow(r) ==
    AccessRow(r, Cells!ValuesFrom(fast, r * FastLanes, FastLanes),
                 Cells!ValuesFrom(trace, r * TraceLanes, TraceLanes), FALSE)

WriteRow(r) ==
    \E bytes \in [1 .. RowBytes -> Byte] :
        AccessRow(r, Split(bytes, FastEnds), Split(bytes, TraceEnds), TRUE)

Init ==
    /\ paged \in BOOLEAN
    /\ fast = <<>> /\ fastClock = 0
    /\ trace = <<>> /\ traceClock = 0
    /\ tracing = FALSE

Next ==
    \/ Handover
    \/ \E r \in Row : ReadRow(r) \/ WriteRow(r)

Spec == Init /\ [][Next]_vars

-----------------------------------------------------------------------------

SameValues ==
    \A r \in Row :
        RowOf(FastAt, r * FastLanes, FastEnds) = RowOf(TraceAt, r * TraceLanes, TraceEnds)

SameStamps ==
    \A r \in Row : \A l \in 0 .. (TraceLanes - 1) :
        TraceAt(r * TraceLanes + l).stamp = FastAt(r * FastLanes).stamp

\* While the tracing machine replays it computes with the values the fast
\* machine computed with, and it stamps them alike, so that the stamps a shard's
\* log starts from are those the shard before it ended with.  (A paged memory
\* loses stamps of reads where it has no page, and the two machines' pages
\* differ.)
ReplaySeesSameMemory ==
    tracing => /\ SameValues /\ traceClock = fastClock
               /\ ~paged => SameStamps

\* A checkpoint carries every row, value and stamp, to a machine that divides
\* it into other cells and other pages.
HandoverIsExact == [][Handover => (SameValues /\ SameStamps)']_vars
=============================================================================
