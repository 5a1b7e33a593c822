------------------------- MODULE PagedRandomAccess --------------------------
(***************************************************************************)
(* One paged read-write memory of the zkc VM while a trace of it is        *)
(* recorded (vm/internal/interpreter/paged_ram.go).  It keeps the state of *)
(* an unpaged one, except that its cells exist page by page: a write       *)
(* allocates the pages of its lanes, a read never allocates, and so a read *)
(* of a page that is not there leaves no stamp behind.                     *)
(*                                                                         *)
(* Nothing aligns the rows with the pages of a machine that records: only  *)
(* a machine that saves a checkpoint asserts it (see MemoryHandover).      *)
(* With two lanes and pages of three cells a row may lie on two pages, one *)
(* there and one not, as a row of three limbs does on pages of 2^20 cells. *)
(***************************************************************************)
EXTENDS RandomAccess

CONSTANT PageSize     \* PAGE_SIZE: cells per page (1 << 20 in the code)

ASSUME PageAssumption == PageSize \in Nat \ {0}

-----------------------------------------------------------------------------

\* The addresses of all the pages that hold an address of S.
PagesOf(S) == UNION {LET page == a \div PageSize
                     IN  page * PageSize .. (page * PageSize + PageSize - 1) : a \in S}

\* Faulty PagedAccessRow: the clock ticks for every lane of the row.
PagedAccessTickingLanes(row, written, isWrite, cells) ==
    LET first == row * Lanes
        lanes == LaneAccesses(data, first, Lanes, written, clock, isWrite)
    IN  /\ clock < MaxClock
        /\ clock' = clock + Lanes
        /\ data' = cells
        /\ log' = log \o [i \in 1 .. Lanes |-> [lanes[i] EXCEPT !.writeStamp = clock + i]]
        /\ UNCHANGED <<saved, start>>

\* One logical access of a paged memory: the clock ticks and every lane is
\* logged, whatever becomes of the cells.
PagedAccessRow(row, written, isWrite, cells) ==
    LET first == row * Lanes
    IN  /\ clock < MaxClock
        /\ clock' = clock + 1
        /\ data' = cells
        /\ log' = log \o LaneAccesses(data, first, Lanes, written, clock + 1, isWrite)
        /\ UNCHANGED <<saved, start>>

\* Faulty PagedReadRow: whether there is a page is asked for the first lane only.
PagedReadFirstPage(row) ==
    LET first  == row * Lanes
        values == ValuesFrom(data, first, Lanes)
    IN  PagedAccessRow(row, values, FALSE,
            IF first \in DOMAIN data
            THEN Restamp(data, first, Lanes, values, clock + 1, DOMAIN data)
            ELSE data)

\* RD_PRAM: the lanes whose page is allocated are restamped, and only those.
PagedReadRow(row) ==
    LET first  == row * Lanes
        values == ValuesFrom(data, first, Lanes)
    IN  PagedAccessRow(row, values, FALSE,
            Restamp(data, first, Lanes, values, clock + 1, DOMAIN data))

\* WR_PRAM: the page of each lane is allocated if it is not there.
PagedWriteRow(row) ==
    LET first == row * Lanes
    IN  \E written \in [0 .. (Lanes - 1) -> Value] :
            PagedAccessRow(row, written, TRUE,
                Restamp(data, first, Lanes, written, clock + 1,
                        DOMAIN data \cup PagesOf(LanesFrom(first, Lanes))))

\* Restore: every decoded cell is put into the page of this machine it falls within.
RestoreFrom(checkpoint) ==
    LET cells    == UnpackTimed(checkpoint.page, Lanes)
        restored == [a \in PagesOf(DOMAIN cells) |-> CellAt(cells, a)]
    IN  /\ clock' = checkpoint.clock
        /\ data' = restored
        /\ start' = [cells |-> restored, clock |-> checkpoint.clock]
        /\ log' = <<>>
        /\ UNCHANGED saved

\* The machine is restored from a checkpoint that another took, one of other
\* pages: some rows, all their lanes, each with the stamp of the access that
\* touched it last, no two with the same, or untouched.  (Bound: it has not run
\* since it was made or booted, as RestoreAndTraceFor's has not.)
PagedRestore ==
    /\ data = <<>> /\ log = <<>>
    /\ \E time \in 0 .. MaxClock, rows \in SUBSET Row :
       \E stamps \in [rows -> 0 .. time],
          values \in [UNION {LanesFrom(r * Lanes, Lanes) : r \in rows} -> Value] :
          /\ \A r, s \in rows : stamps[r] = stamps[s] => r = s \/ stamps[r] = 0
          /\ \A a \in DOMAIN values : stamps[a \div Lanes] = 0 => values[a] = Zero
          /\ RestoreFrom([clock |-> time, page |-> [values |-> values, stamps |-> stamps]])

PagedNext ==
    \/ \E row \in Row : PagedReadRow(row) \/ PagedWriteRow(row)
    \/ PagedRestore
    \/ Initialise

PagedSpec == Init /\ [][PagedNext]_vars

-----------------------------------------------------------------------------

\* The log of a paged memory splits into accesses by equal write stamps as that
\* of an unpaged one does, and the records of an access agree on the stamp they
\* read, with one exception: lanes on two pages, one of which had lost its stamp
\* because an access recorded before it found no page there.
PagedAccessesRecoverable ==
    /\ Len(log) = Lanes * (clock - start.clock)
    /\ \A i \in 1 .. Len(log) :
          /\ log[i].writeStamp = start.clock + 1 + ((i - 1) \div Lanes)
          /\ log[i].address % Lanes = (i - 1) % Lanes
    /\ \A i, j \in 1 .. Len(log) : log[i].writeStamp = log[j].writeStamp =>
          /\ log[i].address \div Lanes = log[j].address \div Lanes
          /\ log[i].isWrite = log[j].isWrite
          /\ log[i].readStamp # log[j].readStamp =>
                /\ log[i].address \div PageSize # log[j].address \div PageSize
                /\ \E k \in {i, j} : log[k].readStamp = 0 /\ ~FirstAt(k)

\* The values of the log are chained although the stamps are not: a read finds
\* what the last record of the address left there, or what the recording
\* started from.  Sparsity is the only reason a stamp is lost: a record whose
\* read side is not the write side of the record before it reads zero from a
\* page that was allocated by no write before it.
ChainBreaksOnlyUnallocated ==
    \A j \in 1 .. Len(log) :
        /\ FirstAt(j) => log[j].valueRead = CellAt(start.cells, log[j].address).value
        /\ \A i \in 1 .. Len(log) : NextAt(i, j) =>
              /\ log[j].valueRead = log[i].valueWritten
              /\ log[j].readStamp # log[i].writeStamp =>
                    /\ log[j].readStamp = 0 /\ log[j].valueRead = Zero
                    /\ ~log[i].isWrite
                    /\ \A k \in 1 .. i : log[k].isWrite =>
                          log[k].address \div PageSize # log[j].address \div PageSize
=============================================================================
