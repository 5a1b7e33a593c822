------------------------ MODULE RandomAccess_proofs -------------------------
(***************************************************************************)
(* Proofs about RandomAccess, for every set of rows, every number of       *)
(* lanes, every set of values and every bound on the clock, and after them *)
(* those about PagedRandomAccess.                                          *)
(*                                                                         *)
(* RecordingInv is inductive.  What a record of the log reads is what the  *)
(* cell held (LaneAccesses), and by CellsMatchLog a cell holds what the    *)
(* last record of its address wrote: this is the chain.  A Restore breaks  *)
(* nothing because it empties the log and takes the restored cells as the  *)
(* new start; that those are Sound needs that a checkpoint, which keeps    *)
(* one stamp per row, loses nothing (RoundTrip), because the cells of a    *)
(* row are always stamped alike.                                           *)
(*                                                                         *)
(* RandomAccess also implements MemoryContract.                            *)
(* The contract's rows are read off the cells.  An access restamps the     *)
(* lanes of one row and no other cell (RestampedCells), so it changes one  *)
(* row of the contract; that the array grows below it shows nowhere,       *)
(* because a cell that is not there reads as the zero it would be filled   *)
(* with.  The contract's accesses are groups of Lanes records, and the     *)
(* records of an access are a group of their own because the log holds     *)
(* whole groups (LogGrouped).  A checkpoint keeps the rows because         *)
(* unpacking what was packed is the identity (RoundTrip).                  *)
(***************************************************************************)
EXTENDS PagedRandomAccess, SequenceTheorems, TLAPS

-----------------------------------------------------------------------------
\* Arithmetic of rows and lanes.

\* The cells of row r are those at r * L .. r * L + L - 1.
LEMMA DivRow ==
    ASSUME NEW L \in Nat \ {0}, NEW r \in Nat, NEW a \in Nat
    PROVE  /\ a \div L \in Nat
           /\ a \div L = r <=> a \in LanesFrom(r * L, L)
<1>1. a \div L \in Nat
  BY SMT
<1> DEFINE q == a \div L
<1>2. a = L * q + (a % L) /\ a % L \in 0 .. (L - 1)
  BY SMT
<1>3. r * L \in Nat /\ L * q \in Nat
  BY <1>1, SMT
<1>4. q = r => a \in LanesFrom(r * L, L)
  BY <1>1, <1>2, <1>3, SMT DEF LanesFrom
<1>5. ASSUME q < r PROVE a \notin LanesFrom(r * L, L)
  BY <1>1, <1>2, <1>3, <1>5, SMT DEF LanesFrom
<1>6. ASSUME q > r PROVE a \notin LanesFrom(r * L, L)
  BY <1>1, <1>2, <1>3, <1>6, SMT DEF LanesFrom
<1> QED BY <1>1, <1>4, <1>5, <1>6

\* A cell is a cell wherever it is read.
LEMMA CellAtType ==
    ASSUME NEW cells, IsMemory(cells), NEW a
    PROVE  CellAt(cells, a) \in Cell
BY ZeroAssumption DEF CellAt, IsMemory, Cell, ZeroCell

\* The latest of a set with one element is that element.
LEMMA LatestOfOne ==
    ASSUME NEW x \in Nat
    PROVE  Latest({x}) = x
<1>1. \E m \in {x} : \A s \in {x} : s =< m
  BY SMT
<1> QED BY <1>1 DEF Latest

-----------------------------------------------------------------------------
\* Checkpoints.

\* Saving sound cells and restoring them gives the same cells.
LEMMA RoundTrip ==
    ASSUME NEW cells, NEW t, Sound(cells, t)
    PROVE  UnpackTimed(PackTimed(cells, Lanes), Lanes) = cells
<1> USE LanesAssumption
<1> DEFINE page == PackTimed(cells, Lanes)
           rowCells(r) == {b \in DOMAIN cells : b \div Lanes = r}
           rowStamps(r) == {cells[a].stamp : a \in rowCells(r)}
<1>1. DOMAIN page.values = DOMAIN cells
  BY DEF PackTimed
<1>2. ASSUME NEW a \in DOMAIN cells
      PROVE  page.stamps[a \div Lanes] = cells[a].stamp
  <2>1. cells[a].stamp \in Nat
    BY DEF Sound, IsMemory, Cell
  <2>2. rowStamps(a \div Lanes) = {cells[a].stamp}
    BY DEF Sound
  <2>3. page.stamps[a \div Lanes] = Latest(rowStamps(a \div Lanes))
    BY DEF PackTimed
  <2> QED BY <2>1, <2>2, <2>3, LatestOfOne
<1>3. ASSUME NEW a \in DOMAIN cells
      PROVE  [value |-> page.values[a], stamp |-> page.stamps[a \div Lanes]] = cells[a]
  <2>1. page.values[a] = cells[a].value
    BY DEF PackTimed
  <2>2. cells[a] \in Cell
    BY DEF Sound, IsMemory
  <2> QED BY <1>2, <2>1, <2>2 DEF Cell
<1>4. cells = [a \in DOMAIN cells |-> cells[a]]
  BY DEF Sound, IsMemory
<1>5. UnpackTimed(page, Lanes) = [a \in DOMAIN cells |-> cells[a]]
  BY <1>1, <1>3, Zenon DEF UnpackTimed
<1> QED BY <1>4, <1>5

-----------------------------------------------------------------------------
\* One access.

\* The cells of a row of a sound memory are all there or all not, and carry one
\* stamp.
LEMMA RowStampedAlike ==
    ASSUME NEW cells, NEW t, Sound(cells, t), NEW a \in Nat, NEW b \in Nat,
           a \div Lanes = b \div Lanes
    PROVE  /\ a \in DOMAIN cells <=> b \in DOMAIN cells
           /\ CellAt(cells, a).stamp = CellAt(cells, b).stamp
<1> USE LanesAssumption
<1>1. ASSUME NEW c \in Nat PROVE c \in LanesFrom((c \div Lanes) * Lanes, Lanes)
  BY DivRow
<1>2. a \in DOMAIN cells <=> b \in DOMAIN cells
  BY <1>1 DEF Sound
<1> QED BY <1>2 DEF Sound, CellAt

\* Restamping a row keeps a memory sound, whatever whole rows it is backed by.
LEMMA RestampOverSound ==
    ASSUME NEW cells, NEW t \in Nat, Sound(cells, t), NEW row \in Nat,
           NEW written \in [0 .. (Lanes - 1) -> Value],
           NEW backing, DOMAIN cells \subseteq backing, backing \subseteq Nat,
           \A a \in backing : LanesFrom((a \div Lanes) * Lanes, Lanes) \subseteq backing
    PROVE  Sound(Restamp(cells, row * Lanes, Lanes, written, t + 1, backing), t + 1)
<1> USE LanesAssumption
<1> DEFINE first == row * Lanes
           touched == LanesFrom(first, Lanes)
           new == Restamp(cells, first, Lanes, written, t + 1, backing)
<1>1. first \in Nat
  BY SMT
<1>2. ASSUME NEW a \in Nat
      PROVE  a \div Lanes \in Nat /\ (a \in touched <=> a \div Lanes = row)
  BY DivRow
<1>3. ASSUME NEW a \in touched PROVE written[a - first] \in Value
  BY <1>1, SMT DEF LanesFrom
<1>4. DOMAIN new = backing /\ new = [a \in backing |-> new[a]]
  BY DEF Restamp
<1>5. ASSUME NEW a \in backing
      PROVE  /\ a \in touched => new[a] = [value |-> written[a - first], stamp |-> t + 1]
             /\ a \notin touched => new[a] = CellAt(cells, a)
  BY DEF Restamp
<1>6. ASSUME NEW a
      PROVE  CellAt(cells, a) \in Cell /\ CellAt(cells, a).stamp =< t
  BY CellAtType DEF Sound, CellAt, ZeroCell
<1> HIDE DEF new, touched, first
<1>7. ASSUME NEW a \in backing PROVE new[a] \in Cell /\ new[a].stamp =< t + 1
  <2>1. CASE a \in touched
    <3>1. new[a] = [value |-> written[a - first], stamp |-> t + 1]
      BY <1>5, <2>1, Zenon
    <3>2. t + 1 \in Nat /\ t + 1 =< t + 1
      BY SMT
    <3> QED BY <1>3, <2>1, <3>1, <3>2 DEF Cell
  <2>2. CASE a \notin touched
    <3>1. new[a] = CellAt(cells, a)
      BY <1>5, <2>2
    <3>2. new[a] \in Cell /\ new[a].stamp =< t /\ new[a].stamp \in Nat
      BY <1>6, <3>1 DEF Cell
    <3> QED BY <3>2, SMT
  <2> QED BY <2>1, <2>2
<1>8. ASSUME NEW a \in backing, NEW b \in backing, a \div Lanes = b \div Lanes
      PROVE  new[a].stamp = new[b].stamp
  <2>1. a \in Nat /\ b \in Nat /\ (a \in touched <=> b \in touched)
    BY <1>2, <1>8
  <2>2. CASE a \in touched
    <3>1. /\ new[a] = [value |-> written[a - first], stamp |-> t + 1]
          /\ new[b] = [value |-> written[b - first], stamp |-> t + 1]
      BY <1>5, <2>1, <2>2, Zenon
    <3> QED BY <3>1
  <2>3. CASE a \notin touched
    <3>1. CellAt(cells, a).stamp = CellAt(cells, b).stamp
      BY <1>8, <2>1, RowStampedAlike
    <3> QED BY <1>5, <2>1, <2>3, <3>1
  <2> QED BY <2>2, <2>3
<1>9. new \in [backing -> Cell] /\ IsMemory(new)
  BY <1>4, <1>7 DEF IsMemory
<1>10. Sound(new, t + 1)
  BY <1>4, <1>7, <1>8, <1>9 DEF Sound
<1> QED BY <1>10 DEF new, first

\* Restamping a row keeps an array that grows up to it sound.
LEMMA RestampSound ==
    ASSUME NEW cells, NEW t \in Nat, Sound(cells, t), NEW row \in Nat,
           NEW written \in [0 .. (Lanes - 1) -> Value],
           NEW backing, backing = DOMAIN cells \cup 0 .. (row * Lanes + Lanes - 1)
    PROVE  Sound(Restamp(cells, row * Lanes, Lanes, written, t + 1, backing), t + 1)
<1> USE LanesAssumption
<1> DEFINE first == row * Lanes
           zone == 0 .. (first + Lanes - 1)
<1>1. first \in Nat /\ backing = DOMAIN cells \cup zone
  BY SMT
<1>2. ASSUME NEW a \in Nat PROVE a \div Lanes \in Nat
  BY DivRow
<1>3. zone = {a \in Nat : a \div Lanes =< row}
  <2>1. ASSUME NEW a \in Nat, a \div Lanes =< row PROVE a \in zone
    <3>1. a < (a \div Lanes) * Lanes + Lanes
      BY <1>2, DivRow, SMT DEF LanesFrom
    <3>2. (a \div Lanes) * Lanes =< row * Lanes
      BY <1>2, <2>1, SMT
    <3> QED BY <1>2, <3>1, <3>2, SMT
  <2>2. ASSUME NEW a \in Nat, a \div Lanes > row PROVE a \notin zone
    <3> DEFINE x == (a \div Lanes) * Lanes
               y == (row + 1) * Lanes
    <3>1. x =< a /\ x \in Nat
      <4>1. x \in Nat
        BY <1>2, SMT
      <4>2. a \in LanesFrom(x, Lanes)
        BY <1>2, DivRow
      <4> HIDE DEF x
      <4> QED BY <4>1, <4>2, SMT DEF LanesFrom
    <3>2. y =< x /\ y = first + Lanes
      BY <1>2, <2>2, SMT
    <3> HIDE DEF x, y, first
    <3> QED BY <1>1, <3>1, <3>2, SMT
  <2>3. zone \subseteq Nat
    BY <1>1, SMT
  <2> HIDE DEF zone
  <2>4. ASSUME NEW a PROVE a \in zone <=> a \in Nat /\ a \div Lanes =< row
    <3>1. CASE a \notin Nat
      BY <2>3, <3>1
    <3>2. CASE a \in Nat /\ a \div Lanes =< row
      BY <2>1, <3>2
    <3>3. CASE a \in Nat /\ ~(a \div Lanes =< row)
      <4>1. a \div Lanes > row
        BY <1>2, <3>3, SMT
      <4> QED BY <2>2, <3>3, <4>1
    <3> QED BY <3>1, <3>2, <3>3
  <2> QED BY <2>4, Zenon
<1> HIDE DEF zone
<1>4. backing \subseteq Nat /\ DOMAIN cells \subseteq Nat
  BY <1>1, <1>3 DEF Sound, IsMemory
<1>5. ASSUME NEW a \in Nat, NEW b \in LanesFrom((a \div Lanes) * Lanes, Lanes)
      PROVE  b \in Nat /\ b \div Lanes = a \div Lanes
  <2>1. (a \div Lanes) * Lanes \in Nat
    BY <1>2, SMT
  <2>2. b \in Nat
    BY <2>1, SMT DEF LanesFrom
  <2> QED BY <1>2, <2>2, DivRow
<1>6. ASSUME NEW a \in backing, NEW b \in LanesFrom((a \div Lanes) * Lanes, Lanes)
      PROVE  b \in backing
  <2>1. a \in Nat /\ b \in Nat /\ b \div Lanes = a \div Lanes
    BY <1>4, <1>5, <1>6
  <2>2. a \in DOMAIN cells => b \in DOMAIN cells
    BY <2>1, RowStampedAlike
  <2> QED BY <1>1, <1>3, <2>1, <2>2
<1> QED BY <1>1, <1>4, <1>6, RestampOverSound

\* The records of an access to the row at first: one per lane, of consecutive
\* addresses, each reading what its cell held.
AreLaneRecords(records, cells, first, written, t, isWrite) ==
    /\ records \in Seq(Access) /\ Len(records) = Lanes
    /\ \A l \in 1 .. Lanes :
          /\ records[l].address = first + l - 1
          /\ records[l].valueRead = CellAt(cells, first + l - 1).value
          /\ records[l].readStamp = CellAt(cells, first + l - 1).stamp
          /\ records[l].valueWritten = written[l - 1]
          /\ records[l].writeStamp = t
          /\ records[l].isWrite = isWrite

\* These are what one access appends to the log.
LEMMA LaneAccessesShape ==
    ASSUME NEW cells, IsMemory(cells), NEW t \in Nat, NEW first \in Nat,
           NEW written \in [0 .. (Lanes - 1) -> Value], NEW isWrite \in BOOLEAN
    PROVE  AreLaneRecords(LaneAccesses(cells, first, Lanes, written, t, isWrite),
                          cells, first, written, t, isWrite)
<1> USE LanesAssumption
<1> DEFINE lanes == LaneAccesses(cells, first, Lanes, written, t, isWrite)
<1>1. ASSUME NEW l \in 1 .. Lanes
      PROVE  lanes[l] \in Access
  <2>1. first + l - 1 \in Nat /\ l - 1 \in 0 .. (Lanes - 1)
    BY SMT
  <2>2. written[l - 1] \in Value
    BY <2>1
  <2>3. CellAt(cells, first + l - 1) \in Cell
    BY CellAtType
  <2> QED BY <2>1, <2>2, <2>3 DEF LaneAccesses, Access, Cell
<1>2. lanes = [l \in 1 .. Lanes |-> lanes[l]]
  BY DEF LaneAccesses
<1>3. lanes \in [1 .. Lanes -> Access]
  BY <1>1, <1>2
<1>4. lanes \in Seq(Access) /\ Len(lanes) = Lanes
  <2> HIDE DEF lanes
  <2> QED BY <1>3, SMT
<1>5. ASSUME NEW l \in 1 .. Lanes
      PROVE  /\ lanes[l].address = first + l - 1
             /\ lanes[l].valueRead = CellAt(cells, first + l - 1).value
             /\ lanes[l].readStamp = CellAt(cells, first + l - 1).stamp
             /\ lanes[l].valueWritten = written[l - 1]
             /\ lanes[l].writeStamp = t
             /\ lanes[l].isWrite = isWrite
  BY DEF LaneAccesses
<1> HIDE DEF lanes
<1>6. AreLaneRecords(lanes, cells, first, written, t, isWrite)
  BY <1>4, <1>5 DEF AreLaneRecords
<1> QED BY <1>6 DEF lanes

\* Record l after n others, the lanes of k accesses: its place tells which it is.
LEMMA PlaceInLog ==
    ASSUME NEW k \in Nat, NEW n, n = Lanes * k, NEW l \in 1 .. Lanes
    PROVE  /\ n \in Nat
           /\ n + l - 1 \in Nat
           /\ (n + l - 1) \div Lanes = k
           /\ (n + l - 1) % Lanes = l - 1
<1> USE LanesAssumption
<1>1. n \in Nat /\ n = k * Lanes
  BY SMT
<1> DEFINE i == n + l - 1
<1>2. i \in Nat /\ i \in LanesFrom(n, Lanes)
  BY <1>1, SMT DEF LanesFrom
<1>3. i \div Lanes = k
  BY <1>1, <1>2, DivRow
<1>4. i = l - 1 + n
  BY <1>1, SMT
<1> HIDE DEF i
<1>5. i = Lanes * (i \div Lanes) + (i % Lanes) /\ i % Lanes \in Int
  BY <1>2, SMT
<1>6. i = n + (i % Lanes)
  BY <1>3, <1>5
<1>7. i % Lanes = l - 1
  BY <1>1, <1>4, <1>5, <1>6, SMT
<1> QED BY <1>1, <1>2, <1>3, <1>7 DEF i

\* The log splits into accesses by equal write stamps, whatever these read.
LogSplits ==
    /\ Len(log) = Lanes * (clock - start.clock)
    /\ \A i \in 1 .. Len(log) :
          /\ log[i].writeStamp = start.clock + 1 + ((i - 1) \div Lanes)
          /\ log[i].address % Lanes = (i - 1) % Lanes
    /\ \A i, j \in 1 .. Len(log) : log[i].writeStamp = log[j].writeStamp =>
          /\ log[i].address \div Lanes = log[j].address \div Lanes
          /\ log[i].isWrite = log[j].isWrite

\* It does, and no record is later than the clock.
SplitInv ==
    /\ clock \in Nat /\ start.clock \in 0 .. clock
    /\ log \in Seq(Access)
    /\ LogSplits
    /\ \A i \in 1 .. Len(log) : log[i].writeStamp =< clock

\* The log splits into accesses that read one stamp each.
RecoverableInv ==
    /\ clock \in Nat /\ start.clock \in 0 .. clock
    /\ log \in Seq(Access)
    /\ AccessesRecoverable
    /\ \A i \in 1 .. Len(log) : log[i].writeStamp =< clock

\* That is, it splits and the records of an access agree on the stamp.
LEMMA RecoverableSplits ==
    RecoverableInv <=>
        /\ SplitInv
        /\ \A i, j \in 1 .. Len(log) :
              log[i].writeStamp = log[j].writeStamp => log[i].readStamp = log[j].readStamp
BY Zenon DEF RecoverableInv, AccessesRecoverable, SplitInv, LogSplits

\* What an access does to the clock and to the log.
Logs(row, written, isWrite) ==
    /\ clock' = clock + 1 /\ start' = start
    /\ log' = log \o LaneAccesses(data, row * Lanes, Lanes, written, clock + 1, isWrite)

\* Records i and j of one access are both old, or lanes of the access to row.
OldOrNew(i, j, row) ==
    \/ /\ i \in 1 .. Len(log) /\ log'[i] = log[i]
       /\ j \in 1 .. Len(log) /\ log'[j] = log[j]
    \/ \E a, b \in Nat :
          /\ a \div Lanes = row /\ b \div Lanes = row
          /\ log'[i].address = a /\ log'[i].readStamp = CellAt(data, a).stamp
          /\ log'[j].address = b /\ log'[j].readStamp = CellAt(data, b).stamp

\* A log that splits into accesses still does after one more.
LEMMA SplitsAfterAccess ==
    ASSUME SplitInv, IsMemory(data),
           NEW row \in Nat, NEW isWrite \in BOOLEAN,
           NEW written \in [0 .. (Lanes - 1) -> Value], Logs(row, written, isWrite)
    PROVE  /\ SplitInv'
           /\ \A i, j \in 1 .. Len(log') :
                 log'[i].writeStamp = log'[j].writeStamp => OldOrNew(i, j, row)
<1> USE LanesAssumption
<1> DEFINE first == row * Lanes
           t == clock + 1
           lanes == LaneAccesses(data, first, Lanes, written, t, isWrite)
           n == Len(log)
<1>0. clock \in Nat /\ start.clock \in 0 .. clock /\ log \in Seq(Access) /\ n \in Nat
  BY DEF SplitInv
<1> PICK k \in Nat : k = clock - start.clock
  BY <1>0, SMT
<1>1. first \in Nat /\ t \in Nat /\ n \in Nat
  BY <1>0, SMT
<1>15. n = Lanes * k
  BY DEF SplitInv, LogSplits
<1>2. AreLaneRecords(lanes, data, first, written, t, isWrite)
  <2> HIDE DEF first, t
  <2> QED BY <1>1, LaneAccessesShape
<1>16. clock' = t /\ start' = start /\ log' = log \o lanes
  BY DEF Logs
<1> HIDE DEF lanes, first, n
<1>3. lanes \in Seq(Access) /\ Len(lanes) = Lanes /\ log' = log \o lanes
  BY <1>2, <1>16 DEF AreLaneRecords
<1>4. log' \in Seq(Access) /\ Len(log') = n + Lanes
  BY <1>0, <1>3, ConcatProperties DEF n
<1>5. ASSUME NEW i \in 1 .. n PROVE log'[i] = log[i]
  BY <1>0, <1>3, SMT DEF n
<1>6. ASSUME NEW l \in 1 .. Lanes PROVE log'[n + l] = lanes[l]
  BY <1>0, <1>3, SMT DEF n
<1>7. ASSUME NEW i \in 1 .. Len(log'), i > n
      PROVE  \E l \in 1 .. Lanes : i = n + l
  <2>1. i - n \in 1 .. Lanes /\ i = n + (i - n)
    BY <1>1, <1>4, <1>7, SMT
  <2> QED BY <2>1
<1>8. ASSUME NEW i \in 1 .. Len(log'), i > n
      PROVE  \E l \in 1 .. Lanes : /\ i = n + l /\ log'[i] = lanes[l]
                                   /\ log'[i].address = first + l - 1
                                   /\ log'[i].writeStamp = t
                                   /\ log'[i].isWrite = isWrite
                                   /\ log'[i].readStamp = CellAt(data, first + l - 1).stamp
  <2>1. PICK l \in 1 .. Lanes : i = n + l
    BY <1>7, <1>8
  <2> QED BY <1>2, <1>6, <2>1 DEF AreLaneRecords
<1>9. ASSUME NEW l \in 1 .. Lanes
      PROVE  /\ first + l - 1 \in Nat
             /\ (first + l - 1) \div Lanes = row /\ (first + l - 1) % Lanes = l - 1
  <2>1. first = Lanes * row
    BY SMT DEF first
  <2> QED BY <2>1, PlaceInLog
<1>10. Len(log') = Lanes * (clock' - start'.clock)
  <2>1. clock' - start'.clock = k + 1
    <3>1. \A c \in Nat, d \in Nat : (c + 1) - d = (c - d) + 1
      BY SMT
    <3>2. start.clock \in Nat
      BY <1>0, SMT
    <3> QED BY <1>0, <1>16, <3>1, <3>2
  <2>2. Lanes * (k + 1) = Lanes * k + Lanes
    BY SMT
  <2> QED BY <1>4, <1>15, <2>1, <2>2
<1>11. ASSUME NEW i \in 1 .. Len(log')
       PROVE  /\ i =< n => i \in 1 .. n /\ log'[i] = log[i]
              /\ log'[i] \in Access
  <2>1. i =< n => i \in 1 .. n
    BY <1>1, SMT
  <2> QED BY <1>4, <1>5, <2>1, ElementOfSeq
<1>12. ASSUME NEW i \in 1 .. Len(log')
       PROVE  /\ log'[i].writeStamp = start'.clock + 1 + ((i - 1) \div Lanes)
              /\ log'[i].address % Lanes = (i - 1) % Lanes
              /\ log'[i].writeStamp =< t
              /\ i =< n => log'[i].writeStamp =< clock
              /\ i > n => log'[i].writeStamp = t
  <2>1. CASE i =< n
    <3>1. i \in 1 .. n /\ log'[i] = log[i] /\ log'[i] \in Access
      BY <1>11, <2>1
    <3>2. /\ log[i].writeStamp = start.clock + 1 + ((i - 1) \div Lanes)
          /\ log[i].address % Lanes = (i - 1) % Lanes
          /\ log[i].writeStamp =< clock
      BY <3>1 DEF SplitInv, LogSplits, n
    <3>3. log'[i].writeStamp \in Nat
      BY <3>1 DEF Access
    <3>5. log'[i].writeStamp =< t
      BY <1>0, <3>1, <3>2, <3>3, SMT
    <3>4. ~(i > n)
      BY <1>1, <2>1, SMT
    <3> QED BY <1>16, <3>1, <3>2, <3>4, <3>5
  <2>2. CASE ~(i =< n)
    <3>1. i > n
      BY <1>1, <1>4, <2>2, SMT
    <3>2. PICK l \in 1 .. Lanes : /\ i = n + l /\ log'[i].address = first + l - 1
                                  /\ log'[i].writeStamp = t
      BY <1>8, <3>1
    <3>3. (i - 1) \div Lanes = k /\ (i - 1) % Lanes = l - 1
      <4>1. i - 1 = n + l - 1
        BY <1>1, <3>2, SMT
      <4>2. (n + l - 1) \div Lanes = k /\ (n + l - 1) % Lanes = l - 1
        BY <1>15, PlaceInLog, Zenon
      <4> QED BY <4>1, <4>2, Zenon
    <3>4. t = start.clock + 1 + k /\ t =< t
      BY <1>0, SMT
    <3> QED BY <1>9, <1>16, <2>2, <3>2, <3>3, <3>4
  <2> QED BY <2>1, <2>2
<1>13. ASSUME NEW i \in 1 .. Len(log'), NEW j \in 1 .. Len(log'),
              log'[i].writeStamp = log'[j].writeStamp
       PROVE  /\ log'[i].address \div Lanes = log'[j].address \div Lanes
              /\ OldOrNew(i, j, row)
              /\ log'[i].isWrite = log'[j].isWrite
  <2>1. i =< n <=> j =< n
    <3>1. i =< n \/ i > n
      BY <1>1, <1>4, SMT
    <3>2. j =< n \/ j > n
      BY <1>1, <1>4, SMT
    <3>3. ~(t =< clock)
      BY <1>0, SMT
    <3> QED BY <1>12, <1>13, <3>1, <3>2, <3>3
  <2>2. CASE i =< n
    <3>1. /\ i \in 1 .. Len(log) /\ log'[i] = log[i]
          /\ j \in 1 .. Len(log) /\ log'[j] = log[j]
      BY <1>11, <2>1, <2>2 DEF n
    <3>2. OldOrNew(i, j, row)
      BY <3>1 DEF OldOrNew
    <3>3. /\ log'[i].address \div Lanes = log'[j].address \div Lanes
          /\ log'[i].isWrite = log'[j].isWrite
      BY <1>13, <3>1, Zenon DEF SplitInv, LogSplits
    <3> QED BY <3>2, <3>3
  <2>3. CASE ~(i =< n)
    <3>1. i > n /\ j > n
      BY <1>1, <1>4, <2>1, <2>3, SMT
    <3>2. PICK l \in 1 .. Lanes : /\ log'[i].address = first + l - 1
                                  /\ log'[i].isWrite = isWrite
                                  /\ log'[i].readStamp = CellAt(data, first + l - 1).stamp
      BY <1>8, <3>1
    <3>3. PICK m \in 1 .. Lanes : /\ log'[j].address = first + m - 1
                                  /\ log'[j].isWrite = isWrite
                                  /\ log'[j].readStamp = CellAt(data, first + m - 1).stamp
      BY <1>8, <3>1
    <3>4. OldOrNew(i, j, row)
      BY <1>9, <3>2, <3>3 DEF OldOrNew
    <3> QED BY <1>9, <3>2, <3>3, <3>4
  <2> QED BY <2>2, <2>3
<1>14. clock' \in Nat /\ start'.clock \in 0 .. clock'
  BY <1>0, <1>16, SMT
<1> QED BY <1>4, <1>10, <1>12, <1>13, <1>14, <1>16 DEF SplitInv, LogSplits

\* A log that splits into accesses of one stamp each still does when the cells
\* of a row carry one stamp.
LEMMA RecoverableAfterAccess ==
    ASSUME RecoverableInv, Sound(data, clock),
           NEW row \in Nat, NEW isWrite \in BOOLEAN,
           NEW written \in [0 .. (Lanes - 1) -> Value], Logs(row, written, isWrite)
    PROVE  RecoverableInv'
<1>1. SplitInv /\ \A i, j \in 1 .. Len(log) :
          log[i].writeStamp = log[j].writeStamp => log[i].readStamp = log[j].readStamp
  BY RecoverableSplits
<1>2. /\ SplitInv'
      /\ \A i, j \in 1 .. Len(log') :
            log'[i].writeStamp = log'[j].writeStamp => OldOrNew(i, j, row)
  BY <1>1, SplitsAfterAccess DEF Sound
<1>3. ASSUME NEW i \in 1 .. Len(log'), NEW j \in 1 .. Len(log'),
             log'[i].writeStamp = log'[j].writeStamp
      PROVE  log'[i].readStamp = log'[j].readStamp
  <2>1. OldOrNew(i, j, row)
    BY <1>2, <1>3
  <2>2. ASSUME NEW a \in Nat, NEW b \in Nat, a \div Lanes = row, b \div Lanes = row
        PROVE  CellAt(data, a).stamp = CellAt(data, b).stamp
    BY <2>2, RowStampedAlike
  <2> QED BY <1>1, <1>3, <2>1, <2>2 DEF OldOrNew
<1> QED BY <1>2, <1>3 DEF RecoverableInv, AccessesRecoverable, SplitInv, LogSplits

\* One access preserves the invariant.
LEMMA AccessPreserves ==
    ASSUME RecordingInv, NEW row \in Row, NEW isWrite \in BOOLEAN,
           NEW written \in [0 .. (Lanes - 1) -> Value],
           AccessRow(row, written, isWrite)
    PROVE  RecordingInv'
<1> USE LanesAssumption
<1> DEFINE first == row * Lanes
           t == clock + 1
           touched == LanesFrom(first, Lanes)
           lanes == LaneAccesses(data, first, Lanes, written, t, isWrite)
           n == Len(log)
<1>1. row \in Nat /\ first \in Nat /\ clock \in Nat /\ t \in Nat
  BY RowAssumption, SMT DEF RecordingInv, MemoriesSound
<1>2. /\ clock' = t /\ log' = log \o lanes
      /\ data' = Restamp(data, first, Lanes, written, t, Expanded(first))
      /\ UNCHANGED <<saved, start>>
  BY DEF AccessRow
<1>3. Sound(data, clock) /\ IsMemory(data)
  BY DEF RecordingInv, MemoriesSound, Sound
<1>4. Sound(data', t)
  BY <1>1, <1>2, <1>3, RestampSound DEF Expanded
<1>5. /\ lanes \in Seq(Access) /\ Len(lanes) = Lanes
      /\ \A l \in 1 .. Lanes :
            /\ lanes[l].address = first + l - 1
            /\ lanes[l].valueRead = CellAt(data, first + l - 1).value
            /\ lanes[l].readStamp = CellAt(data, first + l - 1).stamp
            /\ lanes[l].valueWritten = written[l - 1]
            /\ lanes[l].writeStamp = t
  <2> HIDE DEF first, t
  <2>1. AreLaneRecords(lanes, data, first, written, t, isWrite)
    BY <1>1, <1>3, LaneAccessesShape
  <2> QED BY <2>1 DEF AreLaneRecords
<1>6. log \in Seq(Access) /\ n \in Nat
  BY DEF RecordingInv
<1> HIDE DEF first, lanes, n
<1>7. /\ log' \in Seq(Access) /\ Len(log') = n + Lanes
      /\ \A i \in 1 .. n : log'[i] = log[i]
      /\ \A l \in 1 .. Lanes : log'[n + l] = lanes[l]
  <2>1. log' \in Seq(Access) /\ Len(log') = n + Lanes
    BY <1>2, <1>5, <1>6, ConcatProperties DEF n
  <2>2. ASSUME NEW i \in 1 .. n PROVE log'[i] = log[i]
    BY <1>2, <1>5, <1>6, SMT DEF n
  <2>3. ASSUME NEW l \in 1 .. Lanes PROVE log'[n + l] = lanes[l]
    BY <1>2, <1>5, <1>6, SMT DEF n
  <2> QED BY <2>1, <2>2, <2>3
<1>8. ASSUME NEW j \in 1 .. Len(log'), j > n
      PROVE  \E l \in 1 .. Lanes : j = n + l
  <2>1. j - n \in 1 .. Lanes /\ j = n + (j - n)
    BY <1>6, <1>7, <1>8, SMT
  <2> QED BY <2>1
<1>9. ASSUME NEW a \in touched
      PROVE  \E l \in 1 .. Lanes : a = first + l - 1
  <2>1. a - first + 1 \in 1 .. Lanes /\ a = first + (a - first + 1) - 1
    BY <1>1, SMT DEF LanesFrom
  <2> QED BY <2>1
<1>10. ASSUME NEW l \in 1 .. Lanes
       PROVE  /\ first + l - 1 \in touched
              /\ CellAt(data', first + l - 1) = [value |-> written[l - 1], stamp |-> t]
  <2>1. first + l - 1 \in touched /\ first + l - 1 \in Expanded(first)
    BY <1>1, SMT DEF LanesFrom, Expanded
  <2>2. (first + l - 1) - first = l - 1
    BY <1>1, SMT
  <2> QED BY <1>2, <2>1, <2>2 DEF CellAt, Restamp
<1>11. ASSUME NEW a, a \notin touched
       PROVE  CellAt(data', a) = CellAt(data, a)
  <2>1. CASE a \in Expanded(first)
    BY <1>2, <1>11, <2>1 DEF CellAt, Restamp
  <2>2. CASE a \notin Expanded(first)
    BY <1>2, <1>11, <2>2 DEF CellAt, Restamp, Expanded
  <2> QED BY <2>1, <2>2
<1> HIDE DEF touched, t
<1>12. MemoriesSound'
  BY <1>1, <1>2, <1>4, SMT DEF RecordingInv, MemoriesSound, t
<1>13. ReadsThePast'
  <2>1. ASSUME NEW i \in 1 .. Len(log')
        PROVE  log'[i].readStamp < log'[i].writeStamp /\ log'[i].writeStamp =< t
    <3>1. CASE i =< n
      <4>1. i \in 1 .. n /\ log'[i] = log[i]
        BY <1>6, <1>7, <3>1, SMT
      <4>2. log[i].readStamp < log[i].writeStamp /\ log[i].writeStamp =< clock
        BY <4>1 DEF RecordingInv, ReadsThePast, n
      <4>3. log[i].writeStamp \in Nat
        <5>1. log[i] \in Access
          BY <1>6, <4>1, ElementOfSeq DEF n
        <5> QED BY <5>1 DEF Access
      <4> QED BY <1>1, <4>1, <4>2, <4>3, SMT DEF t
    <3>2. CASE i > n
      <4>1. PICK l \in 1 .. Lanes : i = n + l
        BY <1>8, <3>2
      <4>2. CellAt(data, first + l - 1) \in Cell
        BY <1>3, CellAtType
      <4>3. CellAt(data, first + l - 1).stamp =< clock
        BY <1>1, <1>3, SMT DEF Sound, CellAt, ZeroCell
      <4> QED BY <1>1, <1>5, <1>7, <4>1, <4>2, <4>3, SMT DEF Cell, t
    <3> QED BY <1>6, <1>7, <3>1, <3>2, SMT
  <2> QED BY <1>2, <2>1 DEF ReadsThePast
<1>14. CellsMatchLog'
  <2>1. ASSUME NEW i \in 1 .. Len(log'),
               \A k \in (i + 1) .. Len(log') : log'[k].address # log'[i].address
        PROVE  CellAt(data', log'[i].address) =
                 [value |-> log'[i].valueWritten, stamp |-> log'[i].writeStamp]
    <3>1. CASE i > n
      <4>1. PICK l \in 1 .. Lanes : i = n + l
        BY <1>8, <3>1
      <4> QED BY <1>5, <1>7, <1>10, <4>1
    <3>2. CASE i =< n
      <4>1. i \in 1 .. n /\ log'[i] = log[i]
        BY <1>6, <1>7, <3>2, SMT
      <4>2. ASSUME NEW k \in (i + 1) .. n PROVE log[k].address # log[i].address
        <5>1. k \in (i + 1) .. Len(log') /\ k \in 1 .. n
          BY <1>6, <1>7, <4>1, SMT
        <5> QED BY <1>7, <2>1, <4>1, <5>1
      <4>3. log[i].address \notin touched
        <5>1. SUFFICES ASSUME log[i].address \in touched PROVE FALSE
          OBVIOUS
        <5>2. PICK l \in 1 .. Lanes : log[i].address = first + l - 1
          BY <1>9, <5>1
        <5>3. n + l \in (i + 1) .. Len(log')
          BY <1>6, <1>7, <4>1, SMT
        <5> QED BY <1>5, <1>7, <2>1, <4>1, <5>2, <5>3
      <4>4. CellAt(data, log[i].address) =
              [value |-> log[i].valueWritten, stamp |-> log[i].writeStamp]
        BY <4>1, <4>2 DEF RecordingInv, CellsMatchLog, n
      <4> QED BY <1>11, <4>1, <4>3, <4>4
    <3> QED BY <1>6, <1>7, <3>1, <3>2, SMT
  <2>2. ASSUME NEW a \in DOMAIN data' \cup DOMAIN start'.cells,
               \A k \in 1 .. Len(log') : log'[k].address # a
        PROVE  CellAt(data', a) = CellAt(start'.cells, a)
    <3>1. a \notin touched
      <4>1. SUFFICES ASSUME a \in touched PROVE FALSE
        OBVIOUS
      <4>2. PICK l \in 1 .. Lanes : a = first + l - 1
        BY <1>9, <4>1
      <4>3. n + l \in 1 .. Len(log')
        BY <1>6, <1>7, SMT
      <4> QED BY <1>5, <1>7, <2>2, <4>2, <4>3
    <3>2. ASSUME NEW k \in 1 .. n PROVE log[k].address # a
      <4>1. k \in 1 .. Len(log')
        BY <1>6, <1>7, SMT
      <4> QED BY <1>7, <2>2, <4>1
    <3>3. CellAt(data, a) = CellAt(start.cells, a)
      <4>1. CASE a \in DOMAIN data \cup DOMAIN start.cells
        BY <3>2, <4>1 DEF RecordingInv, CellsMatchLog, n
      <4>2. CASE a \notin DOMAIN data \cup DOMAIN start.cells
        BY <4>2 DEF CellAt
      <4> QED BY <4>1, <4>2
    <3> QED BY <1>2, <1>11, <3>1, <3>3
  <2> QED BY <2>1, <2>2 DEF CellsMatchLog
<1>15. LogChained'
  <2>1. ASSUME NEW j \in 1 .. Len(log'), NEW i \in 1 .. Len(log'), i < j,
               log'[i].address = log'[j].address,
               \A k \in (i + 1) .. (j - 1) : log'[k].address # log'[j].address
        PROVE  /\ log'[j].valueRead = log'[i].valueWritten
               /\ log'[j].readStamp = log'[i].writeStamp
    <3>1. CASE j =< n
      <4>1. i \in 1 .. n /\ j \in 1 .. n /\ log'[i] = log[i] /\ log'[j] = log[j]
        BY <1>6, <1>7, <2>1, <3>1, SMT
      <4>2. ASSUME NEW k \in (i + 1) .. (j - 1) PROVE log[k].address # log[j].address
        <5>1. k \in 1 .. n
          BY <1>6, <4>1, SMT
        <5> QED BY <1>7, <2>1, <4>1, <5>1
      <4> QED BY <2>1, <4>1, <4>2 DEF RecordingInv, LogChained, NextAt, n
    <3>2. CASE j > n
      <4>1. PICK l \in 1 .. Lanes : j = n + l
        BY <1>8, <3>2
      <4>2. log'[j].address = first + l - 1
        BY <1>5, <1>7, <4>1
      <4>3. i =< n
        <5>1. SUFFICES ASSUME i > n PROVE FALSE
          BY <1>6, <1>7, SMT
        <5>2. PICK m \in 1 .. Lanes : i = n + m
          BY <1>8, <5>1
        <5>3. log'[i].address = first + m - 1
          BY <1>5, <1>7, <5>2
        <5> QED BY <1>1, <1>6, <2>1, <4>1, <4>2, <5>2, <5>3, SMT
      <4>4. i \in 1 .. n /\ log'[i] = log[i]
        BY <1>6, <1>7, <4>3, SMT
      <4>5. ASSUME NEW k \in (i + 1) .. n PROVE log[k].address # log[i].address
        <5>1. k \in (i + 1) .. (j - 1) /\ k \in 1 .. n
          BY <1>6, <4>1, <4>4, SMT
        <5> QED BY <1>7, <2>1, <4>4, <5>1
      <4>6. CellAt(data, log[i].address) =
              [value |-> log[i].valueWritten, stamp |-> log[i].writeStamp]
        BY <4>4, <4>5 DEF RecordingInv, CellsMatchLog, n
      <4> QED BY <1>5, <1>7, <2>1, <4>1, <4>2, <4>4, <4>6
    <3> QED BY <1>6, <1>7, <3>1, <3>2, SMT
  <2>2. ASSUME NEW j \in 1 .. Len(log'),
               \A k \in 1 .. (j - 1) : log'[k].address # log'[j].address
        PROVE  /\ log'[j].valueRead = CellAt(start'.cells, log'[j].address).value
               /\ log'[j].readStamp = CellAt(start'.cells, log'[j].address).stamp
    <3>1. CASE j =< n
      <4>1. j \in 1 .. n /\ log'[j] = log[j]
        BY <1>6, <1>7, <3>1, SMT
      <4>2. ASSUME NEW k \in 1 .. (j - 1) PROVE log[k].address # log[j].address
        <5>1. k \in 1 .. n
          BY <1>6, <4>1, SMT
        <5> QED BY <1>7, <2>2, <4>1, <5>1
      <4> QED BY <1>2, <4>1, <4>2 DEF RecordingInv, LogChained, FirstAt, n
    <3>2. CASE j > n
      <4>1. PICK l \in 1 .. Lanes : j = n + l
        BY <1>8, <3>2
      <4>2. log'[j].address = first + l - 1
        BY <1>5, <1>7, <4>1
      <4>3. ASSUME NEW k \in 1 .. n PROVE log[k].address # first + l - 1
        <5>1. k \in 1 .. (j - 1)
          BY <1>6, <4>1, SMT
        <5> QED BY <1>7, <2>2, <4>2, <5>1
      <4>4. CellAt(data, first + l - 1) = CellAt(start.cells, first + l - 1)
        <5>1. CASE first + l - 1 \in DOMAIN data \cup DOMAIN start.cells
          BY <4>3, <5>1 DEF RecordingInv, CellsMatchLog, n
        <5>2. CASE first + l - 1 \notin DOMAIN data \cup DOMAIN start.cells
          BY <5>2 DEF CellAt
        <5> QED BY <5>1, <5>2
      <4> QED BY <1>2, <1>5, <1>7, <4>1, <4>2, <4>4
    <3> QED BY <1>6, <1>7, <3>1, <3>2, SMT
  <2> QED BY <2>1, <2>2 DEF LogChained, NextAt, FirstAt
<1> QED BY <1>7, <1>12, <1>13, <1>14, <1>15 DEF RecordingInv

\* There is nothing to check in an empty log.
LEMMA EmptyLog == <<>> \in Seq(Access) /\ Len(<<>>) = 0 /\ 1 .. Len(<<>>) = {}
BY SMT

\* No cells at all are sound at any time.
LEMMA EmptySound == \A t \in Nat : Sound(<<>>, t)
<1>1. DOMAIN <<>> = {} /\ <<>> \in [DOMAIN <<>> -> Cell]
  BY SMT
<1> QED BY <1>1 DEF Sound, IsMemory

\* An empty log splits into no accesses.
LEMMA RestartRecoverable ==
    ASSUME clock' \in Nat, start'.clock = clock', log' = <<>>
    PROVE  RecoverableInv'
<1>1. \A c \in Nat : Lanes * (c - c) = 0 /\ c \in 0 .. c
  BY LanesAssumption, SMT
<1> QED BY <1>1, EmptyLog DEF RecoverableInv, AccessesRecoverable

-----------------------------------------------------------------------------

\* The recording invariant holds in every state: what the log chains, and what
\* a checkpoint restores.
THEOREM RecordingInvariant == Spec => []RecordingInv
<1>1. Init => RecordingInv
  <2>1. SUFFICES ASSUME Init PROVE RecordingInv
    OBVIOUS
  <2>2. MemoriesSound
    <3>1. 0 \in Nat /\ 0 \in 0 .. 0
      BY SMT
    <3> QED BY <2>1, <3>1, EmptySound DEF Init, MemoriesSound, Blank
  <2> QED BY <2>1, <2>2, EmptyLog DEF Init, Blank, RecordingInv, CellsMatchLog,
                                      LogChained, ReadsThePast
<1>2. RecordingInv /\ [Next]_vars => RecordingInv'
  <2> SUFFICES ASSUME RecordingInv, [Next]_vars PROVE RecordingInv'
    OBVIOUS
  <2>1. ASSUME NEW row \in Row, ReadRow(row) PROVE RecordingInv'
    <3>1. IsMemory(data)
      BY DEF RecordingInv, MemoriesSound, Sound
    <3>2. ValuesFrom(data, row * Lanes, Lanes) \in [0 .. (Lanes - 1) -> Value]
      BY <3>1, CellAtType DEF ValuesFrom, Cell
    <3> QED BY <2>1, <3>2, AccessPreserves DEF ReadRow
  <2>2. ASSUME NEW row \in Row, WriteRow(row) PROVE RecordingInv'
    BY <2>2, AccessPreserves DEF WriteRow
  <2>3. CASE Checkpoint
    <3>1. Sound(data, clock) /\ clock \in Nat
      BY DEF RecordingInv, MemoriesSound
    <3>2. UnpackTimed(PackTimed(data, Lanes), Lanes) = data
      BY <3>1, RoundTrip
    <3>3. MemoriesSound'
      BY <2>3, <3>1, <3>2 DEF RecordingInv, MemoriesSound, Checkpoint
    <3> QED BY <2>3, <3>3 DEF RecordingInv, Checkpoint, CellsMatchLog, LogChained,
                              NextAt, FirstAt, ReadsThePast
  <2>4. CASE Restore
    <3>1. saved.clock \in Nat /\ Sound(UnpackTimed(saved.page, Lanes), saved.clock)
      BY <2>4 DEF RecordingInv, MemoriesSound, Restore
    <3>2. MemoriesSound' /\ log' = <<>> /\ data' = start'.cells
      BY <2>4, <3>1, SMT DEF MemoriesSound, Restore
    <3> QED BY <3>2, EmptyLog DEF RecordingInv, CellsMatchLog, LogChained, ReadsThePast
  <2>5. CASE Initialise
    <3>1. MemoriesSound' /\ log' = <<>> /\ data' = start'.cells
      BY <2>5, EmptySound, SMT DEF RecordingInv, MemoriesSound, Initialise, Blank
    <3> QED BY <3>1, EmptyLog DEF RecordingInv, CellsMatchLog, LogChained, ReadsThePast
  <2>6. CASE UNCHANGED vars
    BY <2>6 DEF vars, RecordingInv, MemoriesSound, CellsMatchLog, LogChained,
                NextAt, FirstAt, ReadsThePast
  <2> QED BY <2>1, <2>2, <2>3, <2>4, <2>5, <2>6 DEF Next
<1> QED BY <1>1, <1>2, PTL DEF Spec

\* Every state has its type.
THEOREM TypeCorrect == Spec => []TypeOK
<1>1. RecordingInv => TypeOK
  BY SMT DEF RecordingInv, MemoriesSound, Sound, TypeOK, NoCheckpoint
<1> QED BY <1>1, RecordingInvariant, PTL

\* The read side of every record is the write side of the one before it at
\* the same address, whatever was saved and restored in between recordings.
THEOREM LogIsChained == Spec => []LogChained
<1>1. RecordingInv => LogChained
  BY DEF RecordingInv
<1> QED BY <1>1, RecordingInvariant, PTL

\* Every record reads a stamp older than the one it writes.
THEOREM ReadsArePast == Spec => []ReadsThePast
<1>1. RecordingInv => ReadsThePast
  BY DEF RecordingInv
<1> QED BY <1>1, RecordingInvariant, PTL

\* A checkpoint taken in any state restores every cell and every stamp.
THEOREM CheckpointsAreLossless == Spec => []CheckpointLossless
<1>1. RecordingInv => CheckpointLossless
  BY RoundTrip DEF RecordingInv, MemoriesSound, CheckpointLossless
<1> QED BY <1>1, RecordingInvariant, PTL

\* Whatever accesses, checkpoints and restores follow each other, the log splits
\* into accesses by equal write stamps (process_ram.go, groupRamAccesses).
THEOREM AccessesAreRecoverable == Spec => []AccessesRecoverable
<1>1. Init => RecoverableInv
  <2>1. Lanes * (0 - 0) = 0
    BY LanesAssumption, SMT
  <2>2. 0 \in Nat /\ 0 \in 0 .. 0
    BY SMT
  <2> QED BY <2>1, <2>2, EmptyLog DEF Init, Blank, RecoverableInv, AccessesRecoverable
<1>2. RecordingInv /\ RecoverableInv /\ [Next]_vars => RecoverableInv'
  <2> SUFFICES ASSUME RecordingInv, RecoverableInv, [Next]_vars PROVE RecoverableInv'
    OBVIOUS
  <2>1. Sound(data, clock) /\ IsMemory(data)
    BY DEF RecordingInv, MemoriesSound, Sound
  <2>2. ASSUME NEW row \in Row, ReadRow(row) PROVE RecoverableInv'
    <3>1. ValuesFrom(data, row * Lanes, Lanes) \in [0 .. (Lanes - 1) -> Value]
      BY <2>1, CellAtType DEF ValuesFrom, Cell
    <3>2. Logs(row, ValuesFrom(data, row * Lanes, Lanes), FALSE)
      BY <2>2 DEF ReadRow, AccessRow, Logs
    <3> QED BY <2>1, <3>1, <3>2, RowAssumption, RecoverableAfterAccess
  <2>3. ASSUME NEW row \in Row, WriteRow(row) PROVE RecoverableInv'
    <3>1. PICK written \in [0 .. (Lanes - 1) -> Value] : AccessRow(row, written, TRUE)
      BY <2>3 DEF WriteRow
    <3>2. Logs(row, written, TRUE)
      BY <3>1 DEF AccessRow, Logs
    <3> QED BY <2>1, <3>2, RowAssumption, RecoverableAfterAccess
  <2>4. CASE Checkpoint \/ UNCHANGED vars
    BY <2>4 DEF Checkpoint, vars, RecoverableInv, AccessesRecoverable
  <2>5. CASE Restore
    BY <2>5, RestartRecoverable DEF Restore, RecordingInv, MemoriesSound
  <2>6. CASE Initialise
    BY <2>6, RestartRecoverable DEF Initialise, Blank
  <2> QED BY <2>2, <2>3, <2>4, <2>5, <2>6 DEF Next
<1>3. RecoverableInv => AccessesRecoverable
  BY DEF RecoverableInv
<1> QED BY <1>1, <1>2, <1>3, RecordingInvariant, PTL DEF Spec

-----------------------------------------------------------------------------
\* The contract of a memory of rows.

\* The log holds Lanes records for each tick of the clock since it was reset.
LogGrouped ==
    /\ Len(log) = Lanes * (clock - start.clock)
    /\ clock \in Nat /\ start.clock \in 0 .. clock

\* What the refinement needs of a state.
RefinementInv == RecordingInv /\ LogGrouped

-----------------------------------------------------------------------------
\* Cells after an access.

\* The fields of a cell.
LEMMA CellFields ==
    ASSUME NEW c, NEW v, NEW t, c = [value |-> v, stamp |-> t]
    PROVE  c.value = v /\ c.stamp = t
OBVIOUS

\* An access restamps the cells of its row, and leaves the others.
LEMMA RestampedCells ==
    ASSUME NEW cells, NEW first, NEW written, NEW t, NEW backing,
           DOMAIN cells \cup LanesFrom(first, Lanes) \subseteq backing, NEW a
    PROVE  /\ a \in LanesFrom(first, Lanes) =>
                 CellAt(Restamp(cells, first, Lanes, written, t, backing), a) =
                     [value |-> written[a - first], stamp |-> t]
           /\ a \notin LanesFrom(first, Lanes) =>
                 CellAt(Restamp(cells, first, Lanes, written, t, backing), a) =
                     CellAt(cells, a)
<1>1. CASE a \in backing
  BY <1>1 DEF Restamp, CellAt
<1>2. CASE a \notin backing
  BY <1>2 DEF Restamp, CellAt
<1> QED BY <1>1, <1>2

\* The lanes of row r are the cells its addresses name.
LEMMA LaneOfRow ==
    ASSUME NEW row \in Nat, NEW r \in Nat, NEW l \in 0 .. (Lanes - 1)
    PROVE  /\ r * Lanes + l \in Nat
           /\ r * Lanes + l \in LanesFrom(row * Lanes, Lanes) <=> r = row
           /\ (r * Lanes + l) - r * Lanes = l
<1> USE LanesAssumption
<1>1. r * Lanes \in Nat /\ row * Lanes \in Nat
  BY SMT
<1>2. r * Lanes + l \in Nat /\ (r * Lanes + l) - r * Lanes = l
  BY <1>1, SMT
<1>3. r * Lanes + l \in LanesFrom(r * Lanes, Lanes)
  BY <1>1, SMT DEF LanesFrom
<1>4. (r * Lanes + l) \div Lanes = r
  BY <1>2, <1>3, DivRow
<1> QED BY <1>2, <1>4, DivRow

\* The new rows are the old ones but for one.
OneRowChanges(new, old, row, entry) == new = [old EXCEPT ![row] = entry]

\* An access gives one row what was written and the new stamp.
LEMMA RowsAfterAccess ==
    ASSUME NEW cells, NEW t, NEW row \in Row,
           NEW written \in [0 .. (Lanes - 1) -> Value],
           NEW backing, DOMAIN cells \cup LanesFrom(row * Lanes, Lanes) \subseteq backing
    PROVE  OneRowChanges(RowsIn(Restamp(cells, row * Lanes, Lanes, written, t, backing)),
                         RowsIn(cells), row, [value |-> written, stamp |-> t])
<1> USE LanesAssumption, RowAssumption
<1> DEFINE new == Restamp(cells, row * Lanes, Lanes, written, t, backing)
<1>1. row \in Nat /\ row * Lanes \in Nat /\ 0 \in 0 .. (Lanes - 1)
  BY SMT
<1>2. ASSUME NEW r \in Row, NEW l \in 0 .. (Lanes - 1)
      PROVE  /\ r = row => CellAt(new, r * Lanes + l) = [value |-> written[l], stamp |-> t]
             /\ r # row => CellAt(new, r * Lanes + l) = CellAt(cells, r * Lanes + l)
  <2>1. r \in Nat
    OBVIOUS
  <2>2. /\ r * Lanes + l \in LanesFrom(row * Lanes, Lanes) <=> r = row
        /\ (r * Lanes + l) - r * Lanes = l
    BY <1>1, <2>1, LaneOfRow
  <2> DEFINE first == row * Lanes
             a == r * Lanes + l
  <2>3. /\ a \in LanesFrom(first, Lanes) =>
              CellAt(Restamp(cells, first, Lanes, written, t, backing), a) =
                  [value |-> written[a - first], stamp |-> t]
        /\ a \notin LanesFrom(first, Lanes) =>
              CellAt(Restamp(cells, first, Lanes, written, t, backing), a) = CellAt(cells, a)
    <3> HIDE DEF first, a
    <3>1. DOMAIN cells \cup LanesFrom(first, Lanes) \subseteq backing
      BY DEF first
    <3> QED BY <3>1, RestampedCells
  <2> QED BY <2>2, <2>3
<1> HIDE DEF new
<1>3. ASSUME NEW r \in Row
      PROVE  /\ r = row => RowsIn(new)[r] = [value |-> written, stamp |-> t]
             /\ r # row => RowsIn(new)[r] = RowsIn(cells)[r]
  <2>1. r * Lanes + 0 = r * Lanes
    BY SMT
  <2>2. /\ r = row => CellAt(new, r * Lanes) = [value |-> written[0], stamp |-> t]
        /\ r # row => CellAt(new, r * Lanes) = CellAt(cells, r * Lanes)
    BY <1>1, <1>2, <2>1
  <2>3. CASE r = row
    <3>1. ValuesFrom(new, r * Lanes, Lanes) = [l \in 0 .. (Lanes - 1) |-> written[l]]
      <4>1. ASSUME NEW l \in 0 .. (Lanes - 1)
            PROVE  CellAt(new, r * Lanes + l).value = written[l]
        <5>1. CellAt(new, r * Lanes + l) = [value |-> written[l], stamp |-> t]
          BY <1>2, <2>3, Zenon
        <5> QED BY <5>1, CellFields, Zenon
      <4> QED BY <4>1, Zenon DEF ValuesFrom
    <3>2. ValuesFrom(new, r * Lanes, Lanes) = written
      BY <3>1
    <3> QED BY <2>2, <2>3, <3>2 DEF RowsIn
  <2>4. CASE r # row
    <3>1. ValuesFrom(new, r * Lanes, Lanes) = ValuesFrom(cells, r * Lanes, Lanes)
      <4>1. ASSUME NEW l \in 0 .. (Lanes - 1)
            PROVE  CellAt(new, r * Lanes + l).value = CellAt(cells, r * Lanes + l).value
        BY <1>2, <2>4
      <4> QED BY <4>1, Zenon DEF ValuesFrom
    <3> QED BY <2>2, <2>4, <3>1 DEF RowsIn
  <2> QED BY <2>3, <2>4
<1>4. RowsIn(new) = [r \in Row |-> RowsIn(new)[r]]
  BY DEF RowsIn
<1>5. RowsIn(cells) = [r \in Row |-> RowsIn(cells)[r]]
  BY DEF RowsIn
<1>6. RowsIn(new) = [RowsIn(cells) EXCEPT ![row] = [value |-> written, stamp |-> t]]
  BY <1>3, <1>4, <1>5
<1> QED BY <1>6 DEF new, OneRowChanges

-----------------------------------------------------------------------------
\* The log after an access.

\* The new log is the old one, of k groups, and one group more.
GrowsByGroup(old, new, lanes, k) ==
    /\ Len(new) = Lanes * (k + 1)
    /\ Len(old) \div Lanes = k /\ Len(new) \div Lanes = k + 1
    /\ \A n \in 1 .. k : \A l \in 1 .. Lanes :
          new[(n - 1) * Lanes + l] = old[(n - 1) * Lanes + l]
    /\ \A l \in 1 .. Lanes : new[k * Lanes + l] = lanes[l]

\* Appending Lanes records to k groups of them appends a group.
LEMMA GroupsAfterAccess ==
    ASSUME NEW old \in Seq(Access), NEW k \in Nat, Len(old) = Lanes * k,
           NEW lanes \in Seq(Access), Len(lanes) = Lanes
    PROVE  GrowsByGroup(old, old \o lanes, lanes, k)
<1> DEFINE new == old \o lanes
<1> USE LanesAssumption
<1>1. ASSUME NEW j \in Nat PROVE (Lanes * j) \div Lanes = j /\ Lanes * j = j * Lanes
  <2>1. Lanes * j = j * Lanes /\ j * Lanes \in Nat
    BY SMT
  <2>2. j * Lanes \in LanesFrom(j * Lanes, Lanes)
    BY <2>1, SMT DEF LanesFrom
  <2> QED BY <2>1, <2>2, DivRow
<1>2. Len(new) = Lanes * (k + 1)
  <2>1. Len(new) = Len(old) + Lanes
    BY ConcatProperties
  <2> QED BY <2>1, SMT
<1> DEFINE at == k * Lanes
<1>3. at \in Nat /\ Len(old) = at /\ at = (k - 1) * Lanes + Lanes
  BY <1>1, SMT
<1>4. ASSUME NEW l \in 1 .. Lanes PROVE new[at + l] = lanes[l]
  <2> HIDE DEF at
  <2> QED BY <1>3, SMT
<1>5. ASSUME NEW n \in 1 .. k, NEW l \in 1 .. Lanes
      PROVE  new[(n - 1) * Lanes + l] = old[(n - 1) * Lanes + l]
  <2> DEFINE from == (n - 1) * Lanes
  <2>1. from \in Nat /\ from + Lanes =< at
    <3>1. PICK d \in Nat : k = n + d
      <4>1. k - n \in Nat /\ k = n + (k - n)
        BY SMT
      <4> QED BY <4>1
    <3>2. d * Lanes \in Nat /\ n - 1 \in Nat
      BY SMT
    <3>3. k * Lanes = (n - 1) * Lanes + Lanes + d * Lanes
      BY <3>1, SMT
    <3> QED BY <3>2, <3>3, SMT
  <2> HIDE DEF from, at
  <2>2. from + l \in 1 .. Len(old)
    BY <1>3, <2>1, SMT
  <2>3. new[from + l] = old[from + l]
    BY <2>2, SMT
  <2> QED BY <2>3 DEF from
<1>6. Len(old) \div Lanes = k /\ Len(new) \div Lanes = k + 1
  BY <1>1, <1>2
<1> QED BY <1>2, <1>4, <1>5, <1>6, Zenon DEF GrowsByGroup

-----------------------------------------------------------------------------
\* Steps.

\* The accesses of the contract.
Recorded == [n \in 1 .. (Len(log) \div Lanes) |-> Grouped(n)]

\* The log of the contract grows by the access.
LEMMA RecordedAfterAccess ==
    ASSUME RefinementInv, NEW row \in Row, NEW isWrite \in BOOLEAN,
           NEW written \in [0 .. (Lanes - 1) -> Value],
           AccessRow(row, written, isWrite)
    PROVE  /\ LogGrouped'
           /\ Recorded' = Append(Recorded,
                  [row |-> row, before |-> RowsIn(data)[row],
                   after |-> [value |-> written, stamp |-> clock + 1],
                   isWrite |-> isWrite])
<1> USE LanesAssumption
<1> DEFINE first == row * Lanes
           t == clock + 1
           lanes == LaneAccesses(data, first, Lanes, written, t, isWrite)
           entry == [row |-> row, before |-> RowsIn(data)[row],
                     after |-> [value |-> written, stamp |-> t], isWrite |-> isWrite]
<1> PICK k \in Nat : k = clock - start.clock
  BY SMT DEF RefinementInv, LogGrouped
<1>1. /\ row \in Nat /\ first \in Nat /\ clock \in Nat /\ t \in Nat /\ k \in Nat
      /\ 1 \in 1 .. Lanes
  BY RowAssumption, SMT DEF RefinementInv, LogGrouped
<1>2. clock' = t /\ log' = log \o lanes /\ start' = start
  BY DEF AccessRow
<1>3. IsMemory(data) /\ log \in Seq(Access) /\ Len(log) = Lanes * k
  BY DEF RefinementInv, LogGrouped, RecordingInv, MemoriesSound, Sound
<1>4. AreLaneRecords(lanes, data, first, written, t, isWrite)
  <2> HIDE DEF first, t
  <2> QED BY <1>1, <1>3, LaneAccessesShape
<1>5. ASSUME NEW l \in 1 .. Lanes PROVE lanes[l].isWrite = isWrite
  BY DEF LaneAccesses
<1> HIDE DEF lanes, first
<1>6. log' \in Seq(Access)
  BY <1>2, <1>3, <1>4, ConcatProperties DEF AreLaneRecords
<1>7. /\ Len(log') = Lanes * (k + 1)
      /\ Len(log) \div Lanes = k /\ Len(log') \div Lanes = k + 1
      /\ \A n \in 1 .. k : \A l \in 1 .. Lanes :
            log'[(n - 1) * Lanes + l] = log[(n - 1) * Lanes + l]
      /\ \A l \in 1 .. Lanes : log'[k * Lanes + l] = lanes[l]
  <2>1. lanes \in Seq(Access) /\ Len(lanes) = Lanes
    BY <1>4 DEF AreLaneRecords
  <2>2. GrowsByGroup(log, log \o lanes, lanes, k)
    BY <1>3, <2>1, GroupsAfterAccess
  <2> QED BY <1>2, <2>2 DEF GrowsByGroup
<1>8. LogGrouped'
  <2>1. (clock - start.clock)' = k + 1 /\ start.clock' \in 0 .. clock'
    BY <1>1, <1>2, SMT DEF RefinementInv, LogGrouped
  <2> QED BY <1>1, <1>2, <1>7, <2>1 DEF LogGrouped
<1>9. ASSUME NEW n \in 1 .. k PROVE Grouped(n)' = Grouped(n)
  <2> DEFINE at == (n - 1) * Lanes
  <2>1. at \in Nat
    BY <1>1, SMT
  <2>2. \A l \in 1 .. Lanes : log'[at + l] = log[at + l]
    BY <1>7
  <2> HIDE DEF at
  <2>3. log'[at + 1] = log[at + 1]
    BY <1>1, <2>2
  <2>4. ASSUME NEW l \in 0 .. (Lanes - 1) PROVE log'[at + 1 + l] = log[at + 1 + l]
    <3>1. l + 1 \in 1 .. Lanes /\ at + 1 + l = at + (l + 1)
      BY <2>1, SMT
    <3> QED BY <2>2, <3>1
  <2>5. [l \in 0 .. (Lanes - 1) |-> log'[at + 1 + l].valueRead] =
            [l \in 0 .. (Lanes - 1) |-> log[at + 1 + l].valueRead]
    BY <2>4, Zenon
  <2>6. [l \in 0 .. (Lanes - 1) |-> log'[at + 1 + l].valueWritten] =
            [l \in 0 .. (Lanes - 1) |-> log[at + 1 + l].valueWritten]
    BY <2>4, Zenon
  <2> QED BY <2>3, <2>5, <2>6, Zenon DEF Grouped, at
<1>10. Grouped(k + 1)' = entry
  <2> DEFINE at == k * Lanes
  <2>1. at \in Nat
    BY <1>1, SMT
  <2>2. \A l \in 1 .. Lanes : log'[at + l] = lanes[l]
    BY <1>7
  <2>3. ((k + 1) - 1) * Lanes = at
    BY <1>1, SMT
  <2> HIDE DEF at
  <2>4. log'[at + 1] = lanes[1]
    BY <1>1, <2>2
  <2>5. ASSUME NEW l \in 0 .. (Lanes - 1)
        PROVE  /\ log'[at + 1 + l].valueRead = CellAt(data, first + l).value
               /\ log'[at + 1 + l].valueWritten = written[l]
    <3>1. l + 1 \in 1 .. Lanes /\ at + 1 + l = at + (l + 1)
      BY <2>1, SMT
    <3>2. log'[at + 1 + l] = lanes[l + 1]
      BY <2>2, <3>1
    <3>3. first + (l + 1) - 1 = first + l /\ (l + 1) - 1 = l
      BY <1>1, SMT
    <3> QED BY <1>4, <3>1, <3>2, <3>3 DEF AreLaneRecords
  <2>6. [l \in 0 .. (Lanes - 1) |-> log'[at + 1 + l].valueRead] =
            ValuesFrom(data, first, Lanes)
    BY <2>5, Zenon DEF ValuesFrom
  <2>7. [l \in 0 .. (Lanes - 1) |-> log'[at + 1 + l].valueWritten] = written
    <3>1. [l \in 0 .. (Lanes - 1) |-> log'[at + 1 + l].valueWritten] =
              [l \in 0 .. (Lanes - 1) |-> written[l]]
      BY <2>5, Zenon
    <3> QED BY <3>1
  <2>8. /\ log'[at + 1].address \div Lanes = row
        /\ log'[at + 1].readStamp = CellAt(data, first).stamp
        /\ log'[at + 1].writeStamp = t /\ log'[at + 1].isWrite = isWrite
    <3>1. first + 1 - 1 = first /\ first \in LanesFrom(row * Lanes, Lanes)
      BY <1>1, SMT DEF first, LanesFrom
    <3>2. first \div Lanes = row
      BY <1>1, <3>1, DivRow
    <3> QED BY <1>1, <1>4, <1>5, <2>4, <3>1, <3>2 DEF AreLaneRecords
  <2>9. RowsIn(data)[row] = [value |-> ValuesFrom(data, first, Lanes),
                             stamp |-> CellAt(data, first).stamp]
    BY DEF RowsIn, first
  <2> QED BY <2>3, <2>6, <2>7, <2>8, <2>9, Zenon DEF Grouped
<1> HIDE DEF entry
<1>11. Recorded' = Append(Recorded, entry)
  <2> DEFINE S == {Grouped(n) : n \in 1 .. k} \cup {entry}
  <2>1. Recorded = [n \in 1 .. k |-> Grouped(n)]
    BY <1>7 DEF Recorded
  <2>2. Recorded \in Seq(S) /\ Len(Recorded) = k
    <3>1. Recorded \in [1 .. k -> S]
      BY <2>1
    <3> HIDE DEF S
    <3> QED BY <1>1, <3>1, SMT
  <2>3. Recorded' = [n \in 1 .. (k + 1) |-> Grouped(n)']
    BY <1>7 DEF Recorded
  <2>4. ASSUME NEW n \in 1 .. (k + 1)
        PROVE  Grouped(n)' = IF n =< k THEN Grouped(n) ELSE entry
    <3>1. CASE n =< k
      <4>1. n \in 1 .. k
        BY <1>1, <3>1, SMT
      <4> QED BY <1>9, <3>1, <4>1
    <3>2. CASE ~(n =< k)
      <4>1. n = k + 1
        BY <1>1, <3>2, SMT
      <4> QED BY <1>10, <3>2, <4>1
    <3> QED BY <3>1, <3>2
  <2>5. Recorded' \in Seq(S) /\ Len(Recorded') = k + 1
    <3>1. ASSUME NEW n \in 1 .. (k + 1) PROVE Grouped(n)' \in S
      <4>1. n =< k => n \in 1 .. k
        BY <1>1, SMT
      <4> QED BY <2>4, <4>1
    <3>2. Recorded' \in [1 .. (k + 1) -> S]
      BY <2>3, <3>1
    <3> HIDE DEF S
    <3> QED BY <1>1, <3>2, SMT
  <2> DEFINE grown == Append(Recorded, entry)
  <2>6. /\ grown \in Seq(S) /\ Len(grown) = k + 1
        /\ \A n \in 1 .. k : grown[n] = Grouped(n)
        /\ grown[k + 1] = entry
    <3>1. entry \in S
      OBVIOUS
    <3> HIDE DEF S
    <3> QED BY <2>1, <2>2, <3>1, AppendProperties
  <2>7. ASSUME NEW n \in 1 .. (k + 1) PROVE Recorded'[n] = grown[n]
    <3>1. CASE n =< k
      <4>1. n \in 1 .. k
        BY <3>1, SMT
      <4> QED BY <2>3, <2>4, <2>6, <3>1, <4>1
    <3>2. CASE ~(n =< k)
      <4>1. n = k + 1
        BY <3>2, SMT
      <4> QED BY <2>3, <2>4, <2>6, <3>2, <4>1
    <3> QED BY <3>1, <3>2
  <2> HIDE DEF S, grown
  <2>8. Recorded' = grown
    BY <2>5, <2>6, <2>7, SeqEqual
  <2> QED BY <2>8 DEF grown
<1> QED BY <1>8, <1>11 DEF entry

\* An access to the cells is an access to a row of the contract.
LEMMA AccessRefines ==
    ASSUME RefinementInv, NEW row \in Row, NEW isWrite \in BOOLEAN,
           NEW written \in [0 .. (Lanes - 1) -> Value],
           AccessRow(row, written, isWrite)
    PROVE  Memory!Touch(row, written, isWrite)
<1>1. /\ clock < MaxClock /\ clock' = clock + 1 /\ UNCHANGED saved
      /\ data' = Restamp(data, row * Lanes, Lanes, written, clock + 1, Expanded(row * Lanes))
  BY DEF AccessRow
<1>2. RowsIn(data') = [RowsIn(data) EXCEPT ![row] = [value |-> written, stamp |-> clock + 1]]
  <2>1. row \in Nat /\ row * Lanes \in Nat
    BY LanesAssumption, RowAssumption, SMT
  <2> DEFINE first == row * Lanes
  <2>2. DOMAIN data \cup LanesFrom(first, Lanes) \subseteq Expanded(first)
    <3>1. first \in Nat
      BY <2>1
    <3> HIDE DEF first
    <3> QED BY <3>1, LanesAssumption, SMT DEF Expanded, LanesFrom
  <2>3. OneRowChanges(RowsIn(Restamp(data, row * Lanes, Lanes, written, clock + 1,
                                     Expanded(row * Lanes))),
                      RowsIn(data), row, [value |-> written, stamp |-> clock + 1])
    BY <2>2, RowsAfterAccess
  <2> QED BY <1>1, <2>3 DEF OneRowChanges
<1>3. RowsIn(data)' = RowsIn(data')
  BY DEF RowsIn, ValuesFrom, CellAt
<1>4. Recorded' = Append(Recorded,
          [row |-> row, before |-> RowsIn(data)[row],
           after |-> [value |-> written, stamp |-> clock + 1], isWrite |-> isWrite])
  BY RecordedAfterAccess
<1> QED BY <1>1, <1>2, <1>3, <1>4 DEF Memory!Touch, Recorded

\* No cells are rows of zeroes, and an empty log holds no group.
LEMMA NothingRecorded ==
    /\ RowsIn(<<>>) = Memory!Untouched
    /\ log = <<>> => Recorded = <<>>
    /\ log' = <<>> => Recorded' = <<>>
<1> USE LanesAssumption
<1>1. ASSUME NEW a PROVE CellAt(<<>>, a) = ZeroCell
  BY SMT DEF CellAt
<1>2. RowsIn(<<>>) = Memory!Untouched
  BY <1>1 DEF RowsIn, ValuesFrom, ZeroCell, Memory!Untouched
<1>3. 1 .. (Len(<<>>) \div Lanes) = {}
  <2>1. 0 \div Lanes = 0
    <3>1. 0 \in LanesFrom(0 * Lanes, Lanes)
      BY SMT DEF LanesFrom
    <3> QED BY <3>1, DivRow
  <2> QED BY <2>1, SMT
<1>4. log = <<>> => Recorded = <<>>
  <2> SUFFICES ASSUME log = <<>> PROVE Recorded = <<>>
    OBVIOUS
  <2>1. Recorded = [n \in {} |-> Grouped(n)]
    BY <1>3 DEF Recorded
  <2> QED BY <2>1, SMT
<1>5. log' = <<>> => Recorded' = <<>>
  <2> SUFFICES ASSUME log' = <<>> PROVE Recorded' = <<>>
    OBVIOUS
  <2>1. Recorded' = [n \in {} |-> Grouped(n)']
    BY <1>3 DEF Recorded
  <2> QED BY <2>1, SMT
<1> QED BY <1>2, <1>4, <1>5

\* Every step keeps the log in whole groups.
LEMMA GroupedStep == RefinementInv /\ [Next]_vars => LogGrouped'
<1> SUFFICES ASSUME RefinementInv, [Next]_vars PROVE LogGrouped'
  OBVIOUS
<1>1. ASSUME NEW row \in Row, ReadRow(row) PROVE LogGrouped'
  <2>1. ValuesFrom(data, row * Lanes, Lanes) \in [0 .. (Lanes - 1) -> Value]
    BY CellAtType DEF ValuesFrom, Cell, RefinementInv, RecordingInv, MemoriesSound, Sound
  <2> QED BY <1>1, <2>1, RecordedAfterAccess DEF ReadRow
<1>2. ASSUME NEW row \in Row, WriteRow(row) PROVE LogGrouped'
  BY <1>2, RecordedAfterAccess DEF WriteRow
<1>3. CASE Checkpoint
  BY <1>3 DEF Checkpoint, RefinementInv, LogGrouped
<1>4. CASE Restore \/ Initialise
  <2>1. log' = <<>> /\ start'.clock = clock' /\ clock' \in Nat
    BY <1>4, SMT DEF Restore, Initialise, Blank, RefinementInv, RecordingInv, MemoriesSound
  <2>2. Len(log') = 0 /\ clock' - start'.clock = 0 /\ start'.clock \in 0 .. clock'
    <3>1. Len(log') = 0
      BY <2>1, EmptyLog
    <3>2. \A c \in Nat : c - c = 0 /\ c \in 0 .. c
      BY SMT
    <3> QED BY <2>1, <3>1, <3>2
  <2>3. Lanes * 0 = 0
    BY LanesAssumption, SMT
  <2> QED BY <2>1, <2>2, <2>3 DEF LogGrouped
<1>5. CASE UNCHANGED vars
  BY <1>5 DEF vars, RefinementInv, LogGrouped
<1> QED BY <1>1, <1>2, <1>3, <1>4, <1>5 DEF Next

-----------------------------------------------------------------------------

\* The memory implements its contract: whatever accesses, checkpoints, restores
\* and boots follow each other, each is a step of the contract (ram.go against
\* memory_log.go).
THEOREM MemoryImplementsContract == Spec => MemoryKeepsContract
<1>1. Init => Memory!ContractInit
  <2> SUFFICES ASSUME Init PROVE Memory!ContractInit
    OBVIOUS
  <2> QED BY NothingRecorded DEF Init, Memory!ContractInit, Memory!Nothing, Recorded
<1>2. Init => LogGrouped
  BY LanesAssumption, SMT DEF Init, Blank, LogGrouped
<1>3. RefinementInv /\ RecordingInv' /\ [Next]_vars =>
          [Memory!ContractNext]_(Memory!contractVars)
  <2> SUFFICES ASSUME RefinementInv, RecordingInv', [Next]_vars
               PROVE  Memory!ContractNext \/ UNCHANGED Memory!contractVars
    OBVIOUS
  <2>1. Sound(data, clock) /\ IsMemory(data) /\ clock \in Nat
    BY DEF RefinementInv, RecordingInv, MemoriesSound, Sound
  <2>2. ASSUME NEW row \in Row, ReadRow(row) PROVE Memory!ContractNext
    <3>1. ValuesFrom(data, row * Lanes, Lanes) \in [0 .. (Lanes - 1) -> Value]
      BY <2>1, CellAtType DEF ValuesFrom, Cell
    <3>2. Memory!Touch(row, ValuesFrom(data, row * Lanes, Lanes), FALSE)
      BY <2>2, <3>1, AccessRefines DEF ReadRow
    <3>3. RowsIn(data)[row].value = ValuesFrom(data, row * Lanes, Lanes)
      BY DEF RowsIn
    <3>4. Memory!ReadBack(row)
      BY <3>2, <3>3 DEF Memory!ReadBack
    <3> QED BY <3>4 DEF Memory!ContractNext
  <2>3. ASSUME NEW row \in Row, WriteRow(row) PROVE Memory!ContractNext
    <3>1. PICK written \in [0 .. (Lanes - 1) -> Value] : AccessRow(row, written, TRUE)
      BY <2>3 DEF WriteRow
    <3>2. Memory!Touch(row, written, TRUE)
      BY <3>1, AccessRefines
    <3> QED BY <3>2 DEF Memory!Store, Memory!ContractNext
  <2>4. CASE Checkpoint
    <3>1. saved' = [clock |-> clock, page |-> PackTimed(data, Lanes)]
          /\ UNCHANGED <<data, clock, log, start>>
      BY <2>4 DEF Checkpoint
    <3>2. saved' # NoCheckpoint /\ saved'.clock = clock
      BY <2>1, <3>1, SMT DEF NoCheckpoint
    <3>3. UnpackTimed(saved'.page, Lanes) = data
      BY <2>1, <3>1, RoundTrip
    <3>4. /\ RowsIn(data)' = RowsIn(data) /\ Recorded' = Recorded
      BY <3>1 DEF RowsIn, ValuesFrom, CellAt, Recorded, Grouped
    <3>5. Memory!Keep
      BY <3>1, <3>2, <3>3, <3>4 DEF Memory!Keep, Recorded
    <3> QED BY <3>5 DEF Memory!ContractNext
  <2>5. CASE Restore
    <3>1. /\ saved # NoCheckpoint /\ clock' = saved.clock /\ log' = <<>>
          /\ data' = UnpackTimed(saved.page, Lanes) /\ UNCHANGED saved
      BY <2>5 DEF Restore
    <3>2. saved.clock \in Nat
      BY <3>1 DEF RefinementInv, RecordingInv, MemoriesSound
    <3>3. [time |-> saved.clock, rows |-> RowsIn(UnpackTimed(saved.page, Lanes))] # [time |-> -1]
      BY <3>2, SMT
    <3>4. Recorded' = <<>>
      BY <3>1, NothingRecorded
    <3>5. Memory!Resume
      BY <3>1, <3>3, <3>4 DEF Memory!Resume, Memory!Nothing, Recorded
    <3> QED BY <3>5 DEF Memory!ContractNext
  <2>6. CASE Initialise
    <3>1. clock' = 0 /\ data' = <<>> /\ log' = <<>> /\ UNCHANGED saved
      BY <2>6 DEF Initialise
    <3>2. RowsIn(data)' = RowsIn(<<>>)
      BY <3>1 DEF RowsIn, ValuesFrom, CellAt
    <3>3. Memory!Reboot
      BY <3>1, <3>2, NothingRecorded DEF Memory!Reboot, Recorded
    <3> QED BY <3>3 DEF Memory!ContractNext
  <2>7. CASE UNCHANGED vars
    BY <2>7 DEF vars, Memory!contractVars, RowsIn, ValuesFrom, CellAt, Grouped
  <2> QED BY <2>2, <2>3, <2>4, <2>5, <2>6, <2>7 DEF Next
<1> QED BY <1>1, <1>2, <1>3, GroupedStep, RecordingInvariant, PTL
        DEF Spec, MemoryKeepsContract, Memory!Contract, RefinementInv

-----------------------------------------------------------------------------
(***************************************************************************)
(* Proofs about PagedRandomAccess, for every set of rows, every number of  *)
(* lanes, every page size, aligned with the rows or not, every set of      *)
(* values and every bound on the clock.                                    *)
(*                                                                         *)
(* A paged memory has whole pages (PageClosed) but not always whole rows,  *)
(* and the cells of a row need not carry one stamp: a read stamps the      *)
(* lanes whose page is there and no others.  What is left of it is         *)
(* RowsAlike: two stamps of a row differ only across pages, and then one   *)
(* of them is lost.  The memory lacks CellsMatchLog too.  TracesCells is   *)
(* what is left of that: the value of a cell is what the last record of    *)
(* its address wrote, and its stamp as well, unless that record is a read  *)
(* from a page no record up to it had written to; that a page written to   *)
(* exists (PagesWritten) is why a cell that is not there was never         *)
(* written.                                                                *)
(***************************************************************************)

\* Whole pages.
PageClosed(D) ==
    /\ D \subseteq Nat
    /\ \A a \in D : \A b \in Nat : b \div PageSize = a \div PageSize => b \in D

\* A record that found no page, after records that all wrote to others.
FoundNoPage(i) ==
    /\ ~log[i].isWrite /\ log[i].valueWritten = Zero
    /\ \A k \in 1 .. i : log[k].isWrite =>
          log[k].address \div PageSize # log[i].address \div PageSize

LastAt(i) == \A k \in (i + 1) .. Len(log) : log[k].address # log[i].address

\* What the cells say of the log.
TracesCells ==
    /\ \A i \in 1 .. Len(log) : LastAt(i) =>
          LET cell == CellAt(data, log[i].address)
          IN  /\ cell.value = log[i].valueWritten
              /\ cell.stamp # log[i].writeStamp => cell.stamp = 0 /\ FoundNoPage(i)
    /\ \A a \in Nat : (\A k \in 1 .. Len(log) : log[k].address # a) =>
          CellAt(data, a) = CellAt(start.cells, a)

\* A page that was written to exists.
PagesWritten ==
    \A k \in 1 .. Len(log) : log[k].isWrite => log[k].address \in DOMAIN data

\* Cells of a row differ in their stamps only if they lie on two pages and one
\* has no stamp although its address was accessed.
RowsAlike ==
    \A a, b \in Nat : a \div Lanes = b \div Lanes =>
        \/ CellAt(data, a).stamp = CellAt(data, b).stamp
        \/ /\ a \div PageSize # b \div PageSize
           /\ \E c \in {a, b} : /\ CellAt(data, c).stamp = 0
                                /\ \E k \in 1 .. Len(log) : log[k].address = c

\* The cells have whole pages and no stamp from the future.
PagesSound(cells, t) ==
    /\ t \in Nat
    /\ IsMemory(cells) /\ PageClosed(DOMAIN cells)
    /\ \A a \in DOMAIN cells : cells[a].stamp =< t

\* So has the memory.
PagedSound == PagesSound(data, clock)

\* Records of one access that read different stamps lie on two pages, and one
\* of them found its stamp lost.
StampsDifferAcrossPages ==
    \A i, j \in 1 .. Len(log) :
        log[i].writeStamp = log[j].writeStamp /\ log[i].readStamp # log[j].readStamp =>
            /\ log[i].address \div PageSize # log[j].address \div PageSize
            /\ \E k \in {i, j} : log[k].readStamp = 0 /\ ~FirstAt(k)

PagedInv ==
    /\ PagedSound
    /\ SplitInv
    /\ RowsAlike
    /\ StampsDifferAcrossPages
    /\ TracesCells
    /\ PagesWritten
    /\ ChainBreaksOnlyUnallocated

-----------------------------------------------------------------------------
\* Pages.

\* PagesOf adds what shares a page with an address.
LEMMA PagesOfAddresses ==
    ASSUME NEW S, S \subseteq Nat
    PROVE  /\ PagesOf(S) \subseteq Nat /\ S \subseteq PagesOf(S)
           /\ \A b \in Nat : b \in PagesOf(S) <=>
                 \E a \in S : b \div PageSize = a \div PageSize
<1> USE PageAssumption
<1>1. PageSize \in Nat \ {0}
  OBVIOUS
<1>2. ASSUME NEW a \in Nat
      PROVE  a \div PageSize \in Nat /\ (a \div PageSize) * PageSize \in Nat
  <2>1. a \div PageSize \in Nat
    BY <1>1, DivRow
  <2> QED BY <1>1, <2>1, SMT
<1> DEFINE page(a) == LanesFrom((a \div PageSize) * PageSize, PageSize)
<1>3. PagesOf(S) = UNION {page(a) : a \in S}
  BY DEF PagesOf, LanesFrom
<1>4. ASSUME NEW a \in S PROVE page(a) \subseteq Nat
  BY <1>1, <1>2, SMT DEF LanesFrom
<1>5. ASSUME NEW a \in S, NEW b \in Nat
      PROVE  b \in page(a) <=> b \div PageSize = a \div PageSize
  BY <1>1, <1>2, DivRow
<1> HIDE DEF page
<1>6. PagesOf(S) \subseteq Nat
  BY <1>3, <1>4
<1>7. ASSUME NEW b \in Nat
      PROVE  b \in PagesOf(S) <=> \E a \in S : b \div PageSize = a \div PageSize
  BY <1>3, <1>5, <1>7
<1> QED BY <1>6, <1>7

\* Whole pages stay whole when the pages of other addresses are added.
LEMMA PagesStayClosed ==
    ASSUME NEW D, PageClosed(D), NEW S, S \subseteq Nat
    PROVE  PageClosed(D \cup PagesOf(S))
<1>1. /\ PagesOf(S) \subseteq Nat /\ S \subseteq PagesOf(S)
      /\ \A b \in Nat : b \in PagesOf(S) <=>
            \E a \in S : b \div PageSize = a \div PageSize
  BY PagesOfAddresses
<1> QED BY <1>1 DEF PageClosed

-----------------------------------------------------------------------------
\* One access.

\* What an access leaves in the cells, in whatever pages there are by then.
LEMMA CellsAfterAccess ==
    ASSUME NEW cells, NEW first, NEW written, NEW t, NEW backing,
           DOMAIN cells \subseteq backing, NEW a, NEW new,
           new = Restamp(cells, first, Lanes, written, t, backing)
    PROVE  /\ a \in LanesFrom(first, Lanes) /\ a \in backing =>
                 CellAt(new, a) = [value |-> written[a - first], stamp |-> t]
           /\ a \notin LanesFrom(first, Lanes) => CellAt(new, a) = CellAt(cells, a)
           /\ a \notin backing => CellAt(new, a) = ZeroCell /\ CellAt(cells, a) = ZeroCell
<1>1. CASE a \in backing
  BY <1>1 DEF Restamp, CellAt
<1>2. CASE a \notin backing
  BY <1>2 DEF Restamp, CellAt
<1> QED BY <1>1, <1>2

\* The pages there are after an access: a write needs those of its row, a read
\* adds none.
PagesFor(row, written, isWrite, backing) ==
    /\ PageClosed(backing) /\ DOMAIN data \subseteq backing
    /\ isWrite => LanesFrom(row * Lanes, Lanes) \subseteq backing
    /\ ~isWrite => /\ backing = DOMAIN data
                   /\ written = ValuesFrom(data, row * Lanes, Lanes)

\* A paged memory keeps whole pages and its log splits into accesses.
LEMMA PagedAccessSound ==
    ASSUME PagedInv, NEW row \in Row, NEW isWrite \in BOOLEAN,
           NEW written \in [0 .. (Lanes - 1) -> Value], NEW backing,
           PagesFor(row, written, isWrite, backing),
           PagedAccessRow(row, written, isWrite,
               Restamp(data, row * Lanes, Lanes, written, clock + 1, backing))
    PROVE  /\ PagedSound' /\ SplitInv' /\ DOMAIN data' = backing
           /\ \A i, j \in 1 .. Len(log') :
                 log'[i].writeStamp = log'[j].writeStamp => OldOrNew(i, j, row)
<1> USE LanesAssumption
<1> DEFINE first == row * Lanes
           touched == LanesFrom(first, Lanes)
<1>1. row \in Nat /\ clock \in Nat /\ first \in Nat
  <2>1. row \in Nat /\ clock \in Nat
    BY RowAssumption DEF PagedInv, SplitInv
  <2> QED BY <2>1, SMT
<1>2. PagesSound(data, clock) /\ PageClosed(backing) /\ DOMAIN data \subseteq backing
  BY DEF PagedInv, PagedSound, PagesFor
<1>3. /\ data' = Restamp(data, first, Lanes, written, clock + 1, backing)
      /\ clock' = clock + 1 /\ saved' = saved
  BY DEF PagedAccessRow
<1>4. DOMAIN data' = backing /\ data' = [a \in backing |-> data'[a]]
  BY <1>3 DEF Restamp
<1>5. ASSUME NEW a \in backing PROVE data'[a] \in Cell /\ data'[a].stamp =< clock + 1
  <2> HIDE DEF first
  <2>1. CASE a \in touched
    <3>1. data'[a] = [value |-> written[a - first], stamp |-> clock + 1]
      BY <1>3, <2>1 DEF Restamp
    <3>2. a - first \in 0 .. (Lanes - 1)
      BY <1>1, <2>1, SMT DEF LanesFrom
    <3>3. clock + 1 \in Nat /\ clock + 1 =< clock + 1
      BY <1>1, SMT
    <3> HIDE DEF touched
    <3> QED BY <3>1, <3>2, <3>3 DEF Cell
  <2>2. CASE a \notin touched
    <3>1. data'[a] = CellAt(data, a)
      BY <1>3, <2>2 DEF Restamp
    <3>2. CellAt(data, a) \in Cell
      BY <1>2, CellAtType DEF PagesSound
    <3>3. CellAt(data, a).stamp =< clock
      BY <1>1, <1>2, SMT DEF PagesSound, CellAt, ZeroCell
    <3>4. data'[a].stamp \in Nat
      BY <3>1, <3>2 DEF Cell
    <3>5. data'[a].stamp =< clock + 1
      BY <1>1, <3>1, <3>3, <3>4, SMT
    <3> QED BY <3>1, <3>2, <3>5
  <2> QED BY <2>1, <2>2
<1>6. IsMemory(data')
  <2>1. data' \in [backing -> Cell]
    BY <1>4, <1>5, Zenon
  <2> QED BY <1>2, <1>4, <2>1 DEF IsMemory, PageClosed
<1>7. PagesSound(data', clock')
  <2>1. clock + 1 \in Nat
    BY <1>1, SMT
  <2> QED BY <1>2, <1>3, <1>4, <1>5, <1>6, <2>1 DEF PagesSound
<1>8. PagedSound'
  BY <1>3, <1>7, Zenon DEF PagedInv, PagedSound
<1>9. Logs(row, written, isWrite)
  BY DEF PagedAccessRow, Logs
<1>10. /\ SplitInv'
       /\ \A i, j \in 1 .. Len(log') :
             log'[i].writeStamp = log'[j].writeStamp => OldOrNew(i, j, row)
  BY <1>1, <1>2, <1>9, SplitsAfterAccess DEF PagedInv, PagesSound
<1> QED BY <1>4, <1>8, <1>10

\* Record l of an access, after n others.
LaneLogged(n, l, first, written, isWrite) ==
    /\ log'[n + l].address = first + l - 1
    /\ log'[n + l].valueRead = CellAt(data, first + l - 1).value
    /\ log'[n + l].readStamp = CellAt(data, first + l - 1).stamp
    /\ log'[n + l].valueWritten = written[l - 1]
    /\ log'[n + l].writeStamp = clock + 1
    /\ log'[n + l].isWrite = isWrite

\* The log after an access: the records there were, and the lanes'.
LogGrows(n, first, written, isWrite) ==
    /\ n \in Nat /\ first \in Nat /\ n = Len(log) /\ Len(log') = n + Lanes
    /\ \A i \in 1 .. n : i \in 1 .. Len(log') /\ log'[i] = log[i]
    /\ \A l \in 1 .. Lanes :
          /\ n + l \in 1 .. Len(log')
          /\ LaneLogged(n, l, first, written, isWrite)
    /\ \A i \in 1 .. Len(log') : i \in 1 .. n \/ \E l \in 1 .. Lanes : i = n + l

\* An access grows the log so.
LEMMA LogAfterAccess ==
    ASSUME log \in Seq(Access), clock \in Nat, IsMemory(data),
           NEW row \in Nat, NEW isWrite \in BOOLEAN,
           NEW written \in [0 .. (Lanes - 1) -> Value], Logs(row, written, isWrite)
    PROVE  LogGrows(Len(log), row * Lanes, written, isWrite)
<1> USE LanesAssumption
<1> DEFINE first == row * Lanes
           t == clock + 1
           lanes == LaneAccesses(data, first, Lanes, written, t, isWrite)
           n == Len(log)
<1>1. first \in Nat /\ t \in Nat /\ n \in Nat
  BY SMT
<1>2. AreLaneRecords(lanes, data, first, written, t, isWrite)
  <2> HIDE DEF first, t
  <2> QED BY <1>1, LaneAccessesShape
<1>3. log' = log \o lanes
  BY DEF Logs
<1> HIDE DEF lanes, first, n
<1>4. lanes \in Seq(Access) /\ Len(lanes) = Lanes
  BY <1>2 DEF AreLaneRecords
<1>5. Len(log') = n + Lanes
  BY <1>3, <1>4, ConcatProperties DEF n
<1>6. ASSUME NEW i \in 1 .. n PROVE i \in 1 .. Len(log') /\ log'[i] = log[i]
  BY <1>1, <1>3, <1>4, <1>5, SMT DEF n
<1>7. ASSUME NEW l \in 1 .. Lanes
      PROVE  n + l \in 1 .. Len(log') /\ LaneLogged(n, l, first, written, isWrite)
  <2>1. n + l \in 1 .. Len(log')
    BY <1>1, <1>5, SMT
  <2>2. log'[n + l] = lanes[l]
    BY <1>3, <1>4, SMT DEF n
  <2> QED BY <1>2, <2>1, <2>2 DEF AreLaneRecords, LaneLogged
<1>8. ASSUME NEW i \in 1 .. Len(log')
      PROVE  i \in 1 .. n \/ \E l \in 1 .. Lanes : i = n + l
  <2>1. CASE i =< n
    BY <1>1, <1>5, <2>1, SMT
  <2>2. CASE ~(i =< n)
    <3>1. i - n \in 1 .. Lanes /\ i = n + (i - n)
      BY <1>1, <1>5, <2>2, SMT
    <3> QED BY <3>1
  <2> QED BY <2>1, <2>2
<1>9. n = Len(log)
  BY DEF n
<1>10. LogGrows(n, first, written, isWrite)
  BY <1>1, <1>5, <1>6, <1>7, <1>8, <1>9, Zenon DEF LogGrows
<1> QED BY <1>10 DEF n, first

\* A row lies in one page: it is all there, or none of it is.
LEMMA CellsOfTheRow ==
    ASSUME PagedInv, NEW row \in Row, NEW isWrite \in BOOLEAN,
           NEW written \in [0 .. (Lanes - 1) -> Value], NEW backing,
           PagesFor(row, written, isWrite, backing),
           data' = Restamp(data, row * Lanes, Lanes, written, clock + 1, backing),
           NEW l \in 1 .. Lanes, NEW a, a = row * Lanes + l - 1
    PROVE  /\ a \in Nat /\ a \in LanesFrom(row * Lanes, Lanes)
           /\ CellAt(data', a).value = written[l - 1]
           /\ CellAt(data', a).stamp # clock + 1 =>
                 /\ CellAt(data', a).stamp = 0 /\ ~isWrite
                 /\ written[l - 1] = Zero /\ a \notin DOMAIN data
<1> USE LanesAssumption
<1> DEFINE first == row * Lanes
<1>1. first \in Nat
  BY RowAssumption, SMT
<1>2. DOMAIN data \subseteq backing
  BY DEF PagesFor
<1> HIDE DEF first
<1>3. a \in Nat /\ a \in LanesFrom(first, Lanes) /\ a - first = l - 1 /\ l - 1 \in 0 .. (Lanes - 1)
  BY <1>1, SMT DEF LanesFrom, first
<1>4. /\ a \in LanesFrom(first, Lanes) /\ a \in backing =>
            CellAt(data', a) = [value |-> written[a - first], stamp |-> clock + 1]
      /\ a \notin backing => CellAt(data', a) = ZeroCell /\ CellAt(data, a) = ZeroCell
  BY <1>2, CellsAfterAccess DEF first
<1>5. CASE a \in backing
  <2>1. CellAt(data', a) = [value |-> written[l - 1], stamp |-> clock + 1]
    BY <1>3, <1>4, <1>5, Zenon
  <2>2. CellAt(data', a).value = written[l - 1] /\ CellAt(data', a).stamp = clock + 1
    BY <2>1
  <2> QED BY <1>3, <2>2 DEF first
<1>6. CASE a \notin backing
  <2>1. ~isWrite /\ backing = DOMAIN data /\ written = ValuesFrom(data, first, Lanes)
    BY <1>3, <1>6 DEF PagesFor, first
  <2>2. first + (l - 1) = a
    BY <1>1, <1>3, SMT
  <2>3. written[l - 1] = CellAt(data, a).value
    BY <1>3, <2>1, <2>2 DEF ValuesFrom
  <2> QED BY <1>3, <1>4, <1>6, <2>1, <2>3 DEF first, ZeroCell
<1> QED BY <1>5, <1>6

\* The cells still tell what the log has left of an address.
LEMMA TracesAfterAccess ==
    ASSUME PagedInv, NEW row \in Row, NEW isWrite \in BOOLEAN,
           NEW written \in [0 .. (Lanes - 1) -> Value], NEW backing,
           PagesFor(row, written, isWrite, backing),
           PagedAccessRow(row, written, isWrite,
               Restamp(data, row * Lanes, Lanes, written, clock + 1, backing))
    PROVE  TracesCells' /\ PagesWritten' /\ ChainBreaksOnlyUnallocated'
<1> USE LanesAssumption
<1> DEFINE first == row * Lanes
           touched == LanesFrom(first, Lanes)
           n == Len(log)
<1>1. DOMAIN data' = backing /\ DOMAIN data \subseteq backing
  BY PagedAccessSound DEF PagesFor
<1>2. /\ data' = Restamp(data, first, Lanes, written, clock + 1, backing)
      /\ clock' = clock + 1 /\ start' = start
  BY DEF PagedAccessRow
<1>3. LogGrows(n, first, written, isWrite)
  <2>1. Logs(row, written, isWrite)
    BY DEF PagedAccessRow, Logs
  <2>2. log \in Seq(Access) /\ clock \in Nat /\ IsMemory(data) /\ row \in Nat
    BY RowAssumption DEF PagedInv, SplitInv, PagedSound, PagesSound
  <2> QED BY <2>1, <2>2, LogAfterAccess
<1>4. ASSUME NEW l \in 1 .. Lanes, NEW a, a = first + l - 1
      PROVE  /\ a \in Nat /\ a \in touched
             /\ CellAt(data', a).value = written[l - 1]
             /\ CellAt(data', a).stamp # clock + 1 =>
                   /\ CellAt(data', a).stamp = 0 /\ ~isWrite
                   /\ written[l - 1] = Zero /\ a \notin DOMAIN data
  BY <1>2, <1>4, CellsOfTheRow
<1>5. ASSUME NEW a, a \notin touched PROVE CellAt(data', a) = CellAt(data, a)
  BY <1>1, <1>2, <1>5, CellsAfterAccess
<1>6. first \in Nat /\ n \in Nat
  BY <1>3 DEF LogGrows
<1>7. ASSUME NEW a \in touched PROVE \E l \in 1 .. Lanes : a = first + l - 1
  <2> HIDE DEF first
  <2>1. (a - first) + 1 \in 1 .. Lanes /\ a = first + ((a - first) + 1) - 1
    BY <1>6, SMT DEF LanesFrom
  <2> QED BY <2>1
<1>8. /\ \A i \in 1 .. n : i \in 1 .. Len(log') /\ log'[i] = log[i]
      /\ \A l \in 1 .. Lanes : /\ n + l \in 1 .. Len(log')
                               /\ LaneLogged(n, l, first, written, isWrite)
      /\ \A i \in 1 .. Len(log') : i \in 1 .. n \/ \E l \in 1 .. Lanes : i = n + l
      /\ Len(log') = n + Lanes
  BY <1>3, Zenon DEF LogGrows
<1> HIDE DEF first, touched
<1>9. n = Len(log)
  OBVIOUS
<1> HIDE DEF n
<1>11. ASSUME NEW a, \A k \in 1 .. Len(log') : log'[k].address # a
       PROVE  a \notin touched /\ \A k \in 1 .. n : log[k].address # a
  <2>1. ASSUME a \in touched PROVE FALSE
    <3>1. PICK l \in 1 .. Lanes : a = first + l - 1
      BY <1>7, <2>1
    <3> QED BY <1>8, <1>11, <3>1 DEF LaneLogged
  <2> QED BY <1>8, <1>11, <2>1
<1>12. ASSUME NEW i \in 1 .. n, \A k \in (i + 1) .. Len(log') : log'[k].address # log'[i].address
       PROVE  LastAt(i) /\ log[i].address \notin touched
  <2>1. ASSUME log[i].address \in touched PROVE FALSE
    <3>1. PICK l \in 1 .. Lanes : log[i].address = first + l - 1
      BY <1>7, <2>1
    <3>2. n + l \in (i + 1) .. Len(log')
      BY <1>6, <1>8, SMT
    <3> QED BY <1>8, <1>12, <3>1, <3>2 DEF LaneLogged
  <2>2. ASSUME NEW k \in (i + 1) .. n PROVE log[k].address # log[i].address
    <3>1. k \in 1 .. n /\ k \in (i + 1) .. Len(log')
      BY <1>6, <1>8, SMT
    <3> QED BY <1>8, <1>12, <3>1
  <2> QED BY <1>9, <2>1, <2>2 DEF LastAt
<1>13. TracesCells'
  <2>1. ASSUME NEW i \in 1 .. Len(log'), LastAt(i)'
        PROVE  /\ CellAt(data', log'[i].address).value = log'[i].valueWritten
               /\ CellAt(data', log'[i].address).stamp # log'[i].writeStamp =>
                     CellAt(data', log'[i].address).stamp = 0 /\ FoundNoPage(i)'
    <3>1. CASE i \in 1 .. n
      <4>1. LastAt(i) /\ log[i].address \notin touched /\ log'[i] = log[i]
        BY <1>8, <1>12, <2>1, <3>1 DEF LastAt
      <4>2. CellAt(data', log'[i].address) = CellAt(data, log[i].address)
        BY <1>5, <4>1
      <4>3. /\ CellAt(data, log[i].address).value = log[i].valueWritten
            /\ CellAt(data, log[i].address).stamp # log[i].writeStamp =>
                  CellAt(data, log[i].address).stamp = 0 /\ FoundNoPage(i)
        BY <1>9, <3>1, <4>1 DEF PagedInv, TracesCells
      <4>4. ASSUME FoundNoPage(i) PROVE FoundNoPage(i)'
        <5>1. ASSUME NEW k \in 1 .. i PROVE log'[k] = log[k]
          <6>1. k \in 1 .. n
            BY <1>6, <3>1, SMT
          <6> QED BY <1>8, <6>1
        <5> QED BY <4>1, <4>4, <5>1 DEF FoundNoPage
      <4> QED BY <4>1, <4>2, <4>3, <4>4
    <3>2. ASSUME NEW l \in 1 .. Lanes, i = n + l
          PROVE  /\ CellAt(data', log'[i].address).value = log'[i].valueWritten
                 /\ CellAt(data', log'[i].address).stamp # log'[i].writeStamp =>
                       CellAt(data', log'[i].address).stamp = 0 /\ FoundNoPage(i)'
      <4> DEFINE a == first + l - 1
      <4>1. /\ log'[i].address = a /\ log'[i].valueWritten = written[l - 1]
            /\ log'[i].writeStamp = clock + 1 /\ log'[i].isWrite = isWrite
        BY <1>8, <3>2 DEF LaneLogged
      <4>2. /\ a \in Nat /\ a \in touched
            /\ CellAt(data', a).value = written[l - 1]
            /\ CellAt(data', a).stamp # clock + 1 =>
                  /\ CellAt(data', a).stamp = 0 /\ ~isWrite
                  /\ written[l - 1] = Zero /\ a \notin DOMAIN data
        BY <1>4
      <4> HIDE DEF a
      <4>3. ASSUME ~isWrite, written[l - 1] = Zero, a \notin DOMAIN data
            PROVE  FoundNoPage(i)'
        <5>1. ASSUME NEW k \in 1 .. i, log'[k].isWrite
              PROVE  log'[k].address \div PageSize # a \div PageSize
          <6>1. k \in 1 .. Len(log')
            BY <1>6, <1>8, <3>2, SMT
          <6>2. k \in 1 .. n
            BY <1>8, <4>3, <5>1, <6>1 DEF LaneLogged
          <6>3. log'[k] = log[k] /\ log[k].address \in DOMAIN data
            BY <1>8, <1>9, <5>1, <6>2 DEF PagedInv, PagesWritten
          <6> QED BY <4>2, <4>3, <6>3 DEF PagedInv, PagedSound, PagesSound, PageClosed
        <5> QED BY <4>1, <4>3, <5>1 DEF FoundNoPage
      <4> QED BY <4>1, <4>2, <4>3
    <3> QED BY <1>8, <3>1, <3>2
  <2>2. ASSUME NEW a \in Nat, \A k \in 1 .. Len(log') : log'[k].address # a
        PROVE  CellAt(data', a) = CellAt(start'.cells, a)
    <3>1. a \notin touched /\ \A k \in 1 .. n : log[k].address # a
      BY <1>11, <2>2
    <3> QED BY <1>2, <1>5, <1>9, <3>1 DEF PagedInv, TracesCells
  <2> QED BY <2>1, <2>2 DEF TracesCells
<1>14. PagesWritten'
  <2>1. ASSUME NEW k \in 1 .. Len(log'), log'[k].isWrite PROVE log'[k].address \in backing
    <3>1. CASE k \in 1 .. n
      BY <1>1, <1>8, <1>9, <2>1, <3>1 DEF PagedInv, PagesWritten
    <3>2. ASSUME NEW l \in 1 .. Lanes, k = n + l PROVE log'[k].address \in backing
      <4>1. isWrite /\ log'[k].address = first + l - 1
        BY <1>8, <2>1, <3>2 DEF LaneLogged
      <4>2. first + l - 1 \in touched
        BY <1>4
      <4> QED BY <4>1, <4>2 DEF PagesFor, touched, first
    <3> QED BY <1>8, <3>1, <3>2
  <2> QED BY <1>1, <2>1 DEF PagesWritten
<1>15. ChainBreaksOnlyUnallocated'
  <2>1. ASSUME NEW j \in 1 .. Len(log'), FirstAt(j)'
        PROVE  log'[j].valueRead = CellAt(start'.cells, log'[j].address).value
    <3>1. CASE j \in 1 .. n
      <4>1. ASSUME NEW k \in 1 .. (j - 1) PROVE log[k].address # log[j].address
        <5>1. k \in 1 .. n
          BY <1>6, <3>1, SMT
        <5> QED BY <1>8, <2>1, <3>1, <5>1 DEF FirstAt
      <4> QED BY <1>2, <1>8, <1>9, <3>1, <4>1
              DEF PagedInv, ChainBreaksOnlyUnallocated, FirstAt
    <3>2. ASSUME NEW l \in 1 .. Lanes, j = n + l
          PROVE  log'[j].valueRead = CellAt(start'.cells, log'[j].address).value
      <4> DEFINE a == first + l - 1
      <4>1. log'[j].address = a /\ log'[j].valueRead = CellAt(data, a).value
        BY <1>8, <3>2 DEF LaneLogged
      <4>2. ASSUME NEW k \in 1 .. n PROVE log[k].address # a
        <5>1. k \in 1 .. (j - 1)
          BY <1>6, <3>2, SMT
        <5> QED BY <1>8, <2>1, <4>1, <5>1 DEF FirstAt
      <4>3. a \in Nat
        BY <1>4
      <4> HIDE DEF a
      <4>4. CellAt(data, a) = CellAt(start.cells, a)
        BY <1>9, <4>2, <4>3 DEF PagedInv, TracesCells
      <4> QED BY <1>2, <4>1, <4>4
    <3> QED BY <1>8, <3>1, <3>2
  <2>2. ASSUME NEW j \in 1 .. Len(log'), NEW i \in 1 .. Len(log'), NextAt(i, j)'
        PROVE  /\ log'[j].valueRead = log'[i].valueWritten
               /\ log'[j].readStamp # log'[i].writeStamp =>
                     /\ log'[j].readStamp = 0 /\ log'[j].valueRead = Zero
                     /\ ~log'[i].isWrite
                     /\ \A k \in 1 .. i : log'[k].isWrite =>
                           log'[k].address \div PageSize # log'[j].address \div PageSize
    <3>1. /\ i < j /\ log'[i].address = log'[j].address
          /\ \A k \in (i + 1) .. (j - 1) : log'[k].address # log'[j].address
      BY <2>2 DEF NextAt
    <3>2. i \in 1 .. n
      <4>1. SUFFICES ASSUME i \notin 1 .. n PROVE FALSE
        OBVIOUS
      <4>2. PICK m \in 1 .. Lanes : i = n + m
        BY <1>8, <4>1
      <4>3. j \notin 1 .. n
        BY <1>6, <3>1, <4>2, SMT
      <4>4. PICK l \in 1 .. Lanes : j = n + l
        BY <1>8, <4>3
      <4>5. log'[i].address = first + m - 1 /\ log'[j].address = first + l - 1
        BY <1>8, <4>2, <4>4 DEF LaneLogged
      <4> QED BY <1>6, <3>1, <4>2, <4>4, <4>5, SMT
    <3>3. ASSUME NEW k \in 1 .. i PROVE log'[k] = log[k]
      <4>1. k \in 1 .. n
        BY <1>6, <3>2, SMT
      <4> QED BY <1>8, <4>1
    <3>4. log'[i] = log[i]
      BY <1>8, <3>2
    <3>5. CASE j \in 1 .. n
      <4>1. log'[j] = log[j]
        BY <1>8, <3>5
      <4>2. ASSUME NEW k \in (i + 1) .. (j - 1) PROVE log[k].address # log[j].address
        <5>1. k \in 1 .. n
          BY <1>6, <3>2, <3>5, SMT
        <5> QED BY <1>8, <3>1, <4>1, <5>1
      <4>3. NextAt(i, j)
        BY <3>1, <3>4, <4>1, <4>2 DEF NextAt
      <4>4. /\ log[j].valueRead = log[i].valueWritten
            /\ log[j].readStamp # log[i].writeStamp =>
                  /\ log[j].readStamp = 0 /\ log[j].valueRead = Zero
                  /\ ~log[i].isWrite
                  /\ \A k \in 1 .. i : log[k].isWrite =>
                        log[k].address \div PageSize # log[j].address \div PageSize
        BY <1>9, <3>2, <3>5, <4>3 DEF PagedInv, ChainBreaksOnlyUnallocated
      <4> QED BY <3>3, <3>4, <4>1, <4>4
    <3>6. ASSUME NEW l \in 1 .. Lanes, j = n + l
          PROVE  /\ log'[j].valueRead = log'[i].valueWritten
                 /\ log'[j].readStamp # log'[i].writeStamp =>
                       /\ log'[j].readStamp = 0 /\ log'[j].valueRead = Zero
                       /\ ~log'[i].isWrite
                       /\ \A k \in 1 .. i : log'[k].isWrite =>
                             log'[k].address \div PageSize # log'[j].address \div PageSize
      <4> DEFINE a == first + l - 1
      <4>1. /\ log'[j].address = a /\ log'[j].valueRead = CellAt(data, a).value
            /\ log'[j].readStamp = CellAt(data, a).stamp
        BY <1>8, <3>6 DEF LaneLogged
      <4> HIDE DEF a
      <4>2. log[i].address = a
        BY <3>1, <3>4, <4>1
      <4>3. LastAt(i)
        <5>1. ASSUME NEW k \in (i + 1) .. n PROVE log[k].address # log[i].address
          <6>1. k \in (i + 1) .. (j - 1) /\ k \in 1 .. n
            BY <1>6, <3>2, <3>6, SMT
          <6> QED BY <1>8, <3>1, <4>1, <4>2, <6>1
        <5> QED BY <1>9, <5>1 DEF LastAt
      <4>4. /\ CellAt(data, a).value = log[i].valueWritten
            /\ CellAt(data, a).stamp # log[i].writeStamp =>
                  CellAt(data, a).stamp = 0 /\ FoundNoPage(i)
        BY <1>9, <3>2, <4>2, <4>3 DEF PagedInv, TracesCells
      <4> QED BY <3>3, <3>4, <4>1, <4>2, <4>4 DEF FoundNoPage
    <3> QED BY <1>8, <3>5, <3>6
  <2> QED BY <2>1, <2>2 DEF ChainBreaksOnlyUnallocated
<1> QED BY <1>13, <1>14, <1>15

\* Stamps of a row differ only across pages, in the cells and in the log.
LEMMA AlikeAfterAccess ==
    ASSUME PagedInv, NEW row \in Row, NEW isWrite \in BOOLEAN,
           NEW written \in [0 .. (Lanes - 1) -> Value], NEW backing,
           PagesFor(row, written, isWrite, backing),
           PagedAccessRow(row, written, isWrite,
               Restamp(data, row * Lanes, Lanes, written, clock + 1, backing))
    PROVE  RowsAlike' /\ StampsDifferAcrossPages'
<1> USE LanesAssumption
<1> DEFINE first == row * Lanes
           touched == LanesFrom(first, Lanes)
           n == Len(log)
<1>1. /\ DOMAIN data' = backing /\ DOMAIN data \subseteq backing /\ PageClosed(backing)
      /\ \A i, j \in 1 .. Len(log') :
            log'[i].writeStamp = log'[j].writeStamp => OldOrNew(i, j, row)
  BY PagedAccessSound DEF PagesFor
<1>2. data' = Restamp(data, first, Lanes, written, clock + 1, backing)
  BY DEF PagedAccessRow
<1>3. LogGrows(n, first, written, isWrite)
  <2>1. Logs(row, written, isWrite)
    BY DEF PagedAccessRow, Logs
  <2>2. log \in Seq(Access) /\ clock \in Nat /\ IsMemory(data) /\ row \in Nat
    BY RowAssumption DEF PagedInv, SplitInv, PagedSound, PagesSound
  <2> QED BY <2>1, <2>2, LogAfterAccess
<1>4. row \in Nat /\ first \in Nat /\ n \in Nat /\ n = Len(log)
  BY <1>3, RowAssumption DEF LogGrows
<1>5. ASSUME NEW a \in Nat
      PROVE  /\ a \in touched <=> a \div Lanes = row
             /\ a \notin touched => CellAt(data', a) = CellAt(data, a)
             /\ a \in touched /\ a \in backing => CellAt(data', a).stamp = clock + 1
             /\ a \notin backing => CellAt(data', a).stamp = 0
             /\ a \in touched => \E k \in 1 .. Len(log') : log'[k].address = a
  <2>1. a \in touched <=> a \div Lanes = row
    BY <1>4, DivRow
  <2>2. /\ a \in touched /\ a \in backing =>
              CellAt(data', a) = [value |-> written[a - first], stamp |-> clock + 1]
        /\ a \notin touched => CellAt(data', a) = CellAt(data, a)
        /\ a \notin backing => CellAt(data', a) = ZeroCell
    BY <1>1, <1>2, CellsAfterAccess
  <2>3. ASSUME a \in touched PROVE \E k \in 1 .. Len(log') : log'[k].address = a
    <3> HIDE DEF first, n
    <3>1. (a - first) + 1 \in 1 .. Lanes /\ a = first + ((a - first) + 1) - 1
      BY <1>4, <2>3, SMT DEF LanesFrom
    <3>2. PICK l \in 1 .. Lanes : a = first + l - 1
      BY <3>1
    <3>3. n + l \in 1 .. Len(log') /\ LaneLogged(n, l, first, written, isWrite)
      BY <1>3 DEF LogGrows
    <3> QED BY <3>2, <3>3 DEF LaneLogged
  <2> HIDE DEF touched, first
  <2> QED BY <2>1, <2>2, <2>3 DEF ZeroCell
<1>6. \A k \in 1 .. n : k \in 1 .. Len(log') /\ log'[k] = log[k]
  BY <1>3 DEF LogGrows
<1> HIDE DEF touched, first, n
<1>7. RowsAlike'
  <2> SUFFICES ASSUME NEW a \in Nat, NEW b \in Nat, a \div Lanes = b \div Lanes,
                      CellAt(data', a).stamp # CellAt(data', b).stamp
               PROVE  /\ a \div PageSize # b \div PageSize
                      /\ \E c \in {a, b} : /\ CellAt(data', c).stamp = 0
                                           /\ \E k \in 1 .. Len(log') : log'[k].address = c
    BY DEF RowsAlike
  <2>1. CASE a \in touched
    <3>1. b \in touched
      BY <1>5, <2>1
    <3>2. ~(a \in backing /\ b \in backing) /\ (a \in backing \/ b \in backing)
      BY <1>5, <2>1, <3>1
    <3>3. a \div PageSize # b \div PageSize
      BY <1>1, <3>2 DEF PageClosed
    <3> QED BY <1>5, <2>1, <3>1, <3>2, <3>3
  <2>2. CASE a \notin touched
    <3>1. b \notin touched
      BY <1>5, <2>2
    <3>2. CellAt(data', a) = CellAt(data, a) /\ CellAt(data', b) = CellAt(data, b)
      BY <1>5, <2>2, <3>1
    <3>3. /\ a \div PageSize # b \div PageSize
          /\ \E c \in {a, b} : /\ CellAt(data, c).stamp = 0
                               /\ \E k \in 1 .. Len(log) : log[k].address = c
      BY <3>2 DEF PagedInv, RowsAlike
    <3>4. PICK c \in {a, b} : /\ CellAt(data, c).stamp = 0
                              /\ \E k \in 1 .. Len(log) : log[k].address = c
      BY <3>3
    <3>5. PICK k \in 1 .. n : log[k].address = c
      BY <1>4, <3>4
    <3> QED BY <1>6, <3>2, <3>3, <3>4, <3>5
  <2> QED BY <2>1, <2>2
<1>8. StampsDifferAcrossPages'
  <2> SUFFICES ASSUME NEW i \in 1 .. Len(log'), NEW j \in 1 .. Len(log'),
                      log'[i].writeStamp = log'[j].writeStamp,
                      log'[i].readStamp # log'[j].readStamp
               PROVE  /\ log'[i].address \div PageSize # log'[j].address \div PageSize
                      /\ \E k \in {i, j} : log'[k].readStamp = 0 /\ ~FirstAt(k)'
    BY DEF StampsDifferAcrossPages
  <2>1. ASSUME NEW k \in 1 .. n, ~FirstAt(k) PROVE ~FirstAt(k)'
    <3>1. PICK m \in 1 .. (k - 1) : log[m].address = log[k].address
      BY <2>1 DEF FirstAt
    <3>2. m \in 1 .. n
      BY <1>4, SMT
    <3> QED BY <1>6, <3>1, <3>2 DEF FirstAt
  <2>2. CASE /\ i \in 1 .. Len(log) /\ log'[i] = log[i]
             /\ j \in 1 .. Len(log) /\ log'[j] = log[j]
    <3>1. /\ log[i].address \div PageSize # log[j].address \div PageSize
          /\ \E k \in {i, j} : log[k].readStamp = 0 /\ ~FirstAt(k)
      BY <2>2 DEF PagedInv, StampsDifferAcrossPages
    <3>2. PICK k \in {i, j} : log[k].readStamp = 0 /\ ~FirstAt(k)
      BY <3>1
    <3> QED BY <1>4, <2>1, <2>2, <3>1, <3>2
  <2>3. ASSUME i \notin 1 .. Len(log) \/ j \notin 1 .. Len(log)
        PROVE  i \notin 1 .. Len(log) /\ j \notin 1 .. Len(log)
    <3>1. ASSUME NEW k \in 1 .. Len(log') PROVE log'[k].writeStamp = clock + 1 <=> k \notin 1 .. n
      <4>1. CASE k \in 1 .. n
        <5>1. log'[k] = log[k] /\ log[k].writeStamp =< clock /\ clock \in Nat
          BY <1>4, <1>6, <4>1 DEF PagedInv, SplitInv
        <5>2. log'[k].writeStamp # clock + 1
          BY <5>1, SMT
        <5> QED BY <4>1, <5>2
      <4>2. CASE k \notin 1 .. n
        <5>1. PICK l \in 1 .. Lanes : k = n + l
          BY <1>3, <4>2 DEF LogGrows
        <5>2. log'[k].writeStamp = clock + 1
          BY <1>3, <5>1 DEF LogGrows, LaneLogged
        <5> QED BY <4>2, <5>2
      <4> QED BY <4>1, <4>2
    <3> QED BY <1>4, <2>3, <3>1
  <2>4. CASE i \notin 1 .. Len(log) /\ j \notin 1 .. Len(log)
    <3>1. PICK a \in Nat, b \in Nat :
             /\ a \div Lanes = row /\ b \div Lanes = row
             /\ log'[i].address = a /\ log'[i].readStamp = CellAt(data, a).stamp
             /\ log'[j].address = b /\ log'[j].readStamp = CellAt(data, b).stamp
      BY <1>1, <2>4 DEF OldOrNew
    <3>2. /\ a \div PageSize # b \div PageSize
          /\ \E c \in {a, b} : /\ CellAt(data, c).stamp = 0
                               /\ \E k \in 1 .. Len(log) : log[k].address = c
      BY <3>1 DEF PagedInv, RowsAlike
    <3>3. PICK c \in {a, b} : /\ CellAt(data, c).stamp = 0
                              /\ \E k \in 1 .. Len(log) : log[k].address = c
      BY <3>2
    <3>4. PICK k \in {i, j} : log'[k].address = c /\ log'[k].readStamp = 0
      BY <3>1, <3>3
    <3>5. PICK m \in 1 .. n : log[m].address = c
      BY <1>4, <3>3
    <3>6. m \in 1 .. (k - 1)
      <4>1. k \in 1 .. Len(log') /\ k \notin 1 .. n
        BY <1>4, <2>4, <3>4
      <4>2. PICK l \in 1 .. Lanes : k = n + l
        BY <1>3, <4>1 DEF LogGrows
      <4> QED BY <1>4, <4>2, SMT
    <3>7. ~FirstAt(k)'
      BY <1>6, <3>4, <3>5, <3>6 DEF FirstAt
    <3> QED BY <3>1, <3>2, <3>4, <3>7
  <2>5. CASE i \in 1 .. Len(log) /\ j \in 1 .. Len(log)
    <3>1. log'[i] = log[i] /\ log'[j] = log[j]
      BY <1>4, <1>6, <2>5
    <3> QED BY <2>2, <2>5, <3>1
  <2> QED BY <2>3, <2>4, <2>5
<1> QED BY <1>7, <1>8

\* An access keeps the invariant.
LEMMA PagedAccessPreserves ==
    ASSUME PagedInv, NEW row \in Row, NEW isWrite \in BOOLEAN,
           NEW written \in [0 .. (Lanes - 1) -> Value], NEW backing,
           PagesFor(row, written, isWrite, backing),
           PagedAccessRow(row, written, isWrite,
               Restamp(data, row * Lanes, Lanes, written, clock + 1, backing))
    PROVE  PagedInv'
BY PagedAccessSound, AlikeAfterAccess, TracesAfterAccess DEF PagedInv

-----------------------------------------------------------------------------

\* What an empty log says: nothing, when the recording starts from the cells
\* and these are alike in every row.
LEMMA PagedRestart ==
    ASSUME PagedSound', start'.clock = clock', start'.cells = data', log' = <<>>,
           \A a, b \in Nat : a \div Lanes = b \div Lanes =>
               CellAt(data', a).stamp = CellAt(data', b).stamp
    PROVE  PagedInv'
<1>1. clock' \in Nat
  BY DEF PagedSound, PagesSound
<1>2. SplitInv'
  <2>1. RecoverableInv'
    BY <1>1, RestartRecoverable
  <2>2. RecoverableInv' => SplitInv'
    BY DEF RecoverableInv, AccessesRecoverable, SplitInv, LogSplits
  <2> QED BY <2>1, <2>2
<1>3. RowsAlike'
  BY DEF RowsAlike
<1>4. TracesCells' /\ PagesWritten' /\ ChainBreaksOnlyUnallocated' /\ StampsDifferAcrossPages'
  BY EmptyLog DEF TracesCells, PagesWritten, ChainBreaksOnlyUnallocated, StampsDifferAcrossPages
<1> QED BY <1>2, <1>3, <1>4 DEF PagedInv

\* Restoring sound cells adds cells nobody touched, up to whole pages.
LEMMA RestoredPages ==
    ASSUME NEW cells, NEW t \in Nat, Sound(cells, t), NEW restored,
           restored = [a \in PagesOf(DOMAIN cells) |-> CellAt(cells, a)]
    PROVE  /\ PagesSound(restored, t)
           /\ \A a, b \in Nat : a \div Lanes = b \div Lanes =>
                 CellAt(restored, a).stamp = CellAt(restored, b).stamp
<1> DEFINE D == DOMAIN cells
<1>1. D \subseteq Nat /\ IsMemory(cells)
  BY DEF Sound, IsMemory
<1>2. /\ PagesOf(D) \subseteq Nat /\ D \subseteq PagesOf(D)
      /\ \A b \in Nat : b \in PagesOf(D) <=>
            \E a \in D : b \div PageSize = a \div PageSize
  BY <1>1, PagesOfAddresses
<1>3. PageClosed(PagesOf(D))
  BY <1>2 DEF PageClosed
<1>4. ASSUME NEW a PROVE CellAt(cells, a) \in Cell /\ CellAt(cells, a).stamp =< t
  <2>1. CellAt(cells, a) \in Cell
    BY <1>1, CellAtType
  <2>2. 0 =< t
    BY SMT
  <2> QED BY <2>1, <2>2 DEF CellAt, Sound, ZeroCell
<1>5. DOMAIN restored = PagesOf(D) /\ \A a \in PagesOf(D) : restored[a] = CellAt(cells, a)
  OBVIOUS
<1>6. IsMemory(restored)
  <2>1. restored \in [PagesOf(D) -> Cell]
    BY <1>4
  <2> QED BY <1>2, <1>5, <2>1 DEF IsMemory
<1>7. PagesSound(restored, t)
  BY <1>3, <1>4, <1>5, <1>6 DEF PagesSound
<1>8. ASSUME NEW a PROVE CellAt(restored, a) = CellAt(cells, a)
  BY <1>2, <1>5 DEF CellAt
<1> QED BY <1>7, <1>8, RowStampedAlike

\* A memory restored from a sound checkpoint satisfies the invariant.
LEMMA PagedRestoreSound ==
    ASSUME PagedInv, NEW checkpoint, checkpoint.clock \in Nat,
           Sound(UnpackTimed(checkpoint.page, Lanes), checkpoint.clock),
           RestoreFrom(checkpoint)
    PROVE  PagedInv'
<1> DEFINE cells == UnpackTimed(checkpoint.page, Lanes)
           restored == [a \in PagesOf(DOMAIN cells) |-> CellAt(cells, a)]
<1>1. /\ clock' = checkpoint.clock /\ data' = restored /\ saved' = saved /\ log' = <<>>
      /\ start' = [cells |-> restored, clock |-> checkpoint.clock]
  BY DEF RestoreFrom
<1>2. Sound(cells, checkpoint.clock)
  OBVIOUS
<1>3. start'.cells = data' /\ start'.clock = clock'
  BY <1>1
<1> HIDE DEF cells
<1>4. /\ PagesSound(restored, checkpoint.clock)
      /\ \A a, b \in Nat : a \div Lanes = b \div Lanes =>
            CellAt(restored, a).stamp = CellAt(restored, b).stamp
  BY <1>2, RestoredPages
<1> HIDE DEF restored
<1>5. PagedSound'
  BY <1>1, <1>4 DEF PagedInv, PagedSound
<1> QED BY <1>1, <1>3, <1>4, <1>5, PagedRestart

\* What another machine saves of whole rows is sound.
LEMMA ForeignSound ==
    ASSUME NEW t \in Nat, NEW rows, rows \subseteq Row, NEW stamps \in [rows -> 0 .. t],
           NEW values \in [UNION {LanesFrom(r * Lanes, Lanes) : r \in rows} -> Value]
    PROVE  Sound(UnpackTimed([values |-> values, stamps |-> stamps], Lanes), t)
<1> USE LanesAssumption
<1> DEFINE D == UNION {LanesFrom(r * Lanes, Lanes) : r \in rows}
           cells == UnpackTimed([values |-> values, stamps |-> stamps], Lanes)
<1>1. DOMAIN cells = D /\ cells = [a \in D |-> cells[a]]
      /\ \A a \in D : cells[a] = [value |-> values[a], stamp |-> stamps[a \div Lanes]]
  BY DEF UnpackTimed
<1>2. ASSUME NEW r \in rows
      PROVE  r \in Nat /\ r * Lanes \in Nat
  BY <1>2, RowAssumption, SMT
<1>3. D \subseteq Nat
  <2>1. \A f \in Nat : LanesFrom(f, Lanes) \subseteq Nat
    BY SMT DEF LanesFrom
  <2> QED BY <1>2, <2>1
<1>4. ASSUME NEW a \in D
      PROVE  /\ a \div Lanes \in rows
             /\ LanesFrom((a \div Lanes) * Lanes, Lanes) \subseteq D
  <2>1. PICK r \in rows : a \in LanesFrom(r * Lanes, Lanes)
    OBVIOUS
  <2>2. a \div Lanes = r
    BY <1>2, <1>3, <2>1, DivRow
  <2> QED BY <2>2
<1> HIDE DEF cells, D
<1>5. ASSUME NEW a \in D PROVE cells[a] \in Cell /\ cells[a].stamp =< t
  <2>1. stamps[a \div Lanes] \in 0 .. t /\ values[a] \in Value
    BY <1>4 DEF D
  <2>2. stamps[a \div Lanes] \in Nat /\ stamps[a \div Lanes] =< t
    BY <2>1, SMT
  <2> QED BY <1>1, <2>1, <2>2 DEF Cell
<1>6. IsMemory(cells)
  <2>1. cells \in [D -> Cell]
    BY <1>1, <1>5, Zenon
  <2> QED BY <1>1, <1>3, <2>1 DEF IsMemory
<1>7. Sound(cells, t)
  BY <1>1, <1>4, <1>5, <1>6 DEF Sound
<1> QED BY <1>7 DEF cells

\* No cells at all are whole pages.
LEMMA EmptyPages ==
    /\ \A t \in Nat : PagesSound(<<>>, t)
    /\ \A a : CellAt(<<>>, a) = ZeroCell
<1>1. DOMAIN <<>> = {}
  BY SMT
<1> QED BY <1>1, EmptySound DEF PageClosed, PagesSound, Sound, CellAt

\* The invariant of a paged memory holds in every state.
THEOREM PagedInvariant == PagedSpec => []PagedInv
<1>1. Init => PagedInv
  <2> SUFFICES ASSUME Init PROVE PagedInv
    OBVIOUS
  <2>1. PagedSound
    BY EmptyPages DEF Init, PagedSound
  <2>2. Lanes * (0 - 0) = 0 /\ 0 \in 0 .. 0
    BY LanesAssumption, SMT
  <2>3. SplitInv
    BY <2>2, EmptyLog DEF Init, Blank, SplitInv, LogSplits
  <2>4. /\ TracesCells /\ PagesWritten /\ ChainBreaksOnlyUnallocated
        /\ StampsDifferAcrossPages
    BY EmptyLog DEF Init, Blank, TracesCells, PagesWritten, ChainBreaksOnlyUnallocated,
                    StampsDifferAcrossPages
  <2>5. RowsAlike
    BY EmptyPages DEF Init, RowsAlike
  <2> QED BY <2>1, <2>3, <2>4, <2>5 DEF PagedInv
<1>2. PagedInv /\ [PagedNext]_vars => PagedInv'
  <2> SUFFICES ASSUME PagedInv, [PagedNext]_vars PROVE PagedInv'
    OBVIOUS
  <2>1. /\ PagesSound(data, clock) /\ IsMemory(data) /\ PageClosed(DOMAIN data)
        /\ clock \in Nat
    BY DEF PagedInv, PagedSound, PagesSound
  <2>2. ASSUME NEW row \in Row, PagedReadRow(row) PROVE PagedInv'
    <3> DEFINE values == ValuesFrom(data, row * Lanes, Lanes)
    <3>1. values \in [0 .. (Lanes - 1) -> Value]
      BY <2>1, CellAtType DEF ValuesFrom, Cell
    <3>2. PagesFor(row, values, FALSE, DOMAIN data)
      BY <2>1 DEF PagesFor
    <3>3. PagedAccessRow(row, values, FALSE,
              Restamp(data, row * Lanes, Lanes, values, clock + 1, DOMAIN data))
      BY <2>2 DEF PagedReadRow
    <3> HIDE DEF values
    <3> QED BY <3>1, <3>2, <3>3, PagedAccessPreserves
  <2>3. ASSUME NEW row \in Row, PagedWriteRow(row) PROVE PagedInv'
    <3> DEFINE lanes == LanesFrom(row * Lanes, Lanes)
               backing == DOMAIN data \cup PagesOf(lanes)
    <3>1. PICK written \in [0 .. (Lanes - 1) -> Value] :
             PagedAccessRow(row, written, TRUE,
                 Restamp(data, row * Lanes, Lanes, written, clock + 1, backing))
      BY <2>3 DEF PagedWriteRow
    <3>2. lanes \subseteq Nat
      <4>1. row * Lanes \in Nat
        BY RowAssumption, LanesAssumption, SMT
      <4> QED BY <4>1, LanesAssumption, SMT DEF LanesFrom
    <3>3. PageClosed(backing) /\ lanes \subseteq backing
      BY <2>1, <3>2, PagesStayClosed, PagesOfAddresses
    <3>4. PagesFor(row, written, TRUE, backing)
      BY <3>3 DEF PagesFor
    <3> HIDE DEF backing
    <3> QED BY <3>1, <3>4, PagedAccessPreserves
  <2>4. CASE PagedRestore
    <3>1. PICK time \in 0 .. MaxClock, rows \in SUBSET Row :
             \E stamps \in [rows -> 0 .. time],
                values \in [UNION {LanesFrom(r * Lanes, Lanes) : r \in rows} -> Value] :
                RestoreFrom([clock |-> time, page |-> [values |-> values, stamps |-> stamps]])
      BY <2>4 DEF PagedRestore
    <3>2. PICK stamps \in [rows -> 0 .. time],
               values \in [UNION {LanesFrom(r * Lanes, Lanes) : r \in rows} -> Value] :
             RestoreFrom([clock |-> time, page |-> [values |-> values, stamps |-> stamps]])
      BY <3>1
    <3> DEFINE checkpoint == [clock |-> time, page |-> [values |-> values, stamps |-> stamps]]
    <3>3. time \in Nat
      BY ClockAssumption, SMT
    <3>4. Sound(UnpackTimed([values |-> values, stamps |-> stamps], Lanes), time)
      BY <3>3, ForeignSound
    <3>5. /\ checkpoint.clock \in Nat
          /\ Sound(UnpackTimed(checkpoint.page, Lanes), checkpoint.clock)
          /\ RestoreFrom(checkpoint)
      BY <3>2, <3>3, <3>4
    <3> HIDE DEF checkpoint
    <3> QED BY <3>5, PagedRestoreSound
  <2>5. CASE Initialise
    <3>1. /\ clock' = 0 /\ data' = <<>> /\ saved' = saved /\ log' = <<>>
          /\ start'.cells = <<>> /\ start'.clock = 0
      BY <2>5 DEF Initialise, Blank
    <3>2. PagedSound'
      BY <3>1, EmptyPages DEF PagedInv, PagedSound
    <3> QED BY <3>1, <3>2, EmptyPages, PagedRestart
  <2>6. CASE UNCHANGED vars
    <3>1. /\ data' = data /\ clock' = clock /\ log' = log /\ start' = start
          /\ saved' = saved
      BY <2>6 DEF vars
    <3>2. PagedSound'
      BY <3>1 DEF PagedInv, PagedSound
    <3>3. SplitInv' /\ RowsAlike' /\ StampsDifferAcrossPages'
      BY <3>1 DEF PagedInv, SplitInv, LogSplits, RowsAlike, StampsDifferAcrossPages, FirstAt
    <3>4. TracesCells' /\ PagesWritten'
      BY <3>1 DEF PagedInv, TracesCells, LastAt, FoundNoPage, PagesWritten
    <3>5. ChainBreaksOnlyUnallocated'
      BY <3>1 DEF PagedInv, ChainBreaksOnlyUnallocated, NextAt, FirstAt
    <3> QED BY <3>2, <3>3, <3>4, <3>5 DEF PagedInv
  <2> QED BY <2>2, <2>3, <2>4, <2>5, <2>6 DEF PagedNext
<1> QED BY <1>1, <1>2, PTL DEF PagedSpec

\* The values a paged memory logs are chained, and a stamp is lost only between
\* reads of a page that no write allocated (paged_ram.go, Read), whether or not
\* the pages are aligned with the rows.
THEOREM OnlySparsityBreaksTheChain == PagedSpec => []ChainBreaksOnlyUnallocated
<1>1. PagedInv => ChainBreaksOnlyUnallocated
  BY DEF PagedInv
<1> QED BY <1>1, PagedInvariant, PTL

\* The log of a paged memory splits into accesses by equal write stamps although
\* reads of absent pages stamp no cell, and the records of an access read one
\* stamp unless they lie on two pages and one of them had lost its own.
THEOREM PagedAccessesAreRecoverable == PagedSpec => []PagedAccessesRecoverable
<1>1. PagedInv => PagedAccessesRecoverable
  BY Zenon DEF PagedInv, SplitInv, LogSplits, StampsDifferAcrossPages,
               PagedAccessesRecoverable
<1> QED BY <1>1, PagedInvariant, PTL
=============================================================================
