------------------------ MODULE MemoryHandover_proofs -----------------------
(***************************************************************************)
(* Proofs about MemoryHandover, for every set of rows, every number of     *)
(* bytes in a row, every way the registers of either machine cut a row,    *)
(* every page size and every bound on the clock.                           *)
(*                                                                         *)
(* The two machines' cells are never compared, only the bytes of a row     *)
(* (BytesOf).  An access changes the bytes of its row, and those alone, on *)
(* either machine (BytesAfterRead, BytesAfterWrite), so that rows which    *)
(* are the same stay the same.  A checkpoint is a set of pages, each a run *)
(* of rows (ChunksAreRuns); a byte of a run keeps its place in its row     *)
(* when the run is cut where other registers end (RunByte, UnpackedRow),   *)
(* and a row that is in no run reads as zero on both machines              *)
(* (RestoredRow).  One stamp per row is enough because the fast machine    *)
(* allocates rows whole and stamps their cells alike (FastInv), wherever   *)
(* Checkpoint does not panic (Aligned); of the pages the tracing machine   *)
(* has, nothing is needed.                                                 *)
(***************************************************************************)
EXTENDS MemoryHandover, NaturalRecursion, FiniteSetTheorems, SequenceTheorems, TLAPS

-----------------------------------------------------------------------------
\* Rows, cells and bytes.

\* Quotient and remainder are unique.
LEMMA Division ==
    ASSUME NEW q \in Nat \ {0}, NEW z \in Nat, NEW e \in 0 .. (q - 1), NEW x, x = z * q + e
    PROVE  x \in Nat /\ x \div q = z /\ x % q = e
<1> DEFINE y == x \div q
           r == x % q
           u == z * q
           v == y * q
<1>1. u \in Nat /\ x = u + e /\ x \in Nat
  <2>1. u \in Nat
    BY SMT
  <2>2. x = u + e
    OBVIOUS
  <2> HIDE DEF u
  <2> QED BY <2>1, <2>2
<1>2. y \in Nat /\ r \in 0 .. (q - 1) /\ x = v + r /\ v \in Nat
  <2> HIDE DEF u
  <2>1. y \in Nat /\ r \in 0 .. (q - 1) /\ x = q * y + r
    BY <1>1, SMT
  <2>2. q * y = y * q /\ y * q \in Nat
    BY <2>1, SMT
  <2> QED BY <2>1, <2>2
<1> HIDE DEF y, r
<1>3. ASSUME NEW a \in Nat, NEW b \in Nat, a < b PROVE a * q + q <= b * q
  <2>1. PICK d \in Nat : b = a + 1 + d
    <3>1. b - a - 1 \in Nat /\ b = a + 1 + (b - a - 1)
      BY <1>3
    <3> QED BY <3>1
  <2>2. b * q = a * q + q + d * q /\ d * q \in Nat /\ a * q \in Nat
    BY <2>1, SMT
  <2> DEFINE f == d * q
             g == a * q
             h == b * q
  <2>3. h = g + q + f /\ f \in Nat /\ g \in Nat
    BY <2>2
  <2> HIDE DEF f, g, h
  <2>4. g + q <= h
    BY <2>3
  <2> QED BY <2>4 DEF g, h
<1>4. ~ z < y
  <2> SUFFICES ASSUME z < y PROVE FALSE
    OBVIOUS
  <2>1. u + q <= v
    BY <1>2, <1>3
  <2> HIDE DEF u, v
  <2> QED BY <1>1, <1>2, <2>1
<1>5. ~ y < z
  <2> SUFFICES ASSUME y < z PROVE FALSE
    OBVIOUS
  <2>1. v + q <= u
    BY <1>2, <1>3
  <2> HIDE DEF u, v
  <2> QED BY <1>1, <1>2, <2>1
<1>6. y = z
  BY <1>2, <1>4, <1>5
<1>7. r = e
  <2>1. u = v
    BY <1>6
  <2> HIDE DEF u, v
  <2> QED BY <1>1, <1>2, <2>1
<1> QED BY <1>1, <1>6, <1>7 DEF y, r

\* What divides a number divides it into that many parts.
LEMMA Divides ==
    ASSUME NEW n \in Nat \ {0}, NEW d \in Nat \ {0}, n % d = 0
    PROVE  n \div d \in Nat \ {0} /\ n = d * (n \div d)
<1> DEFINE q == n \div d
<1>1. q \in Nat /\ n = d * q + (n % d)
  <2>1. \A x \in Nat : x \div d \in Nat /\ x = d * (x \div d) + (x % d)
    BY SMT
  <2> QED BY <2>1, Zenon
<1>2. d * 0 = 0
  BY SMT
<1>3. d * q = n
  <2>1. d * q \in Nat
    BY <1>1, SMT
  <2> DEFINE p == d * q
  <2>2. p \in Nat /\ n = p + 0
    BY <1>1, <2>1
  <2> HIDE DEF p
  <2>3. p = n
    BY <2>2
  <2> QED BY <2>3 DEF p
<1> HIDE DEF q
<1>4. q # 0
  BY <1>2, <1>3
<1> QED BY <1>1, <1>3, <1>4 DEF q

\* The constants, as they are used here.
LEMMA Geometry ==
    /\ IsGeometry(FastEnds) /\ IsGeometry(TraceEnds)
    /\ FastLanes \in Nat \ {0} /\ TraceLanes \in Nat \ {0}
    /\ RowBytes \in Nat \ {0} /\ PageSize \in Nat \ {0} /\ Row \subseteq Nat
<1>1. ASSUME NEW ends, IsGeometry(ends) PROVE Len(ends) \in Nat \ {0}
  BY <1>1, EmptySeq DEF IsGeometry
<1>2. /\ IsGeometry(FastEnds) /\ IsGeometry(TraceEnds) /\ RowBytes \in Nat \ {0}
      /\ PageSize \in Nat \ {0} /\ Row \subseteq Nat
  BY GeometryAssumption
<1> QED BY <1>1, <1>2 DEF FastLanes, TraceLanes

\* A lane's bytes are some bytes of the row.
LEMMA LaneBytes ==
    ASSUME NEW ends, IsGeometry(ends), NEW j \in 0 .. (Len(ends) - 1)
    PROVE  /\ Len(ends) \in Nat \ {0} /\ Start(ends, j) \in Nat /\ Width(ends, j) \in Nat \ {0}
           /\ ends[j + 1] = Start(ends, j) + Width(ends, j)
           /\ ends[j + 1] \in 1 .. RowBytes
<1>1. /\ Len(ends) \in Nat \ {0} /\ RowBytes \in Nat
      /\ \A k \in 1 .. Len(ends) : ends[k] \in 1 .. RowBytes
  BY Geometry, EmptySeq DEF IsGeometry
<1>2. ends[j + 1] \in 1 .. RowBytes
  <2>1. j + 1 \in 1 .. Len(ends)
    BY <1>1
  <2> QED BY <1>1, <2>1
<1>3. CASE j = 0
  <2>1. Start(ends, j) = 0
    BY <1>3 DEF Start
  <2> QED BY <1>1, <1>2, <2>1 DEF Width
<1>4. CASE j # 0
  <2>1. Start(ends, j) = ends[j] /\ j \in 1 .. Len(ends) /\ j + 1 \in 1 .. Len(ends) /\ j < j + 1
    BY <1>1, <1>4 DEF Start
  <2>2. ends[j] < ends[j + 1] /\ ends[j] \in 1 .. RowBytes
    BY <1>1, <2>1 DEF IsGeometry
  <2> QED BY <1>1, <1>2, <2>1, <2>2 DEF Width
<1> QED BY <1>3, <1>4

\* The cell of a row that has a byte, and where the byte is in it.
LEMMA CellOfByte ==
    ASSUME NEW ends, IsGeometry(ends), NEW b \in 1 .. RowBytes
    PROVE  LET j == LaneOf(ends, b)
           IN  /\ j \in 0 .. (Len(ends) - 1)
               /\ b - Start(ends, j) \in 1 .. Width(ends, j)
               /\ b - Start(ends, j) \in 1 .. RowBytes
               /\ Start(ends, j) \in Nat /\ Width(ends, j) \in Nat
<1> DEFINE S == {l \in 1 .. Len(ends) : b =< ends[l]}
           j == LaneOf(ends, b)
<1>1. /\ Len(ends) \in Nat \ {0} /\ RowBytes \in Nat /\ ends[Len(ends)] = RowBytes
      /\ \A k \in 1 .. Len(ends) : ends[k] \in 1 .. RowBytes
  BY Geometry, EmptySeq DEF IsGeometry
<1>2. Len(ends) \in S
  BY <1>1
<1>3. PICK l \in S : \A k \in S : l =< k
  <2>1. S \in SUBSET Nat /\ S # {}
    BY <1>1, <1>2
  <2> HIDE DEF S
  <2> QED BY <2>1, Smallest
<1>4. l - 1 \in 0 .. (Len(ends) - 1) /\ Start(ends, l - 1) < b /\ b =< ends[l - 1 + 1]
  <2>1. l - 1 \in 0 .. (Len(ends) - 1) /\ l - 1 + 1 = l /\ b =< ends[l]
    BY <1>1
  <2>2. CASE l = 1
    <3>1. Start(ends, l - 1) = 0
      BY <2>2 DEF Start
    <3> QED BY <2>1, <3>1
  <2>3. CASE l # 1
    <3>1. l - 1 # 0 /\ l - 1 \in 1 .. Len(ends) /\ ~ l =< l - 1
      BY <1>1, <2>3
    <3>2. Start(ends, l - 1) = ends[l - 1]
      BY <3>1 DEF Start
    <3>3. ~ b =< ends[l - 1]
      BY <1>3, <3>1
    <3>4. ends[l - 1] \in 1 .. RowBytes
      BY <1>1, <3>1
    <3> QED BY <1>1, <2>1, <3>2, <3>3, <3>4
  <2> QED BY <2>2, <2>3
<1>5. j \in 0 .. (Len(ends) - 1) /\ Start(ends, j) < b /\ b =< ends[j + 1]
  BY <1>4 DEF LaneOf
<1> HIDE DEF j
<1>6. /\ Start(ends, j) \in Nat /\ Width(ends, j) \in Nat /\ ends[j + 1] \in 1 .. RowBytes
      /\ ends[j + 1] = Start(ends, j) + Width(ends, j)
  BY <1>5, LaneBytes
<1>7. b - Start(ends, j) \in 1 .. Width(ends, j) /\ b - Start(ends, j) \in 1 .. RowBytes
  BY <1>1, <1>5, <1>6
<1> QED BY <1>5, <1>6, <1>7 DEF j

-----------------------------------------------------------------------------
\* Accesses, on either machine.

\* valueAt, for a memory whose absent cells read as zero.
At(cells, zero, a) == IF a \in DOMAIN cells THEN cells[a] ELSE zero

\* The address of lane j of row r.
Lane(r, j, lanes) == r * lanes + j

\* The cells after an access to row r.
Restamped(cells, zero, r, lanes, written, t, backing) ==
    [a \in backing |->
        IF a \in r * lanes .. (r * lanes + lanes - 1)
        THEN [value |-> written[a - r * lanes], stamp |-> t]
        ELSE At(cells, zero, a)]

\* The bytes of a row.
BytesOf(cells, zero, r, ends) ==
    [b \in 1 .. RowBytes |->
        At(cells, zero, Lane(r, LaneOf(ends, b), Len(ends))).value[b - Start(ends, LaneOf(ends, b))]]

\* What cells an access leaves: its row with the values written, the other rows
\* as they were; and nothing of a row without backing.
LEMMA CellsAfter ==
    ASSUME NEW cells, NEW zero, NEW lanes \in Nat \ {0}, NEW r \in Nat,
           NEW written, NEW t, NEW backing, DOMAIN cells \subseteq backing,
           NEW s \in Nat, NEW j \in 0 .. (lanes - 1)
    PROVE  /\ s # r \/ Lane(s, j, lanes) \notin backing =>
                 At(Restamped(cells, zero, r, lanes, written, t, backing), zero, Lane(s, j, lanes))
                    = At(cells, zero, Lane(s, j, lanes))
           /\ s = r /\ Lane(s, j, lanes) \in backing =>
                 At(Restamped(cells, zero, r, lanes, written, t, backing), zero, Lane(s, j, lanes))
                    = [value |-> written[j], stamp |-> t]
<1> DEFINE first == r * lanes
           after == Restamped(cells, zero, r, lanes, written, t, backing)
           a == Lane(s, j, lanes)
           touched == first .. (first + lanes - 1)
<1>1. first \in Nat /\ a \in Nat /\ a \div lanes = s
  <2>1. first \in Nat
    BY SMT
  <2>2. a = s * lanes + j
    BY DEF Lane
  <2> HIDE DEF a, first
  <2> QED BY <2>1, <2>2, Division
<1>2. a \in touched => s = r
  <2> SUFFICES ASSUME a \in touched PROVE s = r
    OBVIOUS
  <2> DEFINE e == a - first
  <2>1. e \in 0 .. (lanes - 1) /\ a = first + e
    <3> HIDE DEF a, first
    <3> QED BY <1>1
  <2>2. a = r * lanes + e
    BY <2>1
  <2> HIDE DEF a, e, first
  <2>3. a \div lanes = r
    BY <2>1, <2>2, Division
  <2> QED BY <1>1, <2>3
<1>3. s = r => a \in touched /\ a - first = j
  <2> SUFFICES ASSUME s = r PROVE a \in touched /\ a - first = j
    OBVIOUS
  <2>1. a = first + j
    BY DEF Lane
  <2> HIDE DEF a, first
  <2> QED BY <1>1, <2>1
<1>4. DOMAIN after = backing
  BY DEF Restamped
<1>5. a \in backing => after[a] = IF a \in touched
                                  THEN [value |-> written[a - first], stamp |-> t]
                                  ELSE At(cells, zero, a)
  BY DEF Restamped
<1> HIDE DEF a, first, after, touched
<1>6. a \notin backing => At(after, zero, a) = At(cells, zero, a)
  BY <1>4 DEF At
<1>7. a \in backing => At(after, zero, a) = after[a]
  BY <1>4 DEF At
<1>8. s # r => At(after, zero, a) = At(cells, zero, a)
  BY <1>2, <1>5, <1>6, <1>7
<1>9. s = r /\ a \in backing => At(after, zero, a) = [value |-> written[j], stamp |-> t]
  BY <1>3, <1>5, <1>7
<1> QED BY <1>6, <1>8, <1>9 DEF after, a

\* A read leaves every byte.
LEMMA BytesAfterRead ==
    ASSUME NEW cells, NEW zero, NEW ends, IsGeometry(ends), NEW lanes, lanes = Len(ends),
           lanes \in Nat \ {0}, NEW r \in Nat,
           NEW written, NEW t, NEW backing, DOMAIN cells \subseteq backing,
           written = [l \in 0 .. (lanes - 1) |-> At(cells, zero, Lane(r, l, lanes)).value],
           NEW s \in Nat
    PROVE  BytesOf(Restamped(cells, zero, r, lanes, written, t, backing), zero, s, ends)
              = BytesOf(cells, zero, s, ends)
<1> DEFINE after == Restamped(cells, zero, r, lanes, written, t, backing)
<1>1. ASSUME NEW j \in 0 .. (lanes - 1)
      PROVE  At(after, zero, Lane(s, j, lanes)).value = At(cells, zero, Lane(s, j, lanes)).value
  <2>1. CASE s = r /\ Lane(s, j, lanes) \in backing
    <3>1. At(after, zero, Lane(r, j, lanes)) = [value |-> written[j], stamp |-> t]
      BY <2>1, CellsAfter
    <3>2. written[j] = At(cells, zero, Lane(r, j, lanes)).value
      OBVIOUS
    <3> HIDE DEF after
    <3> QED BY <2>1, <3>1, <3>2
  <2>2. CASE s # r \/ Lane(s, j, lanes) \notin backing
    <3>1. At(after, zero, Lane(s, j, lanes)) = At(cells, zero, Lane(s, j, lanes))
      BY <2>2, CellsAfter
    <3> QED BY <3>1
  <2> QED BY <2>1, <2>2
<1> HIDE DEF after
<1>2. ASSUME NEW b \in 1 .. RowBytes
      PROVE  At(after, zero, Lane(s, LaneOf(ends, b), lanes)).value
                = At(cells, zero, Lane(s, LaneOf(ends, b), lanes)).value
  <2>1. LaneOf(ends, b) \in 0 .. (lanes - 1)
    BY CellOfByte
  <2> QED BY <1>1, <2>1
<1>3. BytesOf(after, zero, s, ends) = BytesOf(cells, zero, s, ends)
  BY <1>2 DEF BytesOf
<1> QED BY <1>3 DEF after

\* A byte of a word that was cut out of some bytes.
LEMMA UnpackedByte ==
    ASSUME NEW bytes, NEW offset \in Nat, NEW width \in Nat, NEW x \in 1 .. width,
           x \in 1 .. RowBytes
    PROVE  UnpackCell(bytes, offset, width)[x] = bytes[offset + x]
<1>1. x =< width
  OBVIOUS
<1> QED BY <1>1 DEF UnpackCell

\* A write leaves the bytes written in its row, and the others as they were.
LEMMA BytesAfterWrite ==
    ASSUME NEW cells, NEW zero, NEW ends, IsGeometry(ends), NEW lanes, lanes = Len(ends),
           lanes \in Nat \ {0}, NEW r \in Nat,
           NEW bytes \in [1 .. RowBytes -> Byte], NEW t, NEW backing,
           DOMAIN cells \subseteq backing,
           \A j \in 0 .. (lanes - 1) : Lane(r, j, lanes) \in backing,
           NEW s \in Nat
    PROVE  BytesOf(Restamped(cells, zero, r, lanes, Split(bytes, ends), t, backing),
                   zero, s, ends)
              = IF s = r THEN bytes ELSE BytesOf(cells, zero, s, ends)
<1> DEFINE written == Split(bytes, ends)
           after == Restamped(cells, zero, r, lanes, written, t, backing)
<1>0. \A b \in 1 .. RowBytes : LaneOf(ends, b) \in 0 .. (lanes - 1)
  BY CellOfByte
<1>1. CASE s # r
  <2>1. ASSUME NEW j \in 0 .. (lanes - 1)
        PROVE  At(after, zero, Lane(s, j, lanes)) = At(cells, zero, Lane(s, j, lanes))
    <3> HIDE DEF written
    <3> QED BY <1>1, CellsAfter
  <2> HIDE DEF after
  <2>2. BytesOf(after, zero, s, ends) = BytesOf(cells, zero, s, ends)
    BY <1>0, <2>1 DEF BytesOf
  <2> QED BY <1>1, <2>2 DEF after
<1>2. CASE s = r
  <2>1. ASSUME NEW j \in 0 .. (lanes - 1)
        PROVE  At(after, zero, Lane(s, j, lanes)).value = written[j]
    <3> HIDE DEF written
    <3>1. At(after, zero, Lane(r, j, lanes)) = [value |-> written[j], stamp |-> t]
      BY CellsAfter
    <3> HIDE DEF after
    <3> QED BY <1>2, <3>1
  <2> HIDE DEF after
  <2>2. ASSUME NEW b \in 1 .. RowBytes
        PROVE  At(after, zero, Lane(s, LaneOf(ends, b), lanes))
                  .value[b - Start(ends, LaneOf(ends, b))] = bytes[b]
    <3> DEFINE j == LaneOf(ends, b)
               u == Start(ends, j)
               w == Width(ends, j)
               e == b - u
    <3>1. /\ j \in 0 .. (lanes - 1) /\ e \in 1 .. w /\ e \in 1 .. RowBytes
          /\ u \in Nat /\ w \in Nat
      BY CellOfByte
    <3> HIDE DEF j
    <3>2. written[j] = UnpackCell(bytes, u, w)
      <4>1. written = [l \in 0 .. (lanes - 1) |->
                          UnpackCell(bytes, Start(ends, l), Width(ends, l))]
        BY DEF Split
      <4> HIDE DEF written
      <4> QED BY <3>1, <4>1
    <3>3. u + e = b
      <4> HIDE DEF u
      <4> QED BY <3>1
    <3> HIDE DEF u, w, e, written
    <3>4. UnpackCell(bytes, u, w)[e] = bytes[u + e]
      <4>1. u \in Nat /\ w \in Nat /\ e \in 1 .. w /\ e \in 1 .. RowBytes
        BY <3>1
      <4>2. e =< w
        BY <4>1
      <4> HIDE DEF after
      <4> QED BY <4>1, <4>2 DEF UnpackCell
    <3>5. At(after, zero, Lane(s, j, lanes)).value[e] = bytes[b]
      BY <2>1, <3>1, <3>2, <3>3, <3>4
    <3> QED BY <3>5 DEF j, e, u
  <2>3. BytesOf(after, zero, s, ends) = [b \in 1 .. RowBytes |-> bytes[b]]
    BY <2>2 DEF BytesOf
  <2>4. bytes = [b \in 1 .. RowBytes |-> bytes[b]]
    OBVIOUS
  <2> QED BY <1>2, <2>3, <2>4 DEF after
<1> QED BY <1>1, <1>2

-----------------------------------------------------------------------------
\* What a memory has allocated.

\* The addresses of page p.
PageCells(p) == p * PageSize .. (p * PageSize + PageSize - 1)

\* The fast machine allocates whole rows: pages of them, or all rows up to one.
Whole(D) ==
    /\ D \subseteq Nat
    /\ paged => \A a \in D : PageCells(a \div PageSize) \subseteq D
    /\ ~ paged => \E n \in Nat : D = 0 .. (n * FastLanes - 1)

\* Checkpoint does not panic.
Aligned == paged => PageSize % FastLanes = 0

\* A page of the fast machine is then so many rows.
LEMMA RowsOfPage ==
    ASSUME paged, Aligned
    PROVE  /\ PageSize \div FastLanes \in Nat \ {0}
           /\ PageSize = FastLanes * (PageSize \div FastLanes)
BY Geometry, Divides DEF Aligned

\* An address is in its page, and in no other.
LEMMA OnePage ==
    /\ \A a \in Nat : a \div PageSize \in Nat /\ a \in PageCells(a \div PageSize)
    /\ \A p \in Nat : \A b \in PageCells(p) : b \in Nat /\ b \div PageSize = p
<1> DEFINE P == PageSize
<1>0. P \in Nat \ {0}
  BY Geometry
<1> HIDE DEF P
<1>1. ASSUME NEW a \in Nat
      PROVE  a \div P \in Nat /\ a \in (a \div P) * P .. ((a \div P) * P + P - 1)
  <2> DEFINE q == a \div P
             e == a % P
             u == q * P
  <2>1. q \in Nat /\ e \in 0 .. (P - 1) /\ a = P * q + e /\ u = P * q /\ u \in Nat
    BY <1>0, SMT
  <2> HIDE DEF q, e
  <2>2. a = u + e
    BY <2>1
  <2> HIDE DEF u
  <2>3. a \in u .. (u + P - 1)
    BY <1>0, <2>1, <2>2
  <2> QED BY <2>1, <2>3 DEF u, q
<1>2. ASSUME NEW p \in Nat, NEW b \in p * P .. (p * P + P - 1)
      PROVE  b \in Nat /\ b \div P = p
  <2> DEFINE u == p * P
             e == b - u
  <2>1. u \in Nat
    BY <1>0, SMT
  <2>2. e \in 0 .. (P - 1) /\ b = u + e
    <3> HIDE DEF u
    <3>1. b \in u .. (u + P - 1)
      BY DEF u
    <3> QED BY <1>0, <2>1, <3>1
  <2>3. b = p * P + e
    BY <2>2
  <2> HIDE DEF e, u
  <2> QED BY <1>0, <2>2, <2>3, Division
<1> QED BY <1>1, <1>2 DEF PageCells, P

\* Row r and the rows that fill a page with it are lanes of the same page.
LEMMA RowInPage ==
    ASSUME paged, Aligned, NEW r \in Nat, NEW j \in 0 .. (FastLanes - 1)
    PROVE  /\ Lane(r, j, FastLanes) \in Nat
           /\ Lane(r, j, FastLanes) \div PageSize = r \div (PageSize \div FastLanes)
<1> DEFINE L == FastLanes
           P == PageSize
           m == P \div L
           p == r \div m
           s == r % m
           u == p * P
           f == s * L + j
<1>0. L \in Nat \ {0} /\ P \in Nat \ {0} /\ m \in Nat \ {0} /\ P = L * m
  BY Geometry, RowsOfPage
<1> HIDE DEF m
<1>1. p \in Nat /\ s \in 0 .. (m - 1) /\ r = m * p + s
  BY <1>0, SMT
<1> HIDE DEF p, s
<1>2. f \in 0 .. (P - 1)
  <2>1. PICK d \in Nat : m = s + 1 + d
    <3>1. m - s - 1 \in Nat /\ m = s + 1 + (m - s - 1)
      BY <1>0, <1>1
    <3> QED BY <3>1
  <2> DEFINE v == s * L
             w == L * d
  <2>2. L * m = v + L + w /\ v \in Nat /\ w \in Nat
    BY <1>0, <1>1, <2>1, SMT
  <2>3. P = v + L + w /\ f = v + j
    BY <1>0, <2>2
  <2> HIDE DEF v, w, f
  <2> QED BY <1>0, <2>2, <2>3
<1>3. Lane(r, j, L) = p * P + f
  <2> DEFINE v == s * L
  <2>1. r * L = p * P + v /\ v \in Nat /\ p * P \in Nat
    BY <1>0, <1>1, SMT
  <2>2. Lane(r, j, L) = r * L + j /\ f = v + j
    BY DEF Lane
  <2> HIDE DEF f, v
  <2> DEFINE z == r * L
  <2>3. z = u + v /\ Lane(r, j, L) = z + j /\ u \in Nat
    BY <2>1, <2>2
  <2> HIDE DEF z, u, L
  <2>4. Lane(r, j, L) = u + f
    BY <1>0, <2>1, <2>2, <2>3 DEF L
  <2> QED BY <2>4 DEF u
<1> HIDE DEF f
<1>4. Lane(r, j, L) \in Nat /\ Lane(r, j, L) \div P = p
  BY <1>0, <1>1, <1>2, <1>3, Division
<1> QED BY <1>4 DEF p, m

\* Of a row every lane is allocated, or none.
LEMMA WholeRows ==
    ASSUME Aligned, NEW D, Whole(D), NEW r \in Nat, NEW j \in 0 .. (FastLanes - 1)
    PROVE  Lane(r, j, FastLanes) \in D <=> Lane(r, 0, FastLanes) \in D
<1> DEFINE L == FastLanes
           a == Lane(r, j, L)
           b == Lane(r, 0, L)
<1>0. L \in Nat \ {0} /\ 0 \in 0 .. (L - 1)
  BY Geometry
<1>1. CASE paged
  <2> DEFINE p == r \div (PageSize \div L)
  <2>1. a \in Nat /\ b \in Nat /\ a \div PageSize = p /\ b \div PageSize = p
    BY <1>0, <1>1, RowInPage
  <2> HIDE DEF a, b, p
  <2>2. a \in PageCells(p) /\ b \in PageCells(p)
    BY <2>1, OnePage
  <2>3. \A c \in D : PageCells(c \div PageSize) \subseteq D
    BY <1>1 DEF Whole
  <2>4. a \in D <=> b \in D
    BY <2>1, <2>2, <2>3
  <2> QED BY <2>4 DEF a, b
<1>2. CASE ~ paged
  <2>1. PICK n \in Nat : D = 0 .. (n * L - 1)
    BY <1>2 DEF Whole
  <2> DEFINE u == r * L
             v == n * L
  <2>2. u \in Nat /\ v \in Nat /\ a = u + j /\ b = u + 0
    BY <1>0, SMT DEF Lane
  <2>3. CASE r < n
    <3>1. PICK d \in Nat : n = r + 1 + d
      <4>1. n - r - 1 \in Nat /\ n = r + 1 + (n - r - 1)
        BY <2>3
      <4> QED BY <4>1
    <3> DEFINE f == d * L
    <3>2. v = u + L + f /\ f \in Nat
      BY <1>0, <3>1, SMT
    <3>3. D = 0 .. (v - 1)
      BY <2>1
    <3> HIDE DEF u, v, f, a, b
    <3>4. a \in D /\ b \in D
      BY <1>0, <2>2, <3>2, <3>3
    <3> QED BY <3>4 DEF a, b
  <2>4. CASE ~ r < n
    <3>1. PICK d \in Nat : r = n + d
      <4>1. r - n \in Nat /\ r = n + (r - n)
        BY <2>4
      <4> QED BY <4>1
    <3> DEFINE f == d * L
    <3>2. u = v + f /\ f \in Nat
      BY <1>0, <3>1, SMT
    <3>3. D = 0 .. (v - 1)
      BY <2>1
    <3> HIDE DEF u, v, f, a, b
    <3>4. a \notin D /\ b \notin D
      BY <1>0, <2>2, <3>2, <3>3
    <3> QED BY <3>4 DEF a, b
  <2> QED BY <2>3, <2>4
<1> QED BY <1>1, <1>2

\* An access frees nothing, and allocates its row unless it reads a page that is
\* not there.
LEMMA AfterCovers ==
    ASSUME NEW cells, NEW lanes \in Nat \ {0}, NEW r \in Nat, NEW isWrite \in BOOLEAN,
           paged \in BOOLEAN
    PROVE  /\ DOMAIN cells \subseteq After(cells, r * lanes, lanes, isWrite)
           /\ ~ paged \/ isWrite =>
                 \A j \in 0 .. (lanes - 1) :
                    Lane(r, j, lanes) \in After(cells, r * lanes, lanes, isWrite)
<1> DEFINE first == r * lanes
<1>1. first \in Nat
  BY SMT
<1>2. ASSUME NEW j \in 0 .. (lanes - 1)
      PROVE  /\ Lane(r, j, lanes) \in first .. (first + lanes - 1)
             /\ Lane(r, j, lanes) \in Nat
  <2>1. Lane(r, j, lanes) = first + j
    BY DEF Lane
  <2> HIDE DEF first
  <2> QED BY <1>1, <2>1
<1> HIDE DEF first
<1>3. DOMAIN cells \subseteq After(cells, first, lanes, isWrite)
  BY DEF After, Backing
<1>4. ASSUME ~ paged \/ isWrite, NEW j \in 0 .. (lanes - 1)
      PROVE  Lane(r, j, lanes) \in After(cells, first, lanes, isWrite)
  <2> DEFINE a == Lane(r, j, lanes)
             rows == first .. (first + lanes - 1)
  <2>1. a \in rows /\ a \in Nat
    BY <1>2
  <2> HIDE DEF a, rows
  <2>2. After(cells, first, lanes, isWrite) = Backing(cells, rows)
    BY <1>4 DEF After, rows
  <2>3. CASE paged
    <3>1. Backing(cells, rows) = DOMAIN cells \cup UNION {PageCells(b \div PageSize) : b \in rows}
      BY <2>3 DEF Backing, PageCells
    <3>2. a \in PageCells(a \div PageSize)
      BY <2>1, OnePage
    <3> QED BY <2>1, <2>2, <3>1, <3>2 DEF a
  <2>4. CASE ~ paged
    <3>1. Backing(cells, rows) = DOMAIN cells \cup UNION {0 .. b : b \in rows}
      BY <2>4 DEF Backing
    <3>2. a \in 0 .. a
      BY <2>1
    <3> QED BY <2>1, <2>2, <3>1, <3>2 DEF a
  <2> QED BY <2>3, <2>4
<1> QED BY <1>3, <1>4 DEF first

\* Pages are whole.
LEMMA PagesAreWhole ==
    ASSUME NEW D, paged, \A a \in D : a \in Nat /\ PageCells(a \div PageSize) \subseteq D
    PROVE  Whole(D)
<1>1. D \subseteq Nat
  OBVIOUS
<1>2. paged => \A a \in D : PageCells(a \div PageSize) \subseteq D
  OBVIOUS
<1>3. ~ paged => \E n \in Nat : D = 0 .. (n * FastLanes - 1)
  OBVIOUS
<1> QED BY <1>1, <1>2, <1>3, Zenon DEF Whole

\* All rows up to one are whole.
LEMMA PrefixIsWhole ==
    ASSUME NEW D, ~ paged, NEW n \in Nat, D = 0 .. (n * FastLanes - 1)
    PROVE  Whole(D)
<1>1. D \subseteq Nat
  OBVIOUS
<1>2. paged => \A a \in D : PageCells(a \div PageSize) \subseteq D
  OBVIOUS
<1>3. ~ paged => \E k \in Nat : D = 0 .. (k * FastLanes - 1)
  OBVIOUS
<1> QED BY <1>1, <1>2, <1>3, Zenon DEF Whole

\* What the fast machine allocates stays whole.
LEMMA WholeAfter ==
    ASSUME NEW cells, Whole(DOMAIN cells), NEW r \in Nat, NEW isWrite \in BOOLEAN,
           paged \in BOOLEAN
    PROVE  Whole(After(cells, r * FastLanes, FastLanes, isWrite))
<1> DEFINE L == FastLanes
           first == r * L
           D == DOMAIN cells
           rows == first .. (first + L - 1)
           E == After(cells, first, L, isWrite)
<1>0. L \in Nat \ {0} /\ first \in Nat
  BY Geometry, SMT
<1>1. D \subseteq Nat /\ rows \subseteq Nat
  <2>1. D \subseteq Nat
    BY DEF Whole
  <2> HIDE DEF first, D
  <2> QED BY <1>0, <2>1
<1>2. CASE paged
  <2>1. E = D \/ E = D \cup UNION {PageCells(b \div PageSize) : b \in rows}
    BY <1>2 DEF After, Backing, PageCells
  <2>2. \A a \in D : PageCells(a \div PageSize) \subseteq D
    BY <1>2 DEF Whole
  <2> HIDE DEF E, D, rows
  <2>3. ASSUME E = D PROVE Whole(E)
    <3>1. \A a \in E : a \in Nat /\ PageCells(a \div PageSize) \subseteq E
      BY <1>1, <2>2, <2>3
    <3> QED BY <1>2, <3>1, PagesAreWhole
  <2>4. ASSUME E = D \cup UNION {PageCells(b \div PageSize) : b \in rows}
        PROVE  Whole(E)
    <3>1. ASSUME NEW a \in E
          PROVE  a \in Nat /\ PageCells(a \div PageSize) \subseteq E
      <4>1. CASE a \in D
        BY <1>1, <2>2, <2>4, <4>1
      <4>2. CASE a \notin D
        <5>1. PICK b \in rows : a \in PageCells(b \div PageSize)
          BY <2>4, <4>2
        <5>2. b \div PageSize \in Nat
          BY <1>1, OnePage
        <5>3. a \in Nat /\ a \div PageSize = b \div PageSize
          BY <5>1, <5>2, OnePage
        <5> QED BY <2>4, <5>3
      <4> QED BY <4>1, <4>2
    <3> QED BY <1>2, <3>1, PagesAreWhole
  <2>5. Whole(E)
    BY <2>1, <2>3, <2>4
  <2> QED BY <2>5 DEF E
<1>3. CASE ~ paged
  <2>1. E = D \cup UNION {0 .. b : b \in rows}
    BY <1>3 DEF After, Backing
  <2>2. PICK n \in Nat : D = 0 .. (n * L - 1)
    BY <1>3 DEF Whole
  <2> DEFINE v == n * L
             top == first + L
  <2>3. v \in Nat /\ (r + 1) * L = top /\ r + 1 \in Nat
    BY <1>0, <2>2, SMT
  <2>4. D = 0 .. (v - 1)
    BY <2>2
  <2> HIDE DEF E, D, first, v
  <2>5. UNION {0 .. b : b \in rows} = 0 .. (top - 1)
    <3>1. top - 1 \in rows
      BY <1>0
    <3>2. ASSUME NEW b \in rows PROVE 0 .. b \subseteq 0 .. (top - 1)
      BY <1>0
    <3> HIDE DEF rows
    <3> QED BY <3>1, <3>2
  <2> HIDE DEF rows
  <2>6. CASE v <= top
    <3>1. E = 0 .. (top - 1)
      BY <1>0, <2>1, <2>3, <2>4, <2>5, <2>6
    <3>2. E = 0 .. ((r + 1) * L - 1)
      BY <2>3, <3>1
    <3> DEFINE k == r + 1
    <3>3. k \in Nat /\ E = 0 .. (k * L - 1)
      BY <2>3, <3>2
    <3> HIDE DEF top, k
    <3>4. Whole(E)
      BY <1>3, <3>3, PrefixIsWhole
    <3> QED BY <3>4 DEF E, first
  <2>7. CASE ~ v <= top
    <3>1. E = 0 .. (v - 1)
      BY <1>0, <2>1, <2>3, <2>4, <2>5, <2>7
    <3>2. E = 0 .. (n * L - 1)
      BY <3>1 DEF v
    <3>3. Whole(E)
      BY <1>3, <3>2, PrefixIsWhole
    <3> QED BY <3>3 DEF E, first
  <2> QED BY <2>6, <2>7
<1> QED BY <1>2, <1>3

-----------------------------------------------------------------------------
\* The pages of a checkpoint.

\* The stamp of a row of the fast machine.
FastStamp(r) == At(fast, Cells!ZeroCell, Lane(r, 0, FastLanes)).stamp

\* The cells of a row carry one stamp.
StampsAlike ==
    \A r \in Nat : /\ FastStamp(r) \in Nat
                   /\ \A j \in 0 .. (FastLanes - 1) :
                         At(fast, Cells!ZeroCell, Lane(r, j, FastLanes)).stamp = FastStamp(r)

\* n rows from row q on, all of them allocated.
IsRun(chunk, q, n) ==
    /\ q \in Nat /\ n \in Nat /\ (n = 0 => q = 0)
    /\ chunk = q * FastLanes .. (q * FastLanes + n * FastLanes - 1)
    /\ chunk \subseteq DOMAIN fast

\* What is saved are runs of rows.
LEMMA ChunksAreRuns ==
    ASSUME Aligned, Whole(DOMAIN fast), NEW chunk \in Chunks(fast)
    PROVE  \E q \in Nat : \E n \in Nat : IsRun(chunk, q, n)
<1> DEFINE L == FastLanes
           D == DOMAIN fast
<1>0. L \in Nat \ {0}
  BY Geometry
<1>1. CASE paged
  <2>1. PICK a \in D : chunk = PageCells(a \div PageSize)
    <3>1. chunk \in {PageCells(p) : p \in {a \div PageSize : a \in D}}
      BY <1>1 DEF Chunks, PageCells
    <3> QED BY <3>1
  <2> DEFINE p == a \div PageSize
             m == PageSize \div L
             q == p * m
  <2>2. p \in Nat /\ m \in Nat \ {0} /\ PageSize = L * m
    <3>1. a \in Nat
      BY DEF Whole
    <3> QED BY <1>1, <3>1, RowsOfPage, OnePage
  <2>3. chunk \subseteq D
    BY <1>1, <2>1 DEF Whole
  <2> HIDE DEF p, m
  <2>4. q \in Nat /\ q * L = p * PageSize /\ m * L = PageSize
    BY <1>0, <2>2, SMT
  <2>5. chunk = p * PageSize .. (p * PageSize + PageSize - 1)
    BY <2>1 DEF PageCells, p
  <2>6. chunk = q * L .. (q * L + m * L - 1)
    BY <2>4, <2>5, Zenon
  <2> HIDE DEF q
  <2>7. IsRun(chunk, q, m)
    BY <2>2, <2>3, <2>4, <2>6, Zenon DEF IsRun
  <2> QED BY <2>2, <2>4, <2>7
<1>2. CASE ~ paged
  <2>1. chunk = D
    BY <1>2 DEF Chunks
  <2>2. PICK n \in Nat : D = 0 .. (n * L - 1)
    BY <1>2 DEF Whole
  <2> DEFINE v == n * L
  <2>3. v \in Nat /\ 0 * L = 0
    BY <1>0, SMT
  <2>4. chunk = 0 .. (v - 1)
    BY <2>1, <2>2
  <2> HIDE DEF v
  <2>5. 0 + v - 1 = v - 1
    BY <2>3
  <2>6. chunk = 0 * L .. (0 * L + v - 1)
    BY <2>3, <2>4, <2>5
  <2>7. 0 \in Nat /\ (n = 0 => 0 = 0) /\ chunk \subseteq D
    BY <2>1
  <2>8. IsRun(chunk, 0, n)
    BY <2>2, <2>6, <2>7, Zenon DEF IsRun, v
  <2> QED BY <2>2, <2>7, <2>8
<1> QED BY <1>1, <1>2

\* Every row that is allocated is saved in one of them.
LEMMA RowsAreSaved ==
    ASSUME Whole(DOMAIN fast), NEW r \in Nat, Lane(r, 0, FastLanes) \in DOMAIN fast
    PROVE  \E chunk \in Chunks(fast) : Lane(r, 0, FastLanes) \in chunk
<1> DEFINE a == Lane(r, 0, FastLanes)
<1>1. a \in Nat
  BY DEF Whole
<1> HIDE DEF a
<1>2. CASE paged
  <2>1. PageCells(a \div PageSize) \in Chunks(fast)
    BY <1>2 DEF Chunks, PageCells, a
  <2>2. a \in PageCells(a \div PageSize)
    BY <1>1, OnePage
  <2> QED BY <2>1, <2>2 DEF a
<1>3. CASE ~ paged
  BY <1>3 DEF Chunks
<1> QED BY <1>2, <1>3

\* The lanes of n rows from row q on are those of no other row.
LEMMA LanesOfRows ==
    ASSUME NEW lanes \in Nat \ {0}, NEW q \in Nat, NEW n \in Nat, NEW r \in Nat,
           NEW j \in 0 .. (lanes - 1)
    PROVE  Lane(r, j, lanes) \in q * lanes .. (q * lanes + n * lanes - 1)
              <=> r \in q .. (q + n - 1)
<1> DEFINE L == lanes
           u == q * L
           v == n * L
           z == r * L
           a == z + j
           lines == u .. (u + v - 1)
<1>1. Lane(r, j, L) = a
  BY DEF Lane
<1>2. z \in Nat /\ u \in Nat /\ v \in Nat
  BY SMT
<1>3. CASE r < q
  <2>1. PICK d \in Nat : q = r + 1 + d
    <3>1. q - r - 1 \in Nat /\ q = r + 1 + (q - r - 1)
      BY <1>3
    <3> QED BY <3>1
  <2> DEFINE f == d * L
  <2>2. u = z + L + f /\ f \in Nat
    BY <2>1, SMT
  <2> HIDE DEF u, v, z, f
  <2>3. a \notin lines
    BY <1>2, <2>2
  <2> QED BY <1>1, <1>3, <2>3 DEF u, v
<1>4. CASE r >= q + n
  <2>1. PICK d \in Nat : r = q + n + d
    <3>1. r - (q + n) \in Nat /\ r = q + n + (r - (q + n))
      BY <1>4
    <3> QED BY <3>1
  <2> DEFINE f == d * L
  <2>2. z = u + v + f /\ f \in Nat
    BY <2>1, SMT
  <2> HIDE DEF u, v, z, f
  <2>3. a \notin lines
    BY <1>2, <2>2
  <2> QED BY <1>1, <1>4, <2>3 DEF u, v
<1>5. CASE r >= q /\ r < q + n
  <2>1. PICK d \in Nat : r = q + d
    <3>1. r - q \in Nat /\ r = q + (r - q)
      BY <1>5
    <3> QED BY <3>1
  <2>2. PICK e \in Nat : n = d + 1 + e
    <3>1. n - d - 1 \in Nat /\ n = d + 1 + (n - d - 1)
      BY <1>5, <2>1
    <3> QED BY <3>1
  <2> DEFINE f == d * L
             g == e * L
  <2>3. z = u + f /\ v = f + L + g /\ f \in Nat /\ g \in Nat
    BY <2>1, <2>2, SMT
  <2> HIDE DEF u, v, z, f, g
  <2>4. a \in lines
    BY <1>2, <2>3
  <2> QED BY <1>1, <1>5, <2>4 DEF u, v
<1> QED BY <1>3, <1>4, <1>5

\* The rows of a run are those from q on.
LEMMA RowsOfRun ==
    ASSUME NEW chunk, NEW q, NEW n, IsRun(chunk, q, n), NEW r \in Nat,
           NEW j \in 0 .. (FastLanes - 1)
    PROVE  Lane(r, j, FastLanes) \in chunk <=> r \in q .. (q + n - 1)
<1>1. FastLanes \in Nat \ {0} /\ q \in Nat /\ n \in Nat
  BY Geometry DEF IsRun
<1>2. chunk = q * FastLanes .. (q * FastLanes + n * FastLanes - 1)
  BY DEF IsRun
<1>3. Lane(r, j, FastLanes) \in q * FastLanes .. (q * FastLanes + n * FastLanes - 1)
         <=> r \in q .. (q + n - 1)
  BY <1>1, LanesOfRows
<1> QED BY <1>2, <1>3, Zenon

\* The bytes of the page of a run of n rows from row q on.
RunBytes(q, n) ==
    [b \in 1 .. (n * RowBytes) |->
        RowOf(FastAt, q * FastLanes + ((b - 1) \div RowBytes) * FastLanes, FastEnds)
           [((b - 1) % RowBytes) + 1]]

\* One stamp a row: the latest of its cells.
RunStamps(chunk, q, n) ==
    [i \in 1 .. n |->
        Cells!Latest({fast[a].stamp :
           a \in {c \in chunk : (c - q * FastLanes) \div FastLanes = i - 1}})]

\* The page of a run.
LEMMA PageFields ==
    ASSUME NEW chunk, NEW q, NEW n, IsRun(chunk, q, n)
    PROVE  /\ PageOf(chunk).address = q
           /\ PageOf(chunk).bytes = RunBytes(q, n)
           /\ PageOf(chunk).stamps = RunStamps(chunk, q, n)
<1> DEFINE L == FastLanes
           u == q * L
           v == n * L
           first == IF chunk = {} THEN 0 ELSE CHOOSE a \in chunk : \A b \in chunk : a =< b
           size == Cardinality(chunk)
<1>0. L \in Nat \ {0} /\ q \in Nat /\ n \in Nat /\ (n = 0 => q = 0)
  BY Geometry DEF IsRun
<1>1. chunk = u .. (u + v - 1)
  BY DEF IsRun
<1>2. u \in Nat /\ v \in Nat /\ (n = 0 => u = 0 /\ v = 0) /\ (n # 0 => v # 0)
  <2>1. u \in Nat /\ v \in Nat /\ 0 * L = 0
    BY <1>0, SMT
  <2>2. n # 0 => v # 0
    <3> SUFFICES ASSUME n # 0 PROVE v # 0
      OBVIOUS
    <3>1. PICK d \in Nat : n = d + 1
      <4>1. n - 1 \in Nat /\ n = (n - 1) + 1
        BY <1>0
      <4> QED BY <4>1
    <3> DEFINE f == d * L
    <3>2. v = f + L /\ f \in Nat
      BY <1>0, <3>1, SMT
    <3> HIDE DEF v, f
    <3> QED BY <1>0, <3>2
  <2> QED BY <1>0, <2>1, <2>2
<1>3. u \div L = q /\ v \div L = n
  <2>1. u = q * L + 0 /\ v = n * L + 0 /\ 0 \in 0 .. (L - 1)
    <3>1. \A x \in Nat : x = x + 0
      OBVIOUS
    <3> QED BY <1>0, <1>2, <3>1
  <2> HIDE DEF u, v
  <2> QED BY <1>0, <2>1, Division
<1> HIDE DEF u, v
<1>4. first = u
  <2>1. CASE n = 0
    <3>1. chunk = {}
      BY <1>1, <1>2, <2>1
    <3> QED BY <1>2, <2>1, <3>1
  <2>2. CASE n # 0
    <3>1. u \in chunk /\ \A b \in chunk : u =< b
      BY <1>1, <1>2, <2>2
    <3>2. \A a \in chunk : (\A b \in chunk : a =< b) => a = u
      BY <1>1, <1>2, <3>1
    <3> HIDE DEF L
    <3>3. (CHOOSE a \in chunk : \A b \in chunk : a =< b) = u
      BY <3>1, <3>2, Zenon
    <3> QED BY <3>1, <3>3
  <2> QED BY <2>1, <2>2
<1>5. size = v
  <2>1. u \in Int /\ u + v - 1 \in Int
    BY <1>2
  <2>2. Cardinality(u .. (u + v - 1)) =
           IF u > u + v - 1 THEN 0 ELSE (u + v - 1) - u + 1
    BY <2>1, FS_Interval
  <2> QED BY <1>1, <1>2, <2>2
<1> HIDE DEF first, size
<1>6. PageOf(chunk) =
         [address |-> first \div L,
          bytes |-> [b \in 1 .. ((size \div L) * RowBytes) |->
                        RowOf(FastAt, first + ((b - 1) \div RowBytes) * L, FastEnds)
                           [((b - 1) % RowBytes) + 1]],
          stamps |-> [i \in 1 .. (size \div L) |->
                        Cells!Latest({fast[a].stamp :
                            a \in {c \in chunk : (c - first) \div L = i - 1}})]]
  BY Zenon DEF PageOf, first, size
<1>7. PageOf(chunk) =
         [address |-> q,
          bytes |-> [b \in 1 .. (n * RowBytes) |->
                        RowOf(FastAt, u + ((b - 1) \div RowBytes) * L, FastEnds)
                           [((b - 1) % RowBytes) + 1]],
          stamps |-> [i \in 1 .. n |->
                        Cells!Latest({fast[a].stamp :
                            a \in {c \in chunk : (c - u) \div L = i - 1}})]]
  BY <1>3, <1>4, <1>5, <1>6, Zenon
<1> QED BY <1>7 DEF u, RunBytes, RunStamps

\* The stamp a page keeps for a row is the row's.
LEMMA PageStamp ==
    ASSUME StampsAlike, NEW chunk, NEW q, NEW n, IsRun(chunk, q, n),
           NEW i \in 0 .. (n - 1)
    PROVE  PageOf(chunk).stamps[i + 1] = FastStamp(q + i)
<1> DEFINE L == FastLanes
           r == q + i
           x == FastStamp(r)
           lanes == {c \in chunk : (c - q * L) \div L = i + 1 - 1}
           S == {fast[a].stamp : a \in lanes}
           u == q * L
           z == i * L
<1>0. L \in Nat \ {0} /\ q \in Nat /\ n \in Nat /\ i \in Nat /\ r \in Nat /\ i + 1 - 1 = i
  <2>1. L \in Nat \ {0} /\ q \in Nat /\ n \in Nat
    BY Geometry DEF IsRun
  <2> QED BY <2>1
<1>1. u \in Nat /\ z \in Nat /\ r * L = u + z
  BY <1>0, SMT
<1>2. x \in Nat
  BY <1>0 DEF StampsAlike
<1>3. PageOf(chunk).stamps[i + 1] = Cells!Latest(S)
  <2>1. PageOf(chunk).stamps =
           [k \in 1 .. n |->
               Cells!Latest({fast[a].stamp : a \in {c \in chunk : (c - q * L) \div L = k - 1}})]
    BY PageFields DEF RunStamps
  <2>2. i + 1 \in 1 .. n
    BY <1>0
  <2> QED BY <2>1, <2>2
<1>4. ASSUME NEW c \in lanes PROVE fast[c].stamp = x
  <2>1. c \in chunk /\ c \in DOMAIN fast /\ (c - u) \div L = i
    BY <1>0 DEF IsRun
  <2>2. c \in u .. (u + n * L - 1)
    BY <2>1 DEF IsRun
  <2> DEFINE m == n * L
             d == c - u
             e == d % L
  <2>3. m \in Nat
    BY <1>0, SMT
  <2>4. d \in Nat /\ c = u + d
    <3> HIDE DEF u, m
    <3>1. c \in u .. (u + m - 1)
      BY <2>2 DEF m
    <3> QED BY <1>1, <2>3, <3>1
  <2> HIDE DEF d
  <2>5. e \in 0 .. (L - 1) /\ d = L * i + e /\ L * i = z
    <3>1. d \div L = i
      BY <2>1 DEF d
    <3> QED BY <1>0, <2>4, <3>1, SMT
  <2> HIDE DEF e
  <2>6. c = Lane(r, e, L)
    <3>1. d = z + e
      BY <2>5
    <3> DEFINE y == r * L
    <3>2. Lane(r, e, L) = y + e /\ y = u + z
      BY <1>1 DEF Lane
    <3> HIDE DEF u, z, y
    <3> QED BY <1>1, <2>4, <2>5, <3>1, <3>2
  <2>7. At(fast, Cells!ZeroCell, c).stamp = x
    BY <1>0, <2>5, <2>6 DEF StampsAlike
  <2> QED BY <2>1, <2>7 DEF At
<1>5. Lane(r, 0, L) \in lanes
  <2>1. 0 \in 0 .. (L - 1) /\ r \in q .. (q + n - 1)
    BY <1>0
  <2>2. Lane(r, 0, L) \in chunk
    BY <1>0, <2>1, RowsOfRun
  <2>3. Lane(r, 0, L) - u = i * L + 0
    <3> DEFINE y == r * L
    <3>1. Lane(r, 0, L) = y + 0 /\ y = u + z
      BY <1>1 DEF Lane
    <3> HIDE DEF u, y
    <3>2. Lane(r, 0, L) - u = z + 0
      BY <1>1, <3>1
    <3> QED BY <3>2
  <2> DEFINE k == Lane(r, 0, L) - u
  <2> HIDE DEF k
  <2>4. k = i * L + 0
    BY <2>3 DEF k
  <2>5. k \div L = i
    BY <1>0, <2>1, <2>4, Division
  <2> QED BY <1>0, <2>2, <2>5 DEF k
<1>6. S = {x}
  <2> HIDE DEF x, lanes
  <2> QED BY <1>4, <1>5
<1>7. Cells!Latest({x}) = x
  <2> HIDE DEF x
  <2>1. \A m \in {x} : m = x
    OBVIOUS
  <2>2. x \in {x} /\ \A s \in {x} : s =< x
    BY <1>2
  <2> QED BY <2>1, <2>2 DEF Cells!Latest
<1> QED BY <1>3, <1>6, <1>7

\* The rows of the two machines, in the operators of the memories.
LEMMA RowsAreBytes ==
    ASSUME NEW r
    PROVE  /\ RowOf(FastAt, r * FastLanes, FastEnds) = BytesOf(fast, Cells!ZeroCell, r, FastEnds)
           /\ RowOf(TraceAt, r * TraceLanes, TraceEnds)
                 = BytesOf(trace, Cells!ZeroCell, r, TraceEnds)
           /\ RowOf(FastAt, r * FastLanes, FastEnds)'
                 = BytesOf(fast', Cells!ZeroCell, r, FastEnds)
           /\ RowOf(TraceAt, r * TraceLanes, TraceEnds)'
                 = BytesOf(trace', Cells!ZeroCell, r, TraceEnds)
<1>1. RowOf(FastAt, r * FastLanes, FastEnds) = BytesOf(fast, Cells!ZeroCell, r, FastEnds)
  BY DEF RowOf, FastAt, Cells!CellAt, BytesOf, At, Lane, FastLanes
<1>2. RowOf(TraceAt, r * TraceLanes, TraceEnds) = BytesOf(trace, Cells!ZeroCell, r, TraceEnds)
  BY DEF RowOf, TraceAt, Cells!CellAt, BytesOf, At, Lane, TraceLanes
<1>3. RowOf(FastAt, r * FastLanes, FastEnds)' = BytesOf(fast', Cells!ZeroCell, r, FastEnds)
  BY DEF RowOf, FastAt, Cells!CellAt, BytesOf, At, Lane, FastLanes
<1>4. RowOf(TraceAt, r * TraceLanes, TraceEnds)' = BytesOf(trace', Cells!ZeroCell, r, TraceEnds)
  BY DEF RowOf, TraceAt, Cells!CellAt, BytesOf, At, Lane, TraceLanes
<1> QED BY <1>1, <1>2, <1>3, <1>4

\* The bytes of row q + i in the page of a run that starts at row q.
LEMMA RunByte ==
    ASSUME NEW q \in Nat, NEW n \in Nat, NEW i \in 0 .. (n - 1), NEW b \in 1 .. RowBytes
    PROVE  RunBytes(q, n)[i * RowBytes + b] = BytesOf(fast, Cells!ZeroCell, q + i, FastEnds)[b]
<1> DEFINE L == FastLanes
           R == RowBytes
           r == q + i
           y == i * R
           B == y + b
           N == n * R
<1>0. L \in Nat \ {0} /\ R \in Nat \ {0} /\ i \in Nat /\ r \in Nat /\ b \in Nat
  BY Geometry
<1>1. y \in Nat /\ N \in Nat
  BY <1>0, SMT
<1>2. (B - 1) \div R = i /\ ((B - 1) % R) + 1 = b
  <2> DEFINE c == B - 1
             e == b - 1
  <2>1. c = y + e /\ e \in 0 .. (R - 1) /\ e + 1 = b
    <3> HIDE DEF y
    <3> QED BY <1>0, <1>1
  <2> HIDE DEF c, e
  <2>2. c \div R = i /\ c % R = e
    BY <1>0, <2>1, Division
  <2> QED BY <2>1, <2>2 DEF c
<1>3. B \in 1 .. N
  <2>1. PICK d \in Nat : n = i + 1 + d
    <3>1. n - i - 1 \in Nat /\ n = i + 1 + (n - i - 1)
      BY <1>0
    <3> QED BY <3>1
  <2> DEFINE g == d * R
  <2>2. N = y + R + g /\ g \in Nat
    BY <1>0, <2>1, SMT
  <2> HIDE DEF N, y, g
  <2> QED BY <1>0, <1>1, <2>2
<1>4. q * L + i * L = r * L
  BY <1>0, SMT
<1>5. RunBytes(q, n)[B]
         = RowOf(FastAt, q * L + ((B - 1) \div R) * L, FastEnds)[((B - 1) % R) + 1]
  <2> HIDE DEF B
  <2> QED BY <1>3 DEF RunBytes
<1>6. RunBytes(q, n)[B] = RowOf(FastAt, r * L, FastEnds)[b]
  BY <1>2, <1>4, <1>5
<1> QED BY <1>6, RowsAreBytes

\* Lane j of row r, cut out of the bytes the fast machine has there.
NarrowCell(r, j) ==
    [value |-> UnpackCell(BytesOf(fast, Cells!ZeroCell, r, FastEnds),
                          Start(TraceEnds, j), Width(TraceEnds, j)),
     stamp |-> FastStamp(r)]

\* The rows a page is unpacked to.
LEMMA UnpackedDomain ==
    ASSUME NEW chunk, NEW q, NEW n, IsRun(chunk, q, n), NEW r \in Nat,
           NEW j \in 0 .. (TraceLanes - 1)
    PROVE  Lane(r, j, TraceLanes) \in DOMAIN Unpacked(PageOf(chunk)) <=> r \in q .. (q + n - 1)
<1> DEFINE T == TraceLanes
           R == RowBytes
           page == PageOf(chunk)
           N == n * R
<1>0. T \in Nat \ {0} /\ R \in Nat \ {0} /\ q \in Nat /\ n \in Nat
  BY Geometry DEF IsRun
<1>1. N \in Nat
  BY <1>0, SMT
<1>2. Len(page.bytes) = N
  <2>1. page.bytes = RunBytes(q, n)
    BY PageFields
  <2>2. RunBytes(q, n) \in [1 .. N -> {RunBytes(q, n)[b] : b \in 1 .. N}]
    BY DEF RunBytes
  <2> DEFINE S == {RunBytes(q, n)[b] : b \in 1 .. N}
             s == RunBytes(q, n)
  <2>3. s \in [1 .. N -> S]
    BY <2>2
  <2> HIDE DEF S, s, N
  <2>4. Len(s) = N
    BY <1>1, <2>3
  <2> QED BY <2>1, <2>4 DEF s
<1>3. N \div R = n
  <2>1. N = n * R + 0 /\ 0 \in 0 .. (R - 1)
    <3>1. N = N + 0 /\ 0 \in 0 .. (R - 1)
      <4> HIDE DEF N
      <4> QED BY <1>0, <1>1
    <3> QED BY <3>1
  <2> HIDE DEF N
  <2> QED BY <1>0, <2>1, Division
<1>4. page.address = q
  BY PageFields
<1>5. DOMAIN Unpacked(page) = q * T .. (q * T + n * T - 1)
  <2> DEFINE start == page.address * T
             last == start + (Len(page.bytes) \div R) * T - 1
  <2>1. DOMAIN Unpacked(page) = start .. last
    BY DEF Unpacked
  <2>2. start = q * T /\ last = q * T + n * T - 1
    <3>1. start = q * T
      BY <1>4
    <3>2. last = start + n * T - 1
      BY <1>2, <1>3
    <3> QED BY <3>1, <3>2
  <2> HIDE DEF start, last
  <2> QED BY <2>1, <2>2, Zenon
<1>6. Lane(r, j, T) \in q * T .. (q * T + n * T - 1) <=> r \in q .. (q + n - 1)
  BY <1>0, LanesOfRows
<1> QED BY <1>5, <1>6

\* Every lane of a row that was saved is restored.
LEMMA UnpackedRow ==
    ASSUME StampsAlike, NEW chunk, NEW q, NEW n, IsRun(chunk, q, n),
           NEW i \in 0 .. (n - 1), NEW j \in 0 .. (TraceLanes - 1)
    PROVE  Unpacked(PageOf(chunk))[Lane(q + i, j, TraceLanes)] = NarrowCell(q + i, j)
<1> DEFINE T == TraceLanes
           R == RowBytes
           r == q + i
           page == PageOf(chunk)
           a == Lane(r, j, T)
           start == q * T
           d == i * T + j
           y == i * R
           u == Start(TraceEnds, j)
           w == Width(TraceEnds, j)
           bytes == RunBytes(q, n)
           row == BytesOf(fast, Cells!ZeroCell, r, FastEnds)
<1>0. /\ T \in Nat \ {0} /\ R \in Nat \ {0}
      /\ q \in Nat /\ n \in Nat /\ i \in Nat /\ r \in Nat /\ j \in Nat
  <2>1. T \in Nat \ {0} /\ R \in Nat \ {0} /\ q \in Nat /\ n \in Nat
    BY Geometry DEF IsRun
  <2> HIDE DEF T
  <2>2. i \in Nat /\ r \in Nat
    BY <2>1
  <2> QED BY <2>1, <2>2 DEF T
<1>1. d \in Nat /\ start \in Nat /\ a = start + d /\ d = i * T + j
  <2> DEFINE c == i * T
             e == r * T
  <2>1. c \in Nat /\ start \in Nat /\ e = start + c
    BY <1>0, SMT
  <2>2. a = e + j /\ d = c + j
    BY DEF Lane
  <2> HIDE DEF c, e, start, d, a
  <2>3. d \in Nat /\ a = start + d
    BY <1>0, <2>1, <2>2
  <2> QED BY <2>1, <2>2, <2>3 DEF c
<1>2. a - start = d /\ d \div T = i /\ d % T = j
  <2> HIDE DEF a, start, d
  <2>1. a - start = d
    BY <1>1
  <2>2. d \div T = i /\ d % T = j
    BY <1>0, <1>1, Division
  <2> QED BY <2>1, <2>2
<1>3. u \in Nat /\ w \in Nat /\ u + w \in 1 .. R /\ y \in Nat
  <2>1. IsGeometry(TraceEnds) /\ j \in 0 .. (Len(TraceEnds) - 1)
    BY Geometry DEF TraceLanes
  <2>2. y \in Nat
    BY <1>0, SMT
  <2> QED BY <2>1, <2>2, LaneBytes
<1>4. a \in DOMAIN Unpacked(page)
  <2>1. r \in q .. (q + n - 1)
    BY <1>0
  <2> HIDE DEF r
  <2> QED BY <1>0, <2>1, UnpackedDomain
<1>5. page.address = q /\ page.bytes = bytes
  BY PageFields
<1>6. page.stamps[i + 1] = FastStamp(r)
  BY PageStamp
<1>7. Unpacked(page)[a] =
         LET x == a - page.address * T
         IN  [value |-> UnpackCell(page.bytes, (x \div T) * R + Start(TraceEnds, x % T),
                                   Width(TraceEnds, x % T)),
              stamp |-> page.stamps[(x \div T) + 1]]
  <2> DEFINE start2 == page.address * T
             last == start2 + (Len(page.bytes) \div R) * T - 1
             F(b) == [value |-> UnpackCell(page.bytes,
                                  ((b - start2) \div T) * R + Start(TraceEnds, (b - start2) % T),
                                  Width(TraceEnds, (b - start2) % T)),
                      stamp |-> page.stamps[((b - start2) \div T) + 1]]
  <2>1. Unpacked(page) = [b \in start2 .. last |-> F(b)]
    BY DEF Unpacked
  <2> HIDE DEF F, last, start2, a
  <2>2. Unpacked(page)[a] = F(a)
    BY <1>4, <2>1
  <2> QED BY <2>2 DEF F, start2
<1>8. Unpacked(page)[a] = [value |-> UnpackCell(bytes, y + u, w), stamp |-> FastStamp(r)]
  <2> HIDE DEF a, bytes, d
  <2>1. a - page.address * T = d
    BY <1>2, <1>5
  <2>2. Unpacked(page)[a] =
           [value |-> UnpackCell(bytes, (d \div T) * R + Start(TraceEnds, d % T),
                                 Width(TraceEnds, d % T)),
            stamp |-> page.stamps[(d \div T) + 1]]
    BY <1>5, <1>7, <2>1
  <2> QED BY <1>2, <1>6, <2>2
<1>9. ASSUME NEW x \in 1 .. w
      PROVE  bytes[y + u + x] = row[u + x]
  <2> DEFINE b == u + x
  <2>1. b \in 1 .. R
    <3> HIDE DEF u, w
    <3> QED BY <1>0, <1>3
  <2>2. bytes[y + b] = row[b]
    <3> HIDE DEF b
    <3> QED BY <1>0, <2>1, RunByte
  <2>3. y + b = y + u + x
    <3> HIDE DEF y, u
    <3> QED BY <1>3
  <2> QED BY <2>2, <2>3
<1>10. UnpackCell(bytes, y + u, w) = UnpackCell(row, u, w)
  <2> HIDE DEF bytes, row, y, u
  <2>1. ASSUME NEW x \in 1 .. R
        PROVE  (IF x =< w THEN bytes[y + u + x] ELSE 0) = (IF x =< w THEN row[u + x] ELSE 0)
    <3>1. x =< w => x \in 1 .. w
      <4> HIDE DEF w
      <4> QED BY <1>0, <1>3
    <3> QED BY <1>9, <3>1
  <2> QED BY <2>1 DEF UnpackCell
<1> QED BY <1>8, <1>10 DEF NarrowCell

-----------------------------------------------------------------------------
\* The hand-over.

\* Lane j of row r after a restore: it holds what the fast machine has there,
\* whether the row was saved or not.
LEMMA RestoredRow ==
    ASSUME paged \in BOOLEAN, Aligned, Whole(DOMAIN fast), StampsAlike,
           NEW r \in Nat, NEW j \in 0 .. (TraceLanes - 1)
    PROVE  At(Restored(Saved), Cells!ZeroCell, Lane(r, j, TraceLanes)) = NarrowCell(r, j)
<1> DEFINE T == TraceLanes
           L == FastLanes
           a == Lane(r, j, T)
           b == Lane(r, 0, L)
           decoded == UNION {DOMAIN Unpacked(page) : page \in Saved}
           cells == Restored(Saved)
           picked == CHOOSE page \in Saved : a \in DOMAIN Unpacked(page)
<1>0. T \in Nat \ {0} /\ L \in Nat \ {0} /\ 0 \in 0 .. (L - 1)
  <2>1. T \in Nat \ {0} /\ L \in Nat \ {0}
    BY Geometry
  <2> QED BY <2>1
<1>1. ASSUME NEW chunk \in Chunks(fast)
      PROVE  /\ a \in DOMAIN Unpacked(PageOf(chunk)) <=> b \in chunk
             /\ a \in DOMAIN Unpacked(PageOf(chunk)) =>
                   Unpacked(PageOf(chunk))[a] = NarrowCell(r, j)
             /\ chunk \subseteq DOMAIN fast
  <2>1. PICK q \in Nat : \E n \in Nat : IsRun(chunk, q, n)
    BY ChunksAreRuns
  <2>2. PICK n \in Nat : IsRun(chunk, q, n)
    BY <2>1
  <2>3. a \in DOMAIN Unpacked(PageOf(chunk)) <=> r \in q .. (q + n - 1)
    BY <2>2, UnpackedDomain
  <2>4. b \in chunk <=> r \in q .. (q + n - 1)
    BY <1>0, <2>2, RowsOfRun
  <2>5. ASSUME r \in q .. (q + n - 1)
        PROVE  Unpacked(PageOf(chunk))[a] = NarrowCell(r, j)
    <3> DEFINE i == r - q
    <3>1. i \in 0 .. (n - 1) /\ q + i = r
      BY <2>5
    <3> HIDE DEF i
    <3>2. Unpacked(PageOf(chunk))[Lane(q + i, j, T)] = NarrowCell(q + i, j)
      BY <2>2, <3>1, UnpackedRow
    <3> QED BY <3>1, <3>2
  <2>6. chunk \subseteq DOMAIN fast
    BY <2>2 DEF IsRun
  <2> HIDE DEF a, b
  <2> QED BY <2>3, <2>4, <2>5, <2>6
<1>2. a \in decoded <=> b \in DOMAIN fast
  <2>1. ASSUME a \in decoded PROVE b \in DOMAIN fast
    <3>1. PICK page \in Saved : a \in DOMAIN Unpacked(page)
      BY <2>1
    <3>2. PICK chunk \in Chunks(fast) : page = PageOf(chunk)
      BY DEF Saved
    <3> HIDE DEF a, b
    <3> QED BY <1>1, <3>1, <3>2
  <2>2. ASSUME b \in DOMAIN fast PROVE a \in decoded
    <3>1. PICK chunk \in Chunks(fast) : b \in chunk
      BY <2>2, RowsAreSaved
    <3>2. PageOf(chunk) \in Saved
      BY DEF Saved
    <3>3. a \in DOMAIN Unpacked(PageOf(chunk))
      BY <1>1, <3>1
    <3> HIDE DEF a, b
    <3> QED BY <3>2, <3>3
  <2> QED BY <2>1, <2>2
<1>3. cells = [x \in Backing(<<>>, decoded) |->
                  IF x \in decoded
                  THEN Unpacked(CHOOSE page \in Saved : x \in DOMAIN Unpacked(page))[x]
                  ELSE Cells!ZeroCell]
  BY DEF Restored
<1>4. a \in decoded => a \in Backing(<<>>, decoded)
  <2> SUFFICES ASSUME a \in decoded PROVE a \in Backing(<<>>, decoded)
    OBVIOUS
  <2>1. a \in Nat
    <3> DEFINE z == r * T
    <3>1. z \in Nat /\ a = z + j
      BY <1>0, SMT DEF Lane
    <3> HIDE DEF z, a
    <3> QED BY <3>1
  <2> HIDE DEF a, decoded
  <2>2. CASE paged
    <3>1. Backing(<<>>, decoded)
             = DOMAIN <<>> \cup UNION {PageCells(x \div PageSize) : x \in decoded}
      BY <2>2 DEF Backing, PageCells
    <3>2. a \in PageCells(a \div PageSize)
      BY <2>1, OnePage
    <3> QED BY <3>1, <3>2
  <2>3. CASE ~ paged
    <3>1. Backing(<<>>, decoded) = DOMAIN <<>> \cup UNION {0 .. x : x \in decoded}
      BY <2>3 DEF Backing
    <3>2. a \in 0 .. a
      BY <2>1
    <3> QED BY <3>1, <3>2
  <2> QED BY <2>2, <2>3
<1>5. CASE a \in decoded
  <2>1. picked \in Saved /\ a \in DOMAIN Unpacked(picked)
    <3>1. \E page \in Saved : a \in DOMAIN Unpacked(page)
      BY <1>5
    <3> HIDE DEF a
    <3> QED BY <3>1, Zenon
  <2> HIDE DEF picked
  <2>2. PICK chunk \in Chunks(fast) : picked = PageOf(chunk)
    BY <2>1 DEF Saved
  <2>3. Unpacked(picked)[a] = NarrowCell(r, j)
    BY <1>1, <2>1, <2>2
  <2>4. a \in DOMAIN cells /\ cells[a] = Unpacked(picked)[a]
    <3> HIDE DEF a, decoded, cells
    <3> QED BY <1>3, <1>4, <1>5 DEF picked
  <2> HIDE DEF a, cells
  <2> QED BY <2>3, <2>4 DEF At, cells, a
<1>6. CASE a \notin decoded
  <2>1. At(cells, Cells!ZeroCell, a) = Cells!ZeroCell
    <3> HIDE DEF a, decoded, cells
    <3> QED BY <1>3, <1>6 DEF At
  <2>2. ASSUME NEW k \in 0 .. (L - 1)
        PROVE  At(fast, Cells!ZeroCell, Lane(r, k, L)) = Cells!ZeroCell
    <3>1. Lane(r, k, L) \notin DOMAIN fast
      BY <1>2, <1>6, WholeRows
    <3> QED BY <3>1 DEF At
  <2>3. Cells!ZeroCell = [value |-> Zeros, stamp |-> 0]
    BY DEF Cells!ZeroCell
  <2>4. FastStamp(r) = 0
    BY <1>0, <2>2, <2>3 DEF FastStamp
  <2>5. ASSUME NEW c \in 1 .. RowBytes
        PROVE  BytesOf(fast, Cells!ZeroCell, r, FastEnds)[c] = 0
    <3> DEFINE k == LaneOf(FastEnds, c)
               f == c - Start(FastEnds, k)
    <3>1. k \in 0 .. (L - 1) /\ f \in 1 .. RowBytes
      BY Geometry, CellOfByte DEF FastLanes
    <3>2. BytesOf(fast, Cells!ZeroCell, r, FastEnds)[c]
             = At(fast, Cells!ZeroCell, Lane(r, k, L)).value[f]
      BY DEF BytesOf, FastLanes
    <3> HIDE DEF k, f
    <3>3. Zeros[f] = 0
      BY <3>1 DEF Zeros
    <3> QED BY <2>2, <2>3, <3>1, <3>2, <3>3
  <2> DEFINE u == Start(TraceEnds, j)
             w == Width(TraceEnds, j)
             row == BytesOf(fast, Cells!ZeroCell, r, FastEnds)
  <2>6. u \in Nat /\ w \in Nat /\ u + w \in 1 .. RowBytes /\ RowBytes \in Nat
    <3>1. IsGeometry(TraceEnds) /\ j \in 0 .. (Len(TraceEnds) - 1)
      BY Geometry DEF TraceLanes
    <3> QED BY <3>1, Geometry, LaneBytes
  <2> HIDE DEF u, w, row
  <2>7. ASSUME NEW x \in 1 .. RowBytes, x =< w PROVE row[u + x] = 0
    <3>1. u + x \in 1 .. RowBytes
      BY <2>6, <2>7
    <3> QED BY <2>5, <3>1 DEF row
  <2>8. UnpackCell(row, u, w) = Zeros
    BY <2>7 DEF UnpackCell, Zeros
  <2>9. NarrowCell(r, j) = [value |-> Zeros, stamp |-> 0]
    BY <2>4, <2>8 DEF NarrowCell, row, u, w
  <2> QED BY <2>1, <2>3, <2>9
<1> QED BY <1>5, <1>6

\* The bytes of every row survive a hand-over.
LEMMA RestoredBytes ==
    ASSUME paged \in BOOLEAN, Aligned, Whole(DOMAIN fast), StampsAlike, NEW r \in Nat
    PROVE  BytesOf(Restored(Saved), Cells!ZeroCell, r, TraceEnds)
              = BytesOf(fast, Cells!ZeroCell, r, FastEnds)
<1> DEFINE T == TraceLanes
           cells == Restored(Saved)
           row == BytesOf(fast, Cells!ZeroCell, r, FastEnds)
           new == BytesOf(cells, Cells!ZeroCell, r, TraceEnds)
<1>1. ASSUME NEW b \in 1 .. RowBytes PROVE new[b] = row[b]
  <2> DEFINE j == LaneOf(TraceEnds, b)
             u == Start(TraceEnds, j)
             w == Width(TraceEnds, j)
             e == b - u
  <2>1. /\ j \in 0 .. (T - 1) /\ e \in 1 .. w /\ e \in 1 .. RowBytes
        /\ u \in Nat /\ w \in Nat
    BY Geometry, CellOfByte DEF TraceLanes
  <2>2. new[b] = At(cells, Cells!ZeroCell, Lane(r, j, T)).value[e]
    BY DEF BytesOf, TraceLanes
  <2> HIDE DEF j, new, cells
  <2>3. At(cells, Cells!ZeroCell, Lane(r, j, T)) = NarrowCell(r, j)
    BY <2>1, RestoredRow DEF cells
  <2>4. NarrowCell(r, j).value = UnpackCell(row, u, w)
    BY DEF NarrowCell
  <2>5. u + e = b
    <3> HIDE DEF u
    <3> QED BY <2>1
  <2> HIDE DEF u, w, e, row
  <2>6. UnpackCell(row, u, w)[e] = row[u + e]
    BY <2>1, UnpackedByte
  <2> QED BY <2>2, <2>3, <2>4, <2>5, <2>6
<1>2. new = [b \in 1 .. RowBytes |-> new[b]] /\ row = [b \in 1 .. RowBytes |-> row[b]]
  BY DEF BytesOf
<1>3. new = row
  <2> HIDE DEF new, row
  <2> QED BY <1>1, <1>2
<1> QED BY <1>3

-----------------------------------------------------------------------------
\* The inductive invariant.

\* The fast machine allocates whole rows and stamps all cells of a row alike:
\* what makes a row survive being saved under one stamp.  A machine whose
\* checkpoints panic hands nothing over.
FastInv ==
    /\ paged \in BOOLEAN /\ fastClock \in Nat
    /\ Aligned => Whole(DOMAIN fast) /\ StampsAlike

\* And the rows are the same once the tracing machine replays.
HandoverInv == FastInv /\ ReplaySeesSameMemory

\* Restamp, as it is used here.
LEMMA RestampIs ==
    ASSUME NEW cells, NEW r, NEW lanes, NEW written, NEW t, NEW backing
    PROVE  Cells!Restamp(cells, r * lanes, lanes, written, t, backing)
              = Restamped(cells, Cells!ZeroCell, r, lanes, written, t, backing)
BY DEF Cells!Restamp, Cells!LanesFrom, Cells!CellAt, Restamped, At

\* What an access leaves of the lanes of a row that is allocated whole or not
\* at all.
LEMMA StampsAfter ==
    ASSUME FastInv, Aligned, NEW r \in Nat, NEW written, NEW t \in Nat, NEW isWrite \in BOOLEAN,
           NEW s \in Nat, NEW j \in 0 .. (FastLanes - 1)
    PROVE  LET E == After(fast, r * FastLanes, FastLanes, isWrite)
               after == Restamped(fast, Cells!ZeroCell, r, FastLanes, written, t, E)
           IN  At(after, Cells!ZeroCell, Lane(s, j, FastLanes)).stamp
                  = IF s = r /\ Lane(s, 0, FastLanes) \in E THEN t ELSE FastStamp(s)
<1> DEFINE L == FastLanes
           E == After(fast, r * L, L, isWrite)
           after == Restamped(fast, Cells!ZeroCell, r, L, written, t, E)
<1>0. L \in Nat \ {0} /\ 0 \in 0 .. (L - 1)
  <2>1. L \in Nat \ {0}
    BY Geometry
  <2> QED BY <2>1
<1>1. DOMAIN fast \subseteq E
  BY <1>0, AfterCovers DEF FastInv
<1>2. Lane(s, j, L) \in E <=> Lane(s, 0, L) \in E
  <2>1. Whole(E)
    BY WholeAfter DEF FastInv
  <2> HIDE DEF E
  <2> QED BY <2>1, WholeRows
<1>3. At(fast, Cells!ZeroCell, Lane(s, j, L)).stamp = FastStamp(s)
  BY DEF FastInv, StampsAlike
<1>4. /\ s # r \/ Lane(s, j, L) \notin E =>
            At(after, Cells!ZeroCell, Lane(s, j, L)) = At(fast, Cells!ZeroCell, Lane(s, j, L))
      /\ s = r /\ Lane(s, j, L) \in E =>
            At(after, Cells!ZeroCell, Lane(s, j, L)) = [value |-> written[j], stamp |-> t]
  <2> HIDE DEF E
  <2> QED BY <1>0, <1>1, CellsAfter
<1> HIDE DEF E, after
<1>5. CASE s = r /\ Lane(s, 0, L) \in E
  <2>1. At(after, Cells!ZeroCell, Lane(s, j, L)).stamp = t
    BY <1>2, <1>4, <1>5
  <2> QED BY <1>5, <2>1 DEF after, E
<1>6. CASE ~ (s = r /\ Lane(s, 0, L) \in E)
  <2>1. At(after, Cells!ZeroCell, Lane(s, j, L)).stamp = FastStamp(s)
    BY <1>2, <1>3, <1>4, <1>6
  <2> QED BY <1>6, <2>1 DEF after, E
<1> QED BY <1>5, <1>6

\* An access keeps the fast machine's rows whole and alike.
LEMMA AccessKeepsFast ==
    ASSUME FastInv, NEW r \in Row, NEW fastLanes, NEW traceLanes, NEW isWrite \in BOOLEAN,
           AccessRow(r, fastLanes, traceLanes, isWrite)
    PROVE  FastInv'
<1> DEFINE L == FastLanes
           t == fastClock + 1
           E == After(fast, r * L, L, isWrite)
           after == Restamped(fast, Cells!ZeroCell, r, L, fastLanes, t, E)
<1>0. r \in Nat /\ t \in Nat /\ L \in Nat \ {0} /\ 0 \in 0 .. (L - 1)
  <2>1. r \in Nat /\ L \in Nat \ {0} /\ fastClock \in Nat
    BY Geometry DEF FastInv
  <2> QED BY <2>1
<1>1. fast' = after
  <2>1. fast' = Cells!Restamp(fast, r * L, L, fastLanes, t, E)
    BY DEF AccessRow
  <2>2. Cells!Restamp(fast, r * L, L, fastLanes, t, E) = after
    <3> HIDE DEF t, E
    <3> QED BY RestampIs
  <2> QED BY <2>1, <2>2
<1>2. fastClock' = t /\ paged' = paged
  BY DEF AccessRow
<1>3. ASSUME Aligned PROVE Whole(DOMAIN fast)'
  <2>1. Whole(E)
    BY <1>0, <1>3, WholeAfter DEF FastInv
  <2>2. DOMAIN fast' = E
    BY <1>1 DEF Restamped
  <2> HIDE DEF E
  <2> QED BY <1>2, <2>1, <2>2 DEF Whole
<1>4. ASSUME Aligned, NEW s \in Nat, NEW j \in 0 .. (L - 1)
      PROVE  At(after, Cells!ZeroCell, Lane(s, j, L)).stamp
                = IF s = r /\ Lane(s, 0, L) \in E THEN t ELSE FastStamp(s)
  <2> HIDE DEF t
  <2> QED BY <1>0, <1>4, StampsAfter
<1> HIDE DEF t, E, after
<1>5. ASSUME Aligned, NEW s \in Nat
      PROVE  /\ At(after, Cells!ZeroCell, Lane(s, 0, L)).stamp \in Nat
             /\ \A j \in 0 .. (L - 1) :
                   At(after, Cells!ZeroCell, Lane(s, j, L)).stamp
                      = At(after, Cells!ZeroCell, Lane(s, 0, L)).stamp
  <2>1. FastStamp(s) \in Nat
    BY <1>5 DEF FastInv, StampsAlike
  <2> QED BY <1>0, <1>4, <1>5, <2>1
<1>6. ASSUME Aligned PROVE StampsAlike'
  BY <1>1, <1>5, <1>6 DEF StampsAlike, FastStamp
<1>7. Aligned' = Aligned
  BY <1>2 DEF Aligned
<1> QED BY <1>0, <1>2, <1>3, <1>6, <1>7 DEF FastInv

\* A hand-over carries every row.
LEMMA HandoverCarriesRows ==
    ASSUME FastInv, Handover
    PROVE  FastInv' /\ (SameValues /\ SameStamps)' /\ traceClock' = fastClock'
<1> DEFINE cells == Restored(Saved)
<1>1. trace' = cells /\ traceClock' = fastClock' /\ UNCHANGED <<paged, fast, fastClock>>
  BY DEF Handover
<1>0. Aligned
  BY DEF Handover, Aligned
<1>2. FastInv'
  BY <1>1 DEF FastInv, Aligned, Whole, StampsAlike, FastStamp
<1>3. SameValues'
  <2>1. ASSUME NEW r \in Row
        PROVE  BytesOf(fast', Cells!ZeroCell, r, FastEnds)
                  = BytesOf(trace', Cells!ZeroCell, r, TraceEnds)
    <3>1. r \in Nat
      BY Geometry
    <3>2. BytesOf(cells, Cells!ZeroCell, r, TraceEnds)
             = BytesOf(fast, Cells!ZeroCell, r, FastEnds)
      BY <1>0, <3>1, RestoredBytes DEF FastInv
    <3> HIDE DEF cells
    <3> QED BY <1>1, <3>2
  <2>2. ASSUME NEW r \in Row
        PROVE  RowOf(FastAt, r * FastLanes, FastEnds)'
                  = RowOf(TraceAt, r * TraceLanes, TraceEnds)'
    BY <2>1, RowsAreBytes
  <2> QED BY <2>2 DEF SameValues
<1>4. SameStamps'
  <2>1. ASSUME NEW r \in Row, NEW j \in 0 .. (TraceLanes - 1)
        PROVE  At(trace', Cells!ZeroCell, Lane(r, j, TraceLanes)).stamp
                  = At(fast', Cells!ZeroCell, Lane(r, 0, FastLanes)).stamp
    <3>1. r \in Nat
      BY Geometry
    <3>2. At(cells, Cells!ZeroCell, Lane(r, j, TraceLanes)) = NarrowCell(r, j)
      BY <1>0, <3>1, RestoredRow DEF FastInv
    <3> HIDE DEF cells
    <3> QED BY <1>1, <3>2 DEF NarrowCell, FastStamp
  <2>2. ASSUME NEW r \in Row
        PROVE  At(fast', Cells!ZeroCell, Lane(r, 0, FastLanes))
                  = At(fast', Cells!ZeroCell, r * FastLanes)
    <3>1. r * FastLanes \in Nat
      BY Geometry, SMT
    <3>2. Lane(r, 0, FastLanes) = r * FastLanes
      BY <3>1 DEF Lane
    <3> QED BY <3>2
  <2>3. ASSUME NEW r \in Row, NEW j \in 0 .. (TraceLanes - 1)
        PROVE  TraceAt(r * TraceLanes + j)'.stamp = FastAt(r * FastLanes)'.stamp
    BY <2>1, <2>2 DEF TraceAt, FastAt, Cells!CellAt, Cells!CellAt, At, Lane
  <2> QED BY <2>3 DEF SameStamps
<1> QED BY <1>1, <1>2, <1>3, <1>4

\* An access of the tracing machine, as Restamped.
LEMMA TraceStep ==
    ASSUME NEW r, NEW fastLanes, NEW traceLanes, NEW isWrite,
           AccessRow(r, fastLanes, traceLanes, isWrite), tracing
    PROVE  trace' = Restamped(trace, Cells!ZeroCell, r, TraceLanes, traceLanes,
                        traceClock + 1, After(trace, r * TraceLanes, TraceLanes, isWrite))
<1> DEFINE E == After(trace, r * TraceLanes, TraceLanes, isWrite)
           t == traceClock + 1
<1>1. trace' = Cells!Restamp(trace, r * TraceLanes, TraceLanes, traceLanes, t, E)
  BY DEF AccessRow
<1> HIDE DEF E, t
<1>2. trace' = Restamped(trace, Cells!ZeroCell, r, TraceLanes, traceLanes, t, E)
  BY <1>1, RestampIs
<1> QED BY <1>2 DEF E, t

\* An access of the fast machine, as Restamped.
LEMMA FastStep ==
    ASSUME NEW r, NEW fastLanes, NEW traceLanes, NEW isWrite,
           AccessRow(r, fastLanes, traceLanes, isWrite)
    PROVE  fast' = Restamped(fast, Cells!ZeroCell, r, FastLanes, fastLanes,
                        fastClock + 1, After(fast, r * FastLanes, FastLanes, isWrite))
<1> DEFINE E == After(fast, r * FastLanes, FastLanes, isWrite)
           t == fastClock + 1
<1>1. fast' = Cells!Restamp(fast, r * FastLanes, FastLanes, fastLanes, t, E)
  BY DEF AccessRow
<1> HIDE DEF E, t
<1>2. fast' = Restamped(fast, Cells!ZeroCell, r, FastLanes, fastLanes, t, E)
  BY <1>1, RestampIs
<1> QED BY <1>2 DEF E, t

\* An access stamps the lanes of its row alike on both machines.
LEMMA AccessKeepsStamps ==
    ASSUME HandoverInv, tracing, ~ paged, NEW r \in Row, NEW fastLanes, NEW traceLanes,
           NEW isWrite \in BOOLEAN, AccessRow(r, fastLanes, traceLanes, isWrite)
    PROVE  SameStamps'
<1> DEFINE L == FastLanes
           T == TraceLanes
           FZ == Cells!ZeroCell
           NZ == Cells!ZeroCell
           t == fastClock + 1
           E == After(fast, r * L, L, isWrite)
           D == After(trace, r * T, T, isWrite)
           after == Restamped(fast, FZ, r, L, fastLanes, t, E)
           cells == Restamped(trace, NZ, r, T, traceLanes, t, D)
<1>0. r \in Nat /\ L \in Nat \ {0} /\ T \in Nat \ {0} /\ t \in Nat /\ 0 \in 0 .. (L - 1)
  <2>1. r \in Nat /\ L \in Nat \ {0} /\ T \in Nat \ {0} /\ fastClock \in Nat
    BY Geometry DEF HandoverInv, FastInv
  <2> QED BY <2>1
<1>10. Aligned
  BY DEF Aligned
<1>1. fast' = after
  BY FastStep
<1>2. trace' = cells
  <2>1. traceClock = fastClock
    BY DEF HandoverInv, ReplaySeesSameMemory
  <2> QED BY <2>1, TraceStep
<1>3. ASSUME NEW s \in Row
      PROVE  \A j \in 0 .. (T - 1) : At(trace, NZ, Lane(s, j, T)).stamp = FastStamp(s)
  <2>1. Lane(s, 0, L) = s * L
    <3>1. s * L \in Nat
      BY Geometry, SMT
    <3> QED BY <3>1 DEF Lane
  <2>2. \A j \in 0 .. (T - 1) : TraceAt(s * T + j).stamp = FastAt(s * L).stamp
    BY DEF HandoverInv, ReplaySeesSameMemory, SameStamps
  <2> QED BY <2>1, <2>2 DEF TraceAt, FastAt, Cells!CellAt, Cells!CellAt, At, Lane, FastStamp
<1>4. ASSUME NEW s \in Row, NEW j \in 0 .. (T - 1)
      PROVE  At(cells, NZ, Lane(s, j, T)).stamp = IF s = r THEN t ELSE FastStamp(s)
  <2>1. s \in Nat
    BY Geometry
  <2>2. DOMAIN trace \subseteq D /\ Lane(r, j, T) \in D
    BY <1>0, AfterCovers DEF HandoverInv, FastInv
  <2>3. /\ s # r \/ Lane(s, j, T) \notin D =>
              At(cells, NZ, Lane(s, j, T)) = At(trace, NZ, Lane(s, j, T))
        /\ s = r /\ Lane(s, j, T) \in D =>
              At(cells, NZ, Lane(s, j, T)) = [value |-> traceLanes[j], stamp |-> t]
    <3> HIDE DEF D, t, NZ
    <3> QED BY <1>0, <2>1, <2>2, CellsAfter
  <2> HIDE DEF D, cells, t, NZ
  <2> QED BY <1>3, <2>2, <2>3
<1>5. ASSUME NEW s \in Row
      PROVE  At(after, FZ, Lane(s, 0, L)).stamp = IF s = r THEN t ELSE FastStamp(s)
  <2>1. s \in Nat
    BY Geometry
  <2>2. Lane(r, 0, L) \in E
    BY <1>0, AfterCovers DEF HandoverInv, FastInv
  <2>3. At(after, FZ, Lane(s, 0, L)).stamp
           = IF s = r /\ Lane(s, 0, L) \in E THEN t ELSE FastStamp(s)
    <3> HIDE DEF t
    <3> QED BY <1>0, <1>10, <2>1, StampsAfter DEF HandoverInv
  <2> HIDE DEF E, after, t
  <2> QED BY <2>2, <2>3
<1>6. ASSUME NEW s \in Row, NEW j \in 0 .. (T - 1)
      PROVE  At(trace', NZ, Lane(s, j, T)).stamp = At(fast', FZ, Lane(s, 0, L)).stamp
  <2> HIDE DEF after, cells, NZ, FZ
  <2> QED BY <1>1, <1>2, <1>4, <1>5
<1>7. ASSUME NEW s \in Row, NEW j \in 0 .. (T - 1)
      PROVE  TraceAt(s * T + j)'.stamp = FastAt(s * L)'.stamp
  <2>1. Lane(s, 0, L) = s * L
    <3>1. s * L \in Nat
      BY Geometry, SMT
    <3> QED BY <3>1 DEF Lane
  <2> QED BY <1>6, <2>1 DEF TraceAt, FastAt, Cells!CellAt, Cells!CellAt, At, Lane
<1> QED BY <1>7 DEF SameStamps

\* If the access leaves the same bytes of every row on both machines, replaying
\* goes on.
LEMMA AccessKeepsReplay ==
    ASSUME HandoverInv, NEW r \in Row, NEW fastLanes, NEW traceLanes,
           NEW isWrite \in BOOLEAN, AccessRow(r, fastLanes, traceLanes, isWrite),
           tracing => \A s \in Row :
               BytesOf(fast', Cells!ZeroCell, s, FastEnds)
                  = BytesOf(trace', Cells!ZeroCell, s, TraceEnds)
    PROVE  HandoverInv'
<1>1. FastInv'
  BY AccessKeepsFast DEF HandoverInv
<1>2. tracing' = tracing /\ paged' = paged /\ fastClock' = fastClock + 1
  BY DEF AccessRow
<1>3. ASSUME tracing PROVE SameValues' /\ traceClock' = fastClock' /\ (~ paged => SameStamps')
  <2>1. SameValues'
    <3>1. ASSUME NEW s \in Row
          PROVE  RowOf(FastAt, s * FastLanes, FastEnds)'
                    = RowOf(TraceAt, s * TraceLanes, TraceEnds)'
      BY <1>3, RowsAreBytes
    <3> QED BY <3>1 DEF SameValues
  <2>2. traceClock' = fastClock'
    BY <1>2, <1>3 DEF AccessRow, HandoverInv, ReplaySeesSameMemory
  <2>3. ~ paged => SameStamps'
    BY <1>3, AccessKeepsStamps
  <2> QED BY <2>1, <2>2, <2>3
<1> QED BY <1>1, <1>2, <1>3 DEF HandoverInv, ReplaySeesSameMemory

\* Rows that were the same are the same after a read.
LEMMA ReadKeepsInv ==
    ASSUME HandoverInv, NEW r \in Row, ReadRow(r)
    PROVE  HandoverInv'
<1> DEFINE L == FastLanes
           T == TraceLanes
           FZ == Cells!ZeroCell
           NZ == Cells!ZeroCell
           fastLanes == Cells!ValuesFrom(fast, r * L, L)
           traceLanes == Cells!ValuesFrom(trace, r * T, T)
           E == After(fast, r * L, L, FALSE)
           D == After(trace, r * T, T, FALSE)
           t == fastClock + 1
           u == traceClock + 1
<1>0. r \in Nat /\ IsGeometry(FastEnds) /\ IsGeometry(TraceEnds) /\ L \in Nat \ {0} /\ T \in Nat \ {0}
  BY Geometry
<1>9. L = Len(FastEnds) /\ T = Len(TraceEnds)
  BY DEF FastLanes, TraceLanes
<1>1. AccessRow(r, fastLanes, traceLanes, FALSE)
  BY DEF ReadRow
<1>2. fastLanes = [l \in 0 .. (L - 1) |-> At(fast, FZ, Lane(r, l, L)).value]
  BY DEF Cells!ValuesFrom, Cells!CellAt, At, Lane
<1>3. traceLanes = [l \in 0 .. (T - 1) |-> At(trace, NZ, Lane(r, l, T)).value]
  BY DEF Cells!ValuesFrom, Cells!CellAt, At, Lane
<1>4. DOMAIN fast \subseteq E /\ DOMAIN trace \subseteq D
  BY <1>0, AfterCovers DEF HandoverInv, FastInv
<1> HIDE DEF fastLanes, traceLanes
<1>5. fast' = Restamped(fast, FZ, r, L, fastLanes, t, E)
  BY <1>1, FastStep
<1>6. tracing => trace' = Restamped(trace, NZ, r, T, traceLanes, u, D)
  BY <1>1, TraceStep
<1>7. ASSUME tracing, NEW s \in Row
      PROVE  BytesOf(fast', FZ, s, FastEnds) = BytesOf(trace', NZ, s, TraceEnds)
  <2>1. s \in Nat
    BY Geometry
  <2>2. BytesOf(fast, FZ, s, FastEnds) = BytesOf(trace, NZ, s, TraceEnds)
    BY <1>7, RowsAreBytes DEF HandoverInv, ReplaySeesSameMemory, SameValues
  <2> HIDE DEF E, D, t, u, FZ, NZ
  <2>3. BytesOf(Restamped(fast, FZ, r, L, fastLanes, t, E), FZ, s, FastEnds)
           = BytesOf(fast, FZ, s, FastEnds)
    BY <1>0, <1>9, <1>2, <1>4, <2>1, BytesAfterRead
  <2>4. BytesOf(Restamped(trace, NZ, r, T, traceLanes, u, D), NZ, s, TraceEnds)
           = BytesOf(trace, NZ, s, TraceEnds)
    <3>1. IsGeometry(TraceEnds) /\ T = Len(TraceEnds) /\ T \in Nat \ {0} /\ r \in Nat
      BY <1>0, <1>9
    <3>2. traceLanes = [l \in 0 .. (T - 1) |-> At(trace, NZ, Lane(r, l, T)).value]
      BY <1>3
    <3>3. DOMAIN trace \subseteq D
      BY <1>4
    <3> HIDE DEF T
    <3> QED BY <2>1, <3>1, <3>2, <3>3, BytesAfterRead, Z3
  <2> QED BY <1>5, <1>6, <1>7, <2>2, <2>3, <2>4
<1> QED BY <1>1, <1>7, AccessKeepsReplay

\* And after a write of the same bytes.
LEMMA WriteKeepsInv ==
    ASSUME HandoverInv, NEW r \in Row, WriteRow(r)
    PROVE  HandoverInv'
<1> DEFINE L == FastLanes
           T == TraceLanes
           FZ == Cells!ZeroCell
           NZ == Cells!ZeroCell
           E == After(fast, r * L, L, TRUE)
           D == After(trace, r * T, T, TRUE)
           t == fastClock + 1
           u == traceClock + 1
<1>0. r \in Nat /\ IsGeometry(FastEnds) /\ IsGeometry(TraceEnds) /\ L \in Nat \ {0} /\ T \in Nat \ {0}
  BY Geometry
<1>9. L = Len(FastEnds) /\ T = Len(TraceEnds)
  BY DEF FastLanes, TraceLanes
<1>1. PICK bytes \in [1 .. RowBytes -> Byte] :
         AccessRow(r, Split(bytes, FastEnds), Split(bytes, TraceEnds), TRUE)
  BY DEF WriteRow
<1>2. /\ DOMAIN fast \subseteq E /\ DOMAIN trace \subseteq D
      /\ \A j \in 0 .. (L - 1) : Lane(r, j, L) \in E
      /\ \A j \in 0 .. (T - 1) : Lane(r, j, T) \in D
  BY <1>0, AfterCovers DEF HandoverInv, FastInv
<1>3. fast' = Restamped(fast, FZ, r, L, Split(bytes, FastEnds), t, E)
  BY <1>1, FastStep
<1>4. tracing => trace' = Restamped(trace, NZ, r, T, Split(bytes, TraceEnds), u, D)
  BY <1>1, TraceStep
<1>5. ASSUME tracing, NEW s \in Row
      PROVE  BytesOf(fast', FZ, s, FastEnds) = BytesOf(trace', NZ, s, TraceEnds)
  <2>1. s \in Nat
    BY Geometry
  <2>2. BytesOf(fast, FZ, s, FastEnds) = BytesOf(trace, NZ, s, TraceEnds)
    BY <1>5, RowsAreBytes DEF HandoverInv, ReplaySeesSameMemory, SameValues
  <2> HIDE DEF E, D, t, u, FZ, NZ
  <2>3. BytesOf(Restamped(fast, FZ, r, L, Split(bytes, FastEnds), t, E), FZ, s, FastEnds)
           = IF s = r THEN bytes ELSE BytesOf(fast, FZ, s, FastEnds)
    BY <1>0, <1>9, <1>2, <2>1, BytesAfterWrite
  <2>4. BytesOf(Restamped(trace, NZ, r, T, Split(bytes, TraceEnds), u, D), NZ, s, TraceEnds)
           = IF s = r THEN bytes ELSE BytesOf(trace, NZ, s, TraceEnds)
    BY <1>0, <1>9, <1>2, <2>1, BytesAfterWrite
  <2> QED BY <1>3, <1>4, <1>5, <2>2, <2>3, <2>4
<1> QED BY <1>1, <1>5, AccessKeepsReplay

\* Nothing is allocated at first.
LEMMA InitHandover == Init => HandoverInv
<1> SUFFICES ASSUME Init PROVE HandoverInv
  OBVIOUS
<1>1. paged \in BOOLEAN /\ fastClock \in Nat /\ DOMAIN fast = {} /\ tracing = FALSE
  BY DEF Init
<1>2. Whole({})
  <2>1. CASE paged
    BY <2>1, PagesAreWhole
  <2>2. CASE ~ paged
    <3>1. {} = 0 .. (0 * FastLanes - 1) /\ 0 \in Nat
      <4>1. 0 * FastLanes = 0
        BY Geometry, SMT
      <4> QED BY <4>1
    <3> QED BY <2>2, <3>1, PrefixIsWhole
  <2> QED BY <2>1, <2>2
<1>3. StampsAlike
  <2>1. Cells!ZeroCell.stamp = 0
    BY DEF Cells!ZeroCell
  <2> QED BY <1>1, <2>1 DEF StampsAlike, FastStamp, At
<1> QED BY <1>1, <1>2, <1>3 DEF HandoverInv, FastInv, ReplaySeesSameMemory

\* Hand-overs, reads and writes keep it.
LEMMA NextHandover == HandoverInv /\ [Next]_vars => HandoverInv'
<1> SUFFICES ASSUME HandoverInv, [Next]_vars PROVE HandoverInv'
  OBVIOUS
<1>1. CASE Handover
  <2>1. FastInv' /\ (SameValues /\ SameStamps)' /\ traceClock' = fastClock'
    BY <1>1, HandoverCarriesRows DEF HandoverInv
  <2> QED BY <2>1 DEF HandoverInv, ReplaySeesSameMemory
<1>2. CASE \E r \in Row : ReadRow(r) \/ WriteRow(r)
  BY <1>2, ReadKeepsInv, WriteKeepsInv
<1>3. CASE UNCHANGED vars
  BY <1>3 DEF vars, HandoverInv, FastInv, Aligned, Whole, StampsAlike, FastStamp,
              ReplaySeesSameMemory, SameValues, SameStamps, RowOf, FastAt, TraceAt,
              Cells!CellAt
<1> QED BY <1>1, <1>2, <1>3 DEF Next

-----------------------------------------------------------------------------

\* While the tracing machine replays from a checkpoint of the fast one, the
\* two see the same bytes in every row and read the same clock, and for an
\* unpaged memory they stamp its rows alike: wherever the registers of the two
\* machines end in a row, and whether or not rows fill the pages they are
\* restored to, the shard that is traced is the shard that ran.
THEOREM ReplayedMemoryIsTheSame == Spec => []ReplaySeesSameMemory
<1>1. HandoverInv => ReplaySeesSameMemory
  BY DEF HandoverInv
<1> QED BY InitHandover, NextHandover, <1>1, PTL DEF Spec

\* Every hand-over carries each row to the other machine, values and stamps,
\* wherever its registers end and however its pages cut the rows.
THEOREM EveryHandoverIsExact == Spec => HandoverIsExact
<1>1. HandoverInv /\ [Next]_vars => [Handover => (SameValues /\ SameStamps)']_vars
  BY HandoverCarriesRows DEF HandoverInv
<1> QED BY InitHandover, NextHandover, <1>1, PTL DEF Spec, HandoverIsExact
=============================================================================
