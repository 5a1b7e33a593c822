--------------------------- MODULE SplitRegisters ----------------------------
(***************************************************************************)
(* Splitting the registers of a function (transform/split_registers.go and *)
(* transform/split): a register wider than the registers of the target     *)
(* becomes limbs, and each bytecode becomes bytecodes over limbs whose     *)
(* results fit the bandwidth of the target.  What one of them cannot hold  *)
(* is carried to the next, or borrowed from it.                            *)
(*                                                                         *)
(* A target is a record: reg, the bits of a register, band, the bits a     *)
(* result may have, and word, the bits of a machine word.  The k-th        *)
(* bytecode of a function allocates registers at <<k, ...>>.               *)
(*                                                                         *)
(* Last come the two passes before splitting when a program is traced:     *)
(* divisions become hints that are checked (lower_division.go), and        *)
(* comparisons the sign of a difference (lower_comparison.go).             *)
(***************************************************************************)
EXTENDS Interpreter

CeilDiv(a, b) == (a + b - 1) \div b

\* Bits of a value that is cut into limbs, the last one as wide as needed.
LimbWidths(width, R) ==
    IF width <= R THEN <<width>>
    ELSE [i \in 1..CeilDiv(width, R) |-> Min({R, width - (i - 1) * R})]

\* The least significant limb first.
Limbs(r, R) ==
    IF r.width <= R THEN <<r>>
    ELSE LET ws == LimbWidths(r.width, R)
         IN  [i \in DOMAIN ws |-> [name |-> r.name, at |-> Append(r.at, i - 1), width |-> ws[i]]]

ApplyLimbsMap(rs, R) == FlattenSeq([i \in DOMAIN rs |-> Reverse(Limbs(rs[i], R))])
ApplyLimbsMapReversed(rs, R) == FlattenSeq([i \in DOMAIN rs |-> Limbs(rs[i], R)])

SplitConstant(k, R) ==
    [i \in 1..CeilDiv(BitLen(k), R) |-> Slice(Shr(k, (i - 1) * R), R)]

At(s, i, default) == IF i \in DOMAIN s THEN s[i] ELSE default

\* Exactly n bits of a vector if it has them: a register that reaches beyond
\* is put together afterwards from the two parts it is cut into.
SelectExact(stack, n, at) ==
    LET m    == Min({Len(stack)} \cup {i \in DOMAIN stack : Offset(stack, i) >= n})
        over == Offset(stack, m) - n
        lo   == Allocate("t", Append(at, 0), stack[m].width - over)
        hi   == Allocate("t", Append(at, 1), over)
        rest == SubSeq(stack, m + 1, Len(stack))
    IN  IF stack = <<>> THEN [taken |-> <<Zero>>, rest |-> <<>>, post |-> <<>>]
        ELSE IF over <= 0 THEN [taken |-> SubSeq(stack, 1, m), rest |-> rest, post |-> <<>>]
        ELSE [taken |-> Append(SubSeq(stack, 1, m - 1), lo),
              rest  |-> <<hi>> \o rest,
              post  |-> <<AssignV(<<stack[m]>>, <<lo, hi>>)>>]

\* How many registers hold at most n bits.
SelectUpto(stack, n) == Max({0} \cup {i \in DOMAIN stack : Offset(stack, i) <= n})
-----------------------------------------------------------------------------
(* Sums and differences: a chunk for each limb of the widest source.       *)

Chunk(ts, ss, k) == [targets |-> ts, sources |-> ss, constant |-> k]

\* The i-th limbs of the sources; the first of a difference may not be missing.
Column(rs, i, R) ==
    FlattenSeq([j \in DOMAIN rs |->
        IF i \in DOMAIN Limbs(rs[j], R) THEN <<Limbs(rs[j], R)[i]>> ELSE <<>>])
SubColumn(rs, i, R) ==
    (IF i \in DOMAIN Limbs(rs[1], R) THEN <<>> ELSE <<Zero>>) \o Column(rs, i, R)

Height(rs, R) == Max({0} \cup {Len(Limbs(r, R)) : r \in Range(rs)})

InitialiseChunks(targets, columns, constants, k, R) ==
    LET n == Max({Len(columns), Len(constants)})
        Select[i \in 0..n] ==
            IF i = 0
            THEN [stack |-> ApplyLimbsMapReversed(targets, R), chunks |-> <<>>, post |-> <<>>]
            ELSE LET p == Select[i - 1]
                     s == SelectExact(p.stack, R, <<k, i>>)
                 IN  [stack  |-> s.rest,
                      chunks |-> Append(p.chunks, Chunk(s.taken, At(columns, i, <<>>),
                                                        At(constants, i, 0))),
                      post   |-> p.post \o s.post]
        Completed(p) ==
            [chunks |-> p.chunks \o [i \in DOMAIN p.stack |-> Chunk(<<p.stack[i]>>, <<>>, 0)],
             post   |-> p.post]
    IN  Completed(Select[n])

InsertAddCarryLines(chunks, k) ==
    LET Upto[i \in 0..Len(chunks)] ==
            IF i = 0 THEN [chunks |-> <<>>, carry |-> <<>>]
            ELSE LET p  == Upto[i - 1]
                     ss == chunks[i].sources \o p.carry
                     ts == chunks[i].targets
                     over  == CalculateAddBitwidth(ss, chunks[i].constant) - BitwidthOf(ts)
                     carry == IF BitwidthOf(ts) > 0 /\ over > 0 /\ i < Len(chunks)
                              THEN <<Allocate("c", <<k, i>>, over)>> ELSE <<>>
                 IN  [chunks |-> Append(p.chunks, Chunk(ts \o carry, ss, chunks[i].constant)),
                      carry  |-> carry]
    IN  Upto[Len(chunks)].chunks

Addition(c, k, R) ==
    LET Emit(chunks) ==
            [i \in DOMAIN chunks |->
                Add(chunks[i].targets, chunks[i].sources, chunks[i].constant)]
        Carried(initial) == Emit(InsertAddCarryLines(initial.chunks, k)) \o initial.post
    IN  Carried(InitialiseChunks(c.targets,
                                 [i \in 1..Height(c.sources, R) |-> Column(c.sources, i, R)],
                                 SplitConstant(c.constant, R), k, R))

InsertSubBorrowLines(chunks, k) ==
    LET Borrow(i) == IF i \in 1..(Len(chunks) - 1) THEN <<Allocate("b", <<k, i>>, 1)>> ELSE <<>>
    IN  [i \in DOMAIN chunks |->
            Chunk(chunks[i].targets \o Borrow(i), chunks[i].sources \o Borrow(i - 1),
                  chunks[i].constant)]

\* A difference that must be zero has no bits to borrow for.
IsZeroDifference(c) ==
    Len(c.sources) = 2 /\ c.constant = 0 /\ BitwidthOf(c.targets) = 0

SplitSubtraction(c, k, R) ==
    LET Emit(chunks) ==
            [i \in DOMAIN chunks |->
                IF chunks[i].sources = <<>> THEN LoadConst(chunks[i].targets, 0)
                ELSE Sub(chunks[i].targets, chunks[i].sources, chunks[i].constant)]
        Borrowed(initial) ==
            Emit(IF IsZeroDifference(c) THEN initial.chunks
                 ELSE InsertSubBorrowLines(initial.chunks, k)) \o initial.post
    IN  Borrowed(InitialiseChunks(c.targets,
                                  [i \in 1..Height(c.sources, R) |-> SubColumn(c.sources, i, R)],
                                  SplitConstant(c.constant, R), k, R))

RequiresSplitting(c, target) ==
    \/ \E r \in Range(c.sources) : Len(Limbs(r, target.reg)) > 1
    \/ ~FitsWithin(c.constant, target.reg) /\ BitwidthOf(c.targets) < target.band

RequiresBreakup(c) == Len(c.sources) > 2 \/ (Len(c.sources) = 2 /\ c.constant # 0)

\* All that is subtracted is added up first.
Subtraction(c, k, target) ==
    LET R    == target.reg
        rest == Tail(c.sources)
        temp == Allocate("t", <<k, 0>>, CalculateAddBitwidth(rest, c.constant))
    IN  IF ~RequiresSplitting(c, target)
        THEN <<Sub(ApplyLimbsMapReversed(c.targets, R), ApplyLimbsMapReversed(c.sources, R),
                   c.constant)>>
        ELSE (IF RequiresBreakup(c) THEN Addition(Add(<<temp>>, rest, c.constant), k, R) ELSE <<>>)
                \o SplitSubtraction(IF RequiresBreakup(c)
                                    THEN Sub(c.targets, <<c.sources[1], temp>>, 0) ELSE c, k, R)
-----------------------------------------------------------------------------
(* Concatenations: as many limbs on both sides as the bandwidth permits.   *)

PartCat(ts, ss) == [targets |-> ts, sources |-> ss, borrows |-> FALSE]

\* What one side has more of, it takes from the room in the next chunk.
NextCat(p, B) ==
    LET n == SelectUpto(p.sources, B - p.overhang)
        m == SelectUpto(p.targets, B - p.underhang)
        more == Offset(p.sources, n) + p.overhang - Offset(p.targets, m) - p.underhang
        Without(s, i) == SubSeq(s, i + 1, Len(s))
        Taken(i, j) == PartCat(SubSeq(p.targets, 1, j), SubSeq(p.sources, 1, i))
    IN  CASE p.sources # <<>> /\ p.targets # <<>> ->
                [sources |-> Without(p.sources, n), targets |-> Without(p.targets, m),
                 overhang |-> Max({more, 0}), underhang |-> Max({-more, 0}),
                 chunks |-> Append(p.chunks, Taken(n, m))]
          [] p.sources = <<>> /\ p.targets # <<>> ->
                [p EXCEPT !.targets = Tail(@), !.chunks = Append(@, Taken(0, 1))]
          [] p.sources # <<>> /\ p.targets = <<>> ->
                [p EXCEPT !.sources = Without(@, n), !.overhang = 0,
                          !.chunks = Append(@, Taken(n, 0))]
          [] OTHER -> p

InitialiseConcatChunks(ts, ss, target) ==
    LET Upto[i \in 0..(1 + Len(ts) + Len(ss))] ==
            IF i = 0 THEN [sources |-> ss, targets |-> ts, overhang |-> 0, underhang |-> 0,
                           chunks |-> <<>>]
            ELSE NextCat(Upto[i - 1], target.band)
    IN  Upto[1 + Len(ts) + Len(ss)].chunks

InsertConcatCarryLines(chunks, k) ==
    LET n     == Len(chunks)
        nReal == Max({0} \cup {i \in 1..n : chunks[i].targets # <<>>})
        Upto[i \in 0..n] ==
            IF i = 0 THEN [chunks |-> <<>>, carry |-> <<>>, borrow |-> <<>>]
            ELSE LET p  == Upto[i - 1]
                     ts == p.borrow \o chunks[i].targets
                     ss == p.carry \o chunks[i].sources
                     lhs == BitwidthOf(ts)
                     rhs == BitwidthOf(ss)
                     carry  == IF 0 < lhs /\ lhs < rhs /\ i < (IF nReal = 0 THEN n ELSE nReal)
                               THEN <<Allocate("c", <<k, i>>, rhs - lhs)>> ELSE <<>>
                     borrow == IF lhs > rhs /\ i < n /\ At(chunks, i + 1, chunks[i]).sources # <<>>
                               THEN <<Allocate("b", <<k, i>>, lhs - rhs)>> ELSE <<>>
                 IN  [chunks |-> Append(p.chunks, [targets |-> ts \o carry,
                                                   sources |-> ss \o borrow,
                                                   borrows |-> borrow # <<>>]),
                      carry |-> carry, borrow |-> borrow]
    IN  Upto[n].chunks

\* Faulty OrderConcatAssignments: a borrow is read before it is written.
OrderConcatInTurn(chunks) == chunks

\* Chunks that borrow come after those that they borrow from.
OrderConcatAssignments(chunks) ==
    LET IsStart(i) == i = 1 \/ ~chunks[i - 1].borrows
        End(i) == Min({j \in i..Len(chunks) : ~chunks[j].borrows})
    IN  FlattenSeq([i \in DOMAIN chunks |->
            IF IsStart(i) THEN Reverse(SubSeq(chunks, i, End(i))) ELSE <<>>])

ConcatAssignment(chunk) ==
    CASE chunk.targets = <<>> /\ chunk.sources = <<>> -> <<>>
      [] chunk.targets # <<>> /\ chunk.sources = <<>> -> <<LoadConst(chunk.targets, 0)>>
      [] chunk.targets = <<>> /\ chunk.sources # <<>> -> <<AssignV(<<Zero>>, chunk.sources)>>
      [] OTHER -> <<AssignV(chunk.targets, chunk.sources)>>

Concat(c, k, target) ==
    LET chunks  == InitialiseConcatChunks(ApplyLimbsMapReversed(c.targets, target.reg),
                                          ApplyLimbsMapReversed(c.sources, target.reg), target)
        ordered == OrderConcatAssignments(InsertConcatCarryLines(chunks, k))
    IN  FlattenSeq([i \in DOMAIN ordered |-> ConcatAssignment(ordered[i])])
-----------------------------------------------------------------------------
(* Splitting a product (transform/split/multiplication.go).  The operands  *)
(* are cut into cells of g bits, narrow enough for a column of partial     *)
(* products to be added up within the bandwidth.  One fold after the other *)
(* multiplies the running product with the next operand; the last one adds *)
(* up straight into the limbs of the targets.                              *)

\* The bits of each cell of a grid over so many bits.
GridWidths(total, g) ==
    [i \in 1..CeilDiv(total, g) |-> Min({g, total - (i - 1) * g})]

\* The grid positions up to a number of bits.
GridCuts(total, g) == {Min({i * g, total}) : i \in 1..CeilDiv(total, g)}

\* The positions of the ends of registers.
LimbCuts(rs) == {Offset(rs, i) : i \in DOMAIN rs}

\* The widths of the pieces into which cuts divide what lies from lo to hi.
PieceWidths(lo, hi, cuts) ==
    LET edges  == {lo, hi} \cup {c \in cuts : lo < c /\ c < hi}
        Nth(p) == CHOOSE e \in edges : Cardinality({d \in edges : d < e}) = p
    IN  [p \in 1..(Cardinality(edges) - 1) |-> Nth(p) - Nth(p - 1)]

\* The largest width for which the sum of a column fits, or a divisor of the
\* register width.
MulGranularity(target, width) ==
    Max({g \in 1..Min({target.reg, target.band \div 2}) :
            \/ g + BitLen(2 * CeilDiv(width, g) + 1) <= target.band
            \/ target.reg % g = 0})

\* Registers that reach over a cut become pieces; those without bits vanish.
SplitAtBoundaries(prefix, at, group, cuts) ==
    LET Widths(l) == PieceWidths(Offset(group, l - 1), Offset(group, l), cuts)
        Pieces(l) == IF Len(Widths(l)) <= 1 THEN SubSeq(<<group[l]>>, 1, Len(Widths(l)))
                     ELSE [p \in DOMAIN Widths(l) |->
                             Allocate(prefix, at \o <<l, p>>, Widths(l)[p])]
    IN  [pieces |-> FlattenSeq([l \in DOMAIN group |-> Pieces(l)]),
         code   |-> FlattenSeq([l \in DOMAIN group |->
                       IF Len(Pieces(l)) > 1 THEN <<Add(Pieces(l), <<group[l]>>, 0)>> ELSE <<>>])]

\* The pieces that lie from lo to hi.
TakePieces(pieces, lo, hi) ==
    LET Upto(n) == Cardinality({i \in DOMAIN pieces : Offset(pieces, i) <= n})
    IN  SubSeq(pieces, Upto(lo) + 1, Upto(hi))

DecomposeToSubLimbs(g, limbs, at) ==
    LET total == BitwidthOf(limbs)
        ws    == GridWidths(total, g)
        SubLimb(cell, i) ==
            IF Len(cell) = 1 THEN [sub |-> cell[1], code |-> <<>>]
            ELSE LET sub == Allocate("s", Append(at, i), ws[i])
                 IN  [sub |-> sub, code |-> <<AssignV(<<sub>>, cell)>>]
        Made(code, cells) ==
            [subs |-> [i \in DOMAIN cells |-> cells[i].sub],
             code |-> code \o FlattenSeq([i \in DOMAIN cells |-> cells[i].code])]
        Cut(split) ==
            Made(split.code, [i \in DOMAIN ws |->
                SubLimb(TakePieces(split.pieces, (i - 1) * g, (i - 1) * g + ws[i]), i)])
    IN  Cut(SplitAtBoundaries("s", at, limbs, GridCuts(total, g)))

FoldLayout(total, g) == [i \in 1..CeilDiv(total, g) |-> <<GridWidths(total, g)[i]>>]

\* The last layout is cut at the ends of the limbs of the targets as well.
TargetLayout(g, limbs) ==
    LET total == BitwidthOf(limbs)
    IN  [i \in 1..CeilDiv(total, g) |->
            PieceWidths((i - 1) * g, Min({i * g, total}), LimbCuts(limbs))]
-----------------------------------------------------------------------------
(* Partial products are pairs of a column and a register.                  *)

AllocSubLimbs(prefix, at, g, width) ==
    [t \in 1..CeilDiv(width, g) |-> Allocate(prefix, Append(at, t), GridWidths(width, g)[t])]

Bucket(column, pp) == [t \in DOMAIN pp |-> <<column + t - 1, pp[t]>>]

\* Each column is added up, and what overflows is carried to the next one.
\* There is no room in the columns beyond the layout.
Accumulate(g, layout, partials, at) ==
    LET columns == Max({Len(layout)} \cup {partials[i][1] : i \in DOMAIN partials})
        InColumn(c) == SelectSeq(partials, LAMBDA p : p[1] = c)
        Upto[c \in 0..columns] ==
            IF c = 0 THEN [outs |-> <<>>, code |-> <<>>, carry |-> <<>>]
            ELSE LET p  == Upto[c - 1]
                     ws == At(layout, c, <<0>>)
                     ss == [i \in DOMAIN InColumn(c) |-> InColumn(c)[i][2]] \o p.carry
                     ts == [i \in DOMAIN ws |-> Allocate("m", at \o <<c, i>>, ws[i])]
                     width == BitwidthOf(ts)
                     rhs   == CalculateAddBitwidth(ss, 0)
                     carry == IF width = g /\ rhs > width /\ c < columns
                              THEN <<Allocate("c", Append(at, c), rhs - width)>> ELSE <<>>
                 IN  IF Len(ws) = 1 /\ Len(ss) = 1 /\ At(ss, 1, Zero).width = width
                     THEN [p EXCEPT !.outs = @ \o ss, !.carry = <<>>]
                     ELSE [outs  |-> p.outs \o ts,
                           code  |-> Append(p.code, Add(ts \o carry, ss, 0)),
                           carry |-> carry]
    IN  Upto[columns]

Partial(products, g, layout, at) ==
    LET After(sums) ==
            [outs |-> sums.outs,
             code |-> [n \in DOMAIN products |-> products[n].code] \o sums.code]
    IN  After(Accumulate(g, layout,
                         FlattenSeq([n \in DOMAIN products |->
                            Bucket(products[n].column, products[n].code.targets)]), at))

ScalarStep(g, a, k, layout, at) ==
    LET ks == SplitConstant(k, g)
        Product(i, j) ==
            IF ks[j] = 0 THEN <<>>
            ELSE <<[column |-> i + j - 1,
                    code   |-> Mul(AllocSubLimbs("pp", at \o <<i, j>>, g,
                                                 a[i].width + BitLen(ks[j])),
                                   <<a[i]>>, ks[j])]>>
    IN  Partial(FlattenSeq([i \in DOMAIN a |->
                   FlattenSeq([j \in DOMAIN ks |-> Product(i, j)])]), g, layout, at)

BinaryStep(g, a, b, layout, at) ==
    LET Product(i, j) ==
            [column |-> i + j - 1,
             code   |-> Mul(AllocSubLimbs("pp", at \o <<i, j>>, g, a[i].width + b[j].width),
                            <<a[i], b[j]>>, 1)]
    IN  Partial(FlattenSeq([i \in DOMAIN a |-> [j \in DOMAIN b |-> Product(i, j)]]),
                g, layout, at)

ReassembleToTarget(outs, limbs, at) ==
    LET split   == SplitAtBoundaries("r", at, outs, LimbCuts(limbs))
        Cell(i) == TakePieces(split.pieces, Offset(limbs, i - 1), Offset(limbs, i))
    IN  split.code \o [i \in DOMAIN limbs |->
            IF Cell(i) = <<>> THEN LoadConst(<<limbs[i]>>, 0) ELSE AssignV(<<limbs[i]>>, Cell(i))]

LoadConstant(limbs, k) ==
    [i \in DOMAIN limbs |->
        LoadConst(<<limbs[i]>>, Slice(Shr(k, Offset(limbs, i - 1)), limbs[i].width))]

\* Faulty MultiplicationFits: the product may exceed the bandwidth.
MultiplicationHasNoLimbs(c, target) ==
    \A r \in Range(c.targets) \cup Range(c.sources) : Len(Limbs(r, target.reg)) = 1

\* The product needs no splitting and no more bits than the bandwidth.
MultiplicationFits(c, target) ==
    /\ \A r \in Range(c.targets) \cup Range(c.sources) : Len(Limbs(r, target.reg)) = 1
    /\ CalculateMulBitwidth(c.sources, c.constant) <= target.band

\* One fold after the other takes the operands, whose cells are given.
FoldOperands(c, k, target, g, parts) ==
    LET targets == ApplyLimbsMapReversed(c.targets, target.reg)
        folds == Len(c.sources) - 1
        extra == IF c.constant = 1 THEN 0 ELSE BitLen(c.constant)
        Layout(i) == IF i = folds THEN TargetLayout(g, targets)
                     ELSE FoldLayout(Offset(c.sources, i + 1) + extra, g)
        first == parts[1].subs
        Single == [i \in DOMAIN first |-> <<i, first[i]>>]
        Then(p, s) == [outs |-> s.outs, code |-> p.code \o s.code]
        Fold[i \in 0..folds] ==
            CASE i = 0 /\ c.constant # 1 ->
                    ScalarStep(g, first, c.constant, Layout(0), <<k, 0>>)
              [] i = 0 /\ c.constant = 1 /\ folds = 0 ->
                    Accumulate(g, Layout(0), Single, <<k, 0>>)
              [] i = 0 /\ c.constant = 1 /\ folds > 0 -> [outs |-> first, code |-> <<>>]
              [] OTHER -> Then(Fold[i - 1], BinaryStep(g, Fold[i - 1].outs, parts[i + 1].subs,
                                                       Layout(i), <<k, i>>))
        Reassembled(p) == p.code \o ReassembleToTarget(p.outs, targets, <<k, 0>>)
    IN  FlattenSeq([o \in DOMAIN parts |-> parts[o].code]) \o Reassembled(Fold[folds])

FoldProduct(c, k, target) ==
    LET g == MulGranularity(target, BitwidthOf(c.sources) + BitLen(c.constant))
    IN  FoldOperands(c, k, target, g,
                     [o \in DOMAIN c.sources |->
                        DecomposeToSubLimbs(g, Limbs(c.sources[o], target.reg), <<k, o>>)])

SplitMultiplication(c, k, target) ==
    LET targets == ApplyLimbsMapReversed(c.targets, target.reg)
    IN  IF c.sources = <<>> THEN LoadConstant(targets, c.constant)
        ELSE IF MultiplicationFits(c, target) THEN <<c>>
        ELSE FoldProduct(c, k, target)
-----------------------------------------------------------------------------
(* The other bytecodes, what happens where a function meets functions and  *)
(* memories that are split as well, and the passes before splitting.       *)

\* Surplus limbs of the wider operand, or of the target, meet zeros.
BitwiseLimb(op, t, ls, rs) ==
    LET width == Max({0} \cup {r.width : r \in Range(ls) \cup Range(rs)})
        both  == ls # <<>> /\ rs # <<>>
        one   == ls \o rs
    IN  CASE op = "not" /\ one # <<>> -> BitOp(op, t, one[1], Of(<<one[1]>>), width)
          [] op # "not" /\ both -> BitOp(op, t, ls[1], Of(rs), width)
          [] op \in {"or", "xor"} /\ ~both /\ one # <<>> -> Add(<<t>>, one, 0)
          [] OTHER -> LoadConst(<<t>>, 0)

BitwiseConstLimb(op, t, ls, k) ==
    CASE ls # <<>> -> BitOp(op, t, ls[1], OfConst(k), Max({ls[1].width, BitLen(k)}))
      [] ls = <<>> /\ op = "and" -> LoadConst(<<t>>, 0)
      [] ls = <<>> /\ op # "and" -> LoadConst(<<t>>, k)

SplitBitwise(c, R) ==
    LET ts == Limbs(c.target, R)
        ls == Limbs(c.left, R)
        constants == IF IsConstant(c.right) THEN SplitConstant(c.right.values[1], R) ELSE <<>>
        rs == ApplyLimbsMapReversed(c.right.regs, R)
        One(s, i) == IF i \in DOMAIN s THEN <<s[i]>> ELSE <<>>
    IN  [i \in 1..Max({Len(ts), Len(ls), Len(rs), Len(constants)}) |->
            IF IsConstant(c.right)
            THEN BitwiseConstLimb(c.op, At(ts, i, Zero), One(ls, i), At(constants, i, 0))
            ELSE BitwiseLimb(c.op, At(ts, i, Zero), One(ls, i), One(rs, i))]

Shift(c, R) ==
    LET ts == ApplyLimbsMap(<<c.target>>, R)
        ls == ApplyLimbsMap(<<c.left>>, R)
        rs == ApplyLimbsMap(c.right.regs, R)
    IN  IF {Len(ts), Len(ls), Len(rs)} = {1} THEN <<c>>
        ELSE <<Intrinsic(IF c.op = "shl" THEN "wide_shl" ELSE "wide_shr",
                         <<ts>>, <<Of(ls), Of(rs)>>)>>

SplitOperand(o, R) == [o EXCEPT !.regs = ApplyLimbsMap(@, R)]

SplitDivMod(c, R) ==
    LET ts == <<ApplyLimbsMap(<<c.quotient>>, R), ApplyLimbsMap(<<c.remainder>>, R)>>
        x  == ApplyLimbsMap(<<c.dividend>>, R)
        y  == SplitOperand(c.divisor, R)
    IN  IF {Len(ts[1]), Len(ts[2]), Len(x)} = {1} /\ Len(y.regs) <= 1 THEN <<c>>
        ELSE <<Intrinsic("wide_divmod", ts, <<Of(x), y>>)>>

SplitIntrinsic(c, R) ==
    <<[c EXCEPT !.targets = [i \in DOMAIN @ |-> ApplyLimbsMap(@[i], R)],
                !.sources = [i \in DOMAIN @ |-> SplitOperand(@[i], R)]]>>

\* The limbs that remain of the bits that the value must fit.
SplitCheckCast(c, R) ==
    LET ls == Limbs(c.target, R)
        Left(i) == Min({ls[i].width, Max({0, c.bitwidth - Offset(ls, i - 1)})})
    IN  FlattenSeq([i \in DOMAIN ls |->
            IF Left(i) < ls[i].width THEN <<CheckCast(ls[i], Left(i))>> ELSE <<>>])

SplitSkipIf(c, R) ==
    <<SkipIf(c.cond, ApplyLimbsMap(c.left, R),
             IF IsConstant(c.right)
             THEN [regs |-> <<>>, values |-> Reverse(SplitConstant(c.right.values[1], R))]
             ELSE SplitOperand(c.right, R), c.skip)>>
-----------------------------------------------------------------------------
(* Values are passed by position, so both sides need as many limbs.        *)

SplitWidths(widths, R) ==
    FlattenSeq([i \in DOMAIN widths |-> Reverse(LimbWidths(widths[i], R))])

\* Missing limbs are zero; surplus ones are dropped.
AlignArgsReturns(locals, remotes, R) ==
    LET Count(i) == Len(LimbWidths(remotes[i], R))
        Limb(i, j) == IF locals[i] = Discard THEN Discard ELSE At(Limbs(locals[i], R), j, Zero)
    IN  FlattenSeq([i \in DOMAIN locals |-> Reverse([j \in 1..Count(i) |-> Limb(i, j)])])

\* What no value is returned for is zero.
SurplusReturns(locals, remotes, R) ==
    FlattenSeq([i \in DOMAIN locals |->
        LET surplus == IF locals[i] = Discard THEN <<>>
                       ELSE SubSeq(Limbs(locals[i], R), Len(LimbWidths(remotes[i], R)) + 1,
                                   Len(Limbs(locals[i], R)))
        IN  [j \in DOMAIN surplus |-> LoadConst(<<surplus[j]>>, 0)]])

SplitCell(v, width, R) ==
    LET ws == LimbWidths(width, R)
    IN  Reverse([i \in DOMAIN ws |-> Slice(Shr(v, (i - 1) * R), ws[i])])

SplitMemory(m, R) ==
    Memory(SplitWidths(m.inputs, R), SplitWidths(m.outputs, R),
           FlattenSeq([i \in DOMAIN m.contents |->
               SplitCell(m.contents[i], m.outputs[1 + ((i - 1) % Len(m.outputs))], R)]))

SplitCall(c, R) ==
    <<Call(c.callee, AlignArgsReturns(c.args, c.ins, R), AlignArgsReturns(c.rets, c.outs, R),
           SplitWidths(c.ins, R), SplitWidths(c.outs, R))>> \o SurplusReturns(c.rets, c.outs, R)

SplitRead(c, R) ==
    <<Read(AlignArgsReturns(c.args, c.memory.inputs, R),
           AlignArgsReturns(c.rets, c.memory.outputs, R),
           SplitMemory(c.memory, R))>> \o SurplusReturns(c.rets, c.memory.outputs, R)

SplitBytecode(c, k, target) ==
    LET R == target.reg
    IN  CASE c.op = "add" -> Addition(c, k, R)
          [] c.op = "sub" -> Subtraction(c, k, target)
          [] c.op = "mul" -> SplitMultiplication(c, k, target)
          [] c.op = "cat" -> Concat(c, k, target)
          [] c.op \in {"and", "or", "xor", "not"} -> SplitBitwise(c, R)
          [] c.op \in {"shl", "shr"} -> Shift(c, R)
          [] c.op = "divmod" -> SplitDivMod(c, R)
          [] c.op \in Intrinsics -> SplitIntrinsic(c, R)
          [] c.op = "check_cast" -> SplitCheckCast(c, R)
          [] c.op = "skip_if" -> SplitSkipIf(c, R)
          [] c.op = "call" -> SplitCall(c, R)
          [] c.op = "read" -> SplitRead(c, R)
          [] OTHER -> <<c>>

SplitFunction(f, target) ==
    [f EXCEPT !.inputs  = ApplyLimbsMap(@, target.reg),
              !.outputs = ApplyLimbsMap(@, target.reg)]

SplitFunctions(modules, target) ==
    MapFunctions([i \in DOMAIN modules |-> SplitFunction(modules[i], target)],
                 LAMBDA c, k : SplitBytecode(c, k, target))
-----------------------------------------------------------------------------
\* Any quotient, remainder and witness with x = q * y + r and y = r + w + 1.
LowerDivision(c, k) ==
    LET nX == c.dividend.width
        nY == IF IsConstant(c.divisor) THEN BitLen(c.divisor.values[1])
              ELSE c.divisor.regs[1].width
        w   == Allocate("w", <<k>>, nY)
        qy  == Allocate("qy", <<k>>, nX)
        qyr == Allocate("qy_plus_r", <<k>>, nX)
        rw1 == Allocate("rw1", <<k>>, nY)
    IN  <<Intrinsic("div_hint", <<<<c.quotient>>, <<c.remainder>>, <<w>>>>,
                    <<Of(<<c.dividend>>), c.divisor>>),
          IF IsConstant(c.divisor) THEN Mul(<<qy>>, <<c.quotient>>, c.divisor.values[1])
          ELSE Mul(<<qy>>, <<c.quotient>> \o c.divisor.regs, 1),
          Add(<<qyr>>, <<qy, c.remainder>>, 0),
          Sub(<<Zero>>, <<c.dividend, qyr>>, 0),
          Add(<<rw1>>, <<c.remainder, w>>, 1),
          IF IsConstant(c.divisor) THEN Sub(<<Zero>>, <<rw1>>, c.divisor.values[1])
          ELSE Sub(<<Zero>>, c.divisor.regs \o <<rw1>>, 0)>>

LowerDivisions(modules) ==
    MapFunctions(modules, LAMBDA c, k :
        IF c.op = "divmod" THEN LowerDivision(c, k) ELSE <<c>>)

\* x < y if x - y is negative; the others swap the operands or add one.
LowerComparison(c, k) ==
    LET swap    == c.cond \in {"gt", "lteq"}
        regs    == c.left \o c.right.regs
        operands == IF swap THEN Reverse(regs) ELSE regs
        constant == c.right.values[1] + (IF swap THEN 1 ELSE 0)
        rhsWidth == IF IsConstant(c.right)
                    THEN (IF constant = 0 THEN 1 ELSE BitLen(constant - 1))
                    ELSE operands[2].width
        lo   == Allocate("lcm", <<k, 0>>, Max({operands[1].width, rhsWidth}))
        sign == Allocate("lcm", <<k, 1>>, 1)
        onZero == IF IsConstant(c.right) THEN c.cond \in {"gt", "gteq"}
                  ELSE c.cond \in {"lteq", "gteq"}
    IN  <<IF IsConstant(c.right) THEN Sub(<<lo, sign>>, c.left, constant)
          ELSE Sub(<<lo, sign>>, operands, 0),
          SkipIf(IF onZero THEN "eq" ELSE "neq", <<sign>>, OfConst(0), c.skip)>>

LowerComparisons(modules) ==
    MapFunctions(modules, LAMBDA c, k :
        IF c.op = "skip_if" /\ c.cond \notin {"eq", "neq"} THEN LowerComparison(c, k) ELSE <<c>>)
=============================================================================
