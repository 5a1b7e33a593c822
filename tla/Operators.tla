----------------------------- MODULE Operators -----------------------------
(***************************************************************************)
(* The operators that no constraint can express are lowered when a program *)
(* is traced.  Before its registers are split, complements become          *)
(* differences, and shifts calls of a cascade of functions, one for each   *)
(* bit of the amount (transform/lower_bitwise.go, lower_shift.go).         *)
(* Afterwards, equalities of several limbs become bits                     *)
(* (factor_limb_equalities.go), and conjunctions, disjunctions and         *)
(* exclusive disjunctions look up static tables, or call functions that    *)
(* halve their operands until there is a table (lower_or_xor_and.go).      *)
(***************************************************************************)
EXTENDS SplitRegisters

Widths(rs) == [i \in DOMAIN rs |-> rs[i].width]

CallOf(id, callee, args, rets) ==
    Call(id, args, rets, Widths(callee.inputs), Widths(callee.outputs))
-----------------------------------------------------------------------------
(* Every function of the cascade takes a value and an amount and returns   *)
(* the value shifted either way.                                           *)

ShiftFunction(width, amount, code) ==
    Function(<<Register("arg1", width), Register("arg2", amount)>>,
             <<Register("out_shl", width), Register("out_shr", width)>>, code)

ShiftOutputs(width) == ShiftFunction(width, 0, <<>>).outputs

ShiftByConst(op, target, a, n) ==
    LET drop == Register(IF op = "shl" THEN "drop_shl" ELSE "drop_shr", n)
        keep == Register(IF op = "shl" THEN "keep_shl" ELSE "keep_shr", a.width - n)
        zeros == Register("zeros", n)
    IN  IF op = "shr" THEN <<Add(<<drop, keep>>, <<a>>, 0), Add(<<target>>, <<keep>>, 0)>>
        ELSE <<Add(<<keep, drop>>, <<a>>, 0), LoadConst(<<zeros>>, 0),
               AssignV(<<target>>, <<zeros, keep>>)>>

CopyBoth(ts, a) == <<Add(<<ts[1]>>, <<a>>, 0), Add(<<ts[2]>>, <<a>>, 0)>>

\* The last level, of one bit.
FirstShiftLevel(width) ==
    LET a  == Register("arg1", width)
        ts == ShiftOutputs(width)
    IN  ShiftFunction(width, 1,
            <<SkipIf("neq", <<Register("arg2", 1)>>, OfConst(0), 3)>> \o CopyBoth(ts, a) \o <<Ret>>
                \o ShiftByConst("shl", ts[1], a, 1) \o ShiftByConst("shr", ts[2], a, 1) \o <<Ret>>)

\* The lower bits are left to the level below, which is numbered id.
ShiftLevel(level, width, id, callee) ==
    LET low == Register("nlow", level - 1)
        bit == Register("bit", 1)
        lo  == <<Register("lo_shl", width), Register("lo_shr", width)>>
        Diamond(op, i) ==
            LET target  == ShiftOutputs(width)[i]
                shifted == ShiftByConst(op, target, lo[i], 2^(level - 1))
            IN  <<SkipIf("neq", <<bit>>, OfConst(0), 2), Add(<<target>>, <<lo[i]>>, 0),
                  Skip(Len(shifted))>> \o shifted
    IN  ShiftFunction(width, level,
            <<Add(<<low, bit>>, <<Register("arg2", level)>>, 0),
              CallOf(id, callee, <<Register("arg1", width), low>>, lo)>>
                \o Diamond("shl", 1) \o Diamond("shr", 2) \o <<Ret>>)

\* An amount with higher bits than the levels take shifts everything out.
ShiftGuard(amount, width, depth, id, callee) ==
    LET a == Register("arg1", width)
        n == Register("arg2", amount)
        low  == Register("vlow", depth)
        high == Register("vhigh", amount - depth)
        ts == ShiftOutputs(width)
    IN  ShiftFunction(width, amount,
            (IF depth = 0
             THEN <<SkipIf("neq", <<n>>, OfConst(0), 3)>> \o CopyBoth(ts, a) \o <<Ret>>
             ELSE <<Add(<<low, high>>, <<n>>, 0), SkipIf("neq", <<high>>, OfConst(0), 2),
                    CallOf(id, callee, <<a, low>>, ts), Ret>>)
                \o <<LoadConst(<<ts[1]>>, 0), LoadConst(<<ts[2]>>, 0), Ret>>)

\* The levels up to the top one, numbered from base.
ShiftLevels(base, top, width) ==
    LET Level[j \in 1..top] ==
            IF j = 1 THEN FirstShiftLevel(width)
            ELSE ShiftLevel(j, width, base + j - 2, Level[j - 1])
    IN  Level

LowerShift(c, k, width, id, callee) ==
    LET truncate == c.op = "shl" /\ c.bitwidth < width
        raw  == Allocate("raw_shl_res", <<k>>, width)
        high == Allocate("shl_res_high", <<k>>, width - c.bitwidth)
        result == IF truncate THEN raw ELSE c.target
    IN  <<CallOf(id, callee, <<c.left, c.right.regs[1]>>,
                 IF c.op = "shl" THEN <<result, Discard>> ELSE <<Discard, result>>)>>
            \o (IF truncate THEN <<Add(<<c.target, high>>, <<raw>>, 0)>> ELSE <<>>)

LowerNot(c, k) ==
    LET mask == Allocate("lbw", <<k>>, c.left.width)
    IN  <<LoadConst(<<mask>>, Largest(c.left)), Sub(<<c.target>>, <<mask, c.left>>, 0)>>

\* One cascade, as wide as the widest shift, serves the whole program.
LowerBitwise(modules) ==
    LET sites  == {c \in UNION {Range(f.code) : f \in Range(modules)} : c.op \in {"shl", "shr"}}
        base   == Len(modules) + 1
        width  == Max({c.bitwidth : c \in sites})
        amount == Max({c.right.regs[1].width : c \in sites})
        depth  == BitLen(width - 1)
        levels == ShiftLevels(base, Min({amount, depth}), width)
        guard  == IF amount <= depth THEN <<>>
                  ELSE <<ShiftGuard(amount, width, depth, base + depth - 1,
                                    IF depth = 0 THEN <<>> ELSE levels[depth])>>
        cascade == IF sites = {} THEN <<>> ELSE levels \o guard
        Entry(c) == Min({c.right.regs[1].width, depth + 1})
    IN  MapFunctions(modules, LAMBDA c, k :
            CASE c.op = "not" -> LowerNot(c, k)
              [] c.op \in {"shl", "shr"} ->
                    LowerShift(c, k, width, base + Entry(c) - 1, cascade[Entry(c)])
              [] OTHER -> <<c>>) \o cascade
-----------------------------------------------------------------------------
\* A bit for each pair of limbs that differ.
FactorLimbEquality(c, k) ==
    LET ls == c.left
        bits == [i \in DOMAIN ls |-> Allocate("fle", <<k, i>>, 1)]
        Bit(i) == <<SkipIf("eq", <<ls[i]>>, Of(<<c.right.regs[i]>>), 2),
                    LoadConst(<<bits[i]>>, 1), Skip(1), LoadConst(<<bits[i]>>, 0)>>
    IN  FlattenSeq([i \in DOMAIN ls |-> Bit(i)])
            \o <<SkipIf(c.cond, bits, [regs |-> <<>>, values |-> [i \in DOMAIN ls |-> 0]], c.skip)>>

FactorLimbEqualities(modules) ==
    MapFunctions(modules, LAMBDA c, k :
        IF /\ c.op = "skip_if"
           /\ c.cond \in {"eq", "neq"}
           /\ ~IsConstant(c.right)
           /\ Len(c.left) > 1
           /\ Len(c.left) = Len(c.right.regs)
        THEN FactorLimbEquality(c, k) ELSE <<c>>)
-----------------------------------------------------------------------------
(* Bitwise operations.  Tables and functions return all three results.     *)

BitOps == <<"and", "or", "xor">>

OrXorAndOutputs(width) == [i \in 1..3 |-> Register(BitOps[i], width)]

\* A row for each pair of operands.
BitwiseTable(width) ==
    LET a(i) == ((i - 1) \div 3) \div 2^width
        b(i) == ((i - 1) \div 3) % 2^width
    IN  Memory(<<width, width>>, <<width, width, width>>,
               [i \in 1..(3 * 2^(2 * width)) |->
                   CASE i % 3 = 1 -> a(i) & b(i)
                     [] i % 3 = 2 -> a(i) | b(i)
                     [] i % 3 = 0 -> a(i) ^^ b(i)])

\* Two operands have as many rows as a static table may have.
IsTableWidth(width, target) == 2 <= width /\ width <= target.static \div 2

\* Single bits are computed without a sum that overflows one.
UnitBitwise(op, target, l, r, at) ==
    LET bit(i) == Allocate("loxa", Append(at, i), 1)
    IN  CASE op = "and" -> <<Mul(<<target>>, <<l, r>>, 1)>>
          [] op = "or"  -> <<LoadConst(<<bit(1)>>, 1), Sub(<<bit(2)>>, <<bit(1), l>>, 0),
                             Mul(<<bit(3)>>, <<bit(2), r>>, 1), Add(<<target>>, <<l, bit(3)>>, 0)>>
          [] op = "xor" -> <<LoadConst(<<bit(1)>>, 1), Sub(<<bit(2)>>, <<bit(1), r>>, 0),
                             Sub(<<bit(3)>>, <<bit(1), l>>, 0),
                             Mul(<<bit(4)>>, <<l, bit(2)>>, 1), Mul(<<bit(5)>>, <<bit(3), r>>, 1),
                             Add(<<target>>, <<bit(4), bit(5)>>, 0)>>

Operands(width) == <<Register("arg1", width), Register("arg2", width)>>

\* Each operand in turn is combined with what comes from those before.
UnitFunction ==
    LET agg(i, j) == [Register("agg", 1) EXCEPT !.at = <<i, j>>]
        Fold(i) ==
            <<LoadConst(<<agg(i, 0)>>, IF BitOps[i] = "and" THEN 1 ELSE 0)>>
                \o UnitBitwise(BitOps[i], agg(i, 1), agg(i, 0), Operands(1)[1], <<i, 1>>)
                \o UnitBitwise(BitOps[i], agg(i, 2), agg(i, 1), Operands(1)[2], <<i, 2>>)
                \o <<Add(<<OrXorAndOutputs(1)[i]>>, <<agg(i, 2)>>, 0)>>
    IN  Function(Operands(1), OrXorAndOutputs(1), Fold(1) \o Fold(2) \o Fold(3) \o <<Ret>>)

\* A table is read, a function is called; id numbers the functions.
InvokeNary(width, args, rets, id, target) ==
    IF IsTableWidth(width, target) THEN Read(args, rets, BitwiseTable(width))
    ELSE Call(id[width], args, rets, <<width, width>>, <<width, width, width>>)

HalvingFunction(width, id, target) ==
    LET half == <<width \div 2, width - (width \div 2)>>
        Half(name, i, h) == [Register(name, half[h]) EXCEPT !.at = <<i, h>>]
        args(h) == <<Half("arg", 1, h), Half("arg", 2, h)>>
        res(h)  == [i \in 1..3 |-> Half("res", i, h)]
    IN  Function(Operands(width), OrXorAndOutputs(width),
            [i \in 1..2 |-> Add(<<Half("arg", i, 1), Half("arg", i, 2)>>, <<Operands(width)[i]>>, 0)]
                \o [h \in 1..2 |-> InvokeNary(half[h], args(h), res(h), id, target)]
                \o [i \in 1..3 |-> AssignV(<<OrXorAndOutputs(width)[i]>>,
                                           <<Half("res", i, 1), Half("res", i, 2)>>)]
                \o <<Ret>>)

\* The widths of the functions that an operation comes down to.
FunctionWidths(width, target) ==
    LET Down[w \in 1..width] ==
            IF IsTableWidth(w, target) THEN {}
            ELSE IF w = 1 THEN {1}
            ELSE {w} \cup Down[w \div 2] \cup Down[w - (w \div 2)]
    IN  Down[width]

\* Operations of about the same width share a function, if that has no register
\* wider than those of the target.
AlignedWidth(l, r, target) ==
    LET width   == Max({l.width, r.width})
        rounded == Min({2^i : i \in {j \in 0..width : 2^j >= width}})
    IN  IF rounded > target.reg THEN width ELSE rounded

\* Constants for which there is nothing to look up.
IsTrivial(c) ==
    LET mask == 2^c.bitwidth - 1
    IN  IsConstant(c.right) /\ c.right.values[1] \in {0, mask}

LowerTrivial(c, k) ==
    LET v    == c.right.values[1]
        mask == 2^c.bitwidth - 1
        max  == Allocate("loxa", <<k>>, c.bitwidth)
        unit == v = (IF c.op = "and" THEN mask ELSE 0)
    IN  CASE unit -> <<Add(<<c.target>>, <<c.left>>, 0)>>
          [] ~unit /\ c.op = "and" -> <<LoadConst(<<c.target>>, 0)>>
          [] ~unit /\ c.op = "or"  -> <<LoadConst(<<c.target>>, mask)>>
          [] ~unit /\ c.op = "xor" -> <<LoadConst(<<max>>, mask), Sub(<<c.target>>, <<max, c.left>>, 0)>>

RightOperand(c, k) ==
    IF IsConstant(c.right) THEN Allocate("loxa", <<k>>, c.bitwidth) ELSE c.right.regs[1]

LowerAndOrXor(c, k, id, target) ==
    LET right == RightOperand(c, k)
        width == AlignedWidth(c.left, right, target)
        rets  == [i \in 1..3 |-> IF BitOps[i] = c.op THEN c.target ELSE Discard]
        pre   == IF IsConstant(c.right) THEN <<LoadConst(<<right>>, c.right.values[1])>> ELSE <<>>
    IN  CASE IsTrivial(c) -> LowerTrivial(c, k)
          [] ~IsTrivial(c) /\ width = 1 ->
                pre \o UnitBitwise(c.op, c.target, c.left, right, <<k>>)
          [] ~IsTrivial(c) /\ width > 1 ->
                pre \o <<InvokeNary(width, <<c.left, right>>, rets, id, target)>>

\* The functions come after those that the program has, the narrower first.
LowerOrXorAnd(modules, target) ==
    LET sites  == {c \in UNION {Range(f.code) : f \in Range(modules)} :
                      c.op \in Range(BitOps) /\ ~IsTrivial(c)}
        Width(c) == AlignedWidth(c.left, RightOperand(c, 0), target)
        widths == UNION {FunctionWidths(Width(c), target) : c \in {d \in sites : Width(d) > 1}}
        id     == [w \in widths |-> Len(modules) + Cardinality({v \in widths : v <= w})]
        Made(w) == IF w = 1 THEN UnitFunction ELSE HalvingFunction(w, id, target)
        ordered == SetToSortSeq(widths, <)
    IN  MapFunctions(modules, LAMBDA c, k :
            IF c.op \in Range(BitOps) THEN LowerAndOrXor(c, k, id, target) ELSE <<c>>)
            \o [i \in DOMAIN ordered |-> Made(ordered[i])]
=============================================================================
