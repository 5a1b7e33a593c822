----------------------------- MODULE Interpreter -----------------------------
(***************************************************************************)
(* The arithmetic bytecodes of one function and what the interpreter makes *)
(* of them (zkc/vm/internal/interpreter/interpreter.go) on machine words   *)
(* of w bits: forms that store a word as it is next to forms that slice    *)
(* it, overflows that fail and others that wrap, and the checks that       *)
(* InsertCheckCasts (casts.go) puts after the operations.                  *)
(*                                                                         *)
(* A register is a record: what it was named after, its position among the *)
(* registers named after the same, and its width.  A register vector is a  *)
(* sequence, the least significant register first, except in intrinsics,   *)
(* skips and accesses, where the most significant comes first.             *)
(***************************************************************************)
EXTENDS Integers, SequencesExt, Bitwise

Register(name, width) == [name |-> name, at |-> <<>>, width |-> width]

\* The register without width, which holds zero.
Zero == Register("$cst_0", 0)

\* A return value that is not kept.
Discard == Register("_", 0)

\* A register that a pass allocates; one without width is the zero register.
Allocate(prefix, at, width) ==
    IF width = 0 THEN Zero ELSE [name |-> prefix, at |-> at, width |-> width]

\* How many bits the first n registers hold.
Offset(rs, n) ==
    LET Upto[i \in 0..n] == IF i = 0 THEN 0 ELSE Upto[i - 1] + rs[i].width
    IN  Upto[n]
BitwidthOf(rs) == Offset(rs, Len(rs))

BitLen(v) == Cardinality({i \in 0..30 : 2^i <= v})

\* The value of the low bits of a word.
Slice(v, width) == IF width > 30 THEN v ELSE v % 2^width
Shr(v, n) == IF n > 30 THEN 0 ELSE v \div 2^n
\* The word that remains of a word shifted up by n bits.
Shl(v, n, w) == IF n >= w THEN 0 ELSE Slice(v, w - n) * 2^n
\* What is shifted out of it.
ShlHi(v, n, w) == IF n >= w THEN Shl(v, n - w, w) ELSE Shr(v, w - n)
FitsWithin(v, width) == Shr(v, width) = 0

Largest(r) == 2^r.width - 1
\* The bits that a sum, a difference and a product may need.
CalculateAddBitwidth(rs, k) == BitLen(FoldLeft(LAMBDA m, r : m + Largest(r), k, rs))
CalculateSubBitwidth(rs, k) ==
    LET rest == FoldLeft(LAMBDA m, r : m + Largest(r), k, Tail(rs))
    IN  1 + Max({BitLen(Largest(rs[1])), IF rest = 0 THEN 1 ELSE BitLen(rest - 1)})
CalculateMulBitwidth(rs, k) == BitLen(FoldLeft(LAMBDA m, r : m * Largest(r), k, rs))
-----------------------------------------------------------------------------
(* Bytecodes.  An operand without registers is a constant.                 *)

Of(rs) == [regs |-> rs, values |-> <<>>]
OfConst(k) == [regs |-> <<>>, values |-> <<k>>]
IsConstant(o) == o.regs = <<>>

Arith(op, ts, ss, k) == [op |-> op, targets |-> ts, sources |-> ss, constant |-> k]
Add(ts, ss, k) == Arith("add", ts, ss, k)
Sub(ts, ss, k) == Arith("sub", ts, ss, k)
Mul(ts, ss, k) == IF ss = <<>> THEN Add(ts, ss, k) ELSE Arith("mul", ts, ss, k)
LoadConst(ts, k) == Add(ts, <<>>, k)
Cat(ts, ss) == [op |-> "cat", targets |-> ts, sources |-> ss]
AssignV(ts, ss) == IF Len(ts) = 1 /\ Len(ss) = 1 THEN Add(ts, ss, 0) ELSE Cat(ts, ss)
BitOp(op, t, l, r, width) ==
    [op |-> op, target |-> t, left |-> l, right |-> r, bitwidth |-> width]
DivMod(q, r, x, y) ==
    [op |-> "divmod", quotient |-> q, remainder |-> r, dividend |-> x, divisor |-> y]
Intrinsic(op, ts, ss) == [op |-> op, targets |-> ts, sources |-> ss]
CheckCast(r, width) == [op |-> "check_cast", target |-> r, bitwidth |-> width]
SkipIf(cond, l, r, n) ==
    [op |-> "skip_if", cond |-> cond, left |-> l, right |-> r, skip |-> n]
Skip(n) == [op |-> "skip", skip |-> n]
Ret  == [op |-> "ret"]
Fail == [op |-> "fail"]
\* A call of the module with that number; ins and outs are the widths of its
\* parameters and of its results.
Call(callee, args, rets, ins, outs) ==
    [op |-> "call", callee |-> callee, args |-> args, rets |-> rets, ins |-> ins, outs |-> outs]
\* A read of a static memory: the widths of its address and data lines.
Read(addr, data, memory) ==
    [op |-> "read", args |-> addr, rets |-> data, memory |-> memory]
Memory(inputs, outputs, contents) ==
    [inputs |-> inputs, outputs |-> outputs, contents |-> contents]

BitwiseOps == {"and", "or", "xor", "not", "shl", "shr"}
Intrinsics == {"div_hint", "wide_divmod", "wide_shl", "wide_shr"}

OperandUses(os) == UNION {Range(o.regs) : o \in Range(os)}

Uses(c) ==
    CASE c.op \in {"add", "sub", "mul", "cat"} -> Range(c.sources)
      [] c.op \in BitwiseOps   -> {c.left} \cup Range(c.right.regs)
      [] c.op = "divmod"       -> {c.dividend} \cup Range(c.divisor.regs)
      [] c.op \in Intrinsics   -> OperandUses(c.sources)
      [] c.op = "check_cast"   -> {c.target}
      [] c.op = "skip_if"      -> Range(c.left) \cup Range(c.right.regs)
      [] c.op \in {"call", "read"} -> Range(c.args)
      [] OTHER                 -> {}

Definitions(c) ==
    CASE c.op \in {"add", "sub", "mul", "cat"} -> Range(c.targets)
      [] c.op \in BitwiseOps   -> {c.target}
      [] c.op = "divmod"       -> {c.quotient, c.remainder}
      [] c.op \in Intrinsics   -> UNION {Range(t) : t \in Range(c.targets)}
      [] c.op \in {"call", "read"} -> Range(c.rets) \ {Discard}
      [] OTHER                 -> {}
-----------------------------------------------------------------------------
(* A program is a sequence of functions, the first of them the main one.   *)
(* Every register is range checked but for the unchecked ones; the calls   *)
(* of a function that is unsafe check no arguments.                        *)

Function(inputs, outputs, code) ==
    [inputs |-> inputs, outputs |-> outputs, code |-> code, unchecked |-> {}, unsafe |-> FALSE]

RegistersOf(f) ==
    (Range(f.inputs) \cup Range(f.outputs)
        \cup UNION {Uses(c) \cup Definitions(c) : c \in Range(f.code)}) \ {Discard}

\* Each bytecode is replaced by a packet of them.  Skips within a packet stay
\* as they are; those that leave it are made to lead where they led.
MapVector(packets) ==
    LET start == FoldLeft(LAMBDA s, packet : Append(s, Last(s) + Len(packet)), <<0>>, packets)
        Placed(k, i) ==
            LET c == packets[k][i]
            IN  IF c.op \in {"skip", "skip_if"} /\ c.skip > Len(packets[k]) - i
                THEN [c EXCEPT !.skip = start[k + c.skip + 1] - start[k] - i]
                ELSE c
    IN  FlattenSeq([k \in DOMAIN packets |-> [i \in DOMAIN packets[k] |-> Placed(k, i)]])

\* Every function with its k-th bytecode c replaced by the packet Packet(c, k).
MapFunctions(modules, Packet(_, _)) ==
    [i \in DOMAIN modules |->
        [modules[i] EXCEPT !.code = MapVector([k \in DOMAIN @ |-> Packet(@[k], k)])]]
-----------------------------------------------------------------------------
(* Frames: the values of the registers that are not zero, and whether the  *)
(* machine goes on or has failed.                                          *)

Frame(stack) == [stack |-> stack, state |-> "run"]
Failed(stack) == [stack |-> stack, state |-> "failed"]
StopIf(p, stack) == IF p THEN Failed(stack) ELSE Frame(stack)

Get(stack, r) == IF r \in DOMAIN stack THEN stack[r] ELSE 0
Put(stack, r, v) == (r :> v) @@ stack

LoadAcross(stack, rs, w) ==
    FoldLeft(LAMBDA v, i : v | Shl(Get(stack, rs[i]), Offset(rs, i - 1), w),
             0, [i \in DOMAIN rs |-> i])

\* The low bits first; what is left over must be zero.
StoreAcross(stack, rs, v) ==
    LET Limb(i) == Slice(Shr(v, Offset(rs, i - 1)), rs[i].width)
    IN  StopIf(Shr(v, BitwidthOf(rs)) # 0,
               FoldLeft(LAMBDA s, i : Put(s, rs[i], Limb(i)),
                        stack, [i \in DOMAIN rs |-> i]))

\* The last register takes all that is left over, however wide.
StoreUnchecked(stack, rs, v) ==
    Put(StoreAcross(stack, Front(rs), v).stack, Last(rs),
        Shr(v, BitwidthOf(Front(rs))))

Unused(op) == IF op = "mul" THEN 1 ELSE 0

\* Faulty Scalar: a difference wraps at the width of the target.
ScalarWrapped(stack, op, rd, x, y, width, w) ==
    LET v == IF op = "add" THEN x + y ELSE IF op = "mul" THEN x * y
             ELSE IF x >= y THEN x - y ELSE Slice((x - y) % 2^w, rd.width)
    IN  IF op # "sub" /\ v >= 2^w THEN Failed(stack)
        ELSE Frame(Put(stack, rd, v))

\* The forms with one target store the word as it is; a difference that
\* underflows keeps the bits of its operands and the sign.
Scalar(stack, op, rd, x, y, width, w) ==
    LET v == CASE op = "add" -> x + y
               [] op = "mul" -> x * y
               [] op = "sub" -> IF x >= y THEN x - y
                                ELSE Slice((x - y) % 2^w, Max({rd.width, width}))
    IN  IF op # "sub" /\ v >= 2^w THEN Failed(stack)
        ELSE Frame(Put(stack, rd, v))

ScalarConst(stack, op, rd, rs, k, w) ==
    Scalar(stack, op, rd, Get(stack, rs), k, 1 + Max({rs.width, BitLen(k - 1)}), w)

AddAcross(stack, c, w) ==
    LET sum == FoldLeft(LAMBDA v, r : v + Get(stack, r), c.constant, c.sources)
    IN  IF sum >= 2^w THEN Failed(stack) ELSE StoreAcross(stack, c.targets, sum)

\* A product whose low word is zero is taken to be zero, whatever overflowed.
MulAcross(stack, c, w) ==
    LET Times(p, r) == LET v == p.low * Get(stack, r)
                       IN  [low |-> v % 2^w, over |-> p.over \/ v >= 2^w]
        p == FoldLeft(Times, [low |-> c.constant, over |-> FALSE], c.sources)
    IN  IF p.over /\ p.low # 0 THEN Failed(stack)
        ELSE StoreAcross(stack, c.targets, p.low)

SubAcross(stack, c, w) ==
    LET first == Get(stack, c.sources[1])
        rest  == FoldLeft(LAMBDA v, r : v + Get(stack, r), c.constant, Tail(c.sources))
        width == Max({BitwidthOf(c.targets), CalculateSubBitwidth(c.sources, c.constant)})
        v     == IF first >= rest THEN first - rest ELSE Slice((first - rest) % 2^w, width)
    IN  IF rest >= 2^w THEN Failed(stack) ELSE StoreAcross(stack, c.targets, v)

\* Which form an arithmetic bytecode is encoded in decides what it does.
ExecuteArith(stack, c, w) ==
    LET n  == Len(c.sources)
        rd == c.targets[1]
        unused == c.constant = Unused(c.op)
        Source(i) == Get(stack, c.sources[i])
        pair == Scalar(stack, c.op, rd, Source(1), Source(2),
                       1 + Max({c.sources[1].width, c.sources[2].width}), w)
    IN  CASE Len(c.targets) = 1 /\ n = 0 -> Frame(Put(stack, rd, c.constant))
          [] Len(c.targets) = 1 /\ n = 1 /\ unused -> Frame(Put(stack, rd, Source(1)))
          [] Len(c.targets) = 1 /\ n = 1 /\ ~unused ->
                ScalarConst(stack, c.op, rd, c.sources[1], c.constant, w)
          [] Len(c.targets) = 1 /\ n = 2 /\ unused -> pair
          [] Len(c.targets) = 1 /\ n = 2 /\ ~unused /\ c.op # "sub" ->
                IF pair.state = "failed" THEN pair
                ELSE ScalarConst(pair.stack, c.op, rd, rd, c.constant, w)
          [] OTHER ->
                CASE c.op = "add" -> AddAcross(stack, c, w)
                  [] c.op = "sub" -> SubAcross(stack, c, w)
                  [] c.op = "mul" -> MulAcross(stack, c, w)

ExecuteCat(stack, c, w) ==
    LET v == LoadAcross(stack, c.sources, w)
    IN  IF Len(c.sources) = 1 \/ Len(c.targets) = 1
        THEN Frame(StoreUnchecked(stack, c.targets, v))
        ELSE StoreAcross(stack, c.targets, v)

ExecuteBitwise(stack, c, w) ==
    LET x == Get(stack, c.left)
        y == IF IsConstant(c.right) THEN c.right.values[1] ELSE Get(stack, c.right.regs[1])
    IN  Frame(Put(stack, c.target,
              CASE c.op = "and" -> x & y
                [] c.op = "or"  -> x | y
                [] c.op = "xor" -> x ^^ y
                [] c.op = "not" -> 2^c.bitwidth - 1 - Slice(x, c.bitwidth)
                [] c.op = "shl" -> Slice(Shl(x, y, w), c.bitwidth)
                [] c.op = "shr" -> Shr(x, y)))

ExecuteDivMod(stack, c) ==
    LET x == Get(stack, c.dividend)
        y == IF IsConstant(c.divisor) THEN c.divisor.values[1]
             ELSE Get(stack, c.divisor.regs[1])
    IN  IF y = 0 THEN Failed(stack)
        ELSE Frame(Put(Put(stack, c.quotient, x \div y), c.remainder, x % y))

ExecuteCheckCast(stack, c) == StopIf(~FitsWithin(Get(stack, c.target), c.bitwidth), stack)
-----------------------------------------------------------------------------
(* The bytecodes whose operands are vectors of registers, the most         *)
(* significant one first: intrinsics, which divide and shift values wider  *)
(* than a word, skips, and the accesses to other modules.  Then the checks *)
(* that the interpreter's compiler inserts (casts.go), and a run of a      *)
(* function from its first bytecode to its last.                           *)

LoadOperand(stack, o) ==
    IF IsConstant(o) THEN o.values[1] ELSE LoadAcross(stack, Reverse(o.regs), 30)

\* The vectors are stored one after the other, until a value does not fit.
StoreResults(stack, ts, values) ==
    FoldLeft(LAMBDA f, i : IF f.state = "failed" THEN f
                           ELSE StoreAcross(f.stack, Reverse(ts[i]), values[i]),
             Frame(stack), [i \in DOMAIN ts |-> i])

\* The quotient, the remainder and how far it is below the divisor.
ExecuteDivHint(stack, c) ==
    LET x == LoadOperand(stack, c.sources[1])
        y == LoadOperand(stack, c.sources[2])
    IN  IF y = 0 THEN Failed(stack)
        ELSE StoreResults(stack, c.targets, <<x \div y, x % y, y - (x % y) - 1>>)

ExecuteWideDivMod(stack, c) ==
    LET x == LoadOperand(stack, c.sources[1])
        y == LoadOperand(stack, c.sources[2])
    IN  IF y = 0 THEN Failed(stack)
        ELSE StoreResults(stack, c.targets, <<x \div y, x % y>>)
-----------------------------------------------------------------------------
(* Wide shifts work on sequences of words, the least significant first.    *)

PackOperand(stack, o, w) ==
    LET rs == Reverse(o.regs)
        Place(p, r) ==
            LET cur == p.cur | Shl(Get(stack, r), p.off, w)
                off == p.off + r.width
            IN  IF off < w THEN [p EXCEPT !.cur = cur, !.off = off]
                ELSE [words |-> Append(p.words, cur),
                      cur   |-> ShlHi(Get(stack, r), p.off, w),
                      off   |-> off - w]
        packed == FoldLeft(Place, [words |-> <<>>, cur |-> 0, off |-> 0], rs)
    IN  IF IsConstant(o) THEN o.values
        ELSE IF packed.off > 0 \/ packed.words = <<>>
             THEN Append(packed.words, packed.cur)
             ELSE packed.words

UnpackResult(stack, rs, words, w) ==
    LET ls == Reverse(rs)
        Limb(i) ==
            LET off == Offset(ls, i - 1)
                k   == off \div w + 1
                bit == off % w
                top == IF bit + ls[i].width > w /\ k + 1 <= Len(words)
                       THEN Shl(words[k + 1], w - bit, w) ELSE 0
            IN  IF k > Len(words) THEN 0
                ELSE Slice((Shr(words[k], bit)) | top, ls[i].width)
    IN  FoldLeft(LAMBDA s, i : Put(s, ls[i], Limb(i)), stack, [i \in DOMAIN ls |-> i])

\* An amount beyond the width of the target clears it.
ShiftAmount(words, most) ==
    IF (\E i \in DOMAIN words : i > 1 /\ words[i] # 0) \/ words[1] >= most
    THEN most ELSE words[1]

ShlWords(words, n, w) ==
    LET bits == n % w
        Carry(i) == IF i = 1 THEN 0 ELSE ShlHi(words[i - 1], bits, w)
    IN  [i \in 1..(n \div w) |-> 0]
            \o [i \in DOMAIN words |-> Shl(words[i], bits, w) | Carry(i)]
            \o <<Carry(Len(words) + 1)>>

ShrWords(words, n, w) ==
    LET bits == n % w
        kept == SubSeq(words, n \div w + 1, Len(words))
        Top(i) == IF bits > 0 /\ i < Len(kept) THEN Shl(kept[i + 1], w - bits, w) ELSE 0
    IN  IF kept = <<>> THEN <<0>>
        ELSE [i \in DOMAIN kept |-> Shr(kept[i], bits) | Top(i)]

ExecuteWideShift(stack, c, w) ==
    LET words == PackOperand(stack, c.sources[1], w)
        n     == ShiftAmount(PackOperand(stack, c.sources[2], w),
                             BitwidthOf(c.targets[1]))
    IN  Frame(UnpackResult(stack, c.targets[1],
                           IF c.op = "wide_shl" THEN ShlWords(words, n, w)
                           ELSE ShrWords(words, n, w), w))
-----------------------------------------------------------------------------
(* Skips.  There are four comparisons: the encoder swaps the operands of   *)
(* the others, or adds one to the constant, where words carry over.        *)

ValuesOf(stack, rs) == [i \in DOMAIN rs |-> Get(stack, rs[i])]

Compare(cond, x, y) ==
    CASE cond = "eq"   -> x = y
      [] cond = "neq"  -> x # y
      [] cond = "lt"   -> x < y
      [] cond = "gteq" -> x >= y

\* The first difference decides, or else the last pair.
CompareVectors(cond, xs, ys) ==
    LET differ == {i \in DOMAIN xs : xs[i] # ys[i]} \cup {Len(xs)}
    IN  Compare(cond, xs[Min(differ)], ys[Min(differ)])

Extended(ks, n) == [i \in 1..(n - Len(ks)) |-> 0] \o ks

\* One more, or zero if every word wraps.
Increment(ks, w) ==
    LET full == {i \in DOMAIN ks : ks[i] = 2^w - 1}
        last == Max({0} \cup (DOMAIN ks \ full))
    IN  [i \in DOMAIN ks |-> IF i < last THEN ks[i] ELSE IF i = last THEN ks[i] + 1 ELSE 0]

SkipTaken(stack, c, w) ==
    LET xs    == ValuesOf(stack, c.left)
        ks    == Extended(c.right.values, Len(xs))
        wraps == \A i \in DOMAIN ks : ks[i] = 2^w - 1
    IN  IF IsConstant(c.right)
        THEN CASE c.cond = "gt" ->
                    CompareVectors(IF wraps THEN "lt" ELSE "gteq", xs, Increment(ks, w))
               [] c.cond = "lteq" ->
                    CompareVectors(IF wraps THEN "gteq" ELSE "lt", xs, Increment(ks, w))
               [] OTHER -> CompareVectors(c.cond, xs, ks)
        ELSE CASE c.cond = "gt"   -> CompareVectors("lt", ValuesOf(stack, c.right.regs), xs)
               [] c.cond = "lteq" -> CompareVectors("gteq", ValuesOf(stack, c.right.regs), xs)
               [] OTHER           -> CompareVectors(c.cond, xs, ValuesOf(stack, c.right.regs))
-----------------------------------------------------------------------------
(* Accesses: values are passed by position.                                *)

Bind(stack, rs, values) ==
    Frame(FoldLeft(LAMBDA s, i : IF rs[i] = Discard THEN s ELSE Put(s, rs[i], values[i]),
                   stack, [i \in DOMAIN rs |-> i]))

\* The lines of the address are packed by the widths the memory declares.
DecodeAddress(stack, rs, m) ==
    Len(m.outputs) * FoldLeft(LAMBDA v, i : (v * 2^m.inputs[i]) | Get(stack, rs[i]),
                              0, [i \in DOMAIN rs |-> i])

ExecuteRead(stack, c) ==
    LET base == DecodeAddress(stack, c.args, c.memory)
    IN  Bind(stack, c.rets, [i \in DOMAIN c.rets |-> c.memory.contents[base + i]])
-----------------------------------------------------------------------------
(* The check casts of an operation come right after it.                    *)

\* The last target is checked if the result may be too wide for them all.
CheckLast(width, ts) ==
    IF BitwidthOf(ts) < width THEN <<CheckCast(Last(ts), Last(ts).width)>> ELSE <<>>

CheckReturns(rs, widths) ==
    FlattenSeq([i \in DOMAIN rs |->
        IF rs[i] # Discard THEN CheckLast(widths[i], <<rs[i]>>) ELSE <<>>])

\* Faulty CatCasts: a concatenation is taken to fit.
NoCatCasts(c) == <<>>

CatCasts(c) == CheckLast(BitwidthOf(c.sources), c.targets)

Casts(c) ==
    CASE c.op = "add" -> CheckLast(CalculateAddBitwidth(c.sources, c.constant), c.targets)
      [] c.op = "mul" -> CheckLast(CalculateMulBitwidth(c.sources, c.constant), c.targets)
      [] c.op = "sub" -> <<CheckCast(Last(c.targets), Last(c.targets).width)>>
      [] c.op = "cat" -> CatCasts(c)
      [] c.op \in BitwiseOps -> CheckLast(c.bitwidth, <<c.target>>)
      [] c.op = "divmod" -> CheckLast(c.dividend.width, <<c.quotient>>)
                                \o CheckLast(c.dividend.width, <<c.remainder>>)
      [] c.op = "call" -> CheckReturns(c.rets, c.outs)
      [] c.op = "read" -> CheckReturns(c.rets, c.memory.outputs)
      [] OTHER -> <<>>

InsertCheckCasts(modules) == MapFunctions(modules, LAMBDA c, k : <<c>> \o Casts(c))
-----------------------------------------------------------------------------
Execute(stack, c, w) ==
    CASE c.op \in {"add", "sub", "mul"} -> ExecuteArith(stack, c, w)
      [] c.op = "cat"          -> ExecuteCat(stack, c, w)
      [] c.op \in BitwiseOps   -> ExecuteBitwise(stack, c, w)
      [] c.op = "divmod"       -> ExecuteDivMod(stack, c)
      [] c.op = "div_hint"     -> ExecuteDivHint(stack, c)
      [] c.op = "wide_divmod"  -> ExecuteWideDivMod(stack, c)
      [] c.op \in {"wide_shl", "wide_shr"} -> ExecuteWideShift(stack, c, w)
      [] c.op = "check_cast"   -> ExecuteCheckCast(stack, c)
      [] c.op = "read"         -> ExecuteRead(stack, c)

\* The frame when the function that is numbered id, run from its bytecode at
\* pc, returns or fails.  A callee is entered with a frame of its own that is
\* zero but for the arguments.
RECURSIVE Run(_, _, _, _, _)
Run(modules, id, pc, stack, w) ==
    LET c == modules[id].code[pc]
        Onward(s) == Run(modules, id, pc + 1, s, w)
    IN  CASE c.op = "ret"  -> Frame(stack)
          [] c.op = "fail" -> Failed(stack)
          [] c.op = "skip" -> Run(modules, id, pc + 1 + c.skip, stack, w)
          [] c.op = "skip_if" ->
                IF SkipTaken(stack, c, w) THEN Run(modules, id, pc + 1 + c.skip, stack, w)
                ELSE Onward(stack)
          [] c.op = "call" ->
                LET callee == modules[c.callee]
                    inner  == Run(modules, c.callee, 1,
                                  Bind(<<>>, callee.inputs, ValuesOf(stack, c.args)).stack, w)
                IN  IF inner.state = "failed" THEN Failed(stack)
                    ELSE Onward(Bind(stack, c.rets, ValuesOf(inner.stack, callee.outputs)).stack)
          [] OTHER -> LET f == Execute(stack, c, w)
                      IN  IF f.state = "failed" THEN f ELSE Onward(f.stack)
=============================================================================
