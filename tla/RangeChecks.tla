----------------------------- MODULE RangeChecks -----------------------------
(***************************************************************************)
(* Which registers of a traced program are range checked, and how.  Those  *)
(* that are only assigned what they can hold are not                       *)
(* (transform/reduce_range_checks.go).  A static table lists the values of *)
(* a narrow register; a wider one is given to a function that cuts it in   *)
(* two (add_range_checks.go).  Then the validator (validate/bitwidths.go,  *)
(* bitwidth_analysis.go, accesses.go, vector.go), which follows how wide   *)
(* the values in registers may be, and the rows that the constraints admit *)
(* (zkc/constraints: insn_translator.go, vector_translator.go,             *)
(* range_lookup.go, call_and_memory_lookup.go).                            *)
(***************************************************************************)
EXTENDS Operators

\* Registers that an assignment of so many bits leaves to be checked.
AssignmentChecks(ts, width) ==
    IF Len(ts) = 1 /\ width <= ts[1].width THEN {} ELSE Range(ts)

ReturnChecks(rs, widths) ==
    UNION {AssignmentChecks(<<rs[i]>>, widths[i]) : i \in {j \in DOMAIN rs : rs[j] # Discard}}

\* Any difference may underflow; whatever is hinted at may be anything.
ReviseChecks(c) ==
    CASE c.op = "add"  -> AssignmentChecks(c.targets, CalculateAddBitwidth(c.sources, c.constant))
      [] c.op = "mul"  -> AssignmentChecks(c.targets, CalculateMulBitwidth(c.sources, c.constant))
      [] c.op = "sub"  -> Range(c.targets)
      [] c.op = "cat"  -> AssignmentChecks(c.targets, BitwidthOf(c.sources))
      [] c.op = "call" -> ReturnChecks(c.rets, c.outs)
      [] c.op = "read" -> ReturnChecks(c.rets, c.memory.outputs)
      [] OTHER         -> Definitions(c)

ReduceRangeChecks(modules) ==
    [i \in DOMAIN modules |->
        LET f    == modules[i]
            kept == Range(f.inputs) \cup {r \in RegistersOf(f) : r.width = 0}
                        \cup UNION {ReviseChecks(c) : c \in Range(f.code)}
        IN  [f EXCEPT !.unchecked = RegistersOf(f) \ kept]]
-----------------------------------------------------------------------------
(* Every width needs a range module but those that a polynomial checks.    *)

Checked(f) == RegistersOf(f) \ f.unchecked

CheckedWidths(modules, static) ==
    LET memories == {c.memory : c \in {d \in UNION {Range(f.code) : f \in Range(modules)} :
                                          d.op = "read"}}
        lines == UNION {Range(m.inputs) \cup Range(m.outputs) : m \in memories}
    IN  ({r.width : r \in UNION {Checked(f) : f \in Range(modules)}}
            \cup {w \in lines : w <= static}) \ {0, 1, 2}

\* Two widths that are needed anyway, or else a power of two and the rest.
LowHalf(n, visited) ==
    LET pairs == {lo \in 1..(n \div 2) : {lo, n - lo} \subseteq visited}
    IN  IF pairs # {} THEN Min(pairs) ELSE n - Max({p \in {2^i : i \in 0..n} : p < n})

\* The widths on the stack are cut in two, and so are those that this adds; a
\* width that a static table covers has no lower half.
DecomposeAll(seeds, static) ==
    LET Push(p, n) == IF n \in p.visited THEN p
                      ELSE [p EXCEPT !.stack = Append(@, n), !.visited = @ \cup {n}]
        Halves(p, n, lo) == Push(Push([p EXCEPT !.splits = (n :> lo) @@ @], lo), n - lo)
        most == Max({0} \cup Range(seeds))
        Step[i \in 0..most] ==
            IF i = 0 THEN [stack |-> seeds, visited |-> {0, 1, 2} \cup Range(seeds),
                           splits |-> <<>>]
            ELSE LET p == Step[i - 1]
                     n == Last(p.stack)
                     popped == [p EXCEPT !.stack = Front(@)]
                 IN  IF p.stack = <<>> THEN p
                     ELSE IF n <= static THEN [popped EXCEPT !.splits = (n :> 0) @@ @]
                     ELSE Halves(popped, n, LowHalf(n, p.visited))
    IN  Step[most].splits

RangeCheck(r, id, static) ==
    IF r.width <= static THEN <<>> ELSE <<Call(id[r.width], <<r>>, <<>>, <<r.width>>, <<>>)>>

\* Its arguments may be too wide: that is what it is for.
RangeFunction(width, lowHalf, id, static) ==
    LET value == Register("value", width)
        lo == Register("lo", lowHalf)
        hi == Register("hi", width - lowHalf)
    IN  [Function(<<value>>, <<>>,
                  <<Add(<<lo, hi>>, <<value>>, 0)>> \o RangeCheck(lo, id, static)
                      \o RangeCheck(hi, id, static) \o <<Ret>>)
            EXCEPT !.unsafe = TRUE]

\* The checks of a function come before each of its returns.
AddRangeCalls(f, id, static) ==
    LET checks == FoldSet(LAMBDA r, calls : calls \o RangeCheck(r, id, static), <<>>, Checked(f))
    IN  MapVector([k \in DOMAIN f.code |->
            IF f.code[k].op = "ret" THEN Append(checks, f.code[k]) ELSE <<f.code[k]>>])

\* Functions for the wide widths come after the others, the narrower first.
AddRangeChecks(modules, seeds, static) ==
    LET splits == DecomposeAll(seeds, static)
        wide   == {w \in DOMAIN splits : w > static}
        id     == [w \in wide |-> Len(modules) + Cardinality({v \in wide : v <= w})]
        ordered == SetToSortSeq(wide, <)
    IN  [i \in DOMAIN modules |->
            [modules[i] EXCEPT !.code = AddRangeCalls(modules[i], id, static)]]
            \o [i \in DOMAIN ordered |->
                   RangeFunction(ordered[i], splits[ordered[i]], id, static)]
-----------------------------------------------------------------------------
(* The validator.  At each bytecode it knows the registers that have been  *)
(* assigned on every path, how wide their values may be, and which ones    *)
(* have been assigned on some path.                                        *)

Unbounded == 99

EntryWidths(f) ==
    [r \in Range(f.inputs) \cup {z \in RegistersOf(f) : z.width = 0} |->
        IF r \in f.unchecked THEN Unbounded ELSE r.width]

AssignWidth(f, widths, r, width) ==
    CASE r = Discard -> widths
      [] r # Discard /\ r \in f.unchecked    -> (r :> width) @@ widths
      [] r # Discard /\ r \notin f.unchecked -> (r :> Min({width, r.width})) @@ widths

AssignEach(f, widths, rs, ws) ==
    FoldLeft(LAMBDA m, i : AssignWidth(f, m, rs[i], ws[i]), widths, [i \in DOMAIN rs |-> i])

\* Only registers that are checked may be destructured into.
AssignAll(f, widths, ts, width) ==
    AssignEach(f, widths, ts, [i \in DOMAIN ts |-> IF Len(ts) = 1 THEN width ELSE Unbounded])

IsUnit(c) == c.op \in {"add", "sub", "mul"} /\ Len(c.sources) = 1 /\ c.constant = Unused(c.op)

ArithWidth(c) ==
    CASE c.op = "add" -> CalculateAddBitwidth(c.sources, c.constant)
      [] c.op = "mul" -> CalculateMulBitwidth(c.sources, c.constant)
      [] c.op = "sub" -> Unbounded

Transfer(f, widths, c) ==
    CASE c.op \in {"add", "sub", "mul"} ->
            AssignAll(f, widths, c.targets,
                      IF IsUnit(c) /\ c.sources[1] \in DOMAIN widths THEN widths[c.sources[1]]
                      ELSE ArithWidth(c))
      [] c.op = "cat"  -> AssignAll(f, widths, c.targets, BitwidthOf(c.sources))
      [] c.op = "call" -> AssignEach(f, widths, c.rets, c.outs)
      [] c.op = "read" -> AssignEach(f, widths, c.rets, c.memory.outputs)
      [] c.op \in BitwiseOps -> AssignWidth(f, widths, c.target, c.bitwidth)
      [] c.op = "divmod" -> AssignEach(f, widths, <<c.quotient, c.remainder>>,
                                       <<c.dividend.width, c.dividend.width>>)
      [] c.op = "div_hint" ->
            FoldLeft(LAMBDA m, ts : AssignAll(f, m, ts, Unbounded), widths, c.targets)
      [] c.op \in {"wide_divmod", "wide_shl", "wide_shr"} ->
            FoldLeft(LAMBDA m, ts : AssignEach(f, m, ts, Widths(ts)), widths, c.targets)
      [] c.op = "check_cast" /\ c.target \in DOMAIN widths ->
            AssignWidth(f, widths, c.target, Min({widths[c.target], c.bitwidth}))
      [] OTHER -> widths

Successors(c, pc) ==
    CASE c.op \in {"ret", "fail"} -> {}
      [] c.op = "skip"    -> {pc + 1 + c.skip}
      [] c.op = "skip_if" -> {pc + 1, pc + 1 + c.skip}
      [] OTHER            -> {pc + 1}

JoinFlows(a, b) ==
    [widths |-> [r \in DOMAIN a.widths \cap DOMAIN b.widths |-> Max({a.widths[r], b.widths[r]})],
     maybe  |-> a.maybe \cup b.maybe]

\* Skips only lead forward.
Flows(f) ==
    LET Flow(flows, pc) ==
            LET c   == f.code[pc]
                out == [widths |-> Transfer(f, flows[pc].widths, c),
                        maybe  |-> flows[pc].maybe \cup Definitions(c)]
                Into(n) == IF n \in DOMAIN flows THEN JoinFlows(flows[n], out) ELSE out
            IN  IF pc \in DOMAIN flows THEN [n \in Successors(c, pc) |-> Into(n)] @@ flows
                ELSE flows
    IN  FoldLeft(Flow, 1 :> [widths |-> EntryWidths(f), maybe |-> {}],
                 [pc \in DOMAIN f.code |-> pc])

ReadsOf(rs, ws) ==
    {[reg |-> rs[i], most |-> Min({rs[i].width, ws[i]})] : i \in DOMAIN rs}

\* Registers that a bytecode reads, and how wide their values may be.
AccessesOf(f, c, modules) ==
    CASE c.op = "check_cast" -> {[reg |-> c.target, most |-> Unbounded]}
      [] c.op = "call" -> IF modules[c.callee].unsafe THEN {} ELSE ReadsOf(c.args, c.ins)
      [] c.op = "read" -> ReadsOf(c.args, c.memory.inputs)
      [] c.op = "ret"  -> ReadsOf(f.outputs, Widths(f.outputs))
      [] OTHER         -> {[reg |-> r, most |-> r.width] : r \in Uses(c)}

\* Every bytecode is reached, with what it reads assigned and within bounds, and
\* what it assigns not assigned before.
IsValid(f, modules) ==
    LET flows == Flows(f)
    IN  \A pc \in DOMAIN f.code :
            /\ pc \in DOMAIN flows
            /\ \A a \in AccessesOf(f, f.code[pc], modules) :
                  a.reg \in DOMAIN flows[pc].widths /\ flows[pc].widths[a.reg] <= a.most
            /\ \A r \in Definitions(f.code[pc]) : r.width > 0 => r \notin flows[pc].maybe
-----------------------------------------------------------------------------
(* What the constraints of a traced function admit.  A function of one     *)
(* line has a row for each of its calls, with a field element in the       *)
(* column of each register.  An arithmetic bytecode on the path that a row *)
(* takes is an equation modulo the prime of the field; a call looks up a   *)
(* row of the callee and a read a row of the table; a division hint is no  *)
(* constraint, and neither is a check cast.  A column is bounded only if   *)
(* its register is range checked.                                          *)

\* There is a table for narrow registers, or else a call.
IsBounded(f, r, modules, target) ==
    /\ r \notin f.unchecked
    /\ \/ r.width <= target.static
       \/ \E c \in Range(f.code) :
              c.op = "call" /\ c.args = <<r>> /\ modules[c.callee].unsafe

ColumnOf(f, r, modules, target) ==
    0..((IF IsBounded(f, r, modules, target) THEN 2^r.width ELSE target.prime) - 1)

IsSubtractWithBorrow(c) ==
    /\ c.op = "sub"
    /\ BitwidthOf(c.targets) >= CalculateSubBitwidth(c.sources, c.constant)

\* Without a bit for the sign there is no equation for such a difference.
HasSignedBit(c) == Last(c.targets).width = 1

\* Faulty SignedWeight: the sign bit counts as any other.
UnsignedWeight(c, i) == 2^Offset(c.targets, i - 1)

\* The sign bit of a difference is moved to the other side of its equation.
SignedWeight(c, i) ==
    IF IsSubtractWithBorrow(c) /\ i = Len(c.targets)
    THEN -(2^Offset(c.targets, i - 1)) ELSE 2^Offset(c.targets, i - 1)

RightHandSide(stack, c) ==
    LET Weighted(v, i) == v + 2^Offset(c.sources, i - 1) * Get(stack, c.sources[i])
    IN  CASE c.op = "add" -> FoldLeft(LAMBDA v, r : v + Get(stack, r), c.constant, c.sources)
          [] c.op = "mul" -> FoldLeft(LAMBDA v, r : v * Get(stack, r), c.constant, c.sources)
          [] c.op = "sub" -> Get(stack, c.sources[1])
                  - FoldLeft(LAMBDA v, r : v + Get(stack, r), c.constant, Tail(c.sources))
          [] c.op = "cat" -> FoldLeft(Weighted, 0, [i \in DOMAIN c.sources |-> i])

\* All ways to give each register of a sequence a value of its column.
FillColumns(stacks, rs, Values(_)) ==
    FoldLeft(LAMBDA ss, r : {Put(s, r, v) : s \in ss, v \in Values(r)}, stacks, rs)

\* The inverse of a power of two.
InversePower(n, prime) ==
    FoldLeft(LAMBDA v, i : (v * ((prime + 1) \div 2)) % prime, 1, [i \in 1..n |-> i])

\* The columns of the targets with which the equation holds.
Solutions(f, stack, c, modules, target) ==
    LET p    == target.prime
        ts   == c.targets
        last == Last(ts)
        Values(r) == ColumnOf(f, r, modules, target)
        right == RightHandSide(stack, c)
        Rest(s) == FoldLeft(LAMBDA v, i : v - SignedWeight(c, i) * Get(s, ts[i]), right,
                            [i \in DOMAIN Front(ts) |-> i])
        sign == IF SignedWeight(c, Len(ts)) < 0 THEN -1 ELSE 1
        Solved(s) == ((sign * (Rest(s) % p)) * InversePower(BitwidthOf(Front(ts)), p)) % p
    IN  {Put(s, last, Solved(s)) :
            s \in {t \in FillColumns({stack}, Front(ts), Values) : Solved(t) \in Values(last)}}

\* What is looked up must be in the columns that it is kept in.
Bindings(f, stack, rs, rows, modules, target) ==
    {Bind(stack, rs, row).stack : row \in
        {v \in rows : \A i \in DOMAIN rs :
            rs[i] # Discard => v[i] \in ColumnOf(f, rs[i], modules, target)}}

TableRows(stack, c) ==
    LET m    == c.memory
        base == DecodeAddress(stack, c.args, m)
        row  == [i \in DOMAIN c.rets |-> m.contents[base + i]]
    IN  IF /\ \A i \in DOMAIN c.args : FitsWithin(Get(stack, c.args[i]), m.inputs[i])
           /\ base < Len(m.contents)
        THEN {row} ELSE {}

\* The rows that continue the one that has been filled so far.
RECURSIVE Accepted(_, _, _, _, _)
Accepted(modules, id, pc, stack, target) ==
    LET f == modules[id]
        c == f.code[pc]
        Onward(stacks) == UNION {Accepted(modules, id, pc + 1, s, target) : s \in stacks}
    IN  CASE c.op = "ret"  -> {stack}
          [] c.op = "fail" -> {}
          [] c.op = "skip" -> Accepted(modules, id, pc + 1 + c.skip, stack, target)
          [] c.op = "skip_if" ->
                Accepted(modules, id,
                         pc + 1 + (IF SkipTaken(stack, c, target.word) THEN c.skip ELSE 0),
                         stack, target)
          [] c.op = "check_cast" -> Onward({stack})
          [] c.op \in {"add", "sub", "mul", "cat"} ->
                Onward(Solutions(f, stack, c, modules, target))
          [] c.op = "div_hint" ->
                Onward(FillColumns({stack}, FlattenSeq(c.targets),
                               LAMBDA r : ColumnOf(f, r, modules, target)))
          [] c.op = "read" ->
                Onward(Bindings(f, stack, c.rets, TableRows(stack, c), modules, target))
          [] c.op = "call" ->
                LET callee == modules[c.callee]
                    args   == ValuesOf(stack, c.args)
                    fits   == \A i \in DOMAIN args :
                                  args[i] \in ColumnOf(callee, callee.inputs[i], modules, target)
                    inner  == IF fits THEN Accepted(modules, c.callee, 1,
                                                    Bind(<<>>, callee.inputs, args).stack, target)
                              ELSE {}
                IN  Onward(Bindings(f, stack, c.rets,
                                    {ValuesOf(s, callee.outputs) : s \in inner}, modules, target))
=============================================================================
