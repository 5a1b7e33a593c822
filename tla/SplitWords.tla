----------------------------- MODULE SplitWords -----------------------------
(***************************************************************************)
(* A program on its way to the interpreter (zkc/vm/transform.go).  If it   *)
(* is traced its operators are lowered before and after its registers are  *)
(* split, and its range checks are reduced and added; otherwise it is only *)
(* split.  Then it is given its check casts and run on a frame: the same   *)
(* as it is before all of this, on words without end, and the same as what *)
(* the constraints of its rows admit.                                      *)
(*                                                                         *)
(* A program is a record: modules, a sequence of functions, of which the   *)
(* first is run; target; tracing; and proved, whether its rows are         *)
(* examined.                                                               *)
(***************************************************************************)
EXTENDS RangeChecks

CONSTANTS SplitPrograms, Arguments(_)

VARIABLES prog, code, stage, args, frame

vars == <<prog, code, stage, args, frame>>

\* A word, and a register, that hold every value.
Unlimited == 30

\* A frame starts as zero but for the arguments.
EnterFrame(values, R) ==
    LET inputs == prog.modules[1].inputs
    IN  FoldLeft(LAMBDA s, i : StoreAcross(s, Limbs(inputs[i], R), values[i]).stack,
                 <<>>, [i \in DOMAIN inputs |-> i])

Init ==
    /\ prog \in SplitPrograms
    /\ code = prog.modules
    /\ stage = "source"
    /\ args = <<>>
    /\ frame = Frame(<<>>)

Transform(from, modules, to) ==
    /\ stage = from
    /\ code' = modules
    /\ stage' = to
    /\ UNCHANGED <<prog, args, frame>>

LowerCode ==
    /\ prog.tracing
    /\ Transform("source", LowerComparisons(LowerDivisions(LowerBitwise(code))), "lowered")

\* The allocator panics when a register would be wider than the target's.
SplitCode ==
    /\ stage = IF prog.tracing THEN "lowered" ELSE "source"
    /\ code' = SplitFunctions(code, prog.target)
    /\ stage' = IF \E f \in Range(code') : \E r \in RegistersOf(f) : r.width > prog.target.reg
                THEN "panicked" ELSE "split"
    /\ UNCHANGED <<prog, args, frame>>

FactorCode ==
    /\ prog.tracing
    /\ Transform("split", LowerOrXorAnd(FactorLimbEqualities(code), prog.target), "factored")

\* The order of the widths is that of the registers.
CheckRanges ==
    LET reduced == ReduceRangeChecks(code)
    IN  \E seeds \in SetToSeqs(CheckedWidths(reduced, prog.target.static)) :
            Transform("factored", AddRangeChecks(reduced, seeds, prog.target.static), "checked")

CompileCode ==
    Transform(IF prog.tracing THEN "checked" ELSE "split", InsertCheckCasts(code), "compiled")

Enter ==
    /\ stage = "compiled"
    /\ args' \in Arguments(prog)
    /\ frame' = Frame(EnterFrame(args', prog.target.reg))
    /\ stage' = "entered"
    /\ UNCHANGED <<prog, code>>

RunCode ==
    /\ stage = "entered"
    /\ frame' = Run(code, 1, 1, frame.stack, prog.target.word)
    /\ stage' = "done"
    /\ UNCHANGED <<prog, code, args>>

Next == LowerCode \/ SplitCode \/ FactorCode \/ CheckRanges \/ CompileCode \/ Enter \/ RunCode

Spec == Init /\ [][Next]_vars
-----------------------------------------------------------------------------
Reference ==
    Run(InsertCheckCasts(prog.modules), 1, 1, EnterFrame(args, Unlimited), Unlimited)

\* The frame holds, over limbs, what the reference holds.
SameValues(reference) ==
    \A r \in RegistersOf(prog.modules[1]) :
        LoadAcross(frame.stack, Limbs(r, prog.target.reg), Unlimited) = Get(reference.stack, r)

\* A program that is lowered and split fails for the same arguments as the one
\* that is written, takes the same branches, and leaves the same values in its
\* registers: carries, borrows and partial products lose nothing, no word
\* overflows on the way, and every shift and bitwise operation is the same once
\* it is a cascade of calls or a look-up of halves.
SplitKeepsMeaning ==
    stage = "done" =>
        LET reference == Reference
        IN  /\ frame.state = reference.state
            /\ frame.state # "failed" => SameValues(reference)

\* The largest result that a bytecode can have.
ResultWidth(c) ==
    CASE c.op = "add" -> Max({CalculateAddBitwidth(c.sources, c.constant), BitwidthOf(c.targets)})
      [] c.op = "sub" -> Max({CalculateSubBitwidth(c.sources, c.constant), BitwidthOf(c.targets)})
      [] c.op = "mul" -> Max({CalculateMulBitwidth(c.sources, c.constant), BitwidthOf(c.targets)})
      [] c.op = "cat" -> Max({BitwidthOf(c.sources), BitwidthOf(c.targets)})
      [] OTHER -> 0

\* No function needs a register wider than those of the target, and no result of
\* what splitting and lowering emit can exceed the bandwidth: neither a sum nor
\* a product overflows a word (or the field), so it does not matter that the
\* interpreter takes an overflowing product whose low word is zero for zero.
FitsBandwidth ==
    /\ stage # "panicked"
    /\ stage \in {"split", "factored", "checked"} =>
          \A f \in Range(code) :
              /\ \A r \in RegistersOf(f) : r.width <= prog.target.reg
              /\ \A c \in Range(f.code) : ResultWidth(c) <= prog.target.band

\* The validator, which sees a program once its pipeline has ended, finds nothing
\* wrong: on every path registers are assigned once, and before they are read (a
\* borrow is written by a later chunk, which must therefore come earlier), and
\* although most registers are no longer range checked no value can reach an
\* operation that it is too wide for.
CodeIsValidated ==
    stage = (IF prog.tracing THEN "checked" ELSE "split") =>
        \A f \in Range(code) : IsValid(f, code)

\* When a function did not fail, each register holds a value of its width,
\* although many forms of bytecodes store a word as it is: the check casts after
\* them suffice, and the limbs of a value can be told apart.
ValuesFitRegisters ==
    stage = "done" /\ frame.state # "failed" =>
        \A r \in DOMAIN frame.stack : FitsWithin(frame.stack[r], r.width)

\* The values that the rows of a range function admit.
Admitted(id) ==
    {v \in 0..(prog.target.prime - 1) :
        Accepted(code, id, 1, code[id].inputs[1] :> v, prog.target) # {}}

\* The rows of the program that start with its arguments.
Rows ==
    {[r \in DOMAIN s \ {Zero} |-> s[r]] :
        s \in Accepted(code, 1, 1, EnterFrame(args, prog.target.reg), prog.target)}

\* Whatever a prover fills the columns with, the constraints admit just what the
\* interpreter computed, and nothing if it failed: no other quotient can be
\* hinted at, no sum or difference has a solution modulo the prime besides its
\* own, and a register may go without range check because what it is assigned is
\* bounded.  A range function admits the values of its width.
RowsAreDetermined ==
    /\ stage = "checked" =>
          \A id \in DOMAIN code :
              /\ \A c \in Range(code[id].code) : IsSubtractWithBorrow(c) => HasSignedBit(c)
              /\ code[id].unsafe => Admitted(id) = 0..(2^code[id].inputs[1].width - 1)
    /\ stage = "done" /\ prog.proved =>
          Rows = IF frame.state = "failed" THEN {}
                 ELSE {[r \in DOMAIN frame.stack \ {Zero} |-> frame.stack[r]]}
-----------------------------------------------------------------------------
\* The comment at the checks of a division: they assert that r + w < y, so
\* r < y.
RemainderBelowDivisor ==
    stage = "done" =>
        \A i \in {j \in DOMAIN prog.modules[1].code : prog.modules[1].code[j].op = "divmod"} :
            LET d == prog.modules[1].code[i]
                Value(s, r) == LoadAcross(s, Limbs(r, prog.target.reg), Unlimited)
                y(s) == IF IsConstant(d.divisor) THEN d.divisor.values[1]
                        ELSE Value(s, d.divisor.regs[1])
            IN  \A s \in Rows : Value(s, d.remainder) < y(s)
=============================================================================
