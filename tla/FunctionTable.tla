--------------------------- MODULE FunctionTable ---------------------------
(***************************************************************************)
(* A function on its way into the proof (zkc/vm/transform.go, zkc/         *)
(* constraints, zkc/constraints/trace/process_function.go).  Once the      *)
(* passes of the pipeline are through, its vectors are translated to       *)
(* constraints.  The machine then runs the function, call after call, and  *)
(* each vector it runs becomes a row of the function's table.              *)
(*                                                                         *)
(* Memories are no part of this model: StampMax is empty.                  *)
(***************************************************************************)
EXTENDS Pipeline, FunctionConstraints

CONSTANT MaxCalls  \* Bound: the calls that are traced.

VARIABLES
    trs,     \* The translations of the function's vectors.
    calls,   \* The number of calls so far.
    at,      \* The vector to run next, None between calls.
    regs,    \* The registers of the machine.
    above,   \* The row above the last one.
    row      \* The last row of the table.

tableVars == <<trs, calls, at, regs, above, row>>

TableInit ==
    /\ PipelineInit
    /\ trs = <<>>
    /\ calls = 0
    /\ at = None
    /\ regs = <<>>
    /\ above = PaddingRow(NoFunction)
    /\ row = PaddingRow(NoFunction)

Prepare ==
    /\ PipelineNext
    /\ UNCHANGED tableVars

Translate ==
    /\ stage = "allocated"
    /\ trs' = [v \in DOMAIN fn.vectors |-> TranslateVector(fn, v)]
    /\ stage' = IF TranslationPanics(fn, trs') THEN "panicked" ELSE "translated"
    /\ above' = PaddingRow(fn)
    /\ row' = PaddingRow(fn)
    /\ UNCHANGED <<vars, fn, kind, calls, at, regs>>

Call ==
    /\ stage = "translated" /\ at = None /\ calls < MaxCalls
    /\ \E q \in Requests : regs' = Frame(q)
    /\ at' = 1
    /\ calls' = calls + 1
    /\ UNCHANGED <<pipelineVars, trs, above, row>>

Ran == Execute(fn.vectors[at], regs, fn.max)
EndOf(x) == fn.vectors[at][x.end]

\* The row of a vector holds the registers it leaves.
Run ==
    /\ at # None
    /\ ~Ran.failed
    /\ regs' = Ran.env
    /\ above' = row
    /\ row' = Row(fn, Ran.env, IF EndOf(Ran).op = "ret" THEN 1 ELSE 0, at)
    /\ at' = IF EndOf(Ran).op = "ret" THEN None ELSE EndOf(Ran).target
    /\ UNCHANGED <<pipelineVars, trs, calls>>

TableNext == Prepare \/ Translate \/ Call \/ Run

TableSpec == TableInit /\ [][TableNext]_<<pipelineVars, tableVars>>
-----------------------------------------------------------------------------
(* Reference definitions.                                                  *)

\* Contents of a row for the vector the machine is at.  The inputs of a first
\* row are the call's.
Candidates ==
    LET free == IF at > 1 THEN Registers(fn) ELSE Registers(fn) \ Inputs(fn)
    IN  {[r \in Registers(fn) |-> IF r \in free THEN g[r] ELSE regs[r]] :
            g \in FramesOf(fn, free)}

\* A row says what the machine did: its registers (in a first row, those the
\* vector has written), where it went and whether it returned.
Agrees(x, cur, ret, next) ==
    LET codes   == fn.vectors[at]
        written == UNION {Definitions(codes[i]) : i \in x.seen}
    IN  /\ ~x.failed
        /\ \A r \in Registers(fn) :
               (at > 1 \/ r \in written) => cur[r] = x.env[r]
        /\ IF EndOf(x).op = "ret" THEN ret = 1 /\ next = 1
           ELSE ret = 0 /\ next = EndOf(x).target

\* A bytecode that some path reaches without a failure has lost its condition.
LostCondition(codes) ==
    \E i \in DOMAIN codes :
        PathsTo(codes, i) # {} /\ IsFalse(BranchTable(codes)[i].condition)
-----------------------------------------------------------------------------
(* Properties.                                                             *)

\* Under the row above it, the constraints accept as the row of a vector what
\* the machine does and nothing else: they fix every register, the next vector
\* and the return line, and accept no row where the machine fails.
RowsAreExecutions ==
    at # None =>
        LET ran == Ran
            Accepted(cur, ret, next) ==
                RowAccepted(fn, trs, row, Row(fn, cur, ret, at), Row(fn, cur, 0, next))
        IN  \A cur \in Candidates :
                IF IsOneLine(fn) THEN Accepted(cur, 1, 1) <=> Agrees(ran, cur, 1, 1)
                ELSE \A ret \in {0, 1}, next \in 0..Len(fn.vectors) :
                        Accepted(cur, ret, next) <=> Agrees(ran, cur, ret, next)

\* The translation panics only where a bytecode's condition is FALSE though some
\* path reaches it, where a vector but the first can fail, or where the only
\* vector jumps to itself.
PanicsExplained ==
    stage = "panicked" =>
        \/ \E codes \in Range(fn.vectors) : LostCondition(codes)
        \/ \E v \in DOMAIN fn.vectors \ {1} : Fail \in Range(fn.vectors[v])
        \/ IsOneLine(fn) /\ Jump(1) \in Range(fn.vectors[1])

\* The branch table identifies the conditions under which a bytecode will
\* execute: where a vector executes it without failing, its condition holds
\* (the comment of BranchTable, vector.go).
ConditionsIdentifyExecution ==
    stage = "allocated" =>
        \A codes \in Range(fn.vectors), env \in FramesOf(fn, Registers(fn)) :
            LET x == Execute(codes, env, fn.max)
                values == [v \in Registers(fn) \cup {r + MaxRegs : r \in Registers(fn)} |->
                              IF Forwarded(v) THEN x.env[RegisterOf(v)] ELSE env[v]]
                table == BranchTable(codes)
            IN  ~x.failed => \A i \in x.seen : Holds(table[i].condition, values)
=============================================================================
