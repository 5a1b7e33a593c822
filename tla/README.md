# A TLA+ model of zkc

zkc compiles programs of a small language to bytecode, runs them on a virtual
machine, and turns an execution into trace tables with polynomial constraints
on them. What is proved of a program is what the tables say. This project
models the chain that this promise hangs on: the passes that take a function
from statements to the bytecode of the prover, what each of them must keep, the
machine that runs the result with its memories, logs and checkpoints, the tables
and constraints made of a run, and the concurrent checking of a trace.

Paths below are relative to `src/pkg/`; `interp/` abbreviates
`zkc/vm/internal/interpreter/` and `transform/` `zkc/vm/internal/transform/`.

## The system

| Component | State | Operations | Who uses it | What makes it correct |
|---|---|---|---|---|
| Lowering and code generation, `zkc/compiler/lower`, `codegen` | labels and the flat code so far | flatten, compile a statement | every command | the vectors mean what the statements mean |
| Bytecode vectors, `zkc/vm/internal/bytecode/vector.go`, `zkc/util/dfa` | none | write map, branch table, validation | transformations, constraints | the condition of a code is when it is executed; a legal vector reads and writes without conflict |
| Propositions, `util/logical` | none | conjoin, disjoin, negate, simplify | branch tables | simplification keeps the meaning |
| Transformations, `transform/` | worklists, register maps | vectorise, thread timestamps, factor, lower, allocate, split, ... | both machines | the function computes, fails and accesses memory as before; its vectors stay legal |
| Register splitting, `transform/split` | limb maps | split every bytecode into limbs | both machines | sums, borrows, concatenations and hints on words without end |
| Read-write memories, `interp/ram.go`, `paged_ram.go` | cells with a value and the stamp of their last access; a clock; an access log | read, write, tick, initialise, checkpoint, restore | interpreter (`RD_RAM`, `WR_RAM`), trace tables | the log links every access to the one before it at that address; a restored memory goes on where the saved one was |
| Output memories, `interp/wom.go` | an array that grows | write, initialise, checkpoint, restore | interpreter, outputs of the program | what was written stays; a write fails only if it disagrees |
| Input and static memories, `interp/rom.go`, `srom.go` | immutable | read | interpreter | |
| Checkpoints, `interp/memory.go`, `vm/internal/checkpoint` | rows as bytes, a stamp per row | pack, unpack | fast machine writes, tracing machine reads | exact between machines whose cells differ in width |
| Interpreter, `interp/interpreter.go`, `cache.go`, `casts.go` | program counter, frame pointer, return pointer and width, call stack, data stack, memo of calls | boot, reset, checkpoint, restore, execute | machine | frames tile the stack; a memoised call is the call; words of fixed width stand for numbers |
| Code generation for it, `interp/compiler.go`, `interp/encoding` | addresses and breakpoints | compile | interpreter | breakpoints at every row of the trace |
| Machine and trace builder, `zkc/vm/machine.go`, `trace_builder.go`, `util/counter.go` | checkpoints, one machine per shard, entry counters | boot and checkpoint, trace a shard, trace whole | commands, the checker | the shards, one after the other, are the execution |
| Trace tables, `zkc/constraints/trace` | tables | build a table per memory and function | checker, prover | every table of an honest execution satisfies its constraints |
| Constraints, `zkc/constraints` | none | translate vectors and memories to constraints | checker, prover | no other table satisfies them |
| Lazy traces, `trace/trace.go` | futures of shards | apply | checker | every shard produced is handled once |
| Checker, `schema/constraint/checker` | results per shard, tallies of the buses | process, reduce, finalise | commands | the verdict does not depend on the schedule |
| Parallel collections, `util/collection/array/map.go` | channel, wait group, results | map, reduce | lazy traces, checker, trace filling | each item once; the caller returns, and after all of them |
| Parser, linker, type checker, IR, field arithmetic, corset, commands | none beyond a call | parse, check, lower, print | | functional |

The components meet in four ways. A function passes through the transformations
one after the other; each of them may rely on what the one before established,
and nothing else carries over. The interpreter calls its memories, each of which
writes its log on its own. The fast machine hands its state to the tracing
machines through checkpoints only; each of those runs in a future of its own and
shares nothing with the others but the final outputs. The checker forces the
futures on a pool of goroutines, which write into one slice that a second pool
reduces.

The hard behaviours follow from that: offsets, skips and register numbers that
are kept while the code they refer to moves; conditions that are simplified by
more than one rule in an order nobody fixed; clocks that are threaded through
registers along every path; carries and borrows at limb boundaries that operands
do not share; state that is restored into a machine with another geometry; a
replay that must stop exactly where the next one starts; failures that pass
through breakpoint handlers written for something else; logs whose structure is
recovered from equal stamps; and goroutines that hand out work, store results
and wait for each other. `PROJECT.json` lists them as hazards, each at its line,
with the properties that would catch it.

## The modules

Definitions keep the names of the code where they can; `PROJECT.json` maps
each to its lines. A definition that begins its comment with "Faulty" is a
plausible mistake in the definition it names. No specification uses these: they
exist to show that a property can be broken.

### From statements to constraints

    Propositions --> Vectors --> Flatten --> Vectorize --+
                        |                                +--> Pipeline --+
                        +--> TracingPasses --> Timestamps+               +--> FunctionTable
                                   |                                     |
                                   +--------> FunctionConstraints -------+

(An arrow is EXTENDS.)

**Propositions**: conditions in disjunctive normal form, with the rules that
simplify them, in the order the code applies them (`util/logical`). A
proposition is a sequence of sequences because the order is what makes the
rules meet or miss each other.

**Vectors**: bytecode vectors and what is computed of them: the write map, the
branch table, whether the control flow is sound and whether reads and writes
conflict (`vector.go`, `zkc/util/dfa`).

**Flatten**: statements to flat code with labels to vectors.

**Vectorize**: the first pass as a state machine. A step takes a vector from the
worklist, absorbs the target of its rightmost jump, replaces a jump by a skip to
what was absorbed already, refuses a merge that conflicts, or prunes and
renumbers at the end.

**TracingPasses**: pruning, the factoring of conditional skips, the lowering of
switches to dispatches, and register allocation with its liveness and
interference.

**Timestamps**: the threading of timestamps: `AnalyseStamps` (which memories a
function reaches), the time of each access along each path, the moves in front
of branches, joins, jumps, calls and returns, the extra entry row.

**Pipeline**: composes Vectorize with the passes behind it, a step per pass. Its
invariants execute the function as it is after the pass: registers, clocks, the
leftovers of an earlier frame and how it ends.

**FunctionConstraints**: guards, forwarding, constancy, one-hot rewriting and
framing: what the translator makes of a vector, evaluated on two rows.

**FunctionTable**: composes Pipeline, the translation, the machine that runs
the function and the rows traced from it.

### Words and limbs

**Interpreter** is the arithmetic of the interpreter on words of a given number
of bits, form by form: which forms store a word as it is, which slice it, which
fail and which wrap, the bytecodes over vectors of registers, and the checks
`casts.go` inserts. **SplitRegisters** is `transform/split`: limbs, chunks and
sums, products and their column sums, each bytecode's own splitting; and two of
the passes that come before it when a program is traced (`lower_division.go`,
`lower_comparison.go`).
**Operators** has the others: complements and shifts before registers are split,
limb equalities and bitwise operations after. They add functions to the program,
a cascade that shifts by one more bit on each level, and functions that halve the
operands of a bitwise operation until a static table covers them.
**RangeChecks** reduces and adds range checks, follows the validator
(`zkc/vm/internal/validate`) through a function, and enumerates the rows that the
constraints of a traced function of one line admit, each arithmetic bytecode
being an equation modulo the prime of the field. **SplitWords** is the
specification: it chooses a program and a target, takes it through the passes of
`transform.go`, compiles it, and runs it on chosen arguments; its reference is
the program on integers without end.

    Interpreter --> SplitRegisters --> Operators --> RangeChecks --> SplitWords

### Memories

**TimedCells**: the cells of a read-write memory and pure operators on them:
restamping the lanes of a row, logging them, packing a run of cells with one
stamp per row and unpacking it. Everything below that touches a read-write
memory is built from it.

**RandomAccess**: one unpaged memory with a recording log. `ReadRow` and
`WriteRow` are the instructions: the clock ticks once, then the row is restamped
and logged lane by lane (the machine runs one instruction at a time, so the
lanes are one step). `Checkpoint`, `Restore` and `Initialise` come in any order
between them. `start` is a history variable: what the recording started from.

**MemoryContract**: the contract is a memory of
whole rows, each with one stamp, and a list of accesses, without lanes, arrays
that grow or packed checkpoints. The refinement at the end of RandomAccess maps
the array, the log (grouped by lanes) and the checkpoint (unpacked) to it.

**RamTable**: composes the memory with `traceReadWriteMemory`, which groups the
log into rows of a table, and with the constraints `translate_ram.go` states
on that table, timestamps being split into limbs with carries.

**PagedRandomAccess**: the same memory in pages allocated by the first write.
It keeps the variables of RandomAccess and replaces its accesses and its
restore. It is the memory of a machine that records, whose rows nothing aligns
with its pages: the assertion of `Checkpoint` (`paged_ram.go:199`) is one that
only the fast machine runs. `PagedRestore` starts it from a checkpoint that
another machine took; taking checkpoints is part of MemoryHandover.

**MemoryHandover**: two memories, the fast machine's and the tracing machine's,
over the same rows of bytes. Each cuts a row where its registers end
(`FastEnds`, `TraceEnds`), every register with a byte width of its own, as
`Pack` and `Unpack` do round-robin. `Handover` checkpoints one machine and
restores the other; from then on both perform the accesses of the program, as a
shard replays what the fast machine ran. The memory is paged or not, chosen at
the start; how many rows a page of the tracing machine has, whole or not, is
left open. That both machines cut one row of bytes is the code's: limbs are
listed from the most significant down (`transform/split/limbs_map.go:77-93`),
all but the top one are as wide as a register of the machine
(`vm/internal/descriptor/util.go:210`), and cells are big endian, so that the
bytes of a register's limbs, one after the other, are those of the register
whenever the register width is a whole number of bytes. The one field where it
is not, GF_251 with registers of four bits, serves tests and is excluded.

**WriteOnce**: an output memory and the instruction that writes a row of it,
which may fail between two lanes.

### Machines and checking

**Machine**: the interpreter's control, as a record and pure operators, so that
one specification can run several machines. `Enter`, `Leave`, `Return` and
`TailCall` do the bookkeeping of `executeEnter_*`, `executeLeave_*`,
`executeReturn` and `executeTailCall_*`; `Cached` and `Remembered` are the memo
of calls; `Execute` is one iteration of the interpreter's loop, with a
breakpoint handler as a parameter, which the machine also calls on a failure.

**Sharding**: composes machines as `trace_builder.go` does: an unsharded tracing
machine for comparison (`TraceWhole`), the fast machine that takes checkpoints
(`RunFast`), the futures (`TraceCheckPoints`), and the machine of each shard
(`StartShard`, `TraceShard`) with a counter of its own.

**WorkerPool**, **MapContract**: `ParallelMap`, a goroutine per action: starting
and counting workers, the buffered channel, closing it, taking an index, calling
the mapper, storing the result, leaving, waiting. The contract maps items in any
order and returns when all are mapped.

**LazyCheck**: extends the pool: the mapper forces the future of a shard and
calls the checker's handler; the results are reduced in chunks, and the bus is
finalised.

`RandomAccess_proofs`, `MemoryHandover_proofs`, `WriteOnce_proofs`,
`RamTable_proofs`, `Sharding_proofs`, `Replay_proofs` and `LazyCheck_proofs`
hold the theorems; `NaturalRecursion` has the lemmas on recursive functions that
four of them use. `RandomAccess_proofs` and `MCRandomAccess` are also about the
paged memory, `LazyCheck_proofs` about the pool. The MC modules give the
constants their values and, for the passes, list the families of programs.

### Abstractions

* *Values.* Cells hold members of a small set. In the passes registers hold
  0..1 or 0..2; in Interpreter they hold whatever their width holds.
* *Instructions.* In `Vectors` an assignment of a constant or of a register plus
  a constant stands for the codes that compute a register, and `Sub` for those
  that read several: analyses and passes look at what is read and written.
  Accesses and calls keep their timestamps only: that they read or return values
  has no part in threading. In `Machine`, `ADD` stands for the families of
  arithmetic codes, which share a control: compute, store the wrapped
  result, fail if it does not fit. What each family computes is the subject of
  Interpreter. `DEBUG` changes no state.
* *Fields.* In FunctionTable constraints are evaluated over the integers: the
  ranges of its registers are so small that no sum would wrap in a real field.
  In RangeChecks they are equations modulo a prime, and wrapping is the point.
* *Static tables* have no module of their own: a range check against one bounds
  a column, a look-up reads its contents. The registers of a traced program
  are not shared (`AllocateRegisters`) before it runs; Pipeline does that.
* *Timestamps of the machine.* `Machine` runs one `Code` for the fast and the
  tracing machine, with the memory's own clock as stamps. That the
  threaded stamps are that clock is `AccessesOnTime`, in Pipeline.
* *Address out of range.* A read beyond an input memory panics, and nothing
  recovers (`static_array.go:53-55`): the machine stops for good.
* *Futures.* They share nothing, so `Sharding` runs one at a time, in every
  order; that they run concurrently is the subject of WorkerPool and LazyCheck.
  `RunFast` waits for the unsharded trace for the same reason: the two share
  nothing, and their interleavings show nothing.
* *Checking a shard.* `processShard` is a step of its goroutine although it runs
  a `ParallelMap` of its own over the constraints: by MapContract its result is
  that of a sequential map. There is one bus. The reduction mutates a tally in
  place; each tally belongs to one worker at a time, so results are values here.
* *The context of a shard* (lookup sets, constant columns) is built before and
  outside the panic intercept (`checker.go:138`); a panic there ends the process
  and is left out.

## What is checked

The five-minute limit a run keeps to decides the bounds. Each is large enough
for the case its run is about, as said below.

| Run | Instance | States | What it shows |
|---|---|---|---|
| vectorize | 662 functions of conditions, loops, switches, exits and conflicting assignments on three registers | 11 418 | `FlatteningKeepsMeaning`, `MergingKeepsMeaning` (after every step of the merge), `VectorizedKeepsMeaning`: the code means what the statements mean, for all inputs; `MergedAreLegal`; `VectorizationEnds` |
| pipeline | 488 functions with two memories, calls of two functions, branches, loops, switches and every way to end, as main, returning or never returning; clocks up to 2 before the call, stamps up to 4 | 11 230 | `PassesKeepMeaning` after each pass, for all arguments, clocks and leftovers; `AccessesOnTime`: threaded stamps are the clock's; `PassesKeepVectorsLegal`; `ThreadingFailuresExplained`: when threading refuses a function, and that one refused for the row before an entry that is jumped to would be right if that row jumped on |
| function_table | 90 functions of four registers, every row that could stand in a table | 4 781 | `RowsAreExecutions`: the constraints accept the machine's rows and no others; `PanicsExplained`: when the translation refuses a function |
| split_words | 535 programs, two targets that execute (limbs of 2 bits on words of 4, of 4 on 8) and four that are traced (fields of 67, 251 and 521 elements, limbs of 2, 4 and 5 bits, static tables of 2 and of 4 bits); all values of up to three bits and those at limb boundaries beyond | 52 923 | `SplitKeepsMeaning`: fails, branches and computes as on words without end; `FitsBandwidth`; `CodeIsValidated`: the validator has nothing to object to; `ValuesFitRegisters`; `RowsAreDetermined`: the constraints admit the row the interpreter made and no other, whatever the columns are filled with |
| random_access | rows 0 and 2 of two lanes, bits, clock up to 3, stamps in limbs of 2 and 1 bits | 139 022 | `LogChained`, `ReadsThePast`: the log links; `CheckpointLossless`: one stamp per row is enough; `TableAccepted`, `TableReplaysMemory`: the table is honest; `MemoryKeepsContract`: all of it implements MemoryContract |
| paged_random_access | rows 0, 1, 2 of two lanes, pages of three cells so that row 1 lies on two, clock up to 4 | 351 460 | `PagedAccessesRecoverable`: accesses of whole rows can be read off equal write stamps, and their read stamps differ only across pages, one of which an access before found absent; `ChainBreaksOnlyUnallocated`: values always link, stamps fail to only after a read where there was no page |
| memory_handover | rows 0, 1, 2 of a u8 and a u24: registers of 1 and 3 bytes on one machine, of 1, 1 and 2 on the other, pages of four cells, clock up to 3 | 120 554 | `ReplaySeesSameMemory`: the replay has the fast machine's values and, unpaged, its stamps; `HandoverIsExact` |
| write_once | three rows of two lanes, bits, up to three row writes | 90 089 | `WritesAreKept`, `FailuresExplained`; `WholeRows` even though a row may fail half way |
| sharding | the program in `MCSharding`, 50 inputs, shards of 1, 2 and 4 steps | 38 565 | `StackDiscipline`, `CallsReturnMeaning`, `CallsAreBacked`: calls; `ShardsReplayExecution`: the shards are the execution; `FailureIsTraced` |
| lazy_check | up to four shards of five kinds, two processors | 469 806 | `WorkConserved`, `NothingLeftRunning`, `PoolKeepsContract`: each shard is handled once, and nothing is running when the pool returns; `VerdictOfWholeTrace`: the verdict is that of the whole trace for every schedule; `CheckEnds` |

Two more runs are expected to find a violation; they are described below.

Why the bounds suffice. *Passes:* the families of `MCVectorize` and `MCPipeline`
put each construct in front of, behind and inside each other one; a conflict
needs two assignments of one register, a stale offset two splices, a wrong
renumbering one vector that is pruned before one that is kept. Two memories tell
a stamp of one from a stamp of the other, functions of one and of two memories a
stamp of a caller from a callee's; with at most two accesses on a path, clocks
of up to 2 and stamps of up to 4 the overflow falls before, between and behind
the accesses. *Tables:* two inputs, an output and a variable are what a
constancy (unwritten on some path), a forwarding (written before it is read) and
a one-hot group need at once. *Words and limbs:* a word holds two registers, as
the real targets' words do (registers of 16 bits in words of 32, 32 in 64, 64 in
128); widths up to three limbs make a middle limb, which has a carry in and out;
widths that are no multiple of the limb make the top one partial. *Memories:*
two rows and two lanes distinguish a row address from a cell address and one
lane from another, and row 1 between them is expanded over but never accessed;
three accesses are a first access of a row, a second that must link to it and
one of another row between, or a restore between them. *Pages:* with two lanes a
tick per lane differs from a tick per row; pages of three cells put rows 0 and 2 on
pages of their own and the lanes of row 1 on both, as a row of three limbs is put
by pages of 2^20 cells; a clock of 4 is a write of one page, the access that
finds only this one of two and loses a stamp, a write of the other, and the
access that links to both. *Limbs of stamps:* with a limb of one bit
the carry is taken at every second stamp. *Handover:* the registers of a row
differ in width on each machine, so that a byte offset that takes them for
equal, or goes round with the other machine's widths, changes a value; a page of
four cells is two rows on one machine and one and a third on the other, so a
page, row or cell number scaled by the wrong geometry does too. *Sharding:* the
steps per shard divide, exceed and fail to divide the number of entries; the
inputs repeat an argument of the memoised function in one shard and in different
ones, and lead to each kind of failure: overflow, output disagreement and
explicit `fail`, each at a different step. *Pool:* fewer items than processors,
as many, and more than the channel holds.

*Deadlock* is checked in the memories, which can always restart. The passes,
Sharding and the checker end, so their configurations switch it off; that they
do not end early is `VectorizationEnds`, `ShardsReplayExecution` with
`FailureIsTraced` (every row of the whole execution is there) and `CheckEnds`.

*Fairness.* Vectorize, the pool and the checker claim progress. Vectorisation is
a sequential loop that runs until it is done, so its specification only rules
out that the process stops for ever in the middle. `WorkerPool` assumes weak
fairness of the caller and of each goroutine: the Go scheduler runs every
goroutine that stays runnable. Strong fairness is not needed. A goroutine may
find the channel emptied by another each time it looks, but then the other has
advanced the pool, and once the channel is closed and empty it stays so.
That a call of the mapper ends is assumed with it: a future replays a
part of an execution that has ended already, and constraints are evaluated row
by row. `LazyCheck` needs only that some goroutine that can run does. The other
specifications state no fairness and claim no liveness.

### Where the code and its documentation disagree

Two runs are expected to find a violation; the checked property states what the
code's own text says.

* **lost_tautology** (`ConditionsIdentifyExecution`): consensus resolves the
  clauses *A* and not *A* to the empty clause (`util/logical/proposition.go:239`),
  and a proposition of one empty clause is FALSE. A tautology found this way
  becomes a contradiction: behind `if x == 0 || (y == 0 && x != 1)` the codes of
  the join have a condition that never holds, although the table of conditions
  "identifies the conditions under which the given bytecode will execute"
  (`vector.go:168-169`).
* **wide_divisor** (`RemainderBelowDivisor`): with a constant divisor wider than
  a register the check "y == r + w + 1" of a traced division
  (`transform/lower_division.go:106,130`) is not recognised as one against zero
  (`split/subtraction.go:153`), and its limbs borrow from one another; a
  remainder above the divisor passes.

Others were met while modelling. The models follow the code, and the properties
or the program families exclude the case by name:

* *Entries that are jumped to.* `seedEntryRow` "handles an entry row which is
  itself a jump target (e.g. a leading loop header)"
  (`transform/thread_timestamps.go:270-271`) by a row of assignments in front of
  it. That row has no terminal bytecode, so the validator reports "vector has
  unterminated path" (`zkc/vm/internal/validate/vector.go:139`) of every
  function with memories whose first vector is jumped to.
  `ThreadingFailuresExplained` says that a jump at the end of this row is all that
  such a function lacks.
* *Failing in a pass.* Two cases of a switch that land at the same code are
  rejected after threading, and a last bytecode that branches is rejected or
  given a late stamp (`transform/thread_timestamps.go:549, 625`; `LastBranches`
  in `MCPipeline`; `ThreadingFailuresExplained`). A constancy under
  a condition that absorbed a failure (`vector_translator.go:249`), a
  repeated test nested in itself (`mirc/branches.go:36`) and a function that is
  one vector that jumps to itself (`mirc/frame.go:57`) end the translation with
  a panic; `PanicsExplained` says that nothing else does.
* *Widths.* A maximal comparison with a constant *c* where *c* + 1 is a power of
  2 to the limb width underflows its number of sign bits
  (`transform/lower_comparison.go:198-201,219`; `MaximalComparisons`).
  Differences into narrower or wider targets, shifts into narrower or wider ones
  and the complement of a value that was widened (`docs/ZKC_LANGUAGE.md:495`)
  come out differently before and after splitting (`NarrowedDifferences`,
  `WidenedDifferences`, `NarrowedShifts`, `WidenedShifts`, `WidenedComplements`;
  `interpreter.go:1573-1576`), and the traced complement of a widened value is a
  difference that has no bit for its sign (`TracedComplements`): a front end
  that casts explicitly does not produce them. A check cast to fewer bits than
  its register has is no constraint (`NarrowingChecks`): the interpreter fails
  where a row is accepted. The comment at `interpreter.go:1213` leaves to the
  compiler a check that `catCasts` in `casts.go` makes for some shapes only.
* *Machine.* A failing bytecode calls the breakpoint handler
  (`interpreter.go:73`), and the checkpointing handler takes the call for an
  entry of the shard function (`machine.go:136`): a failure counts as an entry
  and may leave one more checkpoint, from which a shard starts that is no part
  of the execution. A failure of the bytecode at the entry of the shard function
  has its row in no shard, which `FailureIsTraced` excludes. At the address of
  the shard function's entry the handler only counts (`machine.go:463`), although
  it is registered "to record all states generated during tracing"
  (`machine.go:459-460`): where the first bytecode is a tail call, or another that
  ends its vector, its row is in no shard, and a loop whose head is the entry
  counts as an entry at every turn. `EntryIsPlain` excludes both, and
  `ShardsReplayExecution` is false without it.
* *Pages.* A read of an unallocated page is logged with a write stamp no cell
  keeps (`paged_ram.go:134`), lane by lane. Hence "the row's cells share one
  last-write timestamp (accesses are row-atomic)"
  (`zkc/constraints/trace/process_ram.go:147-148`), for which the row builder
  reads the stamp of a row's last access off the first lane, does not hold of a
  row on two pages that was read while one of them was absent;
  `PagedAccessesRecoverable` says when the lanes differ.
* *Outputs.* The language manual (`docs/ZKC_LANGUAGE.md:47-50`) says
  that output locations must be written consecutively; `wom.go:43` accepts gaps
  and fills them with zeroes.
* *Checker.* A panic in a bus constraint is intercepted and kept as an error
  (`checker.go:260-291`), but the tally stays nil, and if no shard has one
  `bus_constraint.go:86` iterates nil, and the check dies before it returns the
  errors.

## What is proved

Each theorem holds for every value of the constants, under the named assumptions
of its module only.

| Theorem | Property | |
|---|---|---|
| `RandomAccess_proofs` | | any rows, lanes, values and clock bound |
| `RecordingInvariant` | `RecordingInv` | the inductive invariant |
| `TypeCorrect` | `TypeOK` | |
| `LogIsChained` | `LogChained` | |
| `ReadsArePast` | `ReadsThePast` | |
| `CheckpointsAreLossless` | `CheckpointLossless` | |
| `AccessesAreRecoverable` | `AccessesRecoverable` | of the unpaged memory; `TableReplaysMemory` rests on it |
| `MemoryImplementsContract` | `MemoryKeepsContract` | the whole refinement: initial states and every step |
| *and of the paged memory* | | and any page size, aligned with the rows or not |
| `PagedInvariant` | `PagedInv` | the inductive invariant |
| `OnlySparsityBreaksTheChain` | `ChainBreaksOnlyUnallocated` | |
| `PagedAccessesAreRecoverable` | `PagedAccessesRecoverable` | |
| `RamTable_proofs` | | any rows, lanes, values, clock bound and widths of limbs that it fits in |
| `TracedTablesAreAccepted` | `TableAccepted` | |
| `TracedTablesReplayMemory` | `TableReplaysMemory` | |
| `MemoryHandover_proofs` | | any rows, bytes of a row, places where the registers of either machine end in it, page size and clock bound |
| `ReplayedMemoryIsTheSame` | `ReplaySeesSameMemory` | |
| `EveryHandoverIsExact` | `HandoverIsExact` | |
| `WriteOnce_proofs` | | any rows, lanes, values and number of writes |
| `ExecutionSound` | `ExecutionInv` | the inductive invariant |
| `RowsWhole` | `WholeRows` | |
| `WritesKept` | `WritesAreKept` | |
| `FailuresHaveCause` | `FailuresExplained` | |
| `Sharding_proofs` | | any program of the shape the assumptions below describe, any inputs and number of shards |
| `ShardingInvariant` | | the inductive invariant, `ShardingInv` |
| `StackIsDisciplined` | `StackDiscipline` | |
| `EveryCallIsBacked` | `CallsAreBacked` | |
| `Replay_proofs` | | as above, and the entry of the shard function ends no vector and heads no loop (`EntryIsPlain`) |
| `ReplayTracked` | | the inductive invariant, `ReplayTrack` |
| `ShardsReplay` | `ShardsReplayExecution` | |
| `FailuresAreTraced` | `FailureIsTraced` | |
| `LazyCheck_proofs` | | any items, processors and mapper; for the check any shards and messages |
| `NoWorkLost` | `WorkConserved` | |
| `NothingLeft` | `NothingLeftRunning` | |
| `PoolRefinesMap` | `PoolKeepsContract`, its safety | every step of the pool is a step of the map or a stutter |
| `VerdictIsOfTheTrace` | `VerdictOfWholeTrace` | |

*Memory.* `LogChained` is not inductive: it relates records of the log to each
other, while a new record is made from the *cells*. `RecordingInv` adds what
connects them. `CellsMatchLog` says that a cell is the write side of the last
record at its address, or, if there is none, the cell the recording started
from. A new record reads the cell, hence links; then it becomes the last record
and the cell follows it. `MemoriesSound` says of the memory, of the recording's
start and of the saved checkpoint that their cells fill whole rows, that the
lanes of a row carry equal stamps, and that no stamp is later than the clock
that goes with them. The first two are what a checkpoint needs: it saves one
stamp per row, the latest, and `RoundTrip` shows that packing and unpacking is
then the identity, so that a restored memory is the one that was saved. The
third gives `ReadsThePast`. `AccessesRecoverable` has an invariant of its own,
`RecoverableInv`, whose induction step needs `MemoriesSound` for the read
stamps: the records of an access have one read stamp because their cells had.
`PlaceInLog` is the arithmetic: record *l* after *k* accesses of `Lanes` records
is lane *l* of access *k* + 1.

*Trace table.* Two things meet. The limbs: `LimbsAdd` follows the tracer from the
least significant limb upwards; after each step what is left of the sum is what
is left of its two parts plus the carry, the carry is a bit, and the limb of the
sum is what the constraint adds up. No carry leaves the most significant limb,
because the clock's bound fits the limbs (`StampsFit`). The rows:
`AccessesRecoverable` makes the log a whole number of runs of `Lanes` records,
so the tracer finds the first of each (`RunsFound`) and all of it
(`RunIsAccess`). `ReadsThePast` makes each delta a natural number and
`CellsMatchLog` the last row of an address the memory's contents. What
neither says is in `TableInv`: the clock, also a restored one, stays in its
bound, and a read stores what it found; TLC found no violation of it on the
states of `random_access`. `RamTable` computes limbs and carries with recursive
functions; `Recursion`, in `NaturalRecursion`, shows that these exist, by an
induction over sets of numbers, `UpTo`, from the library's theorem that Nat is
well founded.

*Contract.* The contract's rows are read off the cells (`RowsIn`) and its
accesses off groups of records. An access restamps the lanes of one row and
nothing else, so it changes one row of the contract (`RowsAfterAccess`); that
the array grows below it shows nowhere, because a cell that is not there reads
as the zero it is filled with. `LogGrouped` says that the log holds whole groups;
hence an access appends a group and leaves the others (`GroupsAfterAccess`). A
checkpoint of the contract is the rows of the unpacked cells, by `RoundTrip`.

*Pages.* A paged memory does not keep `CellsMatchLog`: a read of an absent page
is logged with a stamp no cell has. `TracesCells` is what is left of it: a value
always matches, a stamp unless the last record was a read before whose time
nothing on its page was written. That a write allocates its page (`PagesWritten`)
shows it of a new read of an absent page. Nor are its cells `Sound` when a row
lies on two pages: `RowsAlike` says that the stamps of a row differ only across
pages, and that then one of them is zero although its address was accessed. An
access turns the stamps of the cells into the read stamps of its records, which
is how `StampsDifferAcrossPages` follows.

*Handover.* The machines' cells are not comparable, so the proof compares the
bytes of a row (`BytesOf`). An access changes the bytes of its row and no
others, on a machine of any width (`BytesAfterRead`, `BytesAfterWrite`); the
two machines therefore stay alike once they are. That they start alike is
`RestoredRow`. A checkpoint consists of runs of rows, one for each page or one
for everything (`ChunksAreRuns`); `RunByte` follows byte *b* of a row from the
fast machine's cell into the run, and `UnpackedRow` from the run into the
narrow cell. Whichever page a restored cell is taken from, it has the row's
bytes. A row that was never saved must read as zero on both sides, which needs
that the fast machine allocates rows whole; and the one stamp that a row is
saved with must be that of all its cells. `FastInv` says both wherever a
checkpoint does not panic (`Aligned`), and is inductive because pages and arrays
grow by whole rows (`WholeAfter`); TLC found no violation of it on the states of
`memory_handover`. Of the tracing machine's pages nothing is asked: what is
restored is looked at byte by byte. `GeometryAssumption` only says that a row
has bytes, that each machine's registers cover it one after the other, and that
pages are not empty.

*Output memory.* What makes `WholeRows` true is not local to the array's length:
an instruction that fails half way has written some lanes. `LaneFits` looks at a
lane as the array was before the instruction; since the lanes of a row are
different cells, a lane can only fail in a cell that exists, and an array of
whole rows that has one cell of a row has all of them, so a failing instruction
does not grow it. `CellsExplained` says where each cell comes from: a write, the
contents restored, or a gap below a higher write; a failure disagrees with one
of these.

*Machines and shards.* `StackDiscipline` says where the frames are, not why a
LEAVE finds its callee above the caller. `MachineInv` adds that every suspended
call waits behind the ENTER that suspended it, that its callee, or a function
that never returns in its place, runs in the frame above, and that the memo of
calls holds arguments and returns of the right number. A RET then leaves a
record as wide as what its LEAVE copies, a memoised call puts a record of that
shape above the caller, and a tail call, which gives up the frame of its caller,
never meets a LEAVE, because what it calls never returns. `CallsAreBacked` needs
`TracerInv`: not only the call that is about to be copied back has its row but
every memoised one, since a later call with the same arguments writes none. A
shard keeps this because its memo starts empty, and because the handler records
the row of a RET before the RET is executed, when its frame is still what the
row is made of. `PointsInv` carries `MachineInv` over to the shards: a
checkpoint names a function and has as many arguments as it takes.

*Replay.* That the shards are the execution relates machines that never meet:
they start at different times, with different stacks and memos, and one call is
executed by one of them and answered from a memo by another. So each is compared
with the same third execution, which no machine runs: `RefStep`, of a machine
without a memo that records a row at every breakpoint and counts the entries of
the shard function. `Beside(m, a, t, D)` says that what m has done since it
started at the state a of that execution is what lies between a and t: t has the
same frames above those a had (`Alike`), the same memories, and its log is that
of a followed by that of m; D is the end of the execution if the outputs were
replicated from there.

A step of m is then a step of the reference execution, except for a memoised call
that is answered: that is as many steps as the reference execution takes to
return. That it returns, and what it returns, is `ReplayInv`, the heart of the
proof. Every entry of a memo *can be executed again*, from any state that is
about to make that call with the same input memory and at least the present
output, to the remembered returns, without an access to the read-write memory,
and with no rows but ones m has (`Replays`). To keep this, a call that is still
being executed must be known to lead up to where m is, from any such state
(`InProgress`): when it returns it becomes an entry of the memo, whatever memoised
calls it made on the way. A call that may be memoised does not see the read-write
memory (`Effectless`), and a write it makes to the output is either found there
or fails; so it does the same with more output in place, which is also why a
shard may start with the output of the end.

Rows are compared twice. Those of functions with effects are the same, in the
same order (`StepsOf`); the others, of which a shard may have copies and the
unsharded trace one, as sets.

`FastTrack` says that the checkpoints of the fast machine cut the reference
execution (`Cut`) and how far its counter is from the next cut (`Ticking`);
`ShardTrack` that a shard is beside the execution from its cut on, and how many
entries are left to it (`Counted`). That a shard stops exactly at the next cut
is counting: the execution passes the entry once at each count (`SameEntry`),
and the two counters agree although the shard passes the entry it starts at
once more than the fast machine does (`Quota`). Put one after the other, shards
then telescope (`Flattened`), and what the unsharded trace did from the start to
the end is the same. The row a failure leaves is the last (`FailedRow`); the
last shard fails in the state in which the execution does, hence with that row.
`ReplayTrack` collects this, and is inductive next to `ShardingInv`.

The program is a constant, and two assumptions say what the compiler makes sure
of. `CodeAssumption`: functions are laid out one after the other
(`interp/compiler.go:177-203`), control neither leaves a function nor runs off
its end (`zkc/compiler/validate/control_flow.go:92-138`), a call becomes a
TAILCALL or an ENTER with its LEAVE (`interp/encoding/call.go:23-41`), the
former exactly for functions that never return
(`zkc/compiler/linker.go:694-701`), and these have no RET
(`control_flow.go:122-126`); registers are those of the function
(`vm/internal/validate/vector.go`), parameters are not assigned to
(`validate/typing.go`, `checkTargets`), and a call copies no more returns than
there are (`bytecode/call.go:66`). `Effectless` are the functions that declare
no effect: they may not read or write a read-write memory (`typing.go:448,
1041`) nor call what does (`typing.go:1088-1093`), and only such functions are
memoised (`descriptor/function.go:51`; `ProgramAssumption`). `EntryAssumption`:
the shard function is global (`machine.go:112-127`), so it never returns, no
ENTER calls it and it is not memoised. Of the replay a hypothesis is left that
nothing in the code checks and that the theorems therefore state,
`EntryIsPlain`: the entry of the shard function neither ends a vector nor is the
head of a loop. Without it they fail, as told above. The
theorems about the stack and the traced calls do without. TLC evaluates these on
the program of `MCSharding`, and found no violation of `ShardingInv` on the
states of that run.

*Pool.* `PoolInv` adds to conservation of work where the caller is (`CallerInv`:
closed exactly when all was sent, exited workers only once closed and drained)
and which results are there (`ResultsInv`). The refinement maps the pool's
calls to the contract's; returning is the step that needs all of the invariant:
the wait group is zero, so no worker runs; one that exited found the channel
closed and empty, so every index was sent and called; and a call that no worker
is about to store is stored.

*Check.* The verdict is about the trace, the steps about chunks of it.
`Reduces(r, a, b)` says what a result is worth: that it is the result of the
shards after *a*, up to *b*. It fixes the failures and the errors of these
shards in their order, how many more times each message was sent than received,
and whether there is a state at all and a tally in it. A slot is the result of
one shard (`SlotReduces`), the reducer makes the result of two intervals that
meet from theirs (`ReducerReduces`), and this is where an error in `joinStates`,
a swapped order or a nil state taken for an empty one would show. `CheckInv`
says of each worker that it has reduced its chunk as far as it has come. That
the chunks follow one another, are not empty and end with the last shard is
arithmetic (`Chunks`): there are no more workers than shards, so a division
rounded down never gives two of them the same end. `CombineReduces` goes over
the partial results by the same lemma, and `WholeTrace` reads the verdict off
the result of everything. That the slots are all filled when the reduction
begins is `PoolInv` once more, and so is that no goroutine writes one after that
(`Returned`). `ItemAssumption` is about the types of a shard's fields and says
that the mapper of `Apply` returns the errors of the future (`trace.go:75-101`).

Only model-checked: that memoised calls return what the source means by them
(`CallsReturnMeaning`, which a constant states for one program; what is proved
is that they return what executing them would), all passes, words and splitting,
and function tables. Liveness under fairness is out of the prover's reach and
stays with the model checker, as does `VectorizationEnds`. The arithmetic of
words uses operators on bits that the prover has no theory of. The passes, the
splitting and the propositions recurse over bytecodes, limbs and paths with
RECURSIVE operators, in whose modules the prover's arithmetic is not available;
what they compute for sequences of every length stays with TLC's bounded
programs.

## What is not modelled

* *The zkc parser, linker and type checker*, and of the lowering passes arrays,
  ternaries and values of calls: sequential passes over syntax trees.
* *The remaining passes of tracing*: inlining, field casts and flattened lookup
  accesses; and, of the others, the composition of splitting with vectorisation:
  SplitWords takes functions of one line.
* *The lookups between tables of several lines*, how they are grouped by
  condition, their selectors and the buses; Sharding checks on the traced rows
  that every call is backed.
* *Field arithmetic, Poseidon and the field bytecodes*, and how the widest words
  are put together from machine words.
* *The intermediate representations* (MIR to AIR, trace filling), the *schema's
  constraints*, *corset*: functional transformations and evaluators with no
  state between calls.
* *Generated code, commands, the inspector, the language server, file formats
  and gob*: printing and I/O.

Together these are most of the repository by size: the corset compiler, the
front end, the schema and the commands alone are well over half of its lines.
`PROJECT.json` gives the reason for each component.

## Plan

Done, in this order: the memory and its log with proofs; its contract, proved;
its table, proved; pages and the handover between geometries, with proofs;
output memory with proofs; machine; sharding with proofs; worker pool and
checker with proofs; vectorisation; the timestamps and the tracing passes behind
them; function tables; splitting; operators as lookups, range checks and the
rows of a split program in a field. To do, most important first:

1. *Lookups between tables*, so that `CallsAreBacked` becomes a statement about
   tables, with `StampsFit` discharged from `AccessesOnTime`.
2. *Code generation's fixpoint* (`interp/compiler.go:62`): encoded widths depend
   on addresses that depend on widths; the loop ends, and each jump lands on the
   bytecode it names.
3. *Sharding with concurrent futures*: the shards of `Sharding` as the items of
   `LazyCheck`, so that a failing shard's errors reach the verdict.
