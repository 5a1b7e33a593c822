------------------------------ MODULE Sharding ------------------------------
(***************************************************************************)
(* Tracing an execution in shards (vm/machine.go, vm/trace_builder.go).    *)
(*                                                                         *)
(* The program runs once in fast mode and is checkpointed at every n-th    *)
(* entry of the shard function.  Each checkpoint is then restored in a     *)
(* tracing machine of its own, which replays the execution up to where the *)
(* next checkpoint was taken: it counts the entries again, with a counter  *)
(* of its own.  For comparison the specification also traces the program   *)
(* unsharded.                                                              *)
(***************************************************************************)
EXTENDS Machine, SequencesExt

CONSTANTS Main,        \* the entry point
          ShardFun,    \* the function to shard on
          Inputs,      \* contents of the input memory to try
          ShardSteps,  \* entries of the shard function per shard to try
          Meaning      \* the returns of a call, by function and arguments

ASSUME ShardAssumption ==
    /\ {Main, ShardFun} \subseteq Function /\ ShardSteps \subseteq Nat \ {0}
    /\ Inputs \subseteq Seq(Word)

VARIABLES input, steps,   \* chosen at the start
          whole,          \* the unsharded tracing machine
          fast,           \* the fast machine, with its counter and checkpoints
          shards          \* the tracing machines of the shards

vars == <<input, steps, whole, fast, shards>>

Untraced == [status |-> "untraced"]

-----------------------------------------------------------------------------
\* Counter.

\* Tick: fires once every steps ticks.
Fires(m) == m.count - 1 = 0

Tick(m) == [m EXCEPT !.count = IF Fires(m) THEN steps ELSE m.count - 1]

Counting(m, n) == [x \in DOMAIN m \cup {"count"} |-> IF x = "count" THEN n ELSE m[x]]

-----------------------------------------------------------------------------
\* The breakpoint handlers.

EntryPoint == Entry[ShardFun]

\* BootAndCheckpoint refuses to shard on a function that is not global.  A global
\* function never returns, so that no ENTER calls it and it has no RET, and its
\* calls are not memoised.
ASSUME EntryAssumption ==
    /\ ShardFun \notin Cacheable
    /\ \A pc \in DOMAIN Code : Code[pc].op = "enter" => Code[pc].fun # ShardFun
    /\ \A pc \in Body(ShardFun) : Code[pc].op # "ret"

\* Does the entry end no vector, and does no loop start there?  Nothing checks
\* it.  The handler that counts the entries records no row of the entry, and
\* takes any arrival at the address for an entry.
EntryIsPlain ==
    /\ \A pc \in Body(ShardFun) : EntryPoint \notin Follow(pc)
    /\ Code[EntryPoint].op \notin VectorTerminals

\* BootAndCheckpoint's: a checkpoint at every tick that fires, no interrupt.
Checkpointer(m, opcode) ==
    IF Fires(m) THEN [Tick(m) EXCEPT !.points = Append(m.points, CheckPoint(m))]
                ELSE Tick(m)

\* constructTraceForInterpreter's: the entry of the shard function counts,
\* and interrupts the machine when the counter fires; everything else is
\* recorded.
ShardTracer(m, opcode) ==
    IF m.pc = EntryPoint
    THEN IF Fires(m) THEN [Tick(m) EXCEPT !.status = "stopped"] ELSE Tick(m)
    ELSE RecordRow(m, opcode)

\* BreakPointer: the handler a machine was given, and where it stops for it.
Breakpoints(m) ==
    CASE m.breakpointer = "record"     -> TracePoints
      [] m.breakpointer = "checkpoint" -> {EntryPoint}
      [] m.breakpointer = "shard"      -> TracePoints \cup {EntryPoint}

Handle(m, opcode) ==
    CASE m.breakpointer = "record"     -> RecordRow(m, opcode)
      [] m.breakpointer = "checkpoint" -> Checkpointer(m, opcode)
      [] m.breakpointer = "shard"      -> ShardTracer(m, opcode)

\* One iteration of the interpreter's loop: the handler may interrupt the
\* machine before the bytecode executes, and is called again if it fails.
Execute(m) ==
    LET opcode == Code[m.pc].op
        seen   == IF m.pc \in Breakpoints(m) THEN Handle(m, opcode) ELSE m
        next   == Dispatch(seen)
    IN  IF seen.status # "running" THEN seen
        ELSE IF next.status = "failed"
             THEN [Handle(next, "none") EXCEPT !.status = "failed"]
             ELSE next

-----------------------------------------------------------------------------
\* Actions.

\* BootAndTrace: the unsharded tracing machine executes a bytecode.
TraceWhole ==
    /\ whole.status = "running"
    /\ whole' = Execute(whole)
    /\ UNCHANGED <<input, steps, fast, shards>>

\* BootAndCheckpoint: so does the fast machine.
RunFast ==
    /\ whole.status # "running" /\ fast.status = "running"
    /\ fast' = Execute(fast)
    /\ UNCHANGED <<input, steps, whole, shards>>

\* traceCheckPoints: a future per checkpoint.
TraceCheckPoints ==
    /\ fast.status \in {"done", "failed"} /\ shards = <<>>
    /\ shards' = [i \in 1 .. Len(fast.points) |-> Untraced]
    /\ UNCHANGED <<input, steps, whole, fast>>

\* replicateOutputs: a shard starts from the final outputs, if there are any.
WithOutputs(cp) == IF fast.status = "done" THEN [cp EXCEPT !.mem.wom = fast.mem.wom] ELSE cp

\* Faulty StartShard: no shard accounts for the breakpoint it is restored at.
StartShardUncounted(i) ==
    /\ shards[i] = Untraced
    /\ \A j \in DOMAIN shards : shards[j].status # "running"
    /\ shards' = [shards EXCEPT ![i] =
            Counting([Restore(WithOutputs(fast.points[i]), TRUE) EXCEPT !.breakpointer = "shard"],
                     steps)]
    /\ UNCHANGED <<input, steps, whole, fast>>

\* RestoreAndTraceFor: the i-th future restores its machine; all but the first
\* pass the breakpoint they were restored at.
StartShard(i) ==
    /\ shards[i] = Untraced
    /\ \A j \in DOMAIN shards : shards[j].status # "running"
    /\ shards' = [shards EXCEPT ![i] =
            Counting([Restore(WithOutputs(fast.points[i]), TRUE) EXCEPT !.breakpointer = "shard"],
                     IF i = 1 THEN steps ELSE steps + 1)]
    /\ UNCHANGED <<input, steps, whole, fast>>

\* The machine of the i-th shard executes a bytecode.
TraceShard(i) ==
    /\ shards[i].status = "running"
    /\ shards' = [shards EXCEPT ![i] = Execute(shards[i])]
    /\ UNCHANGED <<input, steps, whole, fast>>

Init ==
    /\ input \in Inputs /\ steps \in ShardSteps
    /\ whole = [Boot(Main, input, TRUE) EXCEPT !.breakpointer = "record"]
    /\ LET booted == Counting([Boot(Main, input, FALSE) EXCEPT !.breakpointer = "checkpoint"],
                              steps)
       IN  fast = [x \in DOMAIN booted \cup {"points"} |->
                     IF x = "points" THEN <<CheckPoint(booted)>> ELSE booted[x]]
    /\ shards = <<>>

\* The futures share nothing, so that they run one at a time, in any order.
Next ==
    \/ TraceWhole
    \/ RunFast
    \/ TraceCheckPoints
    \/ \E i \in DOMAIN shards : StartShard(i) \/ TraceShard(i)

Spec == Init /\ [][Next]_vars

-----------------------------------------------------------------------------

Machines == {whole, fast} \cup {shards[i] : i \in {j \in DOMAIN shards : shards[j] # Untraced}}
Tracers == Machines \ {fast}

AllTraced ==
    /\ fast.status # "running" /\ shards # <<>>
    /\ \A i \in DOMAIN shards : shards[i].status \notin {"untraced", "running"}

\* The rows of the functions that access the read-write memory: no memoised call
\* has one of them.
StepRows(m) ==
    LET upTo[n \in 0 .. Len(m.rows)] ==
            IF n = 0 THEN <<>>
            ELSE IF m.rows[n].fid \in Effectless THEN upTo[n - 1]
            ELSE Append(upTo[n - 1], m.rows[n])
    IN  upTo[Len(m.rows)]

AllRows(m) == {m.rows[i] : i \in DOMAIN m.rows}

Joined(Rows(_)) == FlattenSeq([i \in DOMAIN shards |-> Rows(shards[i])])

LogOf(m) == m.log

\* In every machine the frames tile the stack, however deep calls, memoised
\* calls and tail calls nest (interpreter.go: enter, tryCachedCall, return and
\* leave each do a part of the bookkeeping).
StackDiscipline == \A m \in Machines : m.status = "running" => FramesTile(m)

\* What LEAVE is about to copy out of the callee's record is what the call
\* means, whether it was executed or answered from the cache.
CallsReturnMeaning ==
    \A m \in Machines : m.status = "running" /\ Returning(m) =>
        LET callee == Code[m.pc - 1].fun
            args   == Slice(m, m.rp - NumInputs[callee], NumInputs[callee])
        IN  Slice(m, m.rp, NumOutputs[callee]) = Meaning[callee][args]

\* A call whose returns are used has its row in the same trace, or its lookup
\* would fail: memoising a call never leaves a trace without the row that
\* justifies it, not even in a shard that starts after the call was first made.
CallsAreBacked ==
    \A m \in Tracers : m.status = "running" /\ Returning(m) =>
        LET callee == Code[m.pc - 1].fun
            n      == NumInputs[callee] + NumOutputs[callee]
            call   == Slice(m, m.rp - NumInputs[callee], n)
        IN  \E j \in DOMAIN m.rows :
                /\ m.rows[j].fid = callee /\ m.rows[j].terminal
                /\ SubSeq(m.rows[j].frame, 1, n) = call

\* Where a shard stops the next one starts: the last row of the one is the
\* tail call with the arguments of the other's checkpoint, and the memory is
\* in the state the other was restored to.
LinksUp(i) ==
    LET cp  == fast.points[i + 1]
        row == shards[i].rows[Len(shards[i].rows)]
    IN  /\ i < Len(fast.points)
        /\ cp.fid = ShardFun
        /\ \/ i = 1 /\ Main = ShardFun /\ shards[i].rows = <<>>
           \/ /\ row.terminal
              /\ Code[row.pc].op = "tail" /\ Code[row.pc].fun = ShardFun
              /\ [k \in 1 .. Len(Code[row.pc].args) |-> row.frame[Code[row.pc].args[k] + 1]] = cp.args
        /\ shards[i].mem.ram = cp.mem.ram /\ shards[i].mem.clock = cp.mem.clock

\* The shards together are the execution: put one after the other their rows
\* are the rows of the unsharded trace, and their accesses its accesses, with
\* nothing lost, repeated or restamped where one shard ends and the next
\* begins.  (A memoised call is traced again by each shard that makes it, so
\* that of the functions it may reach the rows are compared as sets.)  Each
\* carries the whole output, and none fails on outputs that were replicated
\* into it.  A failure may leave one more checkpoint: the handler that takes
\* them takes it for an entry.
ShardsReplayExecution ==
    /\ \A i \in DOMAIN shards :
           shards[i].status = "stopped" /\ (i < Len(fast.points) \/ fast.status = "done") => LinksUp(i)
    /\ fast.status = "done" =>
           \A i \in DOMAIN shards : shards[i] # Untraced =>
               shards[i].mem.wom = whole.mem.wom /\ shards[i].status # "failed"
    /\ AllTraced /\ fast.status = "done" =>
           /\ Joined(StepRows) = StepRows(whole)
           /\ Joined(LogOf) = whole.log
           /\ UNION {AllRows(shards[i]) : i \in DOMAIN shards} = AllRows(whole)

\* The row at which a failed execution failed is the last of a shard that
\* fails too: sharding never turns a failure into an acceptable trace.  (Not a
\* failure of the bytecode at the entry of the shard function, which is counted
\* and not recorded.)
FailureIsTraced ==
    AllTraced /\ fast.status = "failed" /\ fast.pc # EntryPoint =>
        \E i \in DOMAIN shards :
            /\ shards[i].status = "failed"
            /\ shards[i].rows # <<>>
            /\ shards[i].rows[Len(shards[i].rows)] = whole.rows[Len(whole.rows)]

=============================================================================
