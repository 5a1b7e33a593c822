------------------------------- MODULE Machine -------------------------------
(***************************************************************************)
(* The bytecode interpreter of the zkc VM: the state of a machine and what *)
(* executing one bytecode does to it                                       *)
(* (vm/internal/interpreter/interpreter.go, cache.go, heap.go).            *)
(*                                                                         *)
(* A machine is a record, so that one specification can run several of     *)
(* them: Sharding runs a fast machine, a tracing machine and a machine per *)
(* shard.  Activation records are stacked in one flat array of registers;  *)
(* a call leaves the callee's record there until LEAVE has copied the      *)
(* returns out of it.                                                      *)
(*                                                                         *)
(* The instruction set keeps one bytecode per way the machine is           *)
(* controlled; the arithmetic and bitwise families are all ADD here, whose *)
(* result can overflow its register.                                       *)
(***************************************************************************)
EXTENDS Integers, Sequences

CONSTANTS Code,        \* the bytecodes, by address
          Function,    \* function identifiers
          Entry,       \* address of a function's first bytecode
          Width,       \* number of registers of a function
          NumInputs,   \* its first registers hold its arguments
          NumOutputs,  \* the registers after those hold its returns
          Effectless,  \* functions that declare no memory effect
          Cacheable,   \* functions whose calls may be memoised
          Limit,       \* values of a register
          Address      \* addresses of the read-write memory

Word == 0 .. (Limit - 1)

ASSUME ProgramAssumption ==
    /\ Limit \in Nat \ {0} /\ Word \subseteq Address
    /\ Cacheable \subseteq Effectless /\ Effectless \subseteq Function
    /\ \A f, g \in Function : Entry[f] = Entry[g] => f = g
    /\ \A f \in Function :
          /\ Entry[f] \in DOMAIN Code
          /\ NumInputs[f] \in Nat /\ NumOutputs[f] \in Nat
          /\ Width[f] \in Nat /\ NumInputs[f] + NumOutputs[f] =< Width[f]

\* The bytecodes of a function: those of one function are put in the program
\* after those of another.
Body(f) ==
    {pc \in DOMAIN Code :
        Entry[f] =< pc /\ \A g \in Function : Entry[g] =< pc => Entry[g] =< Entry[f]}

\* Functions that never return are entered by a TAILCALL, all others by an ENTER
\* that a LEAVE comes after.
NoReturn == {Code[pc].fun : pc \in {a \in DOMAIN Code : Code[a].op = "tail"}}

\* The bytecodes of the same function that may be executed next, which is that
\* after it has come back if it is an ENTER.
Follow(pc) ==
    CASE Code[pc].op = "jmp"    -> {Code[pc].goto}
      [] Code[pc].op = "skipif" -> {pc + 1, Code[pc].goto}
      [] Code[pc].op \in {"ret", "tail", "done", "fail"} -> {}
      [] OTHER -> {pc + 1}

Opcodes == {"add", "skipif", "jmp", "rdrom", "wrwom", "rdram", "wrram",
            "enter", "leave", "ret", "tail", "done", "fail"}

\* Uses, Definitions: the registers that a bytecode reads and those it writes.
Uses(pc) ==
    LET i == Code[pc]
    IN  CASE i.op = "add"               -> {i.source}
          [] i.op = "skipif"            -> {i.left} \cup (IF "right" \in DOMAIN i THEN {i.right} ELSE {})
          [] i.op \in {"rdrom", "rdram"} -> {i.address}
          [] i.op \in {"wrwom", "wrram"} -> {i.address, i.source}
          [] i.op \in {"enter", "tail"}  -> {i.args[k] : k \in 1 .. Len(i.args)}
          [] OTHER                      -> {}

Definitions(pc) ==
    LET i == Code[pc]
    IN  CASE i.op \in {"add", "rdrom", "rdram"} -> {i.target}
          [] i.op = "leave"                     -> {i.rets[k] : k \in 1 .. Len(i.rets)}
          [] OTHER                              -> {}

\* What the compiler emits: control stays within a function, which never runs
\* off its end; LEAVE follows ENTER and nothing else; registers are those of the
\* frame, and parameters are not written; a call has the arguments of its
\* callee, copies no more returns than that has, and is a tail call if it never
\* returns, when it has no RET; and what is not visible to a function, the
\* memories that it declares no effect on, is not to what it calls either.
ASSUME CodeAssumption ==
    /\ DOMAIN Code \subseteq Nat
    /\ \A f \in Function :
          /\ Code[Entry[f]].op # "leave"
          /\ \A pc \in Body(f) :
                /\ Code[pc].op \in Opcodes
                /\ Follow(pc) \subseteq Body(f)
                /\ \A next \in Follow(pc) : Code[next].op = "leave" <=> Code[pc].op = "enter"
                /\ Uses(pc) \subseteq 0 .. (Width[f] - 1)
                /\ Definitions(pc) \subseteq NumInputs[f] .. (Width[f] - 1)
                /\ Code[pc].op = "add" => Code[pc].const \in Nat
                /\ Code[pc].op \in {"enter", "tail"} =>
                      Code[pc].fun \in Function /\ Len(Code[pc].args) = NumInputs[Code[pc].fun]
                /\ Code[pc].op = "enter" =>
                      /\ Code[pc].fun \notin NoReturn
                      /\ Len(Code[pc + 1].rets) \in 0 .. NumOutputs[Code[pc].fun]
                /\ Code[pc].op = "ret" => f \notin NoReturn
                /\ f \in Effectless => Code[pc].op \notin {"rdram", "wrram"}
                /\ f \in Effectless /\ Code[pc].op \in {"enter", "tail"} => Code[pc].fun \in Effectless

Zeroes(n) == [i \in 1 .. n |-> 0]

NoCache == [key \in {} |-> <<>>]

-----------------------------------------------------------------------------
\* Registers and frames.

\* frame[r], the register window starting at the frame pointer.
Register(m, r) == m.stack[m.fp + r + 1]

SetRegister(m, r, v) == [m EXCEPT !.stack[m.fp + r + 1] = v]

Frame(m) == SubSeq(m.stack, m.fp + 1, Len(m.stack))

\* The slice of n cells of the stack from offset (0-based).
Slice(m, offset, n) == SubSeq(m.stack, offset + 1, offset + n)

Operands(m, regs) == [i \in 1 .. Len(regs) |-> Register(m, regs[i])]

\* A fresh activation record: the arguments, then zeroes.
NewFrame(f, args) == args \o Zeroes(Width[f] - Len(args))

-----------------------------------------------------------------------------
\* Booting, checkpointing and restoring.

\* Reset: an empty machine at the entry of f.
Reset(f, tracing) ==
    [fid |-> f, pc |-> Entry[f], fp |-> 0, rp |-> 0, rw |-> 0,
     stack |-> Zeroes(Width[f]), calls |-> <<>>, cache |-> NoCache,
     tracing |-> tracing, status |-> "running", breakpointer |-> "none"]

ZeroRam == [a \in Address |-> [value |-> 0, stamp |-> 0]]

\* The memories of a machine: the input, the output, the read-write memory
\* with its clock and the log of its accesses.
Memories(rom, wom, ram, clock) ==
    [rom |-> rom, wom |-> wom, ram |-> ram, clock |-> clock]

With(m, mem) ==
    [x \in DOMAIN m \cup {"mem", "log", "rows"} |->
        IF x = "mem" THEN mem ELSE IF x \in {"log", "rows"} THEN <<>> ELSE m[x]]

\* Boot, initialise
Boot(f, input, tracing) == With(Reset(f, tracing), Memories(input, <<>>, ZeroRam, 0))

\* CheckPoint: the arguments of the executing function and every memory, but
\* neither the call stack nor the rest of the frame.
CheckPoint(m) ==
    [fid |-> m.fid, args |-> Slice(m, m.fp, NumInputs[m.fid]), mem |-> m.mem]

\* Restore: the function is entered afresh with those arguments.
Restore(cp, tracing) ==
    LET m == Reset(cp.fid, tracing)
    IN  With([m EXCEPT !.stack = NewFrame(cp.fid, cp.args)], cp.mem)

-----------------------------------------------------------------------------
\* Bytecodes.

Goto(m, pc) == [m EXCEPT !.pc = pc]

Skip1(m) == Goto(m, m.pc + 1)

\* A recognised failure leaves the program counter where it was.
Failed(m) == [m EXCEPT !.status = "failed"]

\* ADD_nm, storeAcross: the wrapped result is written before the overflow is
\* noticed.
Add(m, i) ==
    LET sum  == Register(m, i.source) + i.const
        next == SetRegister(m, i.target, sum % Limit)
    IN  IF sum < Limit THEN Skip1(next) ELSE Failed(next)

\* SKIPIF: equality of two registers, or of a register and a constant.
SkipIf(m, i) ==
    LET other == IF "right" \in DOMAIN i THEN Register(m, i.right) ELSE i.const
    IN  IF Register(m, i.left) = other THEN Goto(m, i.goto) ELSE Skip1(m)

\* RD_ROM, StaticArray.Read: nothing recovers from a read beyond the array.
ReadRom(m, i) ==
    LET a == Register(m, i.address) + 1
    IN  IF a \in DOMAIN m.mem.rom
        THEN Skip1(SetRegister(m, i.target, m.mem.rom[a]))
        ELSE [m EXCEPT !.status = "panicked"]

\* WR_WOM, WriteOnce.Write: a cell is compared if the array reaches it, else
\* the array grows up to it.
WriteWom(m, i) ==
    LET a     == Register(m, i.address) + 1
        v     == Register(m, i.source)
        wom   == m.mem.wom
        grown == IF a =< Len(wom) THEN wom
                 ELSE wom \o Zeroes(a - Len(wom))
    IN  IF a =< Len(wom) /\ wom[a] # v
        THEN Failed(m)
        ELSE Skip1([m EXCEPT !.mem.wom = [grown EXCEPT ![a] = v]])

\* One access of the read-write memory (see MemoryContract).
Touch(m, a, value, isWrite) ==
    LET now == [value |-> value, stamp |-> m.mem.clock + 1]
    IN  [m EXCEPT !.mem.clock = m.mem.clock + 1,
                  !.mem.ram[a] = now,
                  !.log = Append(m.log, [address |-> a, before |-> m.mem.ram[a],
                                         after |-> now, isWrite |-> isWrite])]

\* RD_RAM
ReadRam(m, i) ==
    LET a     == Register(m, i.address)
        value == m.mem.ram[a].value
    IN  Skip1(SetRegister(Touch(m, a, value, FALSE), i.target, value))

\* WR_RAM
WriteRam(m, i) ==
    Skip1(Touch(m, Register(m, i.address), Register(m, i.source), TRUE))

-----------------------------------------------------------------------------
\* Calls.

\* Get, tryCachedCall
Cached(m, f, args) == <<f, args>> \in DOMAIN m.cache

\* ENTER: the callee's record is stacked; a cached call is not executed, its
\* returns are put where RET would have left them.
Enter(m, i) ==
    LET calleeFp == Len(m.stack)
        args     == Operands(m, i.args)
        stacked  == [m EXCEPT !.stack = m.stack \o NewFrame(i.fun, args)]
        returns  == m.cache[<<i.fun, args>>]
    IN  IF Cached(m, i.fun, args)
        THEN Skip1([stacked EXCEPT
                !.rp = calleeFp + Len(args), !.rw = Width[i.fun],
                !.stack = m.stack \o NewFrame(i.fun, args \o returns)])
        ELSE [stacked EXCEPT
                !.calls = Append(m.calls, [fid |-> m.fid, fp |-> m.fp, pc |-> m.pc + 1]),
                !.fid = i.fun, !.fp = calleeFp, !.pc = Entry[i.fun]]

\* The registers that a LEAVE writes get the returns, in their order.
Copied(m, rets) ==
    LET position(r) == CHOOSE k \in 1 .. Len(rets) : rets[k] = r
    IN  [cell \in 1 .. Len(m.stack) |->
            IF \E k \in 1 .. Len(rets) : rets[k] = cell - m.fp - 1
            THEN m.stack[m.rp + position(cell - m.fp - 1)] ELSE m.stack[cell]]

\* Faulty Leave: the callee's record stays on the stack.
LeaveKeepingRecord(m, i) == Skip1([m EXCEPT !.stack = Copied(m, i.rets)])

\* LEAVE: the returns are copied from the callee's record, which is dropped.
Leave(m, i) ==
    Skip1([m EXCEPT !.stack = SubSeq(Copied(m, i.rets), 1, Len(m.stack) - m.rw)])

\* Faulty Remembered: the returns are taken from the bottom of the record.
RememberedArguments(m) ==
    LET args == Slice(m, m.fp, NumInputs[m.fid])
        key  == <<m.fid, args>>
        rets == Slice(m, m.fp, NumOutputs[m.fid])
    IN  IF m.tracing /\ m.fid \in Cacheable
        THEN [k \in DOMAIN m.cache \cup {key} |-> IF k = key THEN rets ELSE m.cache[k]]
        ELSE m.cache

\* Insert: what the record holds at its return is remembered of the call.
Remembered(m) ==
    LET args == Slice(m, m.fp, NumInputs[m.fid])
        key  == <<m.fid, args>>
        rets == Slice(m, m.fp + NumInputs[m.fid], NumOutputs[m.fid])
    IN  IF m.tracing /\ m.fid \in Cacheable
        THEN [k \in DOMAIN m.cache \cup {key} |-> IF k = key THEN rets ELSE m.cache[k]]
        ELSE m.cache

\* RET, executeReturn
Return(m) ==
    IF m.calls = <<>>
    THEN [m EXCEPT !.status = "done"]
    ELSE LET caller == m.calls[Len(m.calls)]
         IN  [m EXCEPT !.calls = SubSeq(m.calls, 1, Len(m.calls) - 1),
                       !.cache = Remembered(m),
                       !.fid = caller.fid, !.fp = caller.fp, !.pc = caller.pc,
                       !.rp = m.fp + NumInputs[m.fid], !.rw = Width[m.fid]]

\* TAILCALL: the caller's record is replaced by the callee's.
TailCall(m, i) ==
    [m EXCEPT !.stack = SubSeq(m.stack, 1, m.fp) \o NewFrame(i.fun, Operands(m, i.args)),
              !.fid = i.fun, !.pc = Entry[i.fun]]

Dispatch(m) ==
    LET i == Code[m.pc]
    IN  CASE i.op = "add"    -> Add(m, i)
          [] i.op = "skipif" -> SkipIf(m, i)
          [] i.op = "jmp"    -> Goto(m, i.goto)
          [] i.op = "rdrom"  -> ReadRom(m, i)
          [] i.op = "wrwom"  -> WriteWom(m, i)
          [] i.op = "rdram"  -> ReadRam(m, i)
          [] i.op = "wrram"  -> WriteRam(m, i)
          [] i.op = "enter"  -> Enter(m, i)
          [] i.op = "leave"  -> Leave(m, i)
          [] i.op = "ret"    -> Return(m)
          [] i.op = "tail"   -> TailCall(m, i)
          [] i.op = "done"   -> [m EXCEPT !.status = "done"]
          [] i.op = "fail"   -> Failed(m)

-----------------------------------------------------------------------------
\* Breakpoints.

\* isVectorTerminal: the bytecodes a tracing program stops at.
VectorTerminals == {"jmp", "ret", "done", "tail"}

\* isTerminalOpcode: those that end the frame.
FrameTerminals == {"ret", "done", "tail"}

\* Faulty RecordRow: only the terminals of vectors leave a row.
RecordTerminal(m, opcode) ==
    IF opcode \in VectorTerminals
    THEN [m EXCEPT !.rows = Append(m.rows,
            [fid |-> m.fid, pc |-> m.pc, frame |-> Frame(m),
             terminal |-> opcode \in FrameTerminals])]
    ELSE m

\* TraceFunctionLine: the handler that records the executing state.
RecordRow(m, opcode) ==
    [m EXCEPT !.rows = Append(m.rows,
        [fid |-> m.fid, pc |-> m.pc, frame |-> Frame(m),
         terminal |-> opcode \in FrameTerminals])]

\* Faulty TracePoints: returns are not marked.
TracePointsButReturns == {pc \in DOMAIN Code : Code[pc].op \in {"jmp", "done", "tail"}}

\* CompileProgram: a tracing program breaks at its vector terminals.
TracePoints == {pc \in DOMAIN Code : Code[pc].op \in VectorTerminals}

-----------------------------------------------------------------------------
\* Well-formed machines.

\* The activation records from the current one down: the live frames, each
\* starting where the one above it was pushed.
FrameOf(m, k) ==
    IF k = Len(m.calls) + 1 THEN [fid |-> m.fid, fp |-> m.fp]
                            ELSE [fid |-> m.calls[k].fid, fp |-> m.calls[k].fp]

\* Is a returned callee waiting for its LEAVE?
Returning(m) == Code[m.pc].op = "leave"

\* The live frames tile the data stack from the bottom, each as wide as its
\* function, with nothing between or above them but the record of a callee
\* that has returned, whose returns are where rp says.
FramesTile(m) ==
    LET depth == Len(m.calls) + 1
        top   == m.fp + Width[m.fid]
    IN  /\ FrameOf(m, 1).fp = 0
        /\ \A k \in 1 .. (depth - 1) :
              FrameOf(m, k + 1).fp = FrameOf(m, k).fp + Width[FrameOf(m, k).fid]
        /\ IF Returning(m)
           THEN LET callee == Code[m.pc - 1].fun
                IN  /\ m.rw = Width[callee] /\ Len(m.stack) = top + m.rw
                    /\ m.rp = top + NumInputs[callee]
           ELSE Len(m.stack) = top
=============================================================================
