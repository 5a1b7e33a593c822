--------------------------- MODULE Sharding_proofs --------------------------
(***************************************************************************)
(* Proofs about Sharding, for every program laid out as the compiler lays  *)
(* programs out (CodeAssumption), sharded on a global function             *)
(* (EntryAssumption), every number of shards and every depth of calls.     *)
(*                                                                         *)
(* ShardingInv is inductive.  MachineInv says of each machine that the     *)
(* frames of its call stack, and the one it executes, tile its stack, and  *)
(* that every suspended one waits at the LEAVE of the ENTER that suspended *)
(* it, so that what returns is what was called.  TracerInv says that a     *)
(* tracing machine has a row of everything it memoised and of what it is   *)
(* about to copy back: a memoised call has no row of its own, so the row   *)
(* must be that of the first call.  This is kept because the cache of a    *)
(* shard starts empty, and because the row of a RET is recorded before the *)
(* RET is executed.  PointsInv says that every checkpoint can be restored: *)
(* it names a function and has as many arguments as that function takes.   *)
(*                                                                         *)
(* After the invariants comes what a single step does, bytecode by         *)
(* bytecode, and that it does the same to machines that are Alike: at the  *)
(* same place, with the same cells above where each of them started.       *)
(* Replay_proofs rests on that.                                            *)
(***************************************************************************)
EXTENDS Sharding, NaturalRecursion, SequenceTheorems, TLAPS

-----------------------------------------------------------------------------
\* Sequences of values of any kind.

\* A sequence of whatever it is made of.
IsSeq(s) == s \in Seq(Range(s))

\* A function on the first n numbers is a sequence of n.
LEMMA SeqOfFunction ==
    ASSUME NEW s, NEW n \in Nat, s = [i \in 1..n |-> s[i]]
    PROVE  IsSeq(s) /\ Len(s) = n /\ DOMAIN s = 1..n
<1>1. s \in [1..n -> Range(s)]
  BY DEF Range
<1>2. s \in Seq(Range(s))
  BY <1>1, SeqDef, Zenon
<1>3. DOMAIN s = 1..n
  BY <1>1
<1>4. Len(s) = n
  BY <1>2, <1>3, SMT
<1> QED BY <1>2, <1>3, <1>4 DEF IsSeq

\* A sequence is a function on the first numbers.
LEMMA FunctionOfSeq ==
    ASSUME NEW s, IsSeq(s)
    PROVE  Len(s) \in Nat /\ DOMAIN s = 1..Len(s) /\ s = [i \in 1..Len(s) |-> s[i]]
<1>1. s \in Seq(Range(s))
  BY DEF IsSeq
<1>2. Len(s) \in Nat /\ DOMAIN s = 1..Len(s)
  BY <1>1, LenProperties
<1> QED BY <1>1, <1>2, SMT

\* One sequence after another.
LEMMA Concatenated ==
    ASSUME NEW s, NEW t, IsSeq(s), IsSeq(t)
    PROVE  /\ IsSeq(s \o t) /\ Len(s \o t) = Len(s) + Len(t)
           /\ \A i \in 1..Len(s) : (s \o t)[i] = s[i]
           /\ \A i \in 1..Len(t) : (s \o t)[Len(s) + i] = t[i]
<1> DEFINE S == Range(s) \cup Range(t)
<1>0. Len(s) \in Nat /\ Len(t) \in Nat /\ DOMAIN s = 1..Len(s) /\ DOMAIN t = 1..Len(t)
  BY FunctionOfSeq
<1>1. s \in Seq(S) /\ t \in Seq(S)
  <2>1. s \in [1..Len(s) -> S] /\ t \in [1..Len(t) -> S]
    BY <1>0, FunctionOfSeq DEF Range
  <2> QED BY <1>0, <2>1, SeqDef, Zenon
<1>2. s \o t \in Seq(S) /\ Len(s \o t) = Len(s) + Len(t)
  BY <1>1, ConcatProperties
<1>3. IsSeq(s \o t)
  BY <1>2, SeqOfRange, Zenon DEF IsSeq
<1>4. \A i \in 1..(Len(s) + Len(t)) : (s \o t)[i] = IF i <= Len(s) THEN s[i] ELSE t[i - Len(s)]
  BY <1>1, ConcatProperties
<1> QED BY <1>0, <1>2, <1>3, <1>4, SMT

\* A part of a sequence.
LEMMA Part ==
    ASSUME NEW s, IsSeq(s), NEW a \in Nat, NEW b \in Nat, a <= b, b <= Len(s)
    PROVE  /\ IsSeq(SubSeq(s, a + 1, b)) /\ Len(SubSeq(s, a + 1, b)) = b - a
           /\ \A i \in 1..(b - a) : SubSeq(s, a + 1, b)[i] = s[a + i]
<1>1. SubSeq(s, a + 1, b) = [i \in 1..(b - a) |-> s[a + i]]
  BY SMT
<1> DEFINE p == SubSeq(s, a + 1, b)
<1>2. p = [i \in 1..(b - a) |-> p[i]]
  BY <1>1
<1>3. b - a \in Nat
  BY SMT
<1> HIDE DEF p
<1>4. IsSeq(p) /\ Len(p) = b - a
  BY <1>2, <1>3, SeqOfFunction
<1> QED BY <1>1, <1>4 DEF p

\* The rest of a sequence after one cell of it has changed.
LEMMA OneCellChanged ==
    ASSUME NEW s, IsSeq(s), NEW k, NEW v
    PROVE  IsSeq([s EXCEPT ![k] = v]) /\ Len([s EXCEPT ![k] = v]) = Len(s)
<1> DEFINE t == [s EXCEPT ![k] = v]
<1>1. Len(s) \in Nat /\ DOMAIN s = 1..Len(s)
  BY FunctionOfSeq
<1>2. t = [i \in 1..Len(s) |-> t[i]]
  BY <1>1
<1> HIDE DEF t
<1>3. IsSeq(t) /\ Len(t) = Len(s)
  BY <1>1, <1>2, SeqOfFunction
<1> QED BY <1>3 DEF t

\* A sequence with an element appended.
LEMMA Appended ==
    ASSUME NEW s, NEW e, IsSeq(s)
    PROVE  /\ IsSeq(Append(s, e)) /\ Len(Append(s, e)) = Len(s) + 1
           /\ DOMAIN Append(s, e) = 1..(Len(s) + 1)
           /\ \A i \in 1..Len(s) : Append(s, e)[i] = s[i]
           /\ Append(s, e)[Len(s) + 1] = e
<1>1. Len(s) \in Nat /\ DOMAIN s = 1..Len(s)
  BY FunctionOfSeq
<1>2. s \in [1..Len(s) -> Range(s) \cup {e}]
  BY <1>1, FunctionOfSeq DEF Range
<1>3. s \in Seq(Range(s) \cup {e})
  BY <1>1, <1>2, SeqDef, Zenon
<1>4. /\ Append(s, e) \in Seq(Range(s) \cup {e}) /\ Len(Append(s, e)) = Len(s) + 1
      /\ \A i \in 1..Len(s) : Append(s, e)[i] = s[i]
      /\ Append(s, e)[Len(s) + 1] = e
  BY <1>3, AppendProperties
<1>5. IsSeq(Append(s, e))
  BY <1>4, SeqOfRange, Zenon DEF IsSeq
<1> QED BY <1>4, <1>5, FunctionOfSeq

\* Sequences with the same elements are the same.
LEMMA SameSeq ==
    ASSUME NEW s, NEW t, IsSeq(s), IsSeq(t), Len(s) = Len(t), \A i \in 1..Len(s) : s[i] = t[i]
    PROVE  s = t
<1>1. s = [i \in 1..Len(s) |-> s[i]] /\ t = [i \in 1..Len(t) |-> t[i]]
  BY FunctionOfSeq
<1>2. [i \in 1..Len(s) |-> s[i]] = [i \in 1..Len(t) |-> t[i]]
  OBVIOUS
<1> QED BY <1>1, <1>2

\* What lies on top of a sequence.
LEMMA TopPart ==
    ASSUME NEW s, NEW t, IsSeq(s), IsSeq(t), NEW k \in Nat, k <= Len(t)
    PROVE  SubSeq(s \o t, Len(s) + 1, Len(s) + k) = SubSeq(t, 1, k)
<1> DEFINE l == SubSeq(s \o t, Len(s) + 1, Len(s) + k)
           r == SubSeq(t, 0 + 1, k)
<1>1. Len(s) \in Nat /\ Len(t) \in Nat
  BY FunctionOfSeq
<1>2. IsSeq(s \o t) /\ Len(s \o t) = Len(s) + Len(t)
  BY Concatenated
<1>3. Len(s) <= Len(s) + k /\ Len(s) + k <= Len(s \o t) /\ Len(s) + k - Len(s) = k /\ Len(s) + k \in Nat
  BY <1>1, <1>2
<1>4. IsSeq(l) /\ Len(l) = k /\ \A i \in 1..k : l[i] = (s \o t)[Len(s) + i]
  <2> DEFINE u == s \o t
             n == Len(s)
             o == Len(s) + k
  <2>1. IsSeq(u) /\ n \in Nat /\ o \in Nat /\ n <= o /\ o <= Len(u) /\ o - n = k
    BY <1>1, <1>2, <1>3
  <2> HIDE DEF u, n, o
  <2>2. /\ IsSeq(SubSeq(u, n + 1, o)) /\ Len(SubSeq(u, n + 1, o)) = k
        /\ \A i \in 1..k : SubSeq(u, n + 1, o)[i] = u[n + i]
    BY <2>1, Part
  <2> QED BY <2>2 DEF u, n, o
<1>5. IsSeq(r) /\ Len(r) = k /\ \A i \in 1..k : r[i] = t[0 + i]
  <2> DEFINE z == 0
  <2>1. z \in Nat /\ z <= k /\ k - z = k
    OBVIOUS
  <2> HIDE DEF z
  <2>2. /\ IsSeq(SubSeq(t, z + 1, k)) /\ Len(SubSeq(t, z + 1, k)) = k
        /\ \A i \in 1..k : SubSeq(t, z + 1, k)[i] = t[z + i]
    BY <2>1, Part
  <2> QED BY <2>2 DEF z
<1>6. \A i \in 1..k : (s \o t)[Len(s) + i] = t[i]
  <2>1. \A i \in 1..Len(t) : (s \o t)[Len(s) + i] = t[i]
    BY Concatenated
  <2>2. \A i \in 1..k : i \in 1..Len(t)
    BY <1>1
  <2> QED BY <2>1, <2>2, Zenon
<1>7. \A i \in 1..k : l[i] = r[i]
  BY <1>4, <1>5, <1>6
<1> HIDE DEF l, r
<1>8. l = r
  BY <1>4, <1>5, <1>7, SameSeq
<1> QED BY <1>8 DEF l, r

\* A sequence starts with another.
LEMMA StartOf ==
    ASSUME NEW s, NEW t, IsSeq(s), IsSeq(t), Len(t) <= Len(s), \A i \in 1..Len(t) : s[i] = t[i]
    PROVE  SubSeq(s, 1, Len(t)) = t
<1> DEFINE l == SubSeq(s, 0 + 1, Len(t))
<1>1. Len(t) \in Nat
  BY FunctionOfSeq
<1>2. IsSeq(l) /\ Len(l) = Len(t) /\ \A i \in 1..Len(t) : l[i] = s[i]
  <2>1. Len(t) - 0 = Len(t) /\ 0 \in Nat /\ 0 <= Len(t)
    BY <1>1
  <2>2. IsSeq(l) /\ Len(l) = Len(t) - 0 /\ \A i \in 1..(Len(t) - 0) : l[i] = s[0 + i]
    BY <1>1, <2>1, Part
  <2>3. \A i \in 1..Len(t) : s[0 + i] = s[i]
    BY <1>1
  <2> HIDE DEF l
  <2> QED BY <2>1, <2>2, <2>3
<1> HIDE DEF l
<1>3. l = t
  BY <1>2, SameSeq
<1> QED BY <1>3 DEF l

-----------------------------------------------------------------------------
\* What holds of every machine.

MachineFields ==
    {"fid", "pc", "fp", "rp", "rw", "stack", "calls", "cache", "tracing", "status",
     "breakpointer", "mem", "log", "rows"}

\* Each function on the call stack is at the ENTER of the one above it, which
\* may meanwhile have been replaced by one that never returns.
IsCall(m, k) ==
    LET call == m.calls[k]
    IN  /\ call.fid \in Function /\ call.fp \in Nat /\ call.pc \in Nat
        /\ call.pc - 1 \in Body(call.fid) /\ Code[call.pc - 1].op = "enter"
        /\ FrameOf(m, k + 1).fid \in NoReturn \cup {Code[call.pc - 1].fun}

CacheTyped(m) ==
    \A key \in DOMAIN m.cache :
        /\ key = <<key[1], key[2]>> /\ key[1] \in Function
        /\ IsSeq(key[2]) /\ Len(key[2]) = NumInputs[key[1]]
        /\ IsSeq(m.cache[key]) /\ Len(m.cache[key]) = NumOutputs[key[1]]

MachineInv(m) ==
    /\ MachineFields \subseteq DOMAIN m
    /\ m.fid \in Function /\ m.pc \in Body(m.fid)
    /\ m.fp \in Nat /\ m.rp \in Nat /\ m.rw \in Nat
    /\ IsSeq(m.stack) /\ IsSeq(m.calls)
    /\ \A k \in 1..Len(m.calls) : IsCall(m, k)
    /\ CacheTyped(m)
    /\ FramesTile(m)

-----------------------------------------------------------------------------
\* Programs.

\* A function starts in its own body, and not at a LEAVE.
LEMMA EntryInBody ==
    ASSUME NEW f \in Function
    PROVE  /\ Entry[f] \in Body(f) /\ Code[Entry[f]].op # "leave"
           /\ Width[f] \in Nat /\ NumInputs[f] \in Nat /\ NumOutputs[f] \in Nat
           /\ NumInputs[f] + NumOutputs[f] <= Width[f]
<1>1. Entry[f] \in Nat
  BY ProgramAssumption, CodeAssumption
<1> QED BY <1>1, ProgramAssumption, CodeAssumption, SMT DEF Body

\* A bytecode of a function, what may follow it, and what it calls.
LEMMA BytecodeOf ==
    ASSUME NEW f \in Function, NEW pc \in Body(f)
    PROVE  /\ pc \in Nat /\ Code[pc].op \in Opcodes
           /\ Follow(pc) \subseteq Body(f)
           /\ \A next \in Follow(pc) : Code[next].op = "leave" <=> Code[pc].op = "enter"
           /\ Code[pc].op \in {"enter", "tail"} =>
                 Code[pc].fun \in Function /\ Len(Code[pc].args) = NumInputs[Code[pc].fun]
           /\ Code[pc].op = "ret" => f \notin NoReturn
BY CodeAssumption DEF Body

\* What is not a jump or the end of a function is followed by the next bytecode.
LEMMA NextBytecode ==
    ASSUME NEW pc, Code[pc].op \in Opcodes \ {"jmp", "ret", "tail", "done", "fail"}
    PROVE  pc + 1 \in Follow(pc)
BY DEF Opcodes, Follow

\* The target of a jump.
LEMMA JumpTarget ==
    ASSUME NEW pc, Code[pc].op \in {"jmp", "skipif"}
    PROVE  Code[pc].goto \in Follow(pc)
BY DEF Follow

\* The record of a call is as wide as the callee and starts with the arguments.
LEMMA FrameOfCall ==
    ASSUME NEW f \in Function, NEW args, IsSeq(args), Len(args) <= Width[f]
    PROVE  /\ IsSeq(NewFrame(f, args)) /\ Len(NewFrame(f, args)) = Width[f]
           /\ \A i \in 1..Len(args) : NewFrame(f, args)[i] = args[i]
<1> DEFINE n == Width[f] - Len(args)
           z == Zeroes(n)
<1>1. n \in Nat /\ Len(args) \in Nat
  BY EntryInBody, FunctionOfSeq, SMT
<1>2. z = [i \in 1..n |-> z[i]]
  BY DEF Zeroes
<1>3. IsSeq(z) /\ Len(z) = n
  BY <1>1, <1>2, SeqOfFunction
<1>4. NewFrame(f, args) = args \o z
  BY DEF NewFrame
<1> HIDE DEF z
<1>5. /\ IsSeq(args \o z) /\ Len(args \o z) = Len(args) + Len(z)
      /\ \A i \in 1..Len(args) : (args \o z)[i] = args[i]
  BY <1>3, Concatenated
<1>6. Len(args) + Len(z) = Width[f]
  BY <1>1, <1>3, EntryInBody
<1> QED BY <1>4, <1>5, <1>6

-----------------------------------------------------------------------------
\* Steps that stay in a frame.

\* The fields that executing a bytecode may change.
Changing == {"pc", "stack", "fid", "fp", "rp", "rw", "calls", "cache", "status", "mem", "log"}

KeepsRest(m, n) == DOMAIN n = DOMAIN m /\ \A x \in DOMAIN m \ Changing : n[x] = m[x]

\* The frames of two machines are in the same places.
SameFrames(m, n) ==
    /\ n.fid = m.fid /\ n.fp = m.fp /\ n.rp = m.rp /\ n.rw = m.rw
    /\ n.calls = m.calls /\ n.cache = m.cache
    /\ IsSeq(n.stack) /\ Len(n.stack) = Len(m.stack)

\* Nothing moves if the program counter does not.
LEMMA StaysPut ==
    ASSUME NEW m, NEW n, MachineInv(m), DOMAIN m \subseteq DOMAIN n, SameFrames(m, n), n.pc = m.pc
    PROVE  MachineInv(n)
<1>1. FrameOf(n, 1) = FrameOf(m, 1) /\ \A k : FrameOf(n, k) = FrameOf(m, k)
  BY DEF SameFrames, FrameOf
<1>2. FramesTile(n)
  BY <1>1 DEF MachineInv, SameFrames, FramesTile, Returning
<1> QED BY <1>1, <1>2 DEF MachineInv, SameFrames, IsCall, CacheTyped

\* The next bytecode of the same function is no LEAVE, unless this one is an
\* ENTER.
LEMMA MovesOn ==
    ASSUME NEW m, NEW n, MachineInv(m), DOMAIN m \subseteq DOMAIN n, SameFrames(m, n),
           Code[m.pc].op \notin {"enter", "leave"}, n.pc \in Follow(m.pc)
    PROVE  MachineInv(n) /\ ~Returning(n)
<1>1. FrameOf(n, 1) = FrameOf(m, 1) /\ \A k : FrameOf(n, k) = FrameOf(m, k)
  BY DEF SameFrames, FrameOf
<1>2. n.pc \in Body(m.fid) /\ Code[n.pc].op # "leave"
  BY BytecodeOf DEF MachineInv
<1>3. FramesTile(n)
  BY <1>1, <1>2 DEF MachineInv, SameFrames, FramesTile, Returning
<1> QED BY <1>1, <1>2, <1>3 DEF MachineInv, SameFrames, IsCall, CacheTyped, Returning

\* Writing a register changes one cell of the stack.
LEMMA RegisterWritten ==
    ASSUME NEW m, NEW r, NEW v, MachineFields \subseteq DOMAIN m, IsSeq(m.stack)
    PROVE  /\ DOMAIN SetRegister(m, r, v) = DOMAIN m
           /\ \A x \in DOMAIN m \ {"stack"} : SetRegister(m, r, v)[x] = m[x]
           /\ IsSeq(SetRegister(m, r, v).stack)
           /\ Len(SetRegister(m, r, v).stack) = Len(m.stack)
<1>1. SetRegister(m, r, v).stack = [m.stack EXCEPT ![m.fp + r + 1] = v]
  BY DEF SetRegister, MachineFields
<1>2. /\ DOMAIN SetRegister(m, r, v) = DOMAIN m
      /\ \A x \in DOMAIN m \ {"stack"} : SetRegister(m, r, v)[x] = m[x]
  BY DEF SetRegister, MachineFields
<1> DEFINE changed == [m.stack EXCEPT ![m.fp + r + 1] = v]
<1>3. IsSeq(changed) /\ Len(changed) = Len(m.stack)
  BY OneCellChanged
<1> HIDE DEF changed
<1>4. SetRegister(m, r, v).stack = changed
  BY <1>1 DEF changed
<1> QED BY <1>2, <1>3, <1>4, Zenon

\* An access of the read-write memory changes only that and its log.
LEMMA MemoryTouched ==
    ASSUME NEW m, NEW a, NEW v, NEW w, MachineFields \subseteq DOMAIN m
    PROVE  /\ DOMAIN Touch(m, a, v, w) = DOMAIN m
           /\ \A x \in DOMAIN m \ {"mem", "log"} : Touch(m, a, v, w)[x] = m[x]
BY DEF Touch, MachineFields

\* What a plain bytecode does: it stays where it is or goes to one that may
\* follow.
Plain == Opcodes \ {"enter", "leave", "ret", "tail"}

Steps(m, n) ==
    /\ KeepsRest(m, n) /\ SameFrames(m, n)
    /\ n.pc = m.pc \/ n.pc \in Follow(m.pc)

\* Going to another bytecode.
LEMMA Gone ==
    ASSUME NEW m, NEW n, NEW pc, MachineFields \subseteq DOMAIN m, KeepsRest(m, n), SameFrames(m, n),
           pc \in Follow(m.pc)
    PROVE  Steps(m, Goto(n, pc))
BY DEF Goto, KeepsRest, SameFrames, Steps, MachineFields, Changing

\* Failing where it is.
LEMMA FailedThere ==
    ASSUME NEW m, NEW n, MachineFields \subseteq DOMAIN m, KeepsRest(m, n), SameFrames(m, n),
           n.pc = m.pc
    PROVE  Steps(m, Failed(n))
<1>1. /\ DOMAIN Failed(n) = DOMAIN n
      /\ \A x \in DOMAIN n \ {"status"} : Failed(n)[x] = n[x]
  BY DEF Failed
<1> QED BY <1>1 DEF KeepsRest, SameFrames, Steps, MachineFields, Changing

\* Every plain bytecode is such a step.
LEMMA PlainStep ==
    ASSUME NEW m, MachineInv(m), Code[m.pc].op \in Plain
    PROVE  Steps(m, Dispatch(m))
<1> DEFINE i == Code[m.pc]
<1>0. MachineFields \subseteq DOMAIN m /\ IsSeq(m.stack) /\ KeepsRest(m, m) /\ SameFrames(m, m)
  BY DEF MachineInv, KeepsRest, SameFrames
<1>1. ASSUME i.op \in Plain \ {"jmp", "done", "fail"} PROVE m.pc + 1 \in Follow(m.pc)
  BY <1>1, NextBytecode DEF Plain
<1>2. ASSUME NEW r, NEW v
      PROVE  /\ KeepsRest(m, SetRegister(m, r, v)) /\ SameFrames(m, SetRegister(m, r, v))
             /\ SetRegister(m, r, v).pc = m.pc
  BY <1>0, RegisterWritten DEF KeepsRest, SameFrames, Changing, MachineFields
<1>3. CASE i.op = "add"
  <2> DEFINE next == SetRegister(m, i.target, (Register(m, i.source) + i.const) % Limit)
  <2>1. KeepsRest(m, next) /\ SameFrames(m, next) /\ next.pc = m.pc
    BY <1>2
  <2> HIDE DEF next
  <2>2. Steps(m, Skip1(next)) /\ Steps(m, Failed(next))
    BY <1>0, <1>1, <1>3, <2>1, Gone, FailedThere DEF Skip1, Plain, Opcodes
  <2>3. Dispatch(m) = Add(m, i)
    BY <1>3 DEF Dispatch
  <2> QED BY <2>2, <2>3 DEF Add, next
<1>4. CASE i.op = "skipif"
  <2>1. Steps(m, Skip1(m)) /\ Steps(m, Goto(m, i.goto))
    BY <1>0, <1>1, <1>4, JumpTarget, Gone DEF Skip1, Plain, Opcodes
  <2>2. Dispatch(m) = SkipIf(m, i)
    BY <1>4 DEF Dispatch
  <2> QED BY <2>1, <2>2 DEF SkipIf
<1>5. CASE i.op = "jmp"
  <2>1. Steps(m, Goto(m, i.goto))
    BY <1>0, <1>5, JumpTarget, Gone
  <2> QED BY <1>5, <2>1 DEF Dispatch
<1>6. CASE i.op = "rdrom"
  <2> DEFINE next == SetRegister(m, i.target, m.mem.rom[Register(m, i.address) + 1])
  <2>1. Steps(m, Skip1(next))
    BY <1>0, <1>1, <1>2, <1>6, Gone DEF Skip1, Plain, Opcodes
  <2>2. Steps(m, [m EXCEPT !.status = "panicked"])
    BY <1>0 DEF KeepsRest, SameFrames, Steps, MachineFields, Changing
  <2>3. Dispatch(m) = ReadRom(m, i)
    BY <1>6 DEF Dispatch
  <2> QED BY <2>1, <2>2, <2>3 DEF ReadRom
<1>7. CASE i.op = "wrwom"
  <2>1. ASSUME NEW wom PROVE Steps(m, Skip1([m EXCEPT !.mem.wom = wom]))
    <3> DEFINE next == [m EXCEPT !.mem.wom = wom]
    <3>1. KeepsRest(m, next) /\ SameFrames(m, next) /\ next.pc = m.pc
      BY <1>0 DEF KeepsRest, SameFrames, Changing, MachineFields
    <3> QED BY <1>0, <1>1, <1>7, <3>1, Gone DEF Skip1, Plain, Opcodes
  <2>2. Steps(m, Failed(m))
    BY <1>0, FailedThere
  <2>3. Dispatch(m) = WriteWom(m, i)
    BY <1>7 DEF Dispatch
  <2> QED BY <2>1, <2>2, <2>3 DEF WriteWom
<1>8. ASSUME NEW a, NEW v, NEW w
      PROVE  LET t == Touch(m, a, v, w)
             IN  /\ KeepsRest(m, t) /\ SameFrames(m, t) /\ t.pc = m.pc
                 /\ MachineFields \subseteq DOMAIN t /\ IsSeq(t.stack)
  BY <1>0, MemoryTouched DEF KeepsRest, SameFrames, Changing, MachineFields
<1>9. CASE i.op = "rdram"
  <2> DEFINE a == Register(m, i.address)
             v == m.mem.ram[a].value
             t == Touch(m, a, v, FALSE)
             next == SetRegister(t, i.target, v)
  <2>1. /\ KeepsRest(m, t) /\ SameFrames(m, t) /\ t.pc = m.pc
        /\ MachineFields \subseteq DOMAIN t /\ IsSeq(t.stack)
    BY <1>8
  <2> HIDE DEF t
  <2>2. KeepsRest(m, next) /\ SameFrames(m, next) /\ next.pc = m.pc
    <3>1. /\ DOMAIN next = DOMAIN t /\ \A x \in DOMAIN t \ {"stack"} : next[x] = t[x]
          /\ IsSeq(next.stack) /\ Len(next.stack) = Len(t.stack)
      BY <2>1, RegisterWritten
    <3> HIDE DEF next
    <3>2. \A x \in {"fid", "fp", "rp", "rw", "calls", "cache", "pc"} : next[x] = t[x]
      BY <2>1, <3>1 DEF MachineFields
    <3>3. KeepsRest(m, next)
      BY <2>1, <3>1 DEF KeepsRest, Changing
    <3> QED BY <2>1, <3>1, <3>2, <3>3 DEF SameFrames
  <2> HIDE DEF next
  <2>3. Steps(m, Skip1(next))
    BY <1>0, <1>1, <1>9, <2>2, Gone DEF Skip1, Plain, Opcodes
  <2>4. Dispatch(m) = ReadRam(m, i)
    BY <1>9 DEF Dispatch
  <2> QED BY <2>3, <2>4 DEF ReadRam, t, next
<1>10. CASE i.op = "wrram"
  <2>1. Steps(m, Skip1(Touch(m, Register(m, i.address), Register(m, i.source), TRUE)))
    BY <1>0, <1>1, <1>8, <1>10, Gone DEF Skip1, Plain, Opcodes
  <2> QED BY <1>10, <2>1 DEF Dispatch, WriteRam
<1>11. CASE i.op = "done"
  <2>1. Dispatch(m) = [m EXCEPT !.status = "done"]
    BY <1>11 DEF Dispatch
  <2> QED BY <1>0, <2>1 DEF KeepsRest, SameFrames, Steps, MachineFields, Changing
<1>12. CASE i.op = "fail"
  <2>1. Dispatch(m) = Failed(m)
    BY <1>12 DEF Dispatch
  <2> QED BY <1>0, <2>1, FailedThere
<1> QED BY <1>3, <1>4, <1>5, <1>6, <1>7, <1>9, <1>10, <1>11, <1>12 DEF Plain, Opcodes

-----------------------------------------------------------------------------
\* Steps between frames.

\* The executing frame is on top of the stack, unless a callee's record is.
LEMMA TopFrame ==
    ASSUME NEW m, MachineInv(m), Code[m.pc].op # "leave"
    PROVE  Len(m.stack) = m.fp + Width[m.fid]
BY DEF MachineInv, FramesTile, Returning

\* The arguments of a call.
LEMMA OperandsOfCall ==
    ASSUME NEW m, NEW f \in Function, NEW regs, Len(regs) = NumInputs[f]
    PROVE  /\ IsSeq(Operands(m, regs)) /\ Len(Operands(m, regs)) = NumInputs[f]
           /\ Len(Operands(m, regs)) <= Width[f]
<1> DEFINE args == Operands(m, regs)
<1>1. args = [i \in 1..NumInputs[f] |-> args[i]]
  BY DEF Operands
<1>2. NumInputs[f] \in Nat /\ NumInputs[f] <= Width[f]
  BY EntryInBody, SMT
<1> HIDE DEF args
<1>3. IsSeq(args) /\ Len(args) = NumInputs[f]
  BY <1>1, <1>2, SeqOfFunction
<1> QED BY <1>2, <1>3 DEF args

\* What is memoised of a call: its returns.
Answer(m, f, args) == m.cache[<<f, args>>]

\* The call whose returns are about to be copied.
CallReturned(m) ==
    LET f == Code[m.pc - 1].fun
    IN  Slice(m, m.rp - NumInputs[f], NumInputs[f] + NumOutputs[f])

\* A call that is answered from the cache.
LEMMA EnterCached ==
    ASSUME NEW m, MachineInv(m), Code[m.pc].op = "enter",
           Cached(m, Code[m.pc].fun, Operands(m, Code[m.pc].args))
    PROVE  LET n == Enter(m, Code[m.pc])
               f == Code[m.pc].fun
               args == Operands(m, Code[m.pc].args)
           IN  /\ KeepsRest(m, n) /\ MachineInv(n) /\ n.cache = m.cache
               /\ n.pc = m.pc + 1
               /\ CallReturned(n) = args \o Answer(m, f, args)
<1> DEFINE i == Code[m.pc]
           f == i.fun
           args == Operands(m, i.args)
           returns == Answer(m, f, args)
           record == NewFrame(f, args \o returns)
           n == Enter(m, i)
<1>1. /\ MachineFields \subseteq DOMAIN m /\ m.fid \in Function /\ m.pc \in Body(m.fid)
      /\ m.fp \in Nat /\ IsSeq(m.stack) /\ m.pc \in Nat
  BY BytecodeOf DEF MachineInv
<1>2. f \in Function /\ Len(i.args) = NumInputs[f]
  BY <1>1, BytecodeOf
<1>3. /\ NumInputs[f] \in Nat /\ NumOutputs[f] \in Nat /\ Width[f] \in Nat
      /\ NumInputs[f] + NumOutputs[f] <= Width[f] /\ Width[m.fid] \in Nat
  BY <1>1, <1>2, EntryInBody
<1>4. IsSeq(args) /\ Len(args) = NumInputs[f]
  BY <1>2, OperandsOfCall
<1>5. IsSeq(returns) /\ Len(returns) = NumOutputs[f]
  <2>1. <<f, args>> \in DOMAIN m.cache
    BY DEF Cached
  <2> QED BY <2>1 DEF MachineInv, CacheTyped, Answer
<1>6. IsSeq(args \o returns) /\ Len(args \o returns) = NumInputs[f] + NumOutputs[f]
  BY <1>4, <1>5, Concatenated
<1>7. /\ IsSeq(record) /\ Len(record) = Width[f]
      /\ \A j \in 1..Len(args \o returns) : record[j] = (args \o returns)[j]
  <2>1. Len(args \o returns) <= Width[f]
    BY <1>3, <1>6
  <2> HIDE DEF f, args, returns
  <2> QED BY <1>2, <1>6, <2>1, FrameOfCall
<1>8. Len(m.stack) = m.fp + Width[m.fid]
  BY TopFrame
<1>9. n = Skip1([[m EXCEPT !.stack = m.stack \o NewFrame(f, args)] EXCEPT
                     !.rp = Len(m.stack) + Len(args), !.rw = Width[f],
                     !.stack = m.stack \o record])
  BY DEF Enter, Answer
<1>10. /\ DOMAIN n = DOMAIN m /\ n.stack = m.stack \o record /\ n.pc = m.pc + 1
       /\ n.rp = Len(m.stack) + Len(args) /\ n.rw = Width[f]
       /\ \A x \in DOMAIN m \ {"stack", "rp", "rw", "pc"} : n[x] = m[x]
  <2> HIDE DEF n, record, args, f
  <2> QED BY <1>1, <1>9 DEF Skip1, Goto, MachineFields
<1> HIDE DEF n, record, returns
<1>11. n.fid = m.fid /\ n.fp = m.fp /\ n.calls = m.calls /\ n.cache = m.cache
  BY <1>1, <1>10 DEF MachineFields
<1>12. IsSeq(n.stack) /\ Len(n.stack) = Len(m.stack) + Width[f]
  <2> HIDE DEF f, args
  <2>1. IsSeq(m.stack \o record) /\ Len(m.stack \o record) = Len(m.stack) + Len(record)
    BY <1>1, <1>7, Concatenated
  <2> QED BY <1>7, <1>10, <2>1
<1>13. n.pc \in Follow(m.pc)
  BY <1>10, NextBytecode DEF Opcodes
<1>14. n.pc \in Body(m.fid) /\ Code[n.pc].op = "leave"
  BY <1>1, <1>13, BytecodeOf
<1>15. n.pc - 1 = m.pc
  BY <1>1, <1>10, SMT
<1>16. \A k : FrameOf(n, k) = FrameOf(m, k)
  BY <1>11 DEF FrameOf
<1>17. FramesTile(n)
  <2>1. /\ n.rw = Width[f] /\ Len(n.stack) = n.fp + Width[n.fid] + n.rw
        /\ n.rp = n.fp + Width[n.fid] + NumInputs[f]
    BY <1>1, <1>3, <1>4, <1>8, <1>10, <1>11, <1>12, SMT
  <2> QED BY <1>11, <1>14, <1>15, <1>16, <2>1 DEF FramesTile, Returning, MachineInv
<1>18. MachineInv(n)
  <2>1. n.rp \in Nat /\ n.rw \in Nat
    BY <1>1, <1>3, <1>4, <1>8, <1>10, SMT
  <2> QED BY <1>1, <1>10, <1>11, <1>12, <1>14, <1>16, <1>17, <2>1
             DEF MachineInv, IsCall, CacheTyped
<1>19. CallReturned(n) = args \o returns
  <2> DEFINE width == NumInputs[f] + NumOutputs[f]
  <2>1. n.rp - NumInputs[f] = Len(m.stack)
    <3>1. Len(m.stack) \in Nat
      BY <1>1, FunctionOfSeq
    <3> QED BY <1>3, <1>4, <1>10, <3>1
  <2>2. CallReturned(n) = SubSeq(m.stack \o record, Len(m.stack) + 1, Len(m.stack) + width)
    BY <1>10, <1>15, <2>1 DEF CallReturned, Slice
  <2>3. width \in Nat /\ width <= Len(record) /\ width = Len(args \o returns)
    BY <1>3, <1>6, <1>7
  <2> HIDE DEF width, f, args
  <2>4. CallReturned(n) = SubSeq(record, 1, width)
    BY <1>1, <1>7, <2>2, <2>3, TopPart
  <2>5. SubSeq(record, 1, width) = args \o returns
    BY <1>6, <1>7, <2>3, StartOf
  <2> QED BY <2>4, <2>5
<1> QED BY <1>10, <1>11, <1>18, <1>19 DEF KeepsRest, Changing, n, returns

\* A call that is executed.
LEMMA EnterCall ==
    ASSUME NEW m, MachineInv(m), Code[m.pc].op = "enter",
           ~Cached(m, Code[m.pc].fun, Operands(m, Code[m.pc].args))
    PROVE  LET n == Enter(m, Code[m.pc])
           IN  KeepsRest(m, n) /\ MachineInv(n) /\ n.cache = m.cache /\ ~Returning(n)
<1> DEFINE i == Code[m.pc]
           f == i.fun
           args == Operands(m, i.args)
           record == NewFrame(f, args)
           call == [fid |-> m.fid, fp |-> m.fp, pc |-> m.pc + 1]
           depth == Len(m.calls)
           n == Enter(m, i)
<1>1. /\ MachineFields \subseteq DOMAIN m /\ m.fid \in Function /\ m.pc \in Body(m.fid)
      /\ m.fp \in Nat /\ m.rp \in Nat /\ m.rw \in Nat /\ IsSeq(m.stack) /\ IsSeq(m.calls)
      /\ CacheTyped(m) /\ m.pc \in Nat /\ depth \in Nat /\ Len(m.stack) \in Nat
  BY BytecodeOf, FunctionOfSeq DEF MachineInv
<1>2. f \in Function /\ Len(i.args) = NumInputs[f]
  BY <1>1, BytecodeOf
<1>3. Width[f] \in Nat /\ Width[m.fid] \in Nat
  BY <1>1, <1>2, EntryInBody
<1>4. IsSeq(record) /\ Len(record) = Width[f]
  <2> HIDE DEF f, i
  <2>1. IsSeq(args) /\ Len(args) <= Width[f]
    BY <1>2, OperandsOfCall
  <2> HIDE DEF args
  <2> QED BY <1>2, <2>1, FrameOfCall
<1>5. Len(m.stack) = m.fp + Width[m.fid]
  BY TopFrame
<1>6. n = [[m EXCEPT !.stack = m.stack \o record] EXCEPT
               !.calls = Append(m.calls, call), !.fid = f, !.fp = Len(m.stack), !.pc = Entry[f]]
  BY DEF Enter
<1>7. /\ DOMAIN n = DOMAIN m /\ n.stack = m.stack \o record /\ n.pc = Entry[f]
      /\ n.calls = Append(m.calls, call) /\ n.fid = f /\ n.fp = Len(m.stack)
      /\ \A x \in DOMAIN m \ {"stack", "calls", "fid", "fp", "pc"} : n[x] = m[x]
  <2> HIDE DEF n, record, call, f
  <2> QED BY <1>1, <1>6 DEF MachineFields
<1>8. n.rp = m.rp /\ n.rw = m.rw /\ n.cache = m.cache
  <2> HIDE DEF n
  <2> QED BY <1>1, <1>7 DEF MachineFields
<1> HIDE DEF n, record, args
<1>9. IsSeq(n.stack) /\ Len(n.stack) = Len(m.stack) + Width[f]
  <2>1. IsSeq(m.stack \o record) /\ Len(m.stack \o record) = Len(m.stack) + Len(record)
    BY <1>1, <1>4, Concatenated
  <2> QED BY <1>4, <1>7, <2>1
<1>10. /\ IsSeq(n.calls) /\ Len(n.calls) = depth + 1
       /\ \A k \in 1..depth : n.calls[k] = m.calls[k]
       /\ n.calls[depth + 1] = call
  <2> HIDE DEF call
  <2> QED BY <1>1, <1>7, Appended
<1>11. n.pc \in Body(f) /\ Code[n.pc].op # "leave"
  BY <1>2, <1>7, EntryInBody
<1>12. \A k \in 1..(depth + 1) : FrameOf(n, k) = FrameOf(m, k)
  <2>1. ASSUME NEW k \in 1..depth PROVE FrameOf(n, k) = FrameOf(m, k)
    <3> HIDE DEF call
    <3>1. k # depth + 1 /\ k # depth + 2
      BY <1>1
    <3>2. FrameOf(n, k) = [fid |-> n.calls[k].fid, fp |-> n.calls[k].fp]
      BY <1>1, <1>10, <3>1 DEF FrameOf
    <3>3. FrameOf(m, k) = [fid |-> m.calls[k].fid, fp |-> m.calls[k].fp]
      BY <3>1 DEF FrameOf
    <3> QED BY <1>10, <3>2, <3>3
  <2>2. FrameOf(n, depth + 1) = FrameOf(m, depth + 1)
    <3>1. FrameOf(n, depth + 1) = [fid |-> n.calls[depth + 1].fid, fp |-> n.calls[depth + 1].fp]
      BY <1>1, <1>10 DEF FrameOf
    <3>2. FrameOf(m, depth + 1) = [fid |-> m.fid, fp |-> m.fp]
      BY DEF FrameOf
    <3> QED BY <1>10, <3>1, <3>2
  <2> QED BY <1>1, <2>1, <2>2
<1>13. FrameOf(n, depth + 2) = [fid |-> f, fp |-> Len(m.stack)]
  BY <1>1, <1>7, <1>10 DEF FrameOf
<1>14. ASSUME NEW k \in 1..(depth + 1) PROVE IsCall(n, k)
  <2>1. CASE k \in 1..depth
    <3>1. k + 1 \in 1..(depth + 1)
      BY <1>1, <2>1
    <3>2. FrameOf(n, k + 1) = FrameOf(m, k + 1) /\ n.calls[k] = m.calls[k] /\ IsCall(m, k)
      BY <1>10, <1>12, <2>1, <3>1 DEF MachineInv
    <3> QED BY <3>2 DEF IsCall
  <2>2. CASE k = depth + 1
    <3>1. call.pc - 1 = m.pc /\ k + 1 = depth + 2
      BY <1>1, <2>2
    <3>2. n.calls[k] = call /\ FrameOf(n, k + 1).fid = f
      BY <1>10, <1>13, <2>2, <3>1
    <3>3. /\ call.fid \in Function /\ call.fp \in Nat /\ call.pc \in Nat
          /\ call.pc - 1 \in Body(call.fid) /\ Code[call.pc - 1].op = "enter"
          /\ f \in NoReturn \cup {Code[call.pc - 1].fun}
      BY <1>1, <3>1
    <3> HIDE DEF call, f
    <3> QED BY <3>2, <3>3 DEF IsCall
  <2> QED BY <1>1, <2>1, <2>2
<1>15. FramesTile(n)
  <2>1. ASSUME NEW k \in 1..(depth + 1)
        PROVE FrameOf(n, k + 1).fp = FrameOf(n, k).fp + Width[FrameOf(n, k).fid]
    <3>1. CASE k \in 1..depth
      <4>1. k + 1 \in 1..(depth + 1) /\ k \in 1..((depth + 1) - 1)
        BY <1>1, <3>1
      <4>2. FrameOf(m, k + 1).fp = FrameOf(m, k).fp + Width[FrameOf(m, k).fid]
        BY <4>1 DEF MachineInv, FramesTile
      <4> QED BY <1>12, <4>1, <4>2
    <3>2. CASE k = depth + 1
      <4>1. FrameOf(m, depth + 1) = [fid |-> m.fid, fp |-> m.fp]
        BY DEF FrameOf
      <4>2. FrameOf(n, k) = FrameOf(m, depth + 1) /\ k + 1 = depth + 2
        BY <1>1, <1>12, <3>2
      <4> QED BY <1>5, <1>13, <4>1, <4>2
    <3> QED BY <1>1, <3>1, <3>2
  <2>2. FrameOf(n, 1).fp = 0
    BY <1>1, <1>12 DEF MachineInv, FramesTile
  <2>3. (Len(n.calls) + 1) - 1 = depth + 1
    BY <1>1, <1>10
  <2> QED BY <1>7, <1>9, <1>11, <2>1, <2>2, <2>3 DEF FramesTile, Returning
<1>16. MachineInv(n)
  BY <1>1, <1>2, <1>7, <1>8, <1>9, <1>10, <1>11, <1>14, <1>15 DEF MachineInv, CacheTyped
<1>17. KeepsRest(m, n)
  BY <1>7 DEF KeepsRest, Changing
<1> QED BY <1>8, <1>11, <1>16, <1>17 DEF Returning, n

\* The returns have been copied and the callee's record dropped.
LEMMA LeaveStep ==
    ASSUME NEW m, MachineInv(m), Code[m.pc].op = "leave"
    PROVE  LET n == Leave(m, Code[m.pc])
           IN  KeepsRest(m, n) /\ MachineInv(n) /\ n.cache = m.cache /\ ~Returning(n)
<1> DEFINE i == Code[m.pc]
           callee == Code[m.pc - 1].fun
           copied == Copied(m, i.rets)
           left == SubSeq(copied, 1, Len(m.stack) - m.rw)
           n == Leave(m, i)
<1>1. /\ MachineFields \subseteq DOMAIN m /\ m.fid \in Function /\ m.pc \in Body(m.fid)
      /\ m.fp \in Nat /\ m.rw \in Nat /\ Len(m.stack) \in Nat /\ m.pc \in Nat
      /\ Width[m.fid] \in Nat
  BY BytecodeOf, FunctionOfSeq, EntryInBody DEF MachineInv
<1>2. Len(m.stack) = m.fp + Width[m.fid] + m.rw
  BY DEF MachineInv, FramesTile, Returning
<1>3. IsSeq(copied) /\ Len(copied) = Len(m.stack)
  <2>1. copied = [r \in 1..Len(m.stack) |-> copied[r]]
    BY DEF Copied
  <2> HIDE DEF copied
  <2> QED BY <1>1, <2>1, SeqOfFunction
<1>4. n = Skip1([m EXCEPT !.stack = left])
  BY DEF Leave
<1>5. /\ DOMAIN n = DOMAIN m /\ n.stack = left /\ n.pc = m.pc + 1
      /\ \A x \in DOMAIN m \ {"stack", "pc"} : n[x] = m[x]
  <2> HIDE DEF n, left
  <2> QED BY <1>1, <1>4 DEF MachineFields, Skip1, Goto
<1>6. IsSeq(left) /\ Len(left) = m.fp + Width[m.fid]
  <2> DEFINE b == Len(m.stack) - m.rw
  <2> HIDE DEF copied
  <2>1. b \in Nat /\ 0 <= b /\ b <= Len(copied) /\ b - 0 = m.fp + Width[m.fid] /\ 0 + 1 = 1
    BY <1>1, <1>2, <1>3
  <2> HIDE DEF b
  <2>2. IsSeq(SubSeq(copied, 0 + 1, b)) /\ Len(SubSeq(copied, 0 + 1, b)) = b - 0
    BY <1>3, <2>1, Part
  <2> QED BY <2>1, <2>2 DEF b
<1> HIDE DEF n, left, copied
<1>7. /\ n.fid = m.fid /\ n.fp = m.fp /\ n.rp = m.rp /\ n.rw = m.rw
      /\ n.calls = m.calls /\ n.cache = m.cache
  BY <1>1, <1>5 DEF MachineFields
<1>8. n.pc \in Body(m.fid) /\ Code[n.pc].op # "leave"
  <2>1. n.pc \in Follow(m.pc)
    BY <1>5, NextBytecode DEF Opcodes
  <2> QED BY <1>1, <2>1, BytecodeOf
<1>9. \A k : FrameOf(n, k) = FrameOf(m, k)
  BY <1>7 DEF FrameOf
<1>10. FramesTile(n)
  BY <1>5, <1>6, <1>7, <1>8, <1>9 DEF FramesTile, Returning, MachineInv
<1>11. MachineInv(n)
  BY <1>1, <1>5, <1>6, <1>7, <1>8, <1>9, <1>10 DEF MachineInv, IsCall, CacheTyped
<1> QED BY <1>5, <1>7, <1>8, <1>11 DEF KeepsRest, Changing, Returning, n

\* A function that never returns takes the place of another.
LEMMA TailStep ==
    ASSUME NEW m, MachineInv(m), Code[m.pc].op = "tail"
    PROVE  LET n == TailCall(m, Code[m.pc])
           IN  KeepsRest(m, n) /\ MachineInv(n) /\ n.cache = m.cache /\ ~Returning(n)
<1> DEFINE i == Code[m.pc]
           f == i.fun
           args == Operands(m, i.args)
           record == NewFrame(f, args)
           below == SubSeq(m.stack, 1, m.fp)
           n == TailCall(m, i)
<1>1. /\ MachineFields \subseteq DOMAIN m /\ m.fid \in Function /\ m.pc \in Body(m.fid)
      /\ m.fp \in Nat /\ IsSeq(m.stack) /\ Len(m.stack) \in Nat /\ Width[m.fid] \in Nat
      /\ IsSeq(m.calls) /\ Len(m.calls) \in Nat
  BY FunctionOfSeq, EntryInBody DEF MachineInv
<1>2. f \in Function /\ Len(i.args) = NumInputs[f] /\ Width[f] \in Nat
  BY <1>1, BytecodeOf, EntryInBody
<1>3. IsSeq(record) /\ Len(record) = Width[f]
  <2> HIDE DEF f, i
  <2>1. IsSeq(args) /\ Len(args) <= Width[f]
    BY <1>2, OperandsOfCall
  <2> HIDE DEF args
  <2> QED BY <1>2, <2>1, FrameOfCall
<1>4. IsSeq(below) /\ Len(below) = m.fp
  <2>1. m.fp <= Len(m.stack) /\ 0 <= m.fp /\ 0 \in Nat /\ m.fp - 0 = m.fp /\ 0 + 1 = 1
    BY <1>1, TopFrame
  <2>2. IsSeq(SubSeq(m.stack, 0 + 1, m.fp)) /\ Len(SubSeq(m.stack, 0 + 1, m.fp)) = m.fp - 0
    BY <1>1, <2>1, Part
  <2> QED BY <2>1, <2>2
<1>5. n = [m EXCEPT !.stack = below \o record, !.fid = f, !.pc = Entry[f]]
  BY DEF TailCall
<1>6. /\ DOMAIN n = DOMAIN m /\ n.stack = below \o record /\ n.fid = f /\ n.pc = Entry[f]
      /\ \A x \in DOMAIN m \ {"stack", "fid", "pc"} : n[x] = m[x]
  <2> HIDE DEF n, below, record, f
  <2> QED BY <1>1, <1>5 DEF MachineFields
<1> HIDE DEF n, below, record, args
<1>7. IsSeq(n.stack) /\ Len(n.stack) = m.fp + Width[f]
  <2>1. IsSeq(below \o record) /\ Len(below \o record) = Len(below) + Len(record)
    BY <1>3, <1>4, Concatenated
  <2> QED BY <1>3, <1>4, <1>6, <2>1
<1>8. /\ n.fp = m.fp /\ n.rp = m.rp /\ n.rw = m.rw /\ n.calls = m.calls /\ n.cache = m.cache
  BY <1>1, <1>6 DEF MachineFields
<1>9. n.pc \in Body(f) /\ Code[n.pc].op # "leave"
  BY <1>2, <1>6, EntryInBody
<1>10. f \in NoReturn
  BY <1>1 DEF NoReturn, Body
<1>11. /\ \A k : FrameOf(n, k).fp = FrameOf(m, k).fp
       /\ \A k \in 1..Len(m.calls) : FrameOf(n, k) = FrameOf(m, k)
       /\ FrameOf(n, Len(m.calls) + 1).fid = f
  BY <1>1, <1>6, <1>8 DEF FrameOf
<1>12. ASSUME NEW k \in 1..Len(m.calls) PROVE IsCall(n, k)
  <2>1. n.calls[k] = m.calls[k] /\ IsCall(m, k)
    BY <1>8 DEF MachineInv
  <2>2. CASE k = Len(m.calls)
    BY <1>10, <1>11, <2>1, <2>2 DEF IsCall
  <2>3. CASE k < Len(m.calls)
    <3>1. k + 1 \in 1..Len(m.calls)
      BY <1>1, <2>3
    <3> QED BY <1>11, <2>1, <3>1 DEF IsCall
  <2> QED BY <1>1, <2>2, <2>3
<1>13. FramesTile(n)
  <2>1. \A k \in 1..((Len(m.calls) + 1) - 1) : k \in 1..Len(m.calls)
    BY <1>1
  <2> QED BY <1>6, <1>7, <1>8, <1>9, <1>11, <2>1 DEF FramesTile, Returning, MachineInv
<1>14. MachineInv(n)
  BY <1>1, <1>2, <1>6, <1>7, <1>8, <1>9, <1>12, <1>13 DEF MachineInv, CacheTyped
<1> QED BY <1>6, <1>8, <1>9, <1>14 DEF KeepsRest, Changing, Returning, n

\* The arguments and the returns of the executing call.
Executed(m) == Slice(m, m.fp, NumInputs[m.fid] + NumOutputs[m.fid])

\* A slice of a stack.
LEMMA SliceOf ==
    ASSUME NEW m, IsSeq(m.stack), NEW a \in Nat, NEW n \in Nat, a + n <= Len(m.stack)
    PROVE  /\ IsSeq(Slice(m, a, n)) /\ Len(Slice(m, a, n)) = n
           /\ \A i \in 1..n : Slice(m, a, n)[i] = m.stack[a + i]
<1> DEFINE b == a + n
<1>1. b \in Nat /\ a <= b /\ b <= Len(m.stack) /\ b - a = n
  OBVIOUS
<1>2. Slice(m, a, n) = SubSeq(m.stack, a + 1, b)
  BY DEF Slice
<1> HIDE DEF b
<1> QED BY <1>1, <1>2, Part

\* Two slices next to each other.
LEMMA SlicesMeet ==
    ASSUME NEW m, IsSeq(m.stack), NEW a \in Nat, NEW k \in Nat, NEW l \in Nat,
           a + k + l <= Len(m.stack)
    PROVE  Slice(m, a, k) \o Slice(m, a + k, l) = Slice(m, a, k + l)
<1> DEFINE lo == Slice(m, a, k)
           hi == Slice(m, a + k, l)
           both == Slice(m, a, k + l)
<1>0. Len(m.stack) \in Nat
  BY FunctionOfSeq
<1>1. a + k <= Len(m.stack) /\ a + k \in Nat /\ k + l \in Nat /\ a + (k + l) <= Len(m.stack)
  BY <1>0
<1>2. IsSeq(lo) /\ Len(lo) = k /\ \A i \in 1..k : lo[i] = m.stack[a + i]
  BY <1>1, SliceOf
<1>3. IsSeq(hi) /\ Len(hi) = l /\ \A i \in 1..l : hi[i] = m.stack[a + k + i]
  BY <1>1, SliceOf
<1>4. IsSeq(both) /\ Len(both) = k + l /\ \A i \in 1..(k + l) : both[i] = m.stack[a + i]
  BY <1>1, SliceOf
<1> HIDE DEF lo, hi, both
<1>5. /\ IsSeq(lo \o hi) /\ Len(lo \o hi) = k + l
      /\ \A i \in 1..k : (lo \o hi)[i] = lo[i]
      /\ \A i \in 1..l : (lo \o hi)[k + i] = hi[i]
  <2>1. /\ IsSeq(lo \o hi) /\ Len(lo \o hi) = Len(lo) + Len(hi)
        /\ \A i \in 1..Len(lo) : (lo \o hi)[i] = lo[i]
        /\ \A i \in 1..Len(hi) : (lo \o hi)[Len(lo) + i] = hi[i]
    <3>1. IsSeq(lo) /\ IsSeq(hi)
      BY <1>2, <1>3
    <3>2. IsSeq(lo \o hi) /\ Len(lo \o hi) = Len(lo) + Len(hi)
      BY <3>1, Concatenated
    <3>3. \A i \in 1..Len(lo) : (lo \o hi)[i] = lo[i]
      BY <3>1, Concatenated
    <3>4. \A i \in 1..Len(hi) : (lo \o hi)[Len(lo) + i] = hi[i]
      BY <3>1, Concatenated
    <3> QED BY <3>2, <3>3, <3>4
  <2> QED BY <1>2, <1>3, <2>1
<1>6. ASSUME NEW i \in 1..(k + l) PROVE (lo \o hi)[i] = both[i]
  <2>1. CASE i <= k
    <3>1. i \in 1..k
      BY <2>1
    <3> QED BY <1>2, <1>4, <1>5, <3>1
  <2>2. CASE i > k
    <3> DEFINE j == i - k
    <3>1. j \in 1..l /\ i = k + j /\ a + k + j = a + i
      BY <2>2
    <3> HIDE DEF j
    <3>2. (lo \o hi)[i] = hi[j] /\ hi[j] = m.stack[a + k + j]
      BY <1>3, <1>5, <3>1
    <3> QED BY <1>4, <3>1, <3>2
  <2>3. i <= k \/ i > k
    OBVIOUS
  <2> QED BY <2>1, <2>2, <2>3
<1> QED BY <1>4, <1>5, <1>6, SameSeq DEF lo, hi, both

\* What a return memoises is the call that was executed.
LEMMA RememberedCall ==
    ASSUME NEW m, MachineInv(m), Code[m.pc].op # "leave"
    PROVE  /\ \A key \in DOMAIN Remembered(m) :
                \/ key \in DOMAIN m.cache /\ Remembered(m)[key] = m.cache[key]
                \/ /\ key[1] = m.fid
                   /\ key[2] \o Remembered(m)[key] = Executed(m)
           /\ \A key \in DOMAIN Remembered(m) :
                /\ key = <<key[1], key[2]>> /\ key[1] \in Function
                /\ IsSeq(key[2]) /\ Len(key[2]) = NumInputs[key[1]]
                /\ IsSeq(Remembered(m)[key]) /\ Len(Remembered(m)[key]) = NumOutputs[key[1]]
<1> DEFINE f == m.fid
           args == Slice(m, m.fp, NumInputs[f])
           rets == Slice(m, m.fp + NumInputs[f], NumOutputs[f])
           call == <<f, args>>
           cache == Remembered(m)
<1>1. /\ f \in Function /\ m.fp \in Nat /\ IsSeq(m.stack) /\ Len(m.stack) \in Nat
      /\ NumInputs[f] \in Nat /\ NumOutputs[f] \in Nat /\ Width[f] \in Nat
      /\ NumInputs[f] + NumOutputs[f] <= Width[f] /\ Len(m.stack) = m.fp + Width[f]
  BY FunctionOfSeq, EntryInBody, TopFrame DEF MachineInv
<1>2. /\ m.fp + NumInputs[f] + NumOutputs[f] <= Len(m.stack) /\ m.fp + NumInputs[f] \in Nat
      /\ m.fp + NumInputs[f] <= Len(m.stack)
  BY <1>1
<1> HIDE DEF f
<1>3. IsSeq(args) /\ Len(args) = NumInputs[f] /\ IsSeq(rets) /\ Len(rets) = NumOutputs[f]
  BY <1>1, <1>2, SliceOf
<1>4. args \o rets = Executed(m)
  <2> DEFINE a == m.fp
             k == NumInputs[f]
             l == NumOutputs[f]
  <2>1. a \in Nat /\ k \in Nat /\ l \in Nat /\ a + k + l <= Len(m.stack)
    BY <1>1, <1>2
  <2> HIDE DEF a, k, l
  <2>2. Slice(m, a, k) \o Slice(m, a + k, l) = Slice(m, a, k + l)
    <3>1. IsSeq(m.stack)
      BY <1>1
    <3> QED BY <2>1, <3>1, SlicesMeet, Zenon
  <2> QED BY <2>2 DEF Executed, a, k, l, f
<1>5. \/ cache = m.cache
      \/ cache = [k \in DOMAIN m.cache \cup {call} |-> IF k = call THEN rets ELSE m.cache[k]]
  BY Zenon DEF Remembered, f
<1> HIDE DEF args, rets, cache
<1>6. ASSUME NEW key \in DOMAIN cache
      PROVE  \/ key \in DOMAIN m.cache /\ cache[key] = m.cache[key]
             \/ key = call /\ cache[key] = rets
  BY <1>5
<1>7. call[1] = f /\ call[2] = args /\ call = <<call[1], call[2]>>
  OBVIOUS
<1> HIDE DEF call
<1>8. ASSUME NEW key \in DOMAIN cache
      PROVE  \/ key \in DOMAIN m.cache /\ cache[key] = m.cache[key]
             \/ key[1] = f /\ key[2] \o cache[key] = Executed(m)
  BY <1>4, <1>6, <1>7
<1>9. ASSUME NEW key \in DOMAIN cache
      PROVE  /\ key = <<key[1], key[2]>> /\ key[1] \in Function
             /\ IsSeq(key[2]) /\ Len(key[2]) = NumInputs[key[1]]
             /\ IsSeq(cache[key]) /\ Len(cache[key]) = NumOutputs[key[1]]
  <2>1. CASE key \in DOMAIN m.cache /\ cache[key] = m.cache[key]
    BY <2>1 DEF MachineInv, CacheTyped
  <2>2. CASE key = call /\ cache[key] = rets
    BY <1>1, <1>3, <1>7, <2>2
  <2> QED BY <1>6, <2>1, <2>2
<1> QED BY <1>8, <1>9 DEF cache, f

\* A function returns to the LEAVE of its caller.
LEMMA ReturnStep ==
    ASSUME NEW m, MachineInv(m), Code[m.pc].op = "ret"
    PROVE  LET n == Return(m)
           IN  /\ KeepsRest(m, n) /\ MachineInv(n)
               /\ n.cache = m.cache \/ n.cache = Remembered(m)
               /\ Returning(n) => Code[n.pc - 1].fun = m.fid /\ CallReturned(n) = Executed(m)
<1> DEFINE n == Return(m)
           depth == Len(m.calls)
           caller == m.calls[depth]
           f == m.fid
<1>1. /\ MachineFields \subseteq DOMAIN m /\ f \in Function /\ m.pc \in Body(f)
      /\ m.fp \in Nat /\ IsSeq(m.stack) /\ IsSeq(m.calls) /\ depth \in Nat
      /\ NumInputs[f] \in Nat /\ NumOutputs[f] \in Nat /\ Width[f] \in Nat
      /\ Len(m.stack) = m.fp + Width[f]
  BY FunctionOfSeq, EntryInBody, TopFrame DEF MachineInv
<1>2. CASE m.calls = <<>>
  <2>1. n = [m EXCEPT !.status = "done"]
    BY <1>2 DEF Return
  <2>2. DOMAIN n = DOMAIN m /\ \A x \in DOMAIN m \ {"status"} : n[x] = m[x]
    BY <2>1
  <2> HIDE DEF n
  <2>3. /\ n.fid = m.fid /\ n.fp = m.fp /\ n.rp = m.rp /\ n.rw = m.rw /\ n.calls = m.calls
        /\ n.cache = m.cache /\ n.stack = m.stack /\ n.pc = m.pc
    BY <1>1, <2>2 DEF MachineFields
  <2>4. MachineInv(n)
    BY <1>1, <2>2, <2>3, StaysPut DEF SameFrames
  <2>5. KeepsRest(m, n) /\ ~Returning(n)
    BY <2>2, <2>3 DEF KeepsRest, Changing, Returning
  <2> QED BY <2>3, <2>4, <2>5 DEF n
<1>3. CASE m.calls # <<>>
  <2>1. depth \in 1..depth /\ depth - 1 \in Nat
    <3>1. depth # 0
      BY <1>1, <1>3, EmptySeq DEF IsSeq
    <3> QED BY <1>1, <3>1
  <2>2. /\ caller.fid \in Function /\ caller.fp \in Nat /\ caller.pc \in Nat
        /\ caller.pc - 1 \in Body(caller.fid)
        /\ Code[caller.pc - 1].op = "enter" /\ Code[caller.pc - 1].fun = f
    <3>1. IsCall(m, depth) /\ FrameOf(m, depth + 1).fid = f
      BY <2>1 DEF MachineInv, FrameOf
    <3>2. f \notin NoReturn
      BY <1>1, BytecodeOf
    <3> QED BY <3>1, <3>2 DEF IsCall
  <2>3. n = [m EXCEPT !.calls = SubSeq(m.calls, 1, depth - 1), !.cache = Remembered(m),
                      !.fid = caller.fid, !.fp = caller.fp, !.pc = caller.pc,
                      !.rp = m.fp + NumInputs[f], !.rw = Width[f]]
    BY <1>3 DEF Return
  <2>4. /\ DOMAIN n = DOMAIN m /\ n.calls = SubSeq(m.calls, 1, depth - 1)
        /\ n.cache = Remembered(m) /\ n.fid = caller.fid /\ n.fp = caller.fp
        /\ n.pc = caller.pc /\ n.rp = m.fp + NumInputs[f] /\ n.rw = Width[f]
        /\ \A x \in DOMAIN m \ {"calls", "cache", "fid", "fp", "pc", "rp", "rw"} : n[x] = m[x]
    <3> HIDE DEF n, caller, depth, f
    <3> QED BY <1>1, <2>3 DEF MachineFields
  <2>5. n.stack = m.stack
    <3> HIDE DEF n
    <3> QED BY <1>1, <2>4 DEF MachineFields
  <2> HIDE DEF n
  <2>6. /\ IsSeq(n.calls) /\ Len(n.calls) = depth - 1
        /\ \A k \in 1..(depth - 1) : n.calls[k] = m.calls[k]
    <3> DEFINE b == depth - 1
               calls == SubSeq(m.calls, 0 + 1, b)
    <3>1. b \in Nat /\ 0 <= b /\ b <= Len(m.calls) /\ 0 \in Nat /\ b - 0 = b /\ 0 + 1 = 1
      BY <1>1, <2>1
    <3>2. \A k \in 1..b : m.calls[0 + k] = m.calls[k]
      OBVIOUS
    <3> HIDE DEF b
    <3>3. IsSeq(calls) /\ Len(calls) = b - 0 /\ \A k \in 1..(b - 0) : calls[k] = m.calls[0 + k]
      BY <1>1, <3>1, Part
    <3>4. n.calls = calls
      BY <2>4, <3>1 DEF b
    <3> HIDE DEF calls
    <3> QED BY <3>1, <3>2, <3>3, <3>4 DEF b
  <2>7. \A k \in 1..depth : FrameOf(n, k) = FrameOf(m, k)
    <3>1. ASSUME NEW k \in 1..(depth - 1) PROVE FrameOf(n, k) = FrameOf(m, k)
      BY <1>1, <2>1, <2>6 DEF FrameOf
    <3>2. FrameOf(n, depth) = FrameOf(m, depth)
      BY <1>1, <2>1, <2>4, <2>6 DEF FrameOf
    <3> QED BY <2>1, <3>1, <3>2
  <2>8. n.pc \in Body(n.fid) /\ Code[n.pc].op = "leave" /\ n.pc - 1 + 1 = n.pc
    <3>1. caller.pc - 1 \in Nat
      BY <2>2, BytecodeOf
    <3>2. (caller.pc - 1) + 1 \in Follow(caller.pc - 1)
      BY <2>2, NextBytecode DEF Opcodes
    <3>3. (caller.pc - 1) + 1 = caller.pc
      BY <2>2
    <3>4. caller.pc \in Body(caller.fid) /\ Code[caller.pc].op = "leave"
      BY <2>2, <3>2, <3>3, BytecodeOf
    <3> QED BY <2>2, <2>4, <3>4
  <2>9. n.pc - 1 = caller.pc - 1 /\ Code[n.pc - 1].fun = f
    BY <2>2, <2>4
  <2>10. FramesTile(n)
    <3>1. \A k \in 1..((Len(n.calls) + 1) - 1) : k \in 1..((depth + 1) - 1) /\ k \in 1..depth /\ k + 1 \in 1..depth
      BY <1>1, <2>1, <2>6
    <3>2. \A k \in 1..((Len(n.calls) + 1) - 1) :
             FrameOf(n, k + 1).fp = FrameOf(n, k).fp + Width[FrameOf(n, k).fid]
      BY <2>7, <3>1 DEF MachineInv, FramesTile
    <3>3. FrameOf(n, 1).fp = 0
      BY <2>1, <2>7 DEF MachineInv, FramesTile
    <3>4. m.fp = n.fp + Width[n.fid]
      <4>1. FrameOf(m, depth + 1).fp = FrameOf(m, depth).fp + Width[FrameOf(m, depth).fid]
        <5>1. depth \in 1..((depth + 1) - 1)
          BY <2>1
        <5> QED BY <5>1 DEF MachineInv, FramesTile
      <4>2. FrameOf(m, depth + 1).fp = m.fp /\ FrameOf(m, depth) = [fid |-> n.fid, fp |-> n.fp]
        BY <2>1, <2>4 DEF FrameOf
      <4> QED BY <4>1, <4>2
    <3>5. n.rw = Width[f] /\ n.rp = n.fp + Width[n.fid] + NumInputs[f]
      BY <2>4, <3>4
    <3>6. Len(n.stack) = n.fp + Width[n.fid] + n.rw
      BY <1>1, <2>5, <3>4, <3>5
    <3> QED BY <2>8, <2>9, <3>2, <3>3, <3>5, <3>6 DEF FramesTile, Returning
  <2>11. ASSUME NEW k \in 1..Len(n.calls) PROVE IsCall(n, k)
    <3>1. k \in 1..depth /\ k + 1 \in 1..depth
      BY <1>1, <2>1, <2>6
    <3>2. n.calls[k] = m.calls[k] /\ FrameOf(n, k + 1) = FrameOf(m, k + 1) /\ IsCall(m, k)
      BY <2>6, <2>7, <3>1 DEF MachineInv
    <3> QED BY <3>2 DEF IsCall
  <2>12. MachineInv(n)
    <3>1. CacheTyped(n)
      BY <1>1, <2>4, RememberedCall DEF CacheTyped
    <3>2. n.fid \in Function /\ n.fp \in Nat /\ n.rp \in Nat /\ n.rw \in Nat
      BY <1>1, <2>2, <2>4
    <3> QED BY <1>1, <2>4, <2>5, <2>6, <2>8, <2>10, <2>11, <3>1, <3>2 DEF MachineInv
  <2>13. CallReturned(n) = Executed(m)
    <3>1. n.rp - NumInputs[f] = m.fp
      BY <1>1, <2>4
    <3> QED BY <2>5, <2>9, <3>1 DEF CallReturned, Executed, Slice
  <2>14. KeepsRest(m, n)
    BY <2>4 DEF KeepsRest, Changing
  <2> QED BY <2>4, <2>9, <2>12, <2>13, <2>14 DEF n
<1> QED BY <1>2, <1>3

\* Where the returns that are about to be copied may come from: what had been
\* memoised, or the call that has just returned.
LEMMA DispatchStep ==
    ASSUME NEW m, MachineInv(m)
    PROVE  LET n == Dispatch(m)
               f == Code[n.pc - 1].fun
           IN  /\ KeepsRest(m, n) /\ MachineInv(n)
               /\ \A key \in DOMAIN n.cache :
                    \/ key \in DOMAIN m.cache /\ n.cache[key] = m.cache[key]
                    \/ /\ Code[m.pc].op = "ret" /\ key[1] = m.fid
                       /\ key[2] \o n.cache[key] = Executed(m)
               /\ Returning(n) =>
                    \/ \E key \in DOMAIN m.cache :
                          key[1] = f /\ CallReturned(n) = key[2] \o m.cache[key]
                    \/ Code[m.pc].op = "ret" /\ f = m.fid /\ CallReturned(n) = Executed(m)
<1> DEFINE n == Dispatch(m)
           i == Code[m.pc]
<1>1. i.op \in Opcodes /\ m.pc \in Nat
  BY BytecodeOf DEF MachineInv
<1>2. CASE i.op \in Plain
  <2>1. KeepsRest(m, n) /\ SameFrames(m, n) /\ (n.pc = m.pc \/ n.pc \in Follow(m.pc))
    BY <1>2, PlainStep DEF Steps
  <2>2. i.op \notin {"enter", "leave"} /\ n.cache = m.cache /\ DOMAIN m \subseteq DOMAIN n
    BY <1>2, <2>1 DEF Plain, KeepsRest, SameFrames
  <2> HIDE DEF n
  <2>3. MachineInv(n) /\ ~Returning(n)
    <3>1. CASE n.pc = m.pc
      BY <2>1, <2>2, <3>1, StaysPut DEF Returning
    <3>2. CASE n.pc \in Follow(m.pc)
      BY <2>1, <2>2, <3>2, MovesOn
    <3> QED BY <2>1, <3>1, <3>2
  <2> QED BY <2>1, <2>2, <2>3 DEF n
<1>3. CASE i.op = "enter"
  <2> DEFINE args == Operands(m, i.args)
  <2>1. n = Enter(m, i)
    BY <1>3 DEF Dispatch
  <2>2. CASE Cached(m, i.fun, args)
    <3> DEFINE key == <<i.fun, args>>
    <3>1. /\ KeepsRest(m, n) /\ MachineInv(n) /\ n.cache = m.cache /\ n.pc = m.pc + 1
          /\ CallReturned(n) = args \o Answer(m, i.fun, args)
      BY <1>3, <2>1, <2>2, EnterCached
    <3>2. key \in DOMAIN m.cache /\ key[1] = i.fun /\ key[2] = args
      BY <2>2 DEF Cached
    <3>3. CallReturned(n) = key[2] \o m.cache[key]
      BY <3>1, <3>2 DEF Answer
    <3>4. n.pc - 1 = m.pc
      BY <1>1, <3>1
    <3> HIDE DEF n, key
    <3> QED BY <3>1, <3>2, <3>3, <3>4 DEF n
  <2>3. CASE ~Cached(m, i.fun, args)
    <3>1. KeepsRest(m, n) /\ MachineInv(n) /\ n.cache = m.cache /\ ~Returning(n)
      BY <1>3, <2>1, <2>3, EnterCall
    <3> HIDE DEF n
    <3> QED BY <3>1 DEF n
  <2> QED BY <2>2, <2>3
<1>4. CASE i.op = "leave"
  <2>1. n = Leave(m, i)
    BY <1>4 DEF Dispatch
  <2>2. KeepsRest(m, n) /\ MachineInv(n) /\ n.cache = m.cache /\ ~Returning(n)
    BY <1>4, <2>1, LeaveStep
  <2> HIDE DEF n
  <2> QED BY <2>2 DEF n
<1>5. CASE i.op = "tail"
  <2>1. n = TailCall(m, i)
    BY <1>5 DEF Dispatch
  <2>2. KeepsRest(m, n) /\ MachineInv(n) /\ n.cache = m.cache /\ ~Returning(n)
    BY <1>5, <2>1, TailStep
  <2> HIDE DEF n
  <2> QED BY <2>2 DEF n
<1>6. CASE i.op = "ret"
  <2>1. n = Return(m)
    BY <1>6 DEF Dispatch
  <2>2. /\ KeepsRest(m, n) /\ MachineInv(n)
        /\ n.cache = m.cache \/ n.cache = Remembered(m)
        /\ Returning(n) => Code[n.pc - 1].fun = m.fid /\ CallReturned(n) = Executed(m)
    BY <1>6, <2>1, ReturnStep
  <2> HIDE DEF n
  <2>3. ASSUME NEW key \in DOMAIN n.cache
        PROVE  \/ key \in DOMAIN m.cache /\ n.cache[key] = m.cache[key]
               \/ key[1] = m.fid /\ key[2] \o n.cache[key] = Executed(m)
    <3>1. CASE n.cache = m.cache
      BY <3>1
    <3>2. CASE n.cache = Remembered(m)
      BY <1>6, <3>2, RememberedCall
    <3> QED BY <2>2, <3>1, <3>2
  <2> QED BY <1>6, <2>2, <2>3 DEF n
<1> QED BY <1>1, <1>2, <1>3, <1>4, <1>5, <1>6 DEF Plain

-----------------------------------------------------------------------------
\* Tracing machines.

\* Is there a row in which a call ends?
HasRow(m, f, call) ==
    \E j \in DOMAIN m.rows :
        /\ m.rows[j].fid = f /\ m.rows[j].terminal
        /\ SubSeq(m.rows[j].frame, 1, NumInputs[f] + NumOutputs[f]) = call

\* What is memoised, and what is about to be returned, has its row.
TracerInv(m) ==
    /\ m.breakpointer \in {"record", "shard"}
    /\ m.breakpointer = "shard" => "count" \in DOMAIN m
    /\ IsSeq(m.rows)
    /\ \A key \in DOMAIN m.cache : HasRow(m, key[1], key[2] \o m.cache[key])
    /\ Returning(m) => HasRow(m, Code[m.pc - 1].fun, CallReturned(m))

\* Rows are never taken away.
LEMMA RowsRemain ==
    ASSUME NEW m, NEW n, IsSeq(m.rows), NEW row, n.rows = m.rows \/ n.rows = Append(m.rows, row),
           NEW f, NEW call, HasRow(m, f, call)
    PROVE  HasRow(n, f, call)
<1>1. PICK j \in DOMAIN m.rows : /\ m.rows[j].fid = f /\ m.rows[j].terminal
                                 /\ SubSeq(m.rows[j].frame, 1, NumInputs[f] + NumOutputs[f]) = call
  BY DEF HasRow
<1>2. CASE n.rows = m.rows
  BY <1>1, <1>2 DEF HasRow
<1>3. CASE n.rows = Append(m.rows, row)
  <2>1. j \in 1..Len(m.rows) /\ Len(m.rows) \in Nat
    BY <1>1, FunctionOfSeq
  <2>2. n.rows[j] = m.rows[j]
    BY <1>3, <2>1, Appended
  <2>3. j \in DOMAIN n.rows
    <3>1. DOMAIN n.rows = 1..(Len(m.rows) + 1)
      BY <1>3, Appended
    <3> QED BY <2>1, <3>1
  <2> QED BY <1>1, <2>2, <2>3 DEF HasRow
<1> QED BY <1>2, <1>3

\* A machine that is handled by a breakpoint stays where it is.
Handled(m, n) ==
    /\ DOMAIN n = DOMAIN m
    /\ \A x \in DOMAIN m \ {"rows", "count", "status", "points"} : n[x] = m[x]

\* A machine stays sound when a breakpoint is handled.
LEMMA HandledFrames ==
    ASSUME NEW m, NEW n, MachineInv(m), Handled(m, n)
    PROVE  /\ MachineInv(n) /\ SameFrames(m, n)
           /\ n.pc = m.pc /\ n.stack = m.stack /\ n.breakpointer = m.breakpointer
<1>1. /\ n.fid = m.fid /\ n.fp = m.fp /\ n.rp = m.rp /\ n.rw = m.rw /\ n.calls = m.calls
      /\ n.cache = m.cache /\ n.stack = m.stack /\ n.pc = m.pc
      /\ n.breakpointer = m.breakpointer
  BY DEF MachineInv, MachineFields, Handled
<1>2. SameFrames(m, n)
  BY <1>1 DEF SameFrames, MachineInv
<1> QED BY <1>1, <1>2, StaysPut DEF Handled

\* The invariant of a tracing machine that gets at most a row more.
LEMMA TracerHandled ==
    ASSUME NEW m, NEW n, NEW row, MachineInv(m), TracerInv(m), Handled(m, n),
           n.rows = m.rows \/ n.rows = Append(m.rows, row)
    PROVE  TracerInv(n)
<1>1. /\ SameFrames(m, n) /\ n.pc = m.pc /\ n.stack = m.stack /\ n.breakpointer = m.breakpointer
  BY HandledFrames
<1>2. IsSeq(m.rows) /\ IsSeq(n.rows)
  <2>1. IsSeq(m.rows)
    BY DEF TracerInv
  <2>2. IsSeq(Append(m.rows, row))
    BY <2>1, Appended
  <2> QED BY <2>1, <2>2
<1>3. \A key \in DOMAIN n.cache : HasRow(n, key[1], key[2] \o n.cache[key])
  BY <1>1, <1>2, RowsRemain DEF TracerInv, SameFrames
<1>4. Returning(n) => HasRow(n, Code[n.pc - 1].fun, CallReturned(n))
  <2>1. ASSUME Returning(n) PROVE HasRow(n, Code[n.pc - 1].fun, CallReturned(n))
    <3>1. HasRow(m, Code[m.pc - 1].fun, CallReturned(m))
      BY <1>1, <2>1 DEF TracerInv, Returning
    <3>2. CallReturned(n) = CallReturned(m)
      BY <1>1 DEF CallReturned, Slice, SameFrames
    <3> QED BY <1>1, <1>2, <3>1, <3>2, RowsRemain
  <2> QED BY <2>1
<1> QED BY <1>1, <1>2, <1>3, <1>4 DEF TracerInv, Handled

\* A row holds the frame it was recorded in, at a return the call that ends.
LEMMA RowRecorded ==
    ASSUME NEW m, MachineInv(m), IsSeq(m.rows), NEW opcode
    PROVE  LET n == RecordRow(m, opcode)
           IN  /\ Handled(m, n) /\ n.status = m.status
               /\ \E row : n.rows = Append(m.rows, row)
               /\ opcode \in FrameTerminals /\ Code[m.pc].op # "leave"
                     => HasRow(n, m.fid, Executed(m))
<1> DEFINE row == [fid |-> m.fid, pc |-> m.pc, frame |-> Frame(m),
                   terminal |-> opcode \in FrameTerminals]
           n == RecordRow(m, opcode)
           f == m.fid
<1>1. n = [m EXCEPT !.rows = Append(m.rows, row)]
  BY DEF RecordRow
<1>2. MachineFields \subseteq DOMAIN m
  BY DEF MachineInv
<1>3. /\ DOMAIN n = DOMAIN m /\ n.rows = Append(m.rows, row)
      /\ \A x \in DOMAIN m \ {"rows"} : n[x] = m[x]
  <2> HIDE DEF n, row
  <2> QED BY <1>1, <1>2 DEF MachineFields
<1> HIDE DEF n
<1>4. Handled(m, n) /\ n.status = m.status
  BY <1>2, <1>3 DEF Handled, MachineFields
<1>5. ASSUME opcode \in FrameTerminals, Code[m.pc].op # "leave"
      PROVE  HasRow(n, f, Executed(m))
  <2> DEFINE j == Len(m.rows) + 1
             width == NumInputs[f] + NumOutputs[f]
  <2>1. n.rows[j] = row /\ j \in DOMAIN n.rows
    <3>1. Len(m.rows) \in Nat
      BY FunctionOfSeq
    <3> HIDE DEF row
    <3> QED BY <1>3, <3>1, Appended
  <2>2. row.fid = f /\ row.terminal /\ row.frame = Frame(m)
    BY <1>5
  <2>3. SubSeq(Frame(m), 1, width) = Executed(m)
    <3>1. /\ m.fp \in Nat /\ IsSeq(m.stack) /\ Len(m.stack) \in Nat /\ width \in Nat
          /\ Len(m.stack) = m.fp + Width[f] /\ width <= Width[f] /\ Width[f] \in Nat
      <4>1. f \in Function /\ m.fp \in Nat /\ IsSeq(m.stack)
        BY DEF MachineInv
      <4>2. Len(m.stack) \in Nat
        BY <4>1, FunctionOfSeq
      <4>3. /\ Width[f] \in Nat /\ NumInputs[f] \in Nat /\ NumOutputs[f] \in Nat
            /\ NumInputs[f] + NumOutputs[f] <= Width[f]
        BY <4>1, EntryInBody
      <4>4. Len(m.stack) = m.fp + Width[f]
        BY <1>5, TopFrame
      <4> QED BY <4>1, <4>2, <4>3, <4>4
    <3> DEFINE a == m.fp
               b == Len(m.stack)
               call == Slice(m, a, width)
               frame == SubSeq(m.stack, a + 1, b)
    <3>2. a \in Nat /\ b \in Nat /\ a <= b /\ b <= Len(m.stack) /\ a + width <= b
          /\ width <= b - a /\ width \in Nat
      BY <3>1
    <3> HIDE DEF a, b, width
    <3>3. IsSeq(frame) /\ Len(frame) = b - a /\ \A i \in 1..(b - a) : frame[i] = m.stack[a + i]
      BY <3>1, <3>2, Part
    <3>4. IsSeq(call) /\ Len(call) = width /\ \A i \in 1..width : call[i] = m.stack[a + i]
      BY <3>1, <3>2, SliceOf DEF b
    <3>5. \A i \in 1..width : i \in 1..(b - a)
      BY <3>1, <3>2
    <3> HIDE DEF frame, call
    <3>6. Len(call) <= Len(frame) /\ \A i \in 1..Len(call) : frame[i] = call[i]
      <4>1. Len(call) <= Len(frame)
        BY <3>2, <3>3, <3>4
      <4>2. \A i \in 1..width : frame[i] = call[i]
        BY <3>3, <3>4, <3>5
      <4> QED BY <3>4, <4>1, <4>2
    <3>7. SubSeq(frame, 1, width) = call
      <4>1. SubSeq(frame, 1, Len(call)) = call
        BY <3>3, <3>4, <3>6, StartOf
      <4> QED BY <3>4, <4>1
    <3> QED BY <3>7 DEF Frame, Executed, frame, call, a, b, width
  <2> HIDE DEF row, j
  <2> QED BY <2>1, <2>2, <2>3 DEF HasRow
<1> QED BY <1>3, <1>4, <1>5 DEF n

\* A tick of the counter.
LEMMA Ticked ==
    ASSUME NEW m, "count" \in DOMAIN m
    PROVE  /\ DOMAIN Tick(m) = DOMAIN m
           /\ \A x \in DOMAIN m \ {"count"} : Tick(m)[x] = m[x]
BY DEF Tick

\* Whatever handles it, a tracing machine is where it was, with at most a row
\* more; at a return there is that of the call that ends, since a return is no
\* entry of the shard function.
LEMMA TracerHandles ==
    ASSUME NEW m, MachineInv(m), TracerInv(m), NEW opcode
    PROVE  LET n == Handle(m, opcode)
           IN  /\ Handled(m, n) /\ MachineInv(n) /\ TracerInv(n)
               /\ opcode = "ret" /\ opcode = Code[m.pc].op => HasRow(n, m.fid, Executed(m))
<1> DEFINE n == Handle(m, opcode)
<1>1. MachineFields \subseteq DOMAIN m /\ IsSeq(m.rows)
  BY DEF MachineInv, TracerInv
<1>2. SUFFICES Handled(m, n) /\ (\E row : n.rows = m.rows \/ n.rows = Append(m.rows, row))
               /\ (opcode = "ret" /\ opcode = Code[m.pc].op => HasRow(n, m.fid, Executed(m)))
  BY <1>2, HandledFrames, TracerHandled
<1>3. ASSUME n = RecordRow(m, opcode)
      PROVE  /\ Handled(m, n) /\ (\E row : n.rows = m.rows \/ n.rows = Append(m.rows, row))
             /\ (opcode = "ret" /\ opcode = Code[m.pc].op => HasRow(n, m.fid, Executed(m)))
  <2> HIDE DEF n
  <2>1. opcode = "ret" /\ opcode = Code[m.pc].op => opcode \in FrameTerminals /\ Code[m.pc].op # "leave"
    BY DEF FrameTerminals
  <2> QED BY <1>1, <1>3, <2>1, RowRecorded
<1>4. CASE m.breakpointer = "record"
  <2>1. n = RecordRow(m, opcode)
    BY <1>4 DEF Handle
  <2> QED BY <1>3, <2>1
<1>5. CASE m.breakpointer = "shard"
  <2>1. n = ShardTracer(m, opcode)
    BY <1>5 DEF Handle
  <2>2. CASE m.pc # EntryPoint
    BY <1>3, <2>1, <2>2 DEF ShardTracer
  <2>3. CASE m.pc = EntryPoint
    <3>1. n = [Tick(m) EXCEPT !.status = "stopped"] \/ n = Tick(m)
      BY <2>1, <2>3 DEF ShardTracer
    <3>2. "count" \in DOMAIN m
      BY <1>5 DEF TracerInv
    <3> DEFINE t == Tick(m)
    <3>3. DOMAIN t = DOMAIN m /\ \A x \in DOMAIN m \ {"count"} : t[x] = m[x]
      BY <3>2, Ticked
    <3> HIDE DEF n, t
    <3>4. DOMAIN n = DOMAIN m /\ \A x \in DOMAIN m \ {"count", "status"} : n[x] = m[x]
      <4>1. n = [t EXCEPT !.status = "stopped"] \/ n = t
        BY <3>1 DEF t
      <4> QED BY <3>3, <4>1
    <3>5. Handled(m, n) /\ n.rows = m.rows
      BY <1>1, <3>4 DEF Handled, MachineFields
    <3>6. ~(opcode = "ret" /\ opcode = Code[m.pc].op)
      <4>1. EntryPoint \in Body(ShardFun)
        BY ShardAssumption, EntryInBody DEF EntryPoint
      <4> QED BY <2>3, <4>1, EntryAssumption
    <3> QED BY <3>5, <3>6
  <2> QED BY <2>2, <2>3
<1> QED BY <1>4, <1>5 DEF TracerInv

\* The status of a machine matters to no part of the invariants.
LEMMA StatusChanged ==
    ASSUME NEW m, NEW status, MachineInv(m)
    PROVE  LET n == [m EXCEPT !.status = status]
           IN  /\ Handled(m, n) /\ MachineInv(n) /\ n.rows = m.rows
               /\ "points" \in DOMAIN m => n.points = m.points
<1> DEFINE n == [m EXCEPT !.status = status]
<1>1. DOMAIN n = DOMAIN m /\ \A x \in DOMAIN m \ {"status"} : n[x] = m[x]
  OBVIOUS
<1> HIDE DEF n
<1>2. Handled(m, n) /\ n.rows = m.rows /\ ("points" \in DOMAIN m => n.points = m.points)
  BY <1>1 DEF Handled, MachineInv, MachineFields
<1> QED BY <1>2, HandledFrames DEF n

\* Executing a bytecode backs what it memoises and what it returns.
LEMMA TracerDispatches ==
    ASSUME NEW m, MachineInv(m), TracerInv(m),
           Code[m.pc].op = "ret" => HasRow(m, m.fid, Executed(m))
    PROVE  LET n == Dispatch(m)
           IN  MachineInv(n) /\ TracerInv(n) /\ n.breakpointer = m.breakpointer
<1> DEFINE n == Dispatch(m)
<1>1. /\ KeepsRest(m, n) /\ MachineInv(n)
      /\ \A key \in DOMAIN n.cache :
           \/ key \in DOMAIN m.cache /\ n.cache[key] = m.cache[key]
           \/ /\ Code[m.pc].op = "ret" /\ key[1] = m.fid
              /\ key[2] \o n.cache[key] = Executed(m)
      /\ Returning(n) =>
           \/ \E key \in DOMAIN m.cache :
                 key[1] = Code[n.pc - 1].fun /\ CallReturned(n) = key[2] \o m.cache[key]
           \/ /\ Code[m.pc].op = "ret" /\ Code[n.pc - 1].fun = m.fid
              /\ CallReturned(n) = Executed(m)
  BY DispatchStep
<1> HIDE DEF n
<1>2. n.rows = m.rows /\ n.breakpointer = m.breakpointer /\ DOMAIN n = DOMAIN m
  BY <1>1 DEF KeepsRest, Changing, MachineInv, MachineFields
<1>3. \A f, call : HasRow(m, f, call) => HasRow(n, f, call)
  BY <1>2 DEF HasRow
<1>4. \A key \in DOMAIN n.cache : HasRow(n, key[1], key[2] \o n.cache[key])
  <2>1. ASSUME NEW key \in DOMAIN n.cache PROVE HasRow(m, key[1], key[2] \o n.cache[key])
    BY <1>1 DEF TracerInv
  <2> QED BY <1>3, <2>1
<1>5. Returning(n) => HasRow(n, Code[n.pc - 1].fun, CallReturned(n))
  <2>1. ASSUME Returning(n) PROVE HasRow(m, Code[n.pc - 1].fun, CallReturned(n))
    BY <1>1, <2>1 DEF TracerInv
  <2> QED BY <1>3, <2>1
<1> QED BY <1>1, <1>2, <1>4, <1>5 DEF TracerInv, n

\* A tracing machine goes on as one.
LEMMA TracerExecutes ==
    ASSUME NEW m, MachineInv(m), TracerInv(m)
    PROVE  LET n == Execute(m)
           IN  MachineInv(n) /\ TracerInv(n) /\ n.breakpointer = m.breakpointer
<1> DEFINE opcode == Code[m.pc].op
           seen == IF m.pc \in Breakpoints(m) THEN Handle(m, opcode) ELSE m
           next == Dispatch(seen)
           failed == [Handle(next, "none") EXCEPT !.status = "failed"]
           n == Execute(m)
<1>1. /\ MachineInv(seen) /\ TracerInv(seen) /\ seen.pc = m.pc
      /\ seen.breakpointer = m.breakpointer
      /\ Code[seen.pc].op = "ret" => HasRow(seen, seen.fid, Executed(seen))
  <2>1. CASE m.pc \in Breakpoints(m)
    <3> DEFINE h == Handle(m, opcode)
    <3>1. /\ Handled(m, h) /\ MachineInv(h) /\ TracerInv(h)
          /\ opcode = "ret" => HasRow(h, m.fid, Executed(m))
      BY TracerHandles
    <3> HIDE DEF h
    <3>2. /\ SameFrames(m, h) /\ h.pc = m.pc /\ h.stack = m.stack
          /\ h.breakpointer = m.breakpointer
      BY <3>1, HandledFrames
    <3>3. h.fid = m.fid /\ Executed(h) = Executed(m)
      BY <3>2 DEF SameFrames, Executed, Slice
    <3>4. seen = h
      BY <2>1 DEF h
    <3> HIDE DEF seen
    <3> QED BY <3>1, <3>2, <3>3, <3>4
  <2>2. CASE m.pc \notin Breakpoints(m)
    <3>1. m.pc \in DOMAIN Code
      BY DEF MachineInv, Body
    <3>2. Code[m.pc].op # "ret"
      BY <2>2, <3>1 DEF TracerInv, Breakpoints, TracePoints, VectorTerminals
    <3> QED BY <2>2, <3>2
  <2> QED BY <2>1, <2>2
<1> HIDE DEF seen
<1>2. MachineInv(next) /\ TracerInv(next) /\ next.breakpointer = m.breakpointer
  BY <1>1, TracerDispatches
<1> HIDE DEF next
<1>3. MachineInv(failed) /\ TracerInv(failed) /\ failed.breakpointer = m.breakpointer
  <2> DEFINE h == Handle(next, "none")
  <2>1. Handled(next, h) /\ MachineInv(h) /\ TracerInv(h)
    BY <1>2, TracerHandles
  <2>2. h.breakpointer = next.breakpointer
    BY <1>2, <2>1, HandledFrames
  <2> HIDE DEF h
  <2> DEFINE g == [h EXCEPT !.status = "failed"]
  <2>3. Handled(h, g) /\ MachineInv(g) /\ g.rows = h.rows
    BY <2>1, StatusChanged
  <2> HIDE DEF g
  <2>4. TracerInv(g) /\ g.breakpointer = h.breakpointer
    BY <2>1, <2>3, TracerHandled, HandledFrames
  <2> QED BY <1>2, <2>2, <2>3, <2>4 DEF h, g
<1>4. n = seen \/ n = next \/ n = failed
  BY DEF Execute, seen, next
<1> HIDE DEF n, failed
<1> QED BY <1>1, <1>2, <1>3, <1>4 DEF n

-----------------------------------------------------------------------------
\* The fast machine.

\* Its checkpoints can be restored: they have the arguments of a function.
IsPoint(cp) ==
    /\ {"fid", "args", "mem"} \subseteq DOMAIN cp /\ cp.fid \in Function
    /\ IsSeq(cp.args) /\ Len(cp.args) = NumInputs[cp.fid]

PointsInv(m) ==
    /\ m.breakpointer = "checkpoint" /\ {"count", "points"} \subseteq DOMAIN m
    /\ IsSeq(m.points) /\ \A i \in DOMAIN m.points : IsPoint(m.points[i])

\* A checkpoint taken anywhere.
LEMMA PointTaken ==
    ASSUME NEW m, MachineInv(m)
    PROVE  IsPoint(CheckPoint(m))
<1> DEFINE f == m.fid
           args == Slice(m, m.fp, NumInputs[f])
<1>1. /\ f \in Function /\ m.fp \in Nat /\ IsSeq(m.stack) /\ NumInputs[f] \in Nat
  BY EntryInBody DEF MachineInv
<1>2. m.fp + NumInputs[f] <= Len(m.stack)
  <2>1. /\ Width[f] \in Nat /\ NumOutputs[f] \in Nat /\ NumInputs[f] + NumOutputs[f] <= Width[f]
        /\ Len(m.stack) \in Nat /\ m.rw \in Nat
    BY <1>1, EntryInBody, FunctionOfSeq DEF MachineInv
  <2>2. Len(m.stack) = m.fp + Width[f] \/ Len(m.stack) = m.fp + Width[f] + m.rw
    BY DEF MachineInv, FramesTile
  <2> QED BY <1>1, <2>1, <2>2
<1> HIDE DEF f
<1>3. IsSeq(args) /\ Len(args) = NumInputs[f]
  BY <1>1, <1>2, SliceOf
<1>4. CheckPoint(m) = [fid |-> f, args |-> args, mem |-> m.mem]
  BY DEF CheckPoint, f
<1> HIDE DEF args
<1> QED BY <1>1, <1>3, <1>4 DEF IsPoint

\* Checkpoints are only ever added.
MorePoints(m, n) == PointsInv(n) /\ DOMAIN m.points \subseteq DOMAIN n.points

\* The handler of the fast machine.
LEMMA FastHandles ==
    ASSUME NEW m, MachineInv(m), PointsInv(m), NEW opcode
    PROVE  LET n == Handle(m, opcode)
           IN  Handled(m, n) /\ MachineInv(n) /\ MorePoints(m, n)
<1> DEFINE n == Handle(m, opcode)
           t == Tick(m)
           cp == CheckPoint(m)
<1>1. n = [t EXCEPT !.points = Append(m.points, cp)] \/ n = t
  BY DEF PointsInv, Handle, Checkpointer
<1>2. "count" \in DOMAIN m /\ "points" \in DOMAIN m /\ IsSeq(m.points)
      /\ MachineFields \subseteq DOMAIN m /\ \A i \in DOMAIN m.points : IsPoint(m.points[i])
  BY DEF PointsInv, MachineInv
<1>3. DOMAIN t = DOMAIN m /\ \A x \in DOMAIN m \ {"count"} : t[x] = m[x]
  BY <1>2, Ticked
<1>4. IsPoint(cp)
  BY PointTaken
<1> HIDE DEF n, t, cp
<1>5. /\ DOMAIN n = DOMAIN m /\ \A x \in DOMAIN m \ {"count", "points"} : n[x] = m[x]
      /\ n.points = m.points \/ n.points = Append(m.points, cp)
  BY <1>1, <1>2, <1>3
<1>6. Handled(m, n)
  BY <1>5 DEF Handled
<1>7. MachineInv(n) /\ n.breakpointer = m.breakpointer
  BY <1>6, HandledFrames
<1>8. MorePoints(m, n)
  <2>1. CASE n.points = m.points
    BY <1>5, <1>7, <2>1 DEF MorePoints, PointsInv
  <2>2. CASE n.points = Append(m.points, cp)
    <3>1. /\ IsSeq(n.points) /\ DOMAIN n.points = 1..(Len(m.points) + 1)
          /\ DOMAIN m.points = 1..Len(m.points) /\ Len(m.points) \in Nat
          /\ \A i \in 1..Len(m.points) : n.points[i] = m.points[i]
          /\ n.points[Len(m.points) + 1] = cp
      BY <1>2, <2>2, Appended, FunctionOfSeq
    <3>2. \A i \in DOMAIN n.points : i \in 1..Len(m.points) \/ i = Len(m.points) + 1
      BY <3>1
    <3>3. \A i \in DOMAIN n.points : IsPoint(n.points[i])
      BY <1>2, <1>4, <3>1, <3>2
    <3>4. DOMAIN m.points \subseteq DOMAIN n.points
      BY <3>1
    <3> QED BY <1>5, <1>7, <3>1, <3>3, <3>4 DEF MorePoints, PointsInv
  <2> QED BY <1>5, <2>1, <2>2
<1> QED BY <1>6, <1>7, <1>8 DEF n

\* The fast machine goes on as one.
LEMMA FastExecutes ==
    ASSUME NEW m, MachineInv(m), PointsInv(m)
    PROVE  LET n == Execute(m) IN MachineInv(n) /\ MorePoints(m, n)
<1> DEFINE opcode == Code[m.pc].op
           seen == IF m.pc \in Breakpoints(m) THEN Handle(m, opcode) ELSE m
           next == Dispatch(seen)
           failed == [Handle(next, "none") EXCEPT !.status = "failed"]
           n == Execute(m)
<1>1. MachineInv(seen) /\ MorePoints(m, seen)
  BY FastHandles DEF MorePoints
<1> HIDE DEF seen
<1>2. MachineInv(next) /\ MorePoints(m, next)
  <2>1. KeepsRest(seen, next) /\ MachineInv(next)
    BY <1>1, DispatchStep
  <2> HIDE DEF next
  <2>2. /\ DOMAIN next = DOMAIN seen /\ next.points = seen.points
        /\ next.breakpointer = seen.breakpointer
    BY <1>1, <2>1 DEF KeepsRest, Changing, MorePoints, PointsInv, MachineInv, MachineFields
  <2> QED BY <1>1, <2>1, <2>2 DEF MorePoints, PointsInv
<1> HIDE DEF next
<1>3. MachineInv(failed) /\ MorePoints(m, failed)
  <2> DEFINE h == Handle(next, "none")
  <2>1. MachineInv(h) /\ MorePoints(next, h)
    BY <1>2, FastHandles DEF MorePoints
  <2> HIDE DEF h
  <2> DEFINE g == [h EXCEPT !.status = "failed"]
  <2>2. Handled(h, g) /\ MachineInv(g) /\ ("points" \in DOMAIN h => g.points = h.points)
    BY <2>1, StatusChanged
  <2> HIDE DEF g
  <2>3. g.breakpointer = h.breakpointer /\ DOMAIN g = DOMAIN h
    BY <2>1, <2>2, HandledFrames DEF Handled
  <2>4. MorePoints(m, g)
    BY <1>2, <2>1, <2>2, <2>3 DEF MorePoints, PointsInv
  <2> QED BY <2>2, <2>4 DEF h, g
<1>4. n = seen \/ n = next \/ n = failed
  BY DEF Execute, seen, next
<1> HIDE DEF n, failed
<1> QED BY <1>1, <1>2, <1>3, <1>4 DEF n

-----------------------------------------------------------------------------
\* Machines that have not executed anything.

\* A machine at the entry of a function.
IsFresh(m, f) ==
    /\ MachineFields \subseteq DOMAIN m
    /\ m.fid = f /\ m.pc = Entry[f] /\ m.fp = 0 /\ m.rp = 0 /\ m.rw = 0
    /\ m.calls = <<>> /\ m.cache = NoCache /\ m.rows = <<>>
    /\ IsSeq(m.stack) /\ Len(m.stack) = Width[f]

\* A machine that has been made for function f is sound.
LEMMA FreshMachine ==
    ASSUME NEW m, NEW f \in Function, IsFresh(m, f)
    PROVE  MachineInv(m) /\ ~Returning(m) /\ DOMAIN m.cache = {} /\ IsSeq(m.rows)
<1>1. IsSeq(<<>>) /\ Len(<<>>) = 0
  BY EmptySeq DEF IsSeq
<1>2. m.pc \in Body(f) /\ ~Returning(m) /\ Width[f] \in Nat
  BY EntryInBody DEF IsFresh, Returning
<1>3. DOMAIN m.cache = {} /\ CacheTyped(m)
  BY DEF IsFresh, NoCache, CacheTyped
<1>4. FrameOf(m, 1).fp = 0
  BY <1>1 DEF IsFresh, FrameOf
<1>5. FramesTile(m)
  <2>1. \A k \in 1..((Len(m.calls) + 1) - 1) : FALSE
    BY <1>1 DEF IsFresh
  <2> QED BY <1>2, <1>4, <2>1 DEF IsFresh, FramesTile
<1>6. \A k \in 1..Len(m.calls) : IsCall(m, k)
  BY <1>1 DEF IsFresh
<1> QED BY <1>1, <1>2, <1>3, <1>5, <1>6 DEF IsFresh, MachineInv

\* A fresh tracing machine.
LEMMA FreshTracer ==
    ASSUME NEW m, NEW f \in Function, IsFresh(m, f), m.breakpointer \in {"record", "shard"},
           m.breakpointer = "shard" => "count" \in DOMAIN m
    PROVE  MachineInv(m) /\ TracerInv(m)
BY FreshMachine DEF TracerInv

\* Memories make a machine that has been reset complete.
LEMMA ResetMachine ==
    ASSUME NEW f \in Function, NEW tracing, NEW stack, IsSeq(stack), Len(stack) = Width[f],
           NEW mem, NEW m, m = With([Reset(f, tracing) EXCEPT !.stack = stack], mem)
    PROVE  IsFresh(m, f) /\ DOMAIN m = MachineFields
<1> DEFINE r == [Reset(f, tracing) EXCEPT !.stack = stack]
<1>1. r = [fid |-> f, pc |-> Entry[f], fp |-> 0, rp |-> 0, rw |-> 0,
           stack |-> stack, calls |-> <<>>, cache |-> NoCache,
           tracing |-> tracing, status |-> "running", breakpointer |-> "none"]
  BY DEF Reset
<1>2. DOMAIN r = MachineFields \ {"mem", "log", "rows"}
  BY <1>1 DEF MachineFields
<1>3. DOMAIN m = MachineFields
  BY <1>2 DEF With, MachineFields
<1>4. /\ m.fid = f /\ m.pc = Entry[f] /\ m.fp = 0 /\ m.rp = 0 /\ m.rw = 0
      /\ m.calls = <<>> /\ m.cache = NoCache /\ m.rows = <<>> /\ m.stack = stack
  <2>1. \A x \in MachineFields : m[x] = IF x = "mem" THEN mem
                                        ELSE IF x \in {"log", "rows"} THEN <<>> ELSE r[x]
    BY <1>2 DEF With, MachineFields
  <2> QED BY <1>1, <2>1 DEF MachineFields
<1> QED BY <1>3, <1>4 DEF IsFresh

\* A machine boots at the entry of a function.
LEMMA Booted ==
    ASSUME NEW f \in Function, NEW contents, NEW tracing
    PROVE  IsFresh(Boot(f, contents, tracing), f) /\ DOMAIN Boot(f, contents, tracing) = MachineFields
<1> DEFINE z == Zeroes(Width[f])
           mem == Memories(contents, <<>>, ZeroRam, 0)
           b == Boot(f, contents, tracing)
<1>1. Width[f] \in Nat
  BY EntryInBody
<1>2. z = [i \in 1..Width[f] |-> z[i]]
  BY DEF Zeroes
<1>3. IsSeq(z) /\ Len(z) = Width[f]
  <2> HIDE DEF z
  <2> QED BY <1>1, <1>2, SeqOfFunction
<1>4. [Reset(f, tracing) EXCEPT !.stack = z] = Reset(f, tracing)
  BY DEF Reset
<1>5. b = With([Reset(f, tracing) EXCEPT !.stack = z], mem)
  BY <1>4 DEF Boot
<1> HIDE DEF z, mem, b
<1> QED BY <1>3, <1>5, ResetMachine DEF b

\* A machine is restored at the entry of the function of its checkpoint.
LEMMA Restored ==
    ASSUME NEW cp, IsPoint(cp), NEW tracing
    PROVE  IsFresh(Restore(cp, tracing), cp.fid) /\ DOMAIN Restore(cp, tracing) = MachineFields
<1> DEFINE f == cp.fid
           stack == NewFrame(f, cp.args)
           r == Restore(cp, tracing)
<1>1. f \in Function /\ IsSeq(cp.args) /\ Len(cp.args) = NumInputs[f]
  BY DEF IsPoint
<1>2. Len(cp.args) <= Width[f]
  <2>1. /\ Width[f] \in Nat /\ NumInputs[f] \in Nat /\ NumOutputs[f] \in Nat
        /\ NumInputs[f] + NumOutputs[f] <= Width[f]
    BY <1>1, EntryInBody
  <2> QED BY <1>1, <2>1
<1>3. IsSeq(stack) /\ Len(stack) = Width[f]
  BY <1>1, <1>2, FrameOfCall
<1>4. r = With([Reset(f, tracing) EXCEPT !.stack = stack], cp.mem)
  BY DEF Restore
<1> HIDE DEF stack, r
<1> QED BY <1>1, <1>3, <1>4, ResetMachine DEF r

\* The fields that a machine gets for its breakpoints leave it fresh.
LEMMA Prepared ==
    ASSUME NEW m, NEW f, IsFresh(m, f), NEW n, DOMAIN m \subseteq DOMAIN n,
           \A x \in MachineFields \ {"breakpointer"} : n[x] = m[x]
    PROVE  IsFresh(n, f)
BY DEF IsFresh, MachineFields

-----------------------------------------------------------------------------
\* All machines.

ShardingInv ==
    /\ MachineInv(whole) /\ TracerInv(whole)
    /\ MachineInv(fast) /\ PointsInv(fast)
    /\ DOMAIN shards \subseteq DOMAIN fast.points
    /\ \A i \in DOMAIN shards :
          shards[i] = Untraced \/ (MachineInv(shards[i]) /\ TracerInv(shards[i]))

\* The machines of the start.
LEMMA InitialMachines == Init => ShardingInv
<1> SUFFICES ASSUME Init PROVE ShardingInv
  OBVIOUS
<1>0. Main \in Function
  BY ShardAssumption
<1>1. MachineInv(whole) /\ TracerInv(whole)
  <2> DEFINE b == Boot(Main, input, TRUE)
  <2>1. IsFresh(b, Main) /\ DOMAIN b = MachineFields
    BY <1>0, Booted
  <2>2. whole = [b EXCEPT !.breakpointer = "record"]
    BY DEF Init
  <2> HIDE DEF b
  <2>3. DOMAIN whole = DOMAIN b /\ whole.breakpointer = "record"
        /\ \A x \in MachineFields \ {"breakpointer"} : whole[x] = b[x]
    BY <2>1, <2>2 DEF MachineFields
  <2> QED BY <1>0, <2>1, <2>3, Prepared, FreshTracer
<1>2. MachineInv(fast) /\ PointsInv(fast)
  <2> DEFINE b == Boot(Main, input, FALSE)
             c == [b EXCEPT !.breakpointer = "checkpoint"]
             d == Counting(c, steps)
             cp == CheckPoint(d)
  <2>1. IsFresh(b, Main) /\ DOMAIN b = MachineFields
    BY <1>0, Booted
  <2>2. fast = [x \in DOMAIN d \cup {"points"} |-> IF x = "points" THEN <<cp>> ELSE d[x]]
    BY DEF Init
  <2> HIDE DEF b
  <2>3. DOMAIN c = DOMAIN b /\ c.breakpointer = "checkpoint"
        /\ \A x \in MachineFields \ {"breakpointer"} : c[x] = b[x]
    BY <2>1 DEF MachineFields
  <2> HIDE DEF c
  <2>4. DOMAIN d = DOMAIN c \cup {"count"} /\ \A x \in DOMAIN c \ {"count"} : d[x] = c[x]
    BY DEF Counting
  <2> HIDE DEF d
  <2>5. MachineInv(d) /\ d.breakpointer = "checkpoint" /\ "count" \in DOMAIN d
    <3>1. DOMAIN b \subseteq DOMAIN d /\ \A x \in MachineFields \ {"breakpointer"} : d[x] = b[x]
      BY <2>1, <2>3, <2>4 DEF MachineFields
    <3>2. d.breakpointer = "checkpoint"
      BY <2>1, <2>3, <2>4 DEF MachineFields
    <3> QED BY <1>0, <2>1, <2>4, <3>1, <3>2, Prepared, FreshMachine
  <2>6. IsPoint(cp)
    BY <2>5, PointTaken
  <2> HIDE DEF cp
  <2>7. /\ DOMAIN fast = DOMAIN d \cup {"points"} /\ fast.points = <<cp>>
        /\ \A x \in DOMAIN d \ {"points"} : fast[x] = d[x]
    BY <2>2
  <2>8. MachineInv(fast)
    <3>1. DOMAIN d \subseteq DOMAIN fast /\ \A x \in MachineFields : fast[x] = d[x]
      BY <2>5, <2>7 DEF MachineInv, MachineFields
    <3>2. SameFrames(d, fast) /\ fast.pc = d.pc
      BY <2>5, <3>1 DEF SameFrames, MachineFields, MachineInv
    <3> QED BY <2>5, <3>1, <3>2, StaysPut
  <2>9. PointsInv(fast)
    <3>1. IsSeq(<<cp>>) /\ DOMAIN <<cp>> = {1}
      <4> DEFINE s == <<cp>>
      <4>1. s = [i \in 1..1 |-> s[i]]
        OBVIOUS
      <4>2. DOMAIN s = 1..1
        OBVIOUS
      <4>3. 1 \in Nat /\ 1..1 = {1}
        OBVIOUS
      <4> HIDE DEF s
      <4>4. IsSeq(s)
        BY <4>1, <4>3, SeqOfFunction, Zenon
      <4>5. DOMAIN s = {1}
        BY <4>2, <4>3
      <4> QED BY <4>4, <4>5 DEF s
    <3>2. fast.breakpointer = "checkpoint" /\ {"count", "points"} \subseteq DOMAIN fast
      BY <2>5, <2>7 DEF MachineInv, MachineFields
    <3> QED BY <2>6, <2>7, <3>1, <3>2 DEF PointsInv
  <2> QED BY <2>8, <2>9
<1>3. DOMAIN shards = {}
  BY DEF Init
<1> QED BY <1>1, <1>2, <1>3 DEF ShardingInv

\* A shard starts at the entry of the function of its checkpoint.
LEMMA ShardStarts ==
    ASSUME ShardingInv, NEW i \in DOMAIN shards, StartShard(i)
    PROVE  ShardingInv'
<1> DEFINE cp == WithOutputs(fast.points[i])
           r == Restore(cp, TRUE)
           c == [r EXCEPT !.breakpointer = "shard"]
           n == IF i = 1 THEN steps ELSE steps + 1
           m == Counting(c, n)
<1>1. IsPoint(fast.points[i])
  BY DEF ShardingInv, PointsInv
<1>2. IsPoint(cp)
  <2>1. /\ DOMAIN cp = DOMAIN fast.points[i] /\ cp.fid = fast.points[i].fid
        /\ cp.args = fast.points[i].args
    BY <1>1 DEF WithOutputs, IsPoint
  <2> QED BY <1>1, <2>1 DEF IsPoint
<1> HIDE DEF cp
<1>3. IsFresh(r, cp.fid) /\ DOMAIN r = MachineFields /\ cp.fid \in Function
  BY <1>2, Restored DEF IsPoint
<1> HIDE DEF r
<1>4. DOMAIN c = DOMAIN r /\ c.breakpointer = "shard"
      /\ \A x \in MachineFields \ {"breakpointer"} : c[x] = r[x]
  BY <1>3 DEF MachineFields
<1> HIDE DEF c, n
<1>5. DOMAIN m = DOMAIN c \cup {"count"} /\ \A x \in DOMAIN c \ {"count"} : m[x] = c[x]
  BY DEF Counting
<1>6. shards' = [shards EXCEPT ![i] = m] /\ UNCHANGED <<whole, fast>>
  BY DEF StartShard, m, n, c, r, cp
<1> HIDE DEF m
<1>7. MachineInv(m) /\ TracerInv(m)
  <2>1. DOMAIN r \subseteq DOMAIN m /\ \A x \in MachineFields \ {"breakpointer"} : m[x] = r[x]
    BY <1>3, <1>4, <1>5 DEF MachineFields
  <2>2. m.breakpointer = "shard" /\ "count" \in DOMAIN m
    BY <1>3, <1>4, <1>5 DEF MachineFields
  <2> QED BY <1>3, <2>1, <2>2, Prepared, FreshTracer
<1> QED BY <1>6, <1>7 DEF ShardingInv

\* The machines of every state: frames that tile their stack, rows for what is
\* returned and memoised, and checkpoints that can be restored.
THEOREM ShardingInvariant == Spec => []ShardingInv
<1>1. Init => ShardingInv
  BY InitialMachines
<1>2. ShardingInv /\ [Next]_vars => ShardingInv'
  <2> SUFFICES ASSUME ShardingInv, [Next]_vars PROVE ShardingInv'
    OBVIOUS
  <2>1. CASE TraceWhole
    BY <2>1, TracerExecutes DEF TraceWhole, ShardingInv
  <2>2. CASE RunFast
    BY <2>2, FastExecutes DEF RunFast, ShardingInv, MorePoints
  <2>3. CASE TraceCheckPoints
    <3>1. Len(fast.points) \in Nat /\ DOMAIN fast.points = 1..Len(fast.points)
      BY FunctionOfSeq DEF ShardingInv, PointsInv
    <3> QED BY <2>3, <3>1 DEF TraceCheckPoints, ShardingInv
  <2>4. ASSUME NEW i \in DOMAIN shards, StartShard(i) PROVE ShardingInv'
    BY <2>4, ShardStarts
  <2>5. ASSUME NEW i \in DOMAIN shards, TraceShard(i) PROVE ShardingInv'
    <3> DEFINE m == Execute(shards[i])
    <3>1. shards[i] # Untraced
      BY <2>5 DEF TraceShard, Untraced
    <3>2. MachineInv(m) /\ TracerInv(m)
      BY <3>1, TracerExecutes DEF ShardingInv
    <3>3. shards' = [shards EXCEPT ![i] = m] /\ UNCHANGED <<whole, fast>>
      BY <2>5 DEF TraceShard
    <3> HIDE DEF m
    <3> QED BY <3>2, <3>3 DEF ShardingInv
  <2>6. CASE UNCHANGED vars
    BY <2>6 DEF vars, ShardingInv
  <2> QED BY <2>1, <2>2, <2>3, <2>4, <2>5, <2>6 DEF Next
<1> QED BY <1>1, <1>2, PTL DEF Spec

\* However deep calls, memoised calls and tail calls nest, in every program, the
\* frames of every machine tile its stack.
THEOREM StackIsDisciplined == Spec => []StackDiscipline
<1>1. ShardingInv => StackDiscipline
  BY DEF ShardingInv, MachineInv, StackDiscipline, Machines
<1> QED BY <1>1, ShardingInvariant, PTL

\* A tracing machine, of a shard or of the whole, never uses a call that has no
\* row in its trace.
THEOREM EveryCallIsBacked == Spec => []CallsAreBacked
<1>1. ShardingInv => CallsAreBacked
  <2> SUFFICES ASSUME ShardingInv, NEW m \in Tracers, Returning(m)
               PROVE  LET callee == Code[m.pc - 1].fun
                      IN  \E j \in DOMAIN m.rows :
                              /\ m.rows[j].fid = callee /\ m.rows[j].terminal
                              /\ SubSeq(m.rows[j].frame, 1, NumInputs[callee] + NumOutputs[callee])
                                    = Slice(m, m.rp - NumInputs[callee],
                                            NumInputs[callee] + NumOutputs[callee])
    BY DEF CallsAreBacked
  <2>1. TracerInv(m)
    BY DEF ShardingInv, Tracers, Machines
  <2> QED BY <2>1 DEF TracerInv, HasRow, CallReturned
<1> QED BY <1>1, ShardingInvariant, PTL

-----------------------------------------------------------------------------
\* What a bytecode does with registers, calls and memories.
LEMMA OperandsOf ==
    ASSUME NEW f \in Function, NEW pc \in Body(f)
    PROVE  /\ Uses(pc) \subseteq 0 .. (Width[f] - 1)
           /\ Definitions(pc) \subseteq NumInputs[f] .. (Width[f] - 1)
           /\ Code[pc].op = "add" => Code[pc].const \in Nat
           /\ Code[pc].op = "enter" =>
                 /\ Code[pc].fun \notin NoReturn
                 /\ Len(Code[pc + 1].rets) \in 0 .. NumOutputs[Code[pc].fun]
           /\ f \in Effectless => Code[pc].op \notin {"rdram", "wrram"}
           /\ f \in Effectless /\ Code[pc].op \in {"enter", "tail"} => Code[pc].fun \in Effectless
BY CodeAssumption DEF Body

\* The sizes of the current frame.
LEMMA FrameSizes ==
    ASSUME NEW m, MachineInv(m)
    PROVE  /\ m.fid \in Function /\ m.pc \in Nat /\ m.fp \in Nat /\ Len(m.calls) \in Nat
           /\ Width[m.fid] \in Nat /\ NumInputs[m.fid] \in Nat /\ NumOutputs[m.fid] \in Nat
           /\ NumInputs[m.fid] + NumOutputs[m.fid] =< Width[m.fid]
           /\ Len(m.stack) \in Nat /\ m.fp + Width[m.fid] =< Len(m.stack)
           /\ Code[m.pc].op # "leave" => Len(m.stack) = m.fp + Width[m.fid]
<1>1. m.fid \in Function /\ m.pc \in Body(m.fid) /\ m.fp \in Nat /\ IsSeq(m.calls) /\ IsSeq(m.stack)
      /\ m.rw \in Nat
  BY DEF MachineInv
<1>2. Len(m.stack) = m.fp + Width[m.fid] \/ Len(m.stack) = m.fp + Width[m.fid] + m.rw
  BY DEF MachineInv, FramesTile
<1>3. m.pc \in Nat /\ Len(m.calls) \in Nat /\ Len(m.stack) \in Nat
  BY <1>1, BytecodeOf, FunctionOfSeq
<1>4. Code[m.pc].op # "leave" => Len(m.stack) = m.fp + Width[m.fid]
  BY TopFrame
<1>5. /\ Width[m.fid] \in Nat /\ NumInputs[m.fid] \in Nat /\ NumOutputs[m.fid] \in Nat
      /\ NumInputs[m.fid] + NumOutputs[m.fid] =< Width[m.fid]
  BY <1>1, EntryInBody
<1> QED BY <1>1, <1>2, <1>3, <1>4, <1>5

\* A LEAVE is reached from the ENTER before it.
WellBehaved(m) ==
    /\ MachineInv(m)
    /\ Returning(m) => m.pc - 1 \in Body(m.fid) /\ Code[m.pc - 1].op = "enter"

\* The callee that has returned and whose record is on the stack.
LEMMA CalleeSizes ==
    ASSUME NEW m, WellBehaved(m), Returning(m)
    PROVE  LET f == Code[m.pc - 1].fun
           IN  /\ f \in Function /\ Code[m.pc].op = "leave"
               /\ Width[f] \in Nat /\ NumInputs[f] \in Nat /\ NumOutputs[f] \in Nat
               /\ NumInputs[f] + NumOutputs[f] =< Width[f]
               /\ m.rw = Width[f] /\ m.rp = m.fp + Width[m.fid] + NumInputs[f]
               /\ Len(m.stack) = m.fp + Width[m.fid] + Width[f]
               /\ Len(Code[m.pc].rets) \in 0 .. NumOutputs[f]
<1> DEFINE f == Code[m.pc - 1].fun
<1>1. m.fid \in Function /\ m.pc - 1 \in Body(m.fid) /\ Code[m.pc - 1].op = "enter" /\ m.pc \in Nat
  BY FrameSizes DEF WellBehaved
<1>2. f \in Function /\ (m.pc - 1) + 1 = m.pc
  BY <1>1, BytecodeOf
<1>3. Len(Code[(m.pc - 1) + 1].rets) \in 0 .. NumOutputs[f]
  BY <1>1, OperandsOf
<1>4. m.rw = Width[f] /\ m.rp = m.fp + Width[m.fid] + NumInputs[f]
      /\ Len(m.stack) = m.fp + Width[m.fid] + Width[f]
  BY DEF WellBehaved, MachineInv, FramesTile
<1>5. /\ Width[f] \in Nat /\ NumInputs[f] \in Nat /\ NumOutputs[f] \in Nat
      /\ NumInputs[f] + NumOutputs[f] =< Width[f]
  BY <1>2, EntryInBody
<1> QED BY <1>2, <1>3, <1>4, <1>5 DEF Returning

-----------------------------------------------------------------------------
\* Machines that are alike.

\* The cells that count: the frames, and the arguments and returns of a callee
\* that has returned.
Extent(m) ==
    m.fp + Width[m.fid] +
        (IF Returning(m)
         THEN NumInputs[Code[m.pc - 1].fun] + NumOutputs[Code[m.pc - 1].fun] ELSE 0)

\* Above bm cells and cm calls, machine m is what t is above bs cells and cs calls.
SamePlace(m, t, bm, bs) ==
    t.fid = m.fid /\ t.pc = m.pc /\ bm =< m.fp /\ t.fp + bm = m.fp + bs

SameCall(c, d, bm, bs) ==
    d.fid = c.fid /\ d.pc = c.pc /\ bm =< c.fp /\ d.fp + bm = c.fp + bs

SameCalls(m, t, bm, bs, cm, cs) ==
    /\ cm =< Len(m.calls) /\ Len(t.calls) + cm = Len(m.calls) + cs
    /\ \A l \in 1 .. (Len(m.calls) - cm) : SameCall(m.calls[cm + l], t.calls[cs + l], bm, bs)

\* The w cells of s above bm are those of t above bs.
Agree(s, t, bm, bs, w) == \A j \in 1 .. w : t[bs + j] = s[bm + j]

SameCells(m, t, bm, bs) == Agree(m.stack, t.stack, bm, bs, Extent(m) - bm)

Alike(m, t, bm, bs, cm, cs) ==
    SamePlace(m, t, bm, bs) /\ SameCalls(m, t, bm, bs, cm, cs) /\ SameCells(m, t, bm, bs)

\* The registers of the executing function are the same.
LEMMA SameRegister ==
    ASSUME NEW m, NEW t, WellBehaved(m), WellBehaved(t),
           NEW bm \in Nat, NEW bs \in Nat, NEW cm \in Nat, NEW cs \in Nat,
           Alike(m, t, bm, bs, cm, cs), NEW r \in 0 .. (Width[m.fid] - 1)
    PROVE  Register(t, r) = Register(m, r)
<1> DEFINE j == m.fp - bm + r + 1
<1>1. m.fp \in Nat /\ Width[m.fid] \in Nat /\ t.fp \in Nat
  BY FrameSizes DEF WellBehaved
<1>2. Extent(m) >= m.fp + Width[m.fid] /\ Extent(m) \in Nat
  <2>1. CASE Returning(m)
    <3>1. NumInputs[Code[m.pc - 1].fun] \in Nat /\ NumOutputs[Code[m.pc - 1].fun] \in Nat
      BY <2>1, CalleeSizes
    <3> QED BY <1>1, <2>1, <3>1 DEF Extent
  <2>2. CASE ~Returning(m)
    BY <1>1, <2>2 DEF Extent
  <2> QED BY <2>1, <2>2
<1>3. j \in 1 .. (Extent(m) - bm) /\ bm + j = m.fp + r + 1 /\ bs + j = t.fp + r + 1
  BY <1>1, <1>2 DEF Alike, SamePlace
<1>4. t.stack[bs + j] = m.stack[bm + j]
  <2> HIDE DEF j
  <2> QED BY <1>3 DEF Alike, SameCells, Agree
<1>5. t.stack[t.fp + r + 1] = m.stack[m.fp + r + 1]
  <2> HIDE DEF j
  <2> QED BY <1>3, <1>4
<1> QED BY <1>5 DEF Register

-----------------------------------------------------------------------------
\* What plain bytecodes change.

\* Only fields in S change.
Changes(m, n, S) == DOMAIN n = DOMAIN m /\ \A x \in DOMAIN m \ S : n[x] = m[x]

\* A register is written.
Wrote(m, n, r, v) == n.stack = [m.stack EXCEPT ![m.fp + r + 1] = v]

\* An ADD writes its target, and fails if the sum overflows.
LEMMA AddEffect ==
    ASSUME NEW m, MachineInv(m), Code[m.pc].op = "add"
    PROVE  LET n == Dispatch(m)
               i == Code[m.pc]
               sum == Register(m, i.source) + i.const
           IN  /\ Changes(m, n, {"stack", "pc", "status"}) /\ Wrote(m, n, i.target, sum % Limit)
               /\ IF sum < Limit THEN n.pc = m.pc + 1 /\ n.status = m.status
                                 ELSE n.pc = m.pc /\ n.status = "failed"
<1> DEFINE i == Code[m.pc]
           sum == Register(m, i.source) + i.const
           stack == [m.stack EXCEPT ![m.fp + i.target + 1] = sum % Limit]
           next == [m EXCEPT !.stack = stack]
<1>1. Dispatch(m) = IF sum < Limit THEN Skip1(next) ELSE Failed(next)
  BY DEF Dispatch, Add, SetRegister
<1> HIDE DEF i, sum, stack
<1>2. MachineFields \subseteq DOMAIN m
  BY DEF MachineInv
<1> QED BY <1>1, <1>2 DEF Changes, Skip1, Goto, Failed, MachineFields, Wrote, stack, sum, i

\* A SKIP_IF moves, here or there.
LEMMA SkipIfEffect ==
    ASSUME NEW m, MachineInv(m), Code[m.pc].op = "skipif"
    PROVE  LET n == Dispatch(m)
               i == Code[m.pc]
               other == IF "right" \in DOMAIN i THEN Register(m, i.right) ELSE i.const
           IN  /\ Changes(m, n, {"pc"})
               /\ n.pc = IF Register(m, i.left) = other THEN i.goto ELSE m.pc + 1
<1> DEFINE i == Code[m.pc]
           other == IF "right" \in DOMAIN i THEN Register(m, i.right) ELSE i.const
<1>1. Dispatch(m) = IF Register(m, i.left) = other THEN Goto(m, i.goto) ELSE Skip1(m)
  BY DEF Dispatch, SkipIf
<1> HIDE DEF i, other
<1>2. MachineFields \subseteq DOMAIN m
  BY DEF MachineInv
<1> QED BY <1>1, <1>2 DEF Changes, Skip1, Goto, MachineFields, i, other

\* A read of a static memory writes its target, and panics out of range.
LEMMA ReadRomEffect ==
    ASSUME NEW m, MachineInv(m), Code[m.pc].op = "rdrom"
    PROVE  LET n == Dispatch(m)
               i == Code[m.pc]
               a == Register(m, i.address) + 1
           IN  /\ Changes(m, n, {"stack", "pc", "status"})
               /\ IF a \in DOMAIN m.mem.rom
                  THEN n.pc = m.pc + 1 /\ n.status = m.status /\ Wrote(m, n, i.target, m.mem.rom[a])
                  ELSE n.pc = m.pc /\ n.status = "panicked" /\ n.stack = m.stack
<1> DEFINE i == Code[m.pc]
           a == Register(m, i.address) + 1
           stack == [m.stack EXCEPT ![m.fp + i.target + 1] = m.mem.rom[a]]
<1>1. Dispatch(m) = IF a \in DOMAIN m.mem.rom THEN Skip1([m EXCEPT !.stack = stack])
                                              ELSE [m EXCEPT !.status = "panicked"]
  BY DEF Dispatch, ReadRom, SetRegister
<1> HIDE DEF i, a, stack
<1>2. MachineFields \subseteq DOMAIN m
  BY DEF MachineInv
<1> QED BY <1>1, <1>2 DEF Changes, Skip1, Goto, MachineFields, Wrote, stack, a, i

\* The output memory after a write, which fails if it changes a cell.
WomAfter(wom, a, v) ==
    [(IF a =< Len(wom) THEN wom ELSE wom \o Zeroes(a - Len(wom))) EXCEPT ![a] = v]

Collides(wom, a, v) == a =< Len(wom) /\ wom[a] # v

\* A write of the output fails if it changes a cell, or extends the output.
LEMMA WriteWomEffect ==
    ASSUME NEW m, MachineInv(m), Code[m.pc].op = "wrwom"
    PROVE  LET n == Dispatch(m)
               i == Code[m.pc]
               a == Register(m, i.address) + 1
               v == Register(m, i.source)
           IN  IF Collides(m.mem.wom, a, v)
               THEN Changes(m, n, {"status"}) /\ n.status = "failed"
               ELSE /\ Changes(m, n, {"pc", "mem"}) /\ n.pc = m.pc + 1
                    /\ n.mem = [m.mem EXCEPT !.wom = WomAfter(m.mem.wom, a, v)]
<1> DEFINE i == Code[m.pc]
           a == Register(m, i.address) + 1
           v == Register(m, i.source)
           mem == [m.mem EXCEPT !.wom = WomAfter(m.mem.wom, a, v)]
<1>1. Dispatch(m) = IF Collides(m.mem.wom, a, v) THEN Failed(m) ELSE Skip1([m EXCEPT !.mem = mem])
  BY DEF Dispatch, WriteWom, WomAfter, Collides
<1> HIDE DEF i, a, v, mem
<1>2. MachineFields \subseteq DOMAIN m
  BY DEF MachineInv
<1> QED BY <1>1, <1>2 DEF Changes, Skip1, Goto, Failed, MachineFields, mem, v, a, i

\* The read-write memory and its log after an access.
Accessed(m, n, a, value, isWrite) ==
    LET now == [value |-> value, stamp |-> m.mem.clock + 1]
    IN  /\ n.mem = [m.mem EXCEPT !.clock = m.mem.clock + 1, !.ram[a] = now]
        /\ n.log = Append(m.log, [address |-> a, before |-> m.mem.ram[a],
                                  after |-> now, isWrite |-> isWrite])

\* A read of the read-write memory is an access of it.
LEMMA ReadRamEffect ==
    ASSUME NEW m, MachineInv(m), Code[m.pc].op = "rdram"
    PROVE  LET n == Dispatch(m)
               i == Code[m.pc]
               a == Register(m, i.address)
               value == m.mem.ram[a].value
           IN  /\ Changes(m, n, {"stack", "pc", "mem", "log"})
               /\ n.pc = m.pc + 1 /\ Wrote(m, n, i.target, value) /\ Accessed(m, n, a, value, FALSE)
<1> DEFINE i == Code[m.pc]
           a == Register(m, i.address)
           value == m.mem.ram[a].value
           now == [value |-> value, stamp |-> m.mem.clock + 1]
           mem == [m.mem EXCEPT !.clock = m.mem.clock + 1, !.ram[a] = now]
           log == Append(m.log, [address |-> a, before |-> m.mem.ram[a],
                                 after |-> now, isWrite |-> FALSE])
           t == Touch(m, a, value, FALSE)
<1>2. MachineFields \subseteq DOMAIN m
  BY DEF MachineInv
<1>3. t = [m EXCEPT !.mem = mem, !.log = log]
  BY <1>2 DEF Touch, MachineFields
<1>4. Dispatch(m) = Skip1(SetRegister(t, i.target, value))
  BY DEF Dispatch, ReadRam
<1> HIDE DEF i, a, value, mem, log, t
<1>5. Changes(m, t, {"mem", "log"}) /\ t.mem = mem /\ t.log = log
  BY <1>2, <1>3 DEF Changes, MachineFields
<1>6. t.stack = m.stack /\ t.fp = m.fp /\ t.pc = m.pc
  BY <1>2, <1>5 DEF Changes, MachineFields
<1> DEFINE u == SetRegister(t, i.target, value)
<1>7. Changes(t, u, {"stack"}) /\ Wrote(t, u, i.target, value)
  BY <1>2, <1>5 DEF Changes, SetRegister, Wrote, MachineFields
<1> HIDE DEF u
<1> DEFINE n == Skip1(u)
<1>8. Changes(u, n, {"pc"}) /\ n.pc = u.pc + 1
  BY <1>2, <1>5, <1>7 DEF Changes, Skip1, Goto, MachineFields
<1> HIDE DEF n
<1>9. /\ Changes(m, n, {"stack", "pc", "mem", "log"}) /\ n.pc = m.pc + 1
      /\ Wrote(m, n, i.target, value) /\ n.mem = mem /\ n.log = log
  BY <1>2, <1>5, <1>6, <1>7, <1>8 DEF Changes, Wrote, MachineFields
<1>10. n = Dispatch(m)
  BY <1>4 DEF n, u
<1> QED BY <1>9, <1>10 DEF Accessed, mem, log, value, a, i

\* So is a write.
LEMMA WriteRamEffect ==
    ASSUME NEW m, MachineInv(m), Code[m.pc].op = "wrram"
    PROVE  LET n == Dispatch(m)
               i == Code[m.pc]
           IN  /\ Changes(m, n, {"pc", "mem", "log"}) /\ n.pc = m.pc + 1
               /\ Accessed(m, n, Register(m, i.address), Register(m, i.source), TRUE)
<1> DEFINE i == Code[m.pc]
           a == Register(m, i.address)
           value == Register(m, i.source)
           now == [value |-> value, stamp |-> m.mem.clock + 1]
           mem == [m.mem EXCEPT !.clock = m.mem.clock + 1, !.ram[a] = now]
           log == Append(m.log, [address |-> a, before |-> m.mem.ram[a],
                                 after |-> now, isWrite |-> TRUE])
           t == Touch(m, a, value, TRUE)
<1>2. MachineFields \subseteq DOMAIN m
  BY DEF MachineInv
<1>3. t = [m EXCEPT !.mem = mem, !.log = log]
  BY <1>2 DEF Touch, MachineFields
<1>4. Dispatch(m) = Skip1(t)
  BY DEF Dispatch, WriteRam
<1> HIDE DEF i, a, value, mem, log, t
<1>5. Changes(m, t, {"mem", "log"}) /\ t.mem = mem /\ t.log = log
  BY <1>2, <1>3 DEF Changes, MachineFields
<1> DEFINE n == Skip1(t)
<1>8. Changes(t, n, {"pc"}) /\ n.pc = t.pc + 1
  BY <1>2, <1>5 DEF Changes, Skip1, Goto, MachineFields
<1> HIDE DEF n
<1>9. /\ Changes(m, n, {"pc", "mem", "log"}) /\ n.pc = m.pc + 1
      /\ n.mem = mem /\ n.log = log
  BY <1>2, <1>5, <1>8 DEF Changes, MachineFields
<1>10. n = Dispatch(m)
  BY <1>4 DEF n
<1> QED BY <1>9, <1>10 DEF Accessed, mem, log, value, a, i

\* Jumping, stopping and failing.
LEMMA ControlEffect ==
    ASSUME NEW m, MachineInv(m), Code[m.pc].op \in {"jmp", "done", "fail"}
    PROVE  LET n == Dispatch(m)
           IN  IF Code[m.pc].op = "jmp"
               THEN Changes(m, n, {"pc"}) /\ n.pc = Code[m.pc].goto
               ELSE /\ Changes(m, n, {"status"})
                    /\ n.status = IF Code[m.pc].op = "done" THEN "done" ELSE "failed"
<1>2. MachineFields \subseteq DOMAIN m
  BY DEF MachineInv
<1> QED BY <1>2 DEF Dispatch, Goto, Failed, Changes, MachineFields

-----------------------------------------------------------------------------
\* A plain bytecode neither finds a callee's record on the stack nor leaves one.
LEMMA PlainPlace ==
    ASSUME NEW m, MachineInv(m), Code[m.pc].op \in Plain
    PROVE  LET n == Dispatch(m)
           IN  ~Returning(m) /\ ~Returning(n) /\ SameFrames(m, n) /\ WellBehaved(n)
<1> DEFINE n == Dispatch(m)
<1>1. Steps(m, n) /\ MachineInv(n)
  BY PlainStep, DispatchStep
<1> HIDE DEF n
<1>2. m.fid \in Function /\ m.pc \in Body(m.fid)
  BY DEF MachineInv
<1>3. Code[m.pc].op # "leave" /\ Code[m.pc].op # "enter"
  BY DEF Plain
<1>4. Code[n.pc].op # "leave"
  BY <1>1, <1>2, <1>3, BytecodeOf DEF Steps
<1> QED BY <1>1, <1>3, <1>4 DEF Steps, Returning, WellBehaved, n

\* The same place in two stacks, whose parts of interest start after bm and bs cells.
LEMMA SameOffset ==
    ASSUME NEW bm \in Nat, NEW bs \in Nat, NEW fm \in Nat, NEW ft \in Nat, NEW w \in Nat,
           bm =< fm, ft + bm = fm + bs
    PROVE  /\ (fm + w) - bm = (ft + w) - bs
           /\ \A j \in 1 .. ((fm + w) - bm) : bm + j \in 1 .. (fm + w) /\ bs + j \in 1 .. (ft + w)
           /\ \A j, r \in Nat : bm + j = fm + r + 1 <=> bs + j = ft + r + 1
OBVIOUS

\* Machines stay alike if the same is written to the same register.
LEMMA AlikeInPlace ==
    ASSUME NEW m, NEW t, MachineInv(m), MachineInv(t),
           NEW bm \in Nat, NEW bs \in Nat, NEW cm \in Nat, NEW cs \in Nat,
           Alike(m, t, bm, bs, cm, cs), NEW n, NEW u, SameFrames(m, n), SameFrames(t, u),
           ~Returning(m), ~Returning(n), u.pc = n.pc,
           \/ n.stack = m.stack /\ u.stack = t.stack
           \/ \E r \in 0 .. (Width[m.fid] - 1) : \E v : Wrote(m, n, r, v) /\ Wrote(t, u, r, v)
    PROVE  Alike(n, u, bm, bs, cm, cs)
<1>1. /\ m.fp \in Nat /\ Width[m.fid] \in Nat /\ t.fp \in Nat
      /\ Len(m.stack) = m.fp + Width[m.fid] /\ t.fp + Width[t.fid] <= Len(t.stack)
      /\ IsSeq(m.stack) /\ IsSeq(t.stack)
  BY FrameSizes DEF MachineInv, Returning
<1>2. n.fid = m.fid /\ n.fp = m.fp /\ u.fid = t.fid /\ u.fp = t.fp /\ n.calls = m.calls
      /\ u.calls = t.calls
  BY DEF SameFrames
<1> DEFINE top == m.fp + Width[m.fid]
<1>3. Extent(n) = top /\ Extent(m) = top /\ top \in Nat /\ top = Len(m.stack)
  BY <1>1, <1>2 DEF Extent
<1>4. SamePlace(n, u, bm, bs) /\ SameCalls(n, u, bm, bs, cm, cs)
  BY <1>2 DEF Alike, SamePlace, SameCalls
<1>5. t.fid = m.fid /\ bm =< m.fp /\ t.fp + bm = m.fp + bs
  BY DEF Alike, SamePlace
<1>8. /\ \A j \in 1 .. (top - bm) : bm + j \in 1 .. top /\ bs + j \in 1 .. (t.fp + Width[m.fid])
      /\ \A j, r \in Nat : bm + j = m.fp + r + 1 <=> bs + j = t.fp + r + 1
  <2> DEFINE fm == m.fp
             ft == t.fp
             w == Width[m.fid]
  <2>1. fm \in Nat /\ ft \in Nat /\ w \in Nat /\ bm =< fm /\ ft + bm = fm + bs
    BY <1>1, <1>5
  <2> HIDE DEF fm, ft, w
  <2>2. /\ \A j \in 1 .. ((fm + w) - bm) : bm + j \in 1 .. (fm + w) /\ bs + j \in 1 .. (ft + w)
        /\ \A j, r \in Nat : bm + j = fm + r + 1 <=> bs + j = ft + r + 1
    BY <2>1, SameOffset
  <2> QED BY <2>1, <2>2 DEF fm, ft, w
<1>6. ASSUME NEW j \in 1 .. (top - bm) PROVE u.stack[bs + j] = n.stack[bm + j]
  <2> HIDE DEF top
  <2>1. t.stack[bs + j] = m.stack[bm + j]
    BY <1>3 DEF Alike, SameCells, Agree
  <2>2. CASE n.stack = m.stack /\ u.stack = t.stack
    BY <2>1, <2>2
  <2>3. CASE \E r \in 0 .. (Width[m.fid] - 1) : \E v : Wrote(m, n, r, v) /\ Wrote(t, u, r, v)
    <3>0. PICK r \in 0 .. (Width[m.fid] - 1) : \E v : Wrote(m, n, r, v) /\ Wrote(t, u, r, v)
      BY <2>3
    <3>1. PICK v : Wrote(m, n, r, v) /\ Wrote(t, u, r, v)
      BY <3>0
    <3>2. /\ n.stack = [m.stack EXCEPT ![m.fp + r + 1] = v]
          /\ u.stack = [t.stack EXCEPT ![t.fp + r + 1] = v]
      BY <3>1 DEF Wrote
    <3>3. bm + j \in DOMAIN m.stack /\ bs + j \in DOMAIN t.stack
      <4>1. Len(t.stack) \in Nat /\ t.fp + Width[m.fid] =< Len(t.stack)
        BY <1>1, <1>5, FunctionOfSeq
      <4>2. bm + j \in 1 .. Len(m.stack) /\ bs + j \in 1 .. (t.fp + Width[m.fid])
        BY <1>3, <1>8
      <4>3. bs + j \in 1 .. Len(t.stack)
        BY <1>1, <4>1, <4>2
      <4> QED BY <1>1, <4>2, <4>3, FunctionOfSeq
    <3>4. (bm + j = m.fp + r + 1) <=> (bs + j = t.fp + r + 1)
      <4>1. j \in Nat /\ r \in Nat
        BY <1>1, <1>3
      <4> QED BY <1>8, <4>1
    <3> QED BY <2>1, <3>2, <3>3, <3>4
  <2> QED BY <1>6, <2>2, <2>3
<1>7. SameCells(n, u, bm, bs)
  <2> HIDE DEF top
  <2> QED BY <1>3, <1>6 DEF SameCells, Agree
<1> QED BY <1>4, <1>7 DEF Alike

\* The memories that a bytecode looks at are the same.
SameMemory(m, t) ==
    LET i == Code[m.pc]
    IN  /\ t.mem.rom = m.mem.rom
        /\ i.op \in {"rdram", "wrram"} => t.mem.ram = m.mem.ram
        /\ i.op = "wrwom" =>
              LET a == Register(m, i.address) + 1
                  v == Register(m, i.source)
              IN  Collides(t.mem.wom, a, v) <=> Collides(m.mem.wom, a, v)

\* Two machines that are alike execute a plain bytecode alike.
LEMMA PlainAlike ==
    ASSUME NEW m, NEW t, WellBehaved(m), WellBehaved(t),
           NEW bm \in Nat, NEW bs \in Nat, NEW cm \in Nat, NEW cs \in Nat,
           Alike(m, t, bm, bs, cm, cs), Code[m.pc].op \in Plain, t.status = m.status,
           SameMemory(m, t)
    PROVE  LET n == Dispatch(m)
               u == Dispatch(t)
           IN  Alike(n, u, bm, bs, cm, cs) /\ u.status = n.status
<1> DEFINE n == Dispatch(m)
           u == Dispatch(t)
           i == Code[m.pc]
<1>0. MachineInv(m) /\ MachineInv(t) /\ t.pc = m.pc /\ t.fid = m.fid /\ i.op \in Plain
      /\ MachineFields \subseteq DOMAIN m /\ MachineFields \subseteq DOMAIN t
  BY DEF WellBehaved, Alike, SamePlace, MachineInv
<1>1. /\ SameFrames(m, n) /\ SameFrames(t, u)
      /\ ~Returning(m) /\ ~Returning(n)
  BY <1>0, PlainPlace
<1>2. ASSUME NEW r \in 0 .. (Width[m.fid] - 1) PROVE Register(t, r) = Register(m, r)
  BY SameRegister
<1>3. Uses(m.pc) \subseteq 0 .. (Width[m.fid] - 1)
      /\ Definitions(m.pc) \subseteq 0 .. (Width[m.fid] - 1)
  <2>1. m.fid \in Function /\ m.pc \in Body(m.fid) /\ NumInputs[m.fid] \in Nat
    BY <1>0, EntryInBody DEF MachineInv
  <2>2. Definitions(m.pc) \subseteq NumInputs[m.fid] .. (Width[m.fid] - 1)
    BY <2>1, OperandsOf
  <2> QED BY <2>1, <2>2, OperandsOf
<1> SUFFICES /\ u.pc = n.pc /\ u.status = n.status
             /\ \/ n.stack = m.stack /\ u.stack = t.stack
                \/ \E r \in 0 .. (Width[m.fid] - 1) : \E v : Wrote(m, n, r, v) /\ Wrote(t, u, r, v)
  <2> HIDE DEF n, u
  <2>1. u.pc = n.pc => Alike(n, u, bm, bs, cm, cs)
    BY <1>0, <1>1, AlikeInPlace
  <2> QED BY <2>1 DEF n, u
<1>4. CASE i.op = "add"
  <2>1. i.source \in Uses(m.pc) /\ i.target \in Definitions(m.pc)
    BY <1>4 DEF Uses, Definitions
  <2>2. Register(t, i.source) = Register(m, i.source)
    BY <1>2, <1>3, <2>1
  <2> QED BY <1>0, <1>3, <1>4, <2>1, <2>2, AddEffect
<1>5. CASE i.op = "skipif"
  <2>1. i.left \in Uses(m.pc) /\ ("right" \in DOMAIN i => i.right \in Uses(m.pc))
    BY <1>5 DEF Uses
  <2>2. Register(t, i.left) = Register(m, i.left)
        /\ ("right" \in DOMAIN i => Register(t, i.right) = Register(m, i.right))
    BY <1>2, <1>3, <2>1
  <2>3. /\ Changes(m, n, {"pc"}) /\ Changes(t, u, {"pc"}) /\ u.pc = n.pc
    BY <1>0, <1>5, <2>2, SkipIfEffect
  <2> HIDE DEF n, u
  <2> QED BY <1>0, <2>3 DEF Changes, MachineFields
<1>6. CASE i.op = "rdrom"
  <2>1. i.address \in Uses(m.pc) /\ i.target \in Definitions(m.pc)
    BY <1>6 DEF Uses, Definitions
  <2>2. Register(t, i.address) = Register(m, i.address) /\ t.mem.rom = m.mem.rom
    BY <1>2, <1>3, <2>1 DEF SameMemory
  <2> QED BY <1>0, <1>3, <1>6, <2>1, <2>2, ReadRomEffect
<1>7. CASE i.op = "wrwom"
  <2> DEFINE a == Register(m, i.address) + 1
             v == Register(m, i.source)
  <2>1. i.address \in Uses(m.pc) /\ i.source \in Uses(m.pc)
    BY <1>7 DEF Uses
  <2>2. Register(t, i.address) + 1 = a /\ Register(t, i.source) = v
    BY <1>2, <1>3, <2>1
  <2>3. Collides(t.mem.wom, a, v) <=> Collides(m.mem.wom, a, v)
    BY <1>7 DEF SameMemory
  <2>4. IF Collides(m.mem.wom, a, v)
        THEN Changes(m, n, {"status"}) /\ n.status = "failed"
        ELSE Changes(m, n, {"pc", "mem"}) /\ n.pc = m.pc + 1
    BY <1>0, <1>7, WriteWomEffect
  <2>5. IF Collides(m.mem.wom, a, v)
        THEN Changes(t, u, {"status"}) /\ u.status = "failed"
        ELSE Changes(t, u, {"pc", "mem"}) /\ u.pc = m.pc + 1
    BY <1>0, <1>7, <2>2, <2>3, WriteWomEffect
  <2> HIDE DEF n, u, a, v
  <2> QED BY <1>0, <2>4, <2>5 DEF Changes, MachineFields
<1>8. CASE i.op = "rdram"
  <2>1. i.address \in Uses(m.pc) /\ i.target \in Definitions(m.pc)
    BY <1>8 DEF Uses, Definitions
  <2>2. Register(t, i.address) = Register(m, i.address) /\ t.mem.ram = m.mem.ram
    BY <1>2, <1>3, <1>8, <2>1 DEF SameMemory
  <2> DEFINE v == m.mem.ram[Register(m, i.address)].value
  <2>3. Changes(m, n, {"stack", "pc", "mem", "log"}) /\ n.pc = m.pc + 1 /\ Wrote(m, n, i.target, v)
    BY <1>0, <1>8, ReadRamEffect
  <2>4. Changes(t, u, {"stack", "pc", "mem", "log"}) /\ u.pc = m.pc + 1 /\ Wrote(t, u, i.target, v)
    BY <1>0, <1>8, <2>2, ReadRamEffect
  <2> HIDE DEF n, u, v
  <2>5. n.status = m.status /\ u.status = t.status
    BY <1>0, <2>3, <2>4 DEF Changes, MachineFields
  <2> QED BY <1>3, <2>1, <2>3, <2>4, <2>5
<1>9. CASE i.op = "wrram"
  <2>1. /\ Changes(m, n, {"pc", "mem", "log"}) /\ n.pc = m.pc + 1
        /\ Changes(t, u, {"pc", "mem", "log"}) /\ u.pc = m.pc + 1
    BY <1>0, <1>9, WriteRamEffect
  <2> HIDE DEF n, u
  <2> QED BY <1>0, <2>1 DEF Changes, MachineFields
<1>10. CASE i.op \in {"jmp", "done", "fail"}
  <2>1. IF i.op = "jmp"
        THEN Changes(m, n, {"pc"}) /\ n.pc = i.goto
        ELSE Changes(m, n, {"status"}) /\ n.status = IF i.op = "done" THEN "done" ELSE "failed"
    BY <1>0, <1>10, ControlEffect
  <2>2. IF i.op = "jmp"
        THEN Changes(t, u, {"pc"}) /\ u.pc = i.goto
        ELSE Changes(t, u, {"status"}) /\ u.status = IF i.op = "done" THEN "done" ELSE "failed"
    BY <1>0, <1>10, ControlEffect
  <2> HIDE DEF n, u, i
  <2> QED BY <1>0, <2>1, <2>2 DEF Changes, MachineFields
<1> QED BY <1>0, <1>4, <1>5, <1>6, <1>7, <1>8, <1>9, <1>10 DEF Plain, Opcodes

-----------------------------------------------------------------------------
\* What calls change.

\* A record on top of a stack.
OnTop(t, s, f, args) ==
    /\ IsSeq(t) /\ Len(t) = Len(s) + Width[f]
    /\ \A j \in 1 .. Len(s) : t[j] = s[j]
    /\ \A j \in 1 .. Width[f] : t[Len(s) + j] = NewFrame(f, args)[j]
    /\ \A j \in 1 .. NumInputs[f] : NewFrame(f, args)[j] = args[j]

\* The cells of a record on top of a stack.
LEMMA Stacked ==
    ASSUME NEW s, IsSeq(s), NEW f \in Function, NEW args, IsSeq(args), Len(args) = NumInputs[f]
    PROVE  OnTop(s \o NewFrame(f, args), s, f, args)
<1>1. NumInputs[f] =< Width[f]
  <2>1. /\ Width[f] \in Nat /\ NumInputs[f] \in Nat /\ NumOutputs[f] \in Nat
        /\ NumInputs[f] + NumOutputs[f] =< Width[f]
    BY EntryInBody
  <2> QED BY <2>1
<1>2. /\ IsSeq(NewFrame(f, args)) /\ Len(NewFrame(f, args)) = Width[f]
      /\ \A j \in 1 .. Len(args) : NewFrame(f, args)[j] = args[j]
  BY <1>1, FrameOfCall
<1> QED BY <1>2, Concatenated DEF OnTop

\* The callee of an ENTER or a TAILCALL.
LEMMA CallOf ==
    ASSUME NEW m, MachineInv(m), Code[m.pc].op \in {"enter", "tail"}
    PROVE  LET i == Code[m.pc]
               args == Operands(m, i.args)
           IN  /\ i.fun \in Function /\ IsSeq(args) /\ Len(args) = NumInputs[i.fun]
               /\ Len(i.args) = NumInputs[i.fun] /\ NumInputs[i.fun] \in Nat
               /\ \A k \in 1 .. Len(i.args) : args[k] = Register(m, i.args[k])
               /\ \A k \in 1 .. Len(i.args) : i.args[k] \in 0 .. (Width[m.fid] - 1)
               /\ ~Returning(m)
<1> DEFINE i == Code[m.pc]
<1>1. m.fid \in Function /\ m.pc \in Body(m.fid)
  BY DEF MachineInv
<1>2. i.fun \in Function /\ Len(i.args) = NumInputs[i.fun] /\ NumInputs[i.fun] \in Nat
  BY <1>1, BytecodeOf, EntryInBody
<1>3. IsSeq(Operands(m, i.args)) /\ Len(Operands(m, i.args)) = NumInputs[i.fun]
  BY <1>2, OperandsOfCall
<1>4. \A k \in 1 .. Len(i.args) : Operands(m, i.args)[k] = Register(m, i.args[k])
  BY DEF Operands
<1>5. ASSUME NEW k \in 1 .. Len(i.args) PROVE i.args[k] \in 0 .. (Width[m.fid] - 1)
  <2>1. i.args[k] \in Uses(m.pc)
    BY DEF Uses
  <2> QED BY <1>1, <2>1, OperandsOf
<1> QED BY <1>2, <1>3, <1>4, <1>5 DEF Returning

\* A call pushes the frame of its callee and leaves that of its caller.
LEMMA EnterEffect ==
    ASSUME NEW m, MachineInv(m), Code[m.pc].op = "enter",
           ~Cached(m, Code[m.pc].fun, Operands(m, Code[m.pc].args))
    PROVE  LET n == Dispatch(m)
               f == Code[m.pc].fun
           IN  /\ Changes(m, n, {"stack", "calls", "fid", "fp", "pc"})
               /\ n.fid = f /\ n.fp = Len(m.stack) /\ n.pc = Entry[f]
               /\ n.stack = m.stack \o NewFrame(f, Operands(m, Code[m.pc].args))
               /\ n.calls = Append(m.calls, [fid |-> m.fid, fp |-> m.fp, pc |-> m.pc + 1])
               /\ n.calls # <<>> /\ ~Returning(n) /\ WellBehaved(n)
<1> DEFINE i == Code[m.pc]
           f == i.fun
           stack == m.stack \o NewFrame(f, Operands(m, i.args))
           call == [fid |-> m.fid, fp |-> m.fp, pc |-> m.pc + 1]
           n == [m EXCEPT !.stack = stack, !.calls = Append(m.calls, call),
                          !.fid = f, !.fp = Len(m.stack), !.pc = Entry[f]]
<1>1. Dispatch(m) = n
  BY DEF Dispatch, Enter
<1>2. MachineFields \subseteq DOMAIN m /\ IsSeq(m.calls)
  BY DEF MachineInv
<1>3. MachineInv(n) /\ ~Returning(n)
  <2>1. Enter(m, i) = n
    BY DEF Enter
  <2> HIDE DEF n
  <2> QED BY <2>1, EnterCall
<1> HIDE DEF stack, call
<1>4. Append(m.calls, call) # <<>>
  <2> DEFINE a == Append(m.calls, call)
  <2>1. Len(a) = Len(m.calls) + 1 /\ Len(m.calls) \in Nat
    BY <1>2, Appended, FunctionOfSeq
  <2> HIDE DEF a
  <2>2. Len(a) # 0
    BY <2>1
  <2>3. a # <<>>
    BY <2>2
  <2> QED BY <2>3 DEF a
<1>5. /\ Changes(m, n, {"stack", "calls", "fid", "fp", "pc"})
      /\ n.fid = f /\ n.fp = Len(m.stack) /\ n.pc = Entry[f]
      /\ n.stack = stack /\ n.calls = Append(m.calls, call)
  BY <1>2 DEF Changes, MachineFields
<1> HIDE DEF n
<1> QED BY <1>1, <1>3, <1>4, <1>5 DEF WellBehaved, stack, call

\* A tail call puts the frame of its callee in place of the one it leaves.
LEMMA TailEffect ==
    ASSUME NEW m, MachineInv(m), Code[m.pc].op = "tail"
    PROVE  LET n == Dispatch(m)
               f == Code[m.pc].fun
           IN  /\ Changes(m, n, {"stack", "fid", "pc"})
               /\ n.fid = f /\ n.pc = Entry[f]
               /\ n.stack = SubSeq(m.stack, 1, m.fp) \o NewFrame(f, Operands(m, Code[m.pc].args))
               /\ ~Returning(n) /\ WellBehaved(n) /\ f \in NoReturn
<1> DEFINE i == Code[m.pc]
           f == i.fun
           stack == SubSeq(m.stack, 1, m.fp) \o NewFrame(f, Operands(m, i.args))
           n == [m EXCEPT !.stack = stack, !.fid = f, !.pc = Entry[f]]
<1>1. Dispatch(m) = n
  BY DEF Dispatch, TailCall
<1>2. MachineFields \subseteq DOMAIN m /\ m.pc \in DOMAIN Code
  BY DEF MachineInv, Body
<1>3. MachineInv(n) /\ ~Returning(n)
  <2>1. TailCall(m, i) = n
    BY DEF TailCall
  <2> HIDE DEF n
  <2> QED BY <2>1, TailStep
<1> HIDE DEF stack
<1>5. /\ Changes(m, n, {"stack", "fid", "pc"})
      /\ n.fid = f /\ n.pc = Entry[f] /\ n.stack = stack
  BY <1>2 DEF Changes, MachineFields
<1>6. f \in NoReturn
  BY <1>2 DEF NoReturn
<1> HIDE DEF n
<1> QED BY <1>1, <1>3, <1>5, <1>6 DEF WellBehaved, stack

\* A return to a caller.
LEMMA ReturnEffect ==
    ASSUME NEW m, MachineInv(m), Code[m.pc].op = "ret", m.calls # <<>>
    PROVE  LET n == Dispatch(m)
               caller == m.calls[Len(m.calls)]
           IN  /\ Changes(m, n, {"calls", "cache", "fid", "fp", "pc", "rp", "rw"})
               /\ n.fid = caller.fid /\ n.fp = caller.fp /\ n.pc = caller.pc
               /\ n.calls = SubSeq(m.calls, 1, Len(m.calls) - 1) /\ n.cache = Remembered(m)
               /\ n.rp = m.fp + NumInputs[m.fid] /\ n.rw = Width[m.fid]
               /\ Len(m.calls) > 0 /\ Len(n.calls) = Len(m.calls) - 1
               /\ \A l \in 1 .. (Len(m.calls) - 1) : n.calls[l] = m.calls[l]
               /\ WellBehaved(n) /\ Returning(n)
               /\ Code[n.pc - 1].fun = m.fid /\ n.fp + Width[n.fid] = m.fp
               /\ m.fid \notin NoReturn
<1> DEFINE caller == m.calls[Len(m.calls)]
           calls == SubSeq(m.calls, 1, Len(m.calls) - 1)
           n == [m EXCEPT !.calls = calls, !.cache = Remembered(m),
                          !.fid = caller.fid, !.fp = caller.fp, !.pc = caller.pc,
                          !.rp = m.fp + NumInputs[m.fid], !.rw = Width[m.fid]]
<1>1. Dispatch(m) = n /\ Return(m) = n
  BY DEF Dispatch, Return
<1>2. MachineFields \subseteq DOMAIN m /\ IsSeq(m.calls) /\ Len(m.calls) \in Nat
      /\ m.fid \in Function /\ m.pc \in Body(m.fid) /\ m.fp \in Nat
  BY FunctionOfSeq DEF MachineInv
<1>3. Len(m.calls) > 0
  <2>1. Len(m.calls) # 0
    <3>1. IsSeq(<<>>) /\ Len(<<>>) = 0
      BY EmptySeq DEF IsSeq
    <3>2. Len(m.calls) = 0 => \A i \in 1 .. Len(m.calls) : m.calls[i] = <<>>[i]
      BY <1>2
    <3> QED BY <1>2, <3>1, <3>2, SameSeq
  <2> QED BY <1>2, <2>1
<1>4. MachineInv(n)
  <2> HIDE DEF n
  <2> QED BY <1>1, ReturnStep
<1>5. Len(calls) = Len(m.calls) - 1 /\ \A l \in 1 .. (Len(m.calls) - 1) : calls[l] = m.calls[l]
  <2> DEFINE b == Len(m.calls) - 1
  <2>1. b \in Nat /\ 0 =< b /\ b =< Len(m.calls) /\ b - 0 = b /\ 0 + 1 = 1
    BY <1>2, <1>3
  <2> HIDE DEF b
  <2>2. /\ Len(SubSeq(m.calls, 0 + 1, b)) = b - 0
        /\ \A l \in 1 .. (b - 0) : SubSeq(m.calls, 0 + 1, b)[l] = m.calls[0 + l]
    BY <1>2, <2>1, Part
  <2>3. \A l \in 1 .. b : 0 + l = l
    BY <2>1
  <2> QED BY <2>1, <2>2, <2>3 DEF b
<1>6. /\ Changes(m, n, {"calls", "cache", "fid", "fp", "pc", "rp", "rw"})
      /\ n.fid = caller.fid /\ n.fp = caller.fp /\ n.pc = caller.pc
      /\ n.calls = calls /\ n.cache = Remembered(m)
      /\ n.rp = m.fp + NumInputs[m.fid] /\ n.rw = Width[m.fid]
  <2> HIDE DEF caller, calls
  <2> QED BY <1>2 DEF Changes, MachineFields
<1> DEFINE k == Len(m.calls)
<1>7. /\ caller.fid \in Function /\ caller.fp \in Nat /\ caller.pc \in Nat
      /\ caller.pc - 1 \in Body(caller.fid) /\ Code[caller.pc - 1].op = "enter"
      /\ m.fid \in NoReturn \cup {Code[caller.pc - 1].fun}
  <2>1. k \in 1 .. Len(m.calls)
    BY <1>2, <1>3
  <2>2. IsCall(m, k)
    BY <2>1 DEF MachineInv
  <2>3. FrameOf(m, k + 1) = [fid |-> m.fid, fp |-> m.fp]
    BY DEF FrameOf
  <2> QED BY <2>2, <2>3 DEF IsCall
<1>8. m.fid \notin NoReturn
  BY <1>2, BytecodeOf
<1>9. Code[caller.pc].op = "leave"
  <2>1. (caller.pc - 1) + 1 = caller.pc /\ caller.pc - 1 \in Nat
    BY <1>7, BytecodeOf
  <2>2. caller.pc \in Follow(caller.pc - 1)
    BY <1>7, <2>1, NextBytecode DEF Opcodes
  <2> QED BY <1>7, <2>2, BytecodeOf
<1>10. caller.fp + Width[caller.fid] = m.fp
  <2>1. \A l \in 1 .. ((Len(m.calls) + 1) - 1) :
           FrameOf(m, l + 1).fp = FrameOf(m, l).fp + Width[FrameOf(m, l).fid]
    BY DEF MachineInv, FramesTile
  <2>2. k \in 1 .. ((Len(m.calls) + 1) - 1) /\ k # Len(m.calls) + 1
    BY <1>2, <1>3
  <2>3. FrameOf(m, k + 1) = [fid |-> m.fid, fp |-> m.fp]
        /\ FrameOf(m, k) = [fid |-> caller.fid, fp |-> caller.fp]
    BY <2>2 DEF FrameOf
  <2> QED BY <2>1, <2>2, <2>3
<1> HIDE DEF n, caller, calls
<1> QED BY <1>1, <1>3, <1>4, <1>5, <1>6, <1>7, <1>8, <1>9, <1>10
        DEF WellBehaved, Returning, calls, caller

\* A return of the bottom function ends the execution.
LEMMA EndEffect ==
    ASSUME NEW m, MachineInv(m), Code[m.pc].op = "ret", m.calls = <<>>
    PROVE  LET n == Dispatch(m)
           IN  Changes(m, n, {"status"}) /\ n.status = "done" /\ ~Returning(n) /\ WellBehaved(n)
<1> DEFINE n == [m EXCEPT !.status = "done"]
<1>1. Dispatch(m) = n
  BY DEF Dispatch, Return
<1>2. MachineFields \subseteq DOMAIN m
  BY DEF MachineInv
<1>3. Changes(m, n, {"status"}) /\ n.status = "done" /\ n.pc = m.pc
  BY <1>2 DEF Changes, MachineFields
<1>4. MachineInv(n)
  <2> HIDE DEF n
  <2> QED BY <1>1, DispatchStep
<1> HIDE DEF n
<1> QED BY <1>1, <1>3, <1>4 DEF Returning, WellBehaved

\* The returns that have been copied.
LEMMA LeaveEffect ==
    ASSUME NEW m, WellBehaved(m), Code[m.pc].op = "leave"
    PROVE  LET n == Dispatch(m)
               rets == Code[m.pc].rets
               top == m.fp + Width[m.fid]
           IN  /\ Changes(m, n, {"stack", "pc"}) /\ n.pc = m.pc + 1
               /\ \A c \in 1 .. top :
                     n.stack[c] = IF \E k \in 1 .. Len(rets) : rets[k] = c - m.fp - 1
                                  THEN m.stack[m.rp + (CHOOSE k \in 1 .. Len(rets) :
                                                          rets[k] = c - m.fp - 1)]
                                  ELSE m.stack[c]
               /\ ~Returning(n) /\ WellBehaved(n)
<1> DEFINE i == Code[m.pc]
           copied == Copied(m, i.rets)
           stack == SubSeq(copied, 1, Len(m.stack) - m.rw)
           n == Skip1([m EXCEPT !.stack = stack])
           top == m.fp + Width[m.fid]
<1>1. Dispatch(m) = n /\ Leave(m, i) = n
  BY DEF Dispatch, Leave
<1>2. MachineFields \subseteq DOMAIN m /\ MachineInv(m) /\ Returning(m)
  BY DEF WellBehaved, MachineInv, Returning
<1>3. MachineInv(n) /\ ~Returning(n)
  <2> HIDE DEF n
  <2> QED BY <1>1, <1>2, LeaveStep
<1>4. Changes(m, n, {"stack", "pc"}) /\ n.pc = m.pc + 1 /\ n.stack = stack
  <2> HIDE DEF stack
  <2> QED BY <1>2 DEF Changes, MachineFields, Skip1, Goto
<1>5. /\ Len(m.stack) - m.rw = top /\ top \in Nat /\ top =< Len(m.stack) /\ Len(m.stack) \in Nat
      /\ m.fp \in Nat
  <2>1. /\ m.rw = Width[Code[m.pc - 1].fun] /\ Width[Code[m.pc - 1].fun] \in Nat
        /\ Len(m.stack) = m.fp + Width[m.fid] + Width[Code[m.pc - 1].fun]
    BY <1>2, CalleeSizes
  <2>2. m.fp \in Nat /\ Width[m.fid] \in Nat
    BY <1>2, FrameSizes
  <2> QED BY <2>1, <2>2
<1>6. IsSeq(copied) /\ Len(copied) = Len(m.stack)
  <2>1. copied = [c \in 1 .. Len(m.stack) |-> copied[c]]
    BY DEF Copied
  <2> HIDE DEF copied
  <2> QED BY <1>5, <2>1, SeqOfFunction
<1>7. \A c \in 1 .. top : stack[c] = copied[c]
  <2> HIDE DEF copied, top
  <2>1. 0 =< top /\ top =< Len(copied) /\ 0 + 1 = 1 /\ top - 0 = top
    BY <1>5, <1>6
  <2>2. \A c \in 1 .. (top - 0) : SubSeq(copied, 0 + 1, top)[c] = copied[0 + c]
    BY <1>5, <1>6, <2>1, Part
  <2>3. \A c \in 1 .. top : 0 + c = c
    BY <1>5
  <2> QED BY <1>5, <2>1, <2>2, <2>3
<1>8. \A c \in 1 .. top :
         copied[c] = IF \E k \in 1 .. Len(i.rets) : i.rets[k] = c - m.fp - 1
                     THEN m.stack[m.rp + (CHOOSE k \in 1 .. Len(i.rets) :
                                             i.rets[k] = c - m.fp - 1)]
                     ELSE m.stack[c]
  <2>1. 1 .. top \subseteq 1 .. Len(m.stack)
    BY <1>5
  <2> HIDE DEF top, i
  <2> QED BY <2>1 DEF Copied
<1> HIDE DEF n, copied, stack
<1> QED BY <1>1, <1>3, <1>4, <1>7, <1>8 DEF WellBehaved

-----------------------------------------------------------------------------
\* Machines that are alike stay so at calls and returns.

\* Places below and above a in a stack whose part of interest starts after ca
\* cells, and those below and above b in one whose part starts after cb.
LEMMA OffsetPlaces ==
    ASSUME NEW a \in Nat, NEW b \in Nat, NEW w \in Nat, NEW ca \in Nat, NEW cb \in Nat,
           ca =< a, b + ca = a + cb, NEW j \in 1 .. ((a + w) - ca)
    PROVE  /\ cb =< b /\ (b + w) + ca = (a + w) + cb /\ ca =< a + w
           /\ \/ /\ j \in 1 .. (a - ca) /\ ca + j \in 1 .. a /\ cb + j \in 1 .. b
              \/ \E k \in 1 .. w : ca + j = a + k /\ cb + j = b + k
<1>1. CASE j =< a - ca
  BY <1>1
<1>2. CASE ~(j =< a - ca)
  <2>1. j - (a - ca) \in 1 .. w /\ ca + j = a + (j - (a - ca)) /\ cb + j = b + (j - (a - ca))
    BY <1>2
  <2> QED BY <2>1
<1> QED BY <1>1, <1>2

\* The same record on top of stacks that are the same.
LEMMA AlikeStacked ==
    ASSUME NEW f \in Function, NEW args, IsSeq(args), Len(args) = NumInputs[f],
           NEW s, NEW t, IsSeq(s), IsSeq(t),
           NEW bm \in Nat, NEW bs \in Nat, NEW cm \in Nat, NEW cs \in Nat,
           NEW n, NEW u
    PROVE  /\ bm =< Len(s) /\ Len(t) + bm = Len(s) + bs
           /\ Agree(s, t, bm, bs, Len(s) - bm)
           /\ n.fid = f /\ u.fid = f /\ n.pc = Entry[f] /\ u.pc = Entry[f]
           /\ n.fp = Len(s) /\ u.fp = Len(t) /\ ~Returning(n)
           /\ SameCalls(n, u, bm, bs, cm, cs)
           /\ n.stack = s \o NewFrame(f, args) /\ u.stack = t \o NewFrame(f, args)
           => Alike(n, u, bm, bs, cm, cs)
<1> DEFINE ls == Len(s)
           lt == Len(t)
           w == Width[f]
           nf == NewFrame(f, args)
           sn == s \o nf
           tn == t \o nf
<1>1. ls \in Nat /\ lt \in Nat /\ w \in Nat
  BY FunctionOfSeq, EntryInBody
<1>2. /\ \A j \in 1 .. ls : sn[j] = s[j]
      /\ \A j \in 1 .. w : sn[ls + j] = nf[j]
  <2>1. OnTop(sn, s, f, args)
    BY Stacked
  <2> HIDE DEF sn
  <2> QED BY <2>1 DEF OnTop
<1>3. /\ \A j \in 1 .. lt : tn[j] = t[j]
      /\ \A j \in 1 .. w : tn[lt + j] = nf[j]
  <2>1. OnTop(tn, t, f, args)
    BY Stacked
  <2> HIDE DEF tn
  <2> QED BY <2>1 DEF OnTop
<1> HIDE DEF ls, lt, w, nf, sn, tn
<1>4. SUFFICES ASSUME bm =< ls, lt + bm = ls + bs,
                      Agree(s, t, bm, bs, ls - bm),
                      n.fid = f, u.fid = f, n.pc = Entry[f], u.pc = Entry[f],
                      n.fp = ls, u.fp = lt, ~Returning(n), SameCalls(n, u, bm, bs, cm, cs),
                      n.stack = sn, u.stack = tn
               PROVE  Alike(n, u, bm, bs, cm, cs)
  BY DEF ls, lt, nf, sn, tn
<1>5. Extent(n) = ls + w
  BY <1>1, <1>4 DEF Extent, w
<1>6. SamePlace(n, u, bm, bs)
  BY <1>1, <1>4 DEF SamePlace
<1>7. ASSUME NEW j \in 1 .. ((ls + w) - bm) PROVE u.stack[bs + j] = n.stack[bm + j]
  <2>0. bm =< ls /\ lt + bm = ls + bs
    BY <1>4
  <2>1. \/ /\ j \in 1 .. (ls - bm) /\ bm + j \in 1 .. ls /\ bs + j \in 1 .. lt
        \/ \E k \in 1 .. w : bm + j = ls + k /\ bs + j = lt + k
    BY <1>1, <2>0, OffsetPlaces
  <2>2. CASE j \in 1 .. (ls - bm) /\ bm + j \in 1 .. ls /\ bs + j \in 1 .. lt
    <3>1. sn[bm + j] = s[bm + j] /\ tn[bs + j] = t[bs + j]
      BY <1>2, <1>3, <2>2
    <3>2. t[bs + j] = s[bm + j]
      BY <1>4, <2>2 DEF Agree
    <3> QED BY <1>4, <3>1, <3>2
  <2>3. CASE \E k \in 1 .. w : bm + j = ls + k /\ bs + j = lt + k
    <3>1. PICK k \in 1 .. w : bm + j = ls + k /\ bs + j = lt + k
      BY <2>3
    <3>2. sn[ls + k] = nf[k] /\ tn[lt + k] = nf[k]
      BY <1>2, <1>3
    <3> QED BY <1>4, <3>1, <3>2
  <2> QED BY <2>1, <2>2, <2>3
<1>8. SameCells(n, u, bm, bs)
  BY <1>5, <1>7 DEF SameCells, Agree
<1> QED BY <1>4, <1>6, <1>8 DEF Alike

\* Calls that are the same after the same call has been made in both.
LEMMA AlikeAppended ==
    ASSUME NEW m, NEW t, NEW n, NEW u, NEW c, NEW d, IsSeq(m.calls), IsSeq(t.calls),
           NEW bm \in Nat, NEW bs \in Nat, NEW cm \in Nat, NEW cs \in Nat
    PROVE  /\ SameCalls(m, t, bm, bs, cm, cs) /\ SameCall(c, d, bm, bs)
           /\ n.calls = Append(m.calls, c) /\ u.calls = Append(t.calls, d)
           => SameCalls(n, u, bm, bs, cm, cs)
<1> DEFINE lm == Len(m.calls)
           lt == Len(t.calls)
           nc == Append(m.calls, c)
           uc == Append(t.calls, d)
<1>1. lm \in Nat /\ lt \in Nat
  BY FunctionOfSeq
<1>2. Len(nc) = lm + 1 /\ nc[lm + 1] = c /\ \A l \in 1 .. lm : nc[l] = m.calls[l]
  BY Appended
<1>3. Len(uc) = lt + 1 /\ uc[lt + 1] = d /\ \A l \in 1 .. lt : uc[l] = t.calls[l]
  BY Appended
<1> HIDE DEF lm, lt, nc, uc
<1>4. SUFFICES ASSUME cm =< lm, lt + cm = lm + cs, SameCall(c, d, bm, bs),
                      \A l \in 1 .. (lm - cm) : SameCall(m.calls[cm + l], t.calls[cs + l], bm, bs),
                      n.calls = nc, u.calls = uc
               PROVE  SameCalls(n, u, bm, bs, cm, cs)
  BY DEF SameCalls, lm, lt, nc, uc
<1>5. cm =< lm /\ lt + cm = lm + cs
  BY <1>4
<1>6. ASSUME NEW l \in 1 .. ((lm + 1) - cm)
      PROVE  SameCall(nc[cm + l], uc[cs + l], bm, bs)
  <2>1. \/ /\ l \in 1 .. (lm - cm) /\ cm + l \in 1 .. lm /\ cs + l \in 1 .. lt
        \/ \E k \in 1 .. 1 : cm + l = lm + k /\ cs + l = lt + k
    BY <1>1, <1>5, OffsetPlaces
  <2>2. CASE l \in 1 .. (lm - cm) /\ cm + l \in 1 .. lm /\ cs + l \in 1 .. lt
    <3>1. nc[cm + l] = m.calls[cm + l] /\ uc[cs + l] = t.calls[cs + l]
      BY <1>2, <1>3, <2>2
    <3> QED BY <1>4, <2>2, <3>1
  <2>3. CASE \E k \in 1 .. 1 : cm + l = lm + k /\ cs + l = lt + k
    <3>1. cm + l = lm + 1 /\ cs + l = lt + 1
      BY <2>3
    <3> QED BY <1>2, <1>3, <1>4, <3>1
  <2> QED BY <2>1, <2>2, <2>3
<1>7. cm =< lm + 1 /\ (lt + 1) + cm = (lm + 1) + cs
  BY <1>1, <1>5
<1> QED BY <1>2, <1>3, <1>4, <1>6, <1>7 DEF SameCalls

\* The same operands.
LEMMA SameOperands ==
    ASSUME NEW m, NEW t, WellBehaved(m), WellBehaved(t),
           NEW bm \in Nat, NEW bs \in Nat, NEW cm \in Nat, NEW cs \in Nat,
           Alike(m, t, bm, bs, cm, cs), Code[m.pc].op \in {"enter", "tail"}
    PROVE  Operands(t, Code[m.pc].args) = Operands(m, Code[m.pc].args)
<1> DEFINE regs == Code[m.pc].args
<1>1. \A k \in 1 .. Len(regs) : regs[k] \in 0 .. (Width[m.fid] - 1)
  BY CallOf DEF WellBehaved
<1>2. \A k \in 1 .. Len(regs) : Register(t, regs[k]) = Register(m, regs[k])
  BY <1>1, SameRegister
<1> QED BY <1>2 DEF Operands

\* What two machines that are alike have in common.
LEMMA AlikeFrames ==
    ASSUME NEW m, NEW t, WellBehaved(m), WellBehaved(t),
           NEW bm \in Nat, NEW bs \in Nat, NEW cm \in Nat, NEW cs \in Nat,
           Alike(m, t, bm, bs, cm, cs)
    PROVE  /\ t.fid = m.fid /\ t.pc = m.pc /\ m.fp \in Nat /\ t.fp \in Nat
           /\ bm =< m.fp /\ t.fp + bm = m.fp + bs
           /\ Width[m.fid] \in Nat /\ Len(m.calls) \in Nat /\ Len(t.calls) \in Nat
           /\ IsSeq(m.stack) /\ IsSeq(t.stack) /\ Len(m.stack) \in Nat /\ Len(t.stack) \in Nat
           /\ Agree(m.stack, t.stack, bm, bs, (m.fp + Width[m.fid]) - bm)
           /\ ~Returning(m) => /\ Len(m.stack) = m.fp + Width[m.fid]
                               /\ Len(t.stack) = t.fp + Width[m.fid]
                               /\ Extent(m) = m.fp + Width[m.fid]
<1>1. t.fid = m.fid /\ t.pc = m.pc /\ bm =< m.fp /\ t.fp + bm = m.fp + bs
  BY DEF Alike, SamePlace
<1>2. /\ m.fp \in Nat /\ t.fp \in Nat /\ Width[m.fid] \in Nat
      /\ Len(m.calls) \in Nat /\ Len(t.calls) \in Nat
      /\ Len(m.stack) \in Nat /\ Len(t.stack) \in Nat
      /\ IsSeq(m.stack) /\ IsSeq(t.stack)
  BY FrameSizes DEF WellBehaved, MachineInv
<1>0. m.fp \in Nat /\ Width[m.fid] \in Nat
  BY <1>2
<1>a. ~Returning(m) => Extent(m) = m.fp + Width[m.fid]
  BY <1>0 DEF Extent
<1>3. ~Returning(m) => /\ Len(m.stack) = m.fp + Width[m.fid]
                       /\ Len(t.stack) = t.fp + Width[m.fid]
                       /\ Extent(m) = m.fp + Width[m.fid]
  <2> SUFFICES ASSUME ~Returning(m) PROVE Len(m.stack) = m.fp + Width[m.fid] /\ Len(t.stack) = t.fp + Width[m.fid]
    BY <1>a
  <2>1. Code[m.pc].op # "leave" /\ Code[t.pc].op # "leave"
    BY <1>1 DEF Returning
  <2>2. Len(m.stack) = m.fp + Width[m.fid] /\ Len(t.stack) = t.fp + Width[t.fid]
    BY <2>1, FrameSizes DEF WellBehaved
  <2> QED BY <1>1, <2>2
<1>4. ASSUME NEW j \in 1 .. ((m.fp + Width[m.fid]) - bm) PROVE t.stack[bs + j] = m.stack[bm + j]
  <2> DEFINE top == m.fp + Width[m.fid]
  <2>1. Extent(m) \in Nat /\ top \in Nat /\ top =< Extent(m)
    <3>1. CASE Returning(m)
      <4>1. NumInputs[Code[m.pc - 1].fun] \in Nat /\ NumOutputs[Code[m.pc - 1].fun] \in Nat
        BY <3>1, CalleeSizes
      <4> QED BY <1>0, <3>1, <4>1 DEF Extent
    <3>2. CASE ~Returning(m)
      BY <1>0, <3>2 DEF Extent
    <3> QED BY <3>1, <3>2
  <2>2. j \in 1 .. (top - bm)
    OBVIOUS
  <2> HIDE DEF top
  <2>3. j \in 1 .. (Extent(m) - bm)
    BY <2>1, <2>2
  <2> QED BY <2>3 DEF Alike, SameCells, Agree
<1>5. Agree(m.stack, t.stack, bm, bs, (m.fp + Width[m.fid]) - bm)
  BY <1>4 DEF Agree
<1> QED BY <1>1, <1>2, <1>3, <1>5

\* A call made by machines that are alike.
LEMMA EnterAlike ==
    ASSUME NEW m, NEW t, WellBehaved(m), WellBehaved(t),
           NEW bm \in Nat, NEW bs \in Nat, NEW cm \in Nat, NEW cs \in Nat,
           Alike(m, t, bm, bs, cm, cs), Code[m.pc].op = "enter",
           ~Cached(m, Code[m.pc].fun, Operands(m, Code[m.pc].args)),
           ~Cached(t, Code[m.pc].fun, Operands(m, Code[m.pc].args))
    PROVE  Alike(Dispatch(m), Dispatch(t), bm, bs, cm, cs)
<1> DEFINE n == Dispatch(m)
           u == Dispatch(t)
           i == Code[m.pc]
           f == i.fun
           args == Operands(m, i.args)
           cn == [fid |-> m.fid, fp |-> m.fp, pc |-> m.pc + 1]
           ct == [fid |-> t.fid, fp |-> t.fp, pc |-> t.pc + 1]
<1>1. Operands(t, i.args) = args
  BY SameOperands
<1>2. f \in Function /\ IsSeq(args) /\ Len(args) = NumInputs[f] /\ ~Returning(m)
  BY CallOf DEF WellBehaved
<1>3. t.fid = m.fid /\ t.pc = m.pc /\ bm =< m.fp /\ t.fp + bm = m.fp + bs
  BY DEF Alike, SamePlace
<1>4. /\ n.fid = f /\ n.fp = Len(m.stack) /\ n.pc = Entry[f]
      /\ n.stack = m.stack \o NewFrame(f, args)
      /\ n.calls = Append(m.calls, cn) /\ ~Returning(n)
  BY EnterEffect DEF WellBehaved
<1>5. /\ u.fid = f /\ u.fp = Len(t.stack) /\ u.pc = Entry[f]
      /\ u.stack = t.stack \o NewFrame(f, args)
      /\ u.calls = Append(t.calls, ct)
  <2>1. /\ Code[t.pc].op = "enter" /\ Code[t.pc].fun = f
        /\ Operands(t, Code[t.pc].args) = args
        /\ ~Cached(t, Code[t.pc].fun, Operands(t, Code[t.pc].args))
    BY <1>1, <1>3
  <2>2. LET v == Dispatch(t)
            g == Code[t.pc].fun
        IN  /\ Changes(t, v, {"stack", "calls", "fid", "fp", "pc"})
            /\ v.fid = g /\ v.fp = Len(t.stack) /\ v.pc = Entry[g]
            /\ v.stack = t.stack \o NewFrame(g, Operands(t, Code[t.pc].args))
            /\ v.calls = Append(t.calls, [fid |-> t.fid, fp |-> t.fp, pc |-> t.pc + 1])
    BY <2>1, EnterEffect DEF WellBehaved
  <2> QED BY <2>1, <2>2
<1>6. IsSeq(m.calls) /\ IsSeq(t.calls) /\ IsSeq(m.stack) /\ IsSeq(t.stack)
  BY DEF WellBehaved, MachineInv
<1>7. SameCall(cn, ct, bm, bs)
  BY <1>3 DEF SameCall
<1> HIDE DEF n, u, i, f, args, cn, ct
<1>8. SameCalls(n, u, bm, bs, cm, cs)
  <2>1. SameCalls(m, t, bm, bs, cm, cs)
    BY DEF Alike
  <2> QED BY <1>4, <1>5, <1>6, <1>7, <2>1, AlikeAppended
<1>9. /\ bm =< Len(m.stack) /\ Len(t.stack) + bm = Len(m.stack) + bs
      /\ Agree(m.stack, t.stack, bm, bs, Len(m.stack) - bm)
  <2> DEFINE w == Width[m.fid]
             ls == Len(m.stack)
             lt == Len(t.stack)
  <2>1. m.fp \in Nat /\ t.fp \in Nat /\ w \in Nat /\ ls = m.fp + w /\ lt = t.fp + w
    BY <1>2, AlikeFrames
  <2>2. Agree(m.stack, t.stack, bm, bs, (m.fp + w) - bm)
    BY AlikeFrames
  <2> HIDE DEF w, ls, lt
  <2>3. bm =< ls /\ lt + bm = ls + bs
    BY <1>3, <2>1
  <2>4. Agree(m.stack, t.stack, bm, bs, ls - bm)
    BY <2>1, <2>2
  <2> QED BY <2>3, <2>4 DEF ls, lt
<1>20. Alike(n, u, bm, bs, cm, cs)
  <2> HIDE DEF n, u, f, args
  <2> QED BY <1>2, <1>4, <1>5, <1>6, <1>8, <1>9, AlikeStacked
<1> QED BY <1>20 DEF n, u

\* The first cells of a sequence.
LEMMA FirstCells ==
    ASSUME NEW s, IsSeq(s), NEW b \in Nat, b =< Len(s)
    PROVE  /\ IsSeq(SubSeq(s, 1, b)) /\ Len(SubSeq(s, 1, b)) = b
           /\ \A j \in 1 .. b : SubSeq(s, 1, b)[j] = s[j]
<1>1. Len(s) \in Nat
  BY FunctionOfSeq
<1>2. /\ 0 =< b /\ b =< Len(s) /\ 0 + 1 = 1 /\ b - 0 = b
      /\ \A j \in 1 .. b : 0 + j = j
  BY <1>1
<1>3. /\ IsSeq(SubSeq(s, 0 + 1, b)) /\ Len(SubSeq(s, 0 + 1, b)) = b - 0
      /\ \A j \in 1 .. (b - 0) : SubSeq(s, 0 + 1, b)[j] = s[0 + j]
  BY <1>1, <1>2, Part
<1> QED BY <1>2, <1>3

\* A tail call made by machines that are alike.
LEMMA TailAlike ==
    ASSUME NEW m, NEW t, WellBehaved(m), WellBehaved(t),
           NEW bm \in Nat, NEW bs \in Nat, NEW cm \in Nat, NEW cs \in Nat,
           Alike(m, t, bm, bs, cm, cs), Code[m.pc].op = "tail"
    PROVE  Alike(Dispatch(m), Dispatch(t), bm, bs, cm, cs)
<1> DEFINE n == Dispatch(m)
           u == Dispatch(t)
           i == Code[m.pc]
           f == i.fun
           args == Operands(m, i.args)
           s == SubSeq(m.stack, 1, m.fp)
           q == SubSeq(t.stack, 1, t.fp)
<1>1. Operands(t, i.args) = args
  BY SameOperands
<1>2. f \in Function /\ IsSeq(args) /\ Len(args) = NumInputs[f] /\ ~Returning(m)
  BY CallOf DEF WellBehaved
<1>3. t.fid = m.fid /\ t.pc = m.pc /\ bm =< m.fp /\ t.fp + bm = m.fp + bs
  BY DEF Alike, SamePlace
<1>4. MachineFields \subseteq DOMAIN m /\ MachineFields \subseteq DOMAIN t
  BY DEF WellBehaved, MachineInv
<1>5. /\ n.fid = f /\ n.fp = m.fp /\ n.pc = Entry[f] /\ n.calls = m.calls
      /\ n.stack = s \o NewFrame(f, args) /\ ~Returning(n)
  <2>1. LET v == Dispatch(m)
            g == Code[m.pc].fun
        IN  /\ Changes(m, v, {"stack", "fid", "pc"}) /\ v.fid = g /\ v.pc = Entry[g]
            /\ v.stack = SubSeq(m.stack, 1, m.fp) \o NewFrame(g, Operands(m, Code[m.pc].args))
            /\ ~Returning(v)
    BY TailEffect DEF WellBehaved
  <2>2. n.fp = m.fp /\ n.calls = m.calls
    BY <1>4, <2>1 DEF Changes, MachineFields
  <2> QED BY <2>1, <2>2
<1>6. /\ u.fid = f /\ u.fp = t.fp /\ u.pc = Entry[f] /\ u.calls = t.calls
      /\ u.stack = q \o NewFrame(f, args)
  <2>0. Code[t.pc].op = "tail" /\ Code[t.pc].fun = f /\ Operands(t, Code[t.pc].args) = args
    BY <1>1, <1>3
  <2>1. LET v == Dispatch(t)
            g == Code[t.pc].fun
        IN  /\ Changes(t, v, {"stack", "fid", "pc"}) /\ v.fid = g /\ v.pc = Entry[g]
            /\ v.stack = SubSeq(t.stack, 1, t.fp) \o NewFrame(g, Operands(t, Code[t.pc].args))
    BY <2>0, TailEffect DEF WellBehaved
  <2>2. u.fp = t.fp /\ u.calls = t.calls
    BY <1>4, <2>1 DEF Changes, MachineFields
  <2> QED BY <2>0, <2>1, <2>2
<1> HIDE DEF n, u, i, f, args
<1>7. SameCalls(n, u, bm, bs, cm, cs)
  <2>1. SameCalls(m, t, bm, bs, cm, cs)
    BY DEF Alike
  <2> QED BY <1>5, <1>6, <2>1 DEF SameCalls
<1>8. /\ m.fp \in Nat /\ t.fp \in Nat /\ m.fp =< Len(m.stack) /\ t.fp =< Len(t.stack)
      /\ IsSeq(m.stack) /\ IsSeq(t.stack)
  <2>1. IsSeq(m.stack) /\ IsSeq(t.stack)
    BY DEF WellBehaved, MachineInv
  <2>2. /\ m.fp \in Nat /\ t.fp \in Nat /\ Width[m.fid] \in Nat
        /\ Len(m.stack) = m.fp + Width[m.fid] /\ Len(t.stack) = t.fp + Width[m.fid]
    BY <1>2, AlikeFrames
  <2> QED BY <2>1, <2>2
<1>9. IsSeq(s) /\ Len(s) = m.fp /\ \A j \in 1 .. m.fp : s[j] = m.stack[j]
  BY <1>8, FirstCells
<1>10. IsSeq(q) /\ Len(q) = t.fp /\ \A j \in 1 .. t.fp : q[j] = t.stack[j]
  BY <1>8, FirstCells
<1>11. Agree(m.stack, t.stack, bm, bs, (m.fp + Width[m.fid]) - bm)
  BY AlikeFrames
<1>12. Width[m.fid] \in Nat
  BY AlikeFrames
<1> HIDE DEF s, q
<1>13. ASSUME NEW j \in 1 .. (m.fp - bm) PROVE q[bs + j] = s[bm + j]
  <2> DEFINE fm == m.fp
             ft == t.fp
             w == Width[m.fid]
  <2>1. /\ fm \in Nat /\ ft \in Nat /\ w \in Nat /\ bm =< fm /\ ft + bm = fm + bs
        /\ j \in 1 .. (fm - bm)
    BY <1>3, <1>8, <1>12, <1>13
  <2>2. \A k \in 1 .. ((fm + w) - bm) : t.stack[bs + k] = m.stack[bm + k]
    BY <1>11 DEF Agree
  <2>3. (\A k \in 1 .. fm : s[k] = m.stack[k]) /\ (\A k \in 1 .. ft : q[k] = t.stack[k])
    BY <1>9, <1>10
  <2> HIDE DEF fm, ft, w
  <2>4. j \in 1 .. ((fm + w) - bm) /\ bm + j \in 1 .. fm /\ bs + j \in 1 .. ft
    BY <2>1
  <2>5. s[bm + j] = m.stack[bm + j] /\ q[bs + j] = t.stack[bs + j]
    BY <2>3, <2>4
  <2> QED BY <2>2, <2>4, <2>5
<1>14. /\ bm =< Len(s) /\ Len(q) + bm = Len(s) + bs
       /\ Agree(s, q, bm, bs, Len(s) - bm)
  <2>1. Agree(s, q, bm, bs, m.fp - bm)
    BY <1>13 DEF Agree
  <2>2. Agree(s, q, bm, bs, Len(s) - bm)
    BY <1>9, <2>1
  <2>3. bm =< Len(s) /\ Len(q) + bm = Len(s) + bs
    BY <1>3, <1>9, <1>10
  <2> QED BY <2>2, <2>3
<1>15. n.fp = Len(s) /\ u.fp = Len(q)
  BY <1>5, <1>6, <1>9, <1>10
<1>20. Alike(n, u, bm, bs, cm, cs)
  <2> HIDE DEF n, u, s, q, f, args
  <2> QED BY <1>2, <1>5, <1>6, <1>7, <1>9, <1>10, <1>14, <1>15, AlikeStacked
<1> QED BY <1>20 DEF n, u

-----------------------------------------------------------------------------
\* The last call of machines that are alike.
LEMMA LastCalls ==
    ASSUME NEW m, NEW t, WellBehaved(m), WellBehaved(t),
           NEW bm \in Nat, NEW bs \in Nat, NEW cm \in Nat, NEW cs \in Nat,
           SameCalls(m, t, bm, bs, cm, cs), Len(m.calls) > cm
    PROVE  /\ m.calls # <<>> /\ t.calls # <<>>
           /\ SameCall(m.calls[Len(m.calls)], t.calls[Len(t.calls)], bm, bs)
           /\ Len(m.calls) - 1 >= cm /\ (Len(t.calls) - 1) + cm = (Len(m.calls) - 1) + cs
           /\ Len(m.calls) - 1 \in Nat /\ Len(t.calls) - 1 \in Nat
<1> DEFINE lm == Len(m.calls)
           lt == Len(t.calls)
           l == lm - cm
<1>1. lm \in Nat /\ lt \in Nat
  BY FrameSizes DEF WellBehaved
<1>2. cm =< lm /\ lt + cm = lm + cs /\ lm > cm
  BY DEF SameCalls
<1>3. \A k \in 1 .. (lm - cm) : SameCall(m.calls[cm + k], t.calls[cs + k], bm, bs)
  BY DEF SameCalls
<1>4. m.calls # <<>> /\ t.calls # <<>>
  <2>1. lm # 0 /\ lt # 0
    BY <1>1, <1>2
  <2> QED BY <2>1, EmptySeq
<1> HIDE DEF lm, lt
<1>5. l \in 1 .. (lm - cm) /\ cm + l = lm /\ cs + l = lt
  BY <1>1, <1>2
<1> HIDE DEF l
<1>6. SameCall(m.calls[lm], t.calls[lt], bm, bs)
  BY <1>3, <1>5
<1>7. lm - 1 >= cm /\ (lt - 1) + cm = (lm - 1) + cs /\ lm - 1 \in Nat /\ lt - 1 \in Nat
  BY <1>1, <1>2
<1> QED BY <1>4, <1>6, <1>7 DEF lm, lt

\* A return to a caller in machines that are alike.
LEMMA ReturnAlike ==
    ASSUME NEW m, NEW t, WellBehaved(m), WellBehaved(t),
           NEW bm \in Nat, NEW bs \in Nat, NEW cm \in Nat, NEW cs \in Nat,
           Alike(m, t, bm, bs, cm, cs), Code[m.pc].op = "ret", Len(m.calls) > cm
    PROVE  Alike(Dispatch(m), Dispatch(t), bm, bs, cm, cs)
<1> DEFINE n == Dispatch(m)
           u == Dispatch(t)
           lm == Len(m.calls)
           lt == Len(t.calls)
           c == m.calls[lm]
           d == t.calls[lt]
           f == m.fid
<1>1. t.fid = m.fid /\ t.pc = m.pc
  BY DEF Alike, SamePlace
<1>2. SameCalls(m, t, bm, bs, cm, cs)
  BY DEF Alike
<1>3. m.calls # <<>> /\ t.calls # <<>> /\ SameCall(c, d, bm, bs)
  BY <1>2, LastCalls
<1>4. lm - 1 >= cm /\ (lt - 1) + cm = (lm - 1) + cs /\ lm - 1 \in Nat /\ lt - 1 \in Nat
  BY <1>2, LastCalls
<1>5. /\ n.fid = c.fid /\ n.fp = c.fp /\ n.pc = c.pc /\ Len(n.calls) = lm - 1 /\ n.stack = m.stack
      /\ Returning(n) /\ Code[n.pc - 1].fun = f /\ n.fp + Width[n.fid] = m.fp
  <2>1. LET v == Dispatch(m)
            caller == m.calls[Len(m.calls)]
        IN  /\ Changes(m, v, {"calls", "cache", "fid", "fp", "pc", "rp", "rw"})
            /\ v.fid = caller.fid /\ v.fp = caller.fp /\ v.pc = caller.pc
            /\ Len(v.calls) = Len(m.calls) - 1
            /\ Returning(v)
            /\ Code[v.pc - 1].fun = m.fid /\ v.fp + Width[v.fid] = m.fp
    BY <1>3, ReturnEffect DEF WellBehaved
  <2>2. n.stack = m.stack
    BY <2>1 DEF Changes, MachineFields, WellBehaved, MachineInv
  <2> QED BY <2>1, <2>2
<1>6. \A l \in 1 .. (lm - 1) : n.calls[l] = m.calls[l]
  BY <1>3, ReturnEffect DEF WellBehaved
<1>7. u.fid = d.fid /\ u.fp = d.fp /\ u.pc = d.pc /\ Len(u.calls) = lt - 1 /\ u.stack = t.stack
  <2>1. LET v == Dispatch(t)
            caller == t.calls[Len(t.calls)]
        IN  /\ Changes(t, v, {"calls", "cache", "fid", "fp", "pc", "rp", "rw"})
            /\ v.fid = caller.fid /\ v.fp = caller.fp /\ v.pc = caller.pc
            /\ Len(v.calls) = Len(t.calls) - 1
    BY <1>1, <1>3, ReturnEffect DEF WellBehaved
  <2>2. u.stack = t.stack
    BY <2>1 DEF Changes, MachineFields, WellBehaved, MachineInv
  <2> QED BY <2>1, <2>2
<1>8. \A l \in 1 .. (lt - 1) : u.calls[l] = t.calls[l]
  BY <1>1, <1>3, ReturnEffect DEF WellBehaved
<1>9. WellBehaved(n)
  BY <1>3, ReturnEffect DEF WellBehaved
<1> HIDE DEF n, u, lm, lt
<1>10. SamePlace(n, u, bm, bs)
  BY <1>3, <1>5, <1>7 DEF SamePlace, SameCall
<1>11. SameCalls(n, u, bm, bs, cm, cs)
  <2>1. \A l \in 1 .. (lm - cm) : SameCall(m.calls[cm + l], t.calls[cs + l], bm, bs)
    BY <1>2 DEF SameCalls, lm
  <2>2. ASSUME NEW l \in 1 .. ((lm - 1) - cm) PROVE SameCall(n.calls[cm + l], u.calls[cs + l], bm, bs)
    <3>1. l \in 1 .. (lm - cm) /\ cm + l \in 1 .. (lm - 1) /\ cs + l \in 1 .. (lt - 1)
      <4>1. lm \in Nat /\ lt \in Nat
        BY FrameSizes DEF WellBehaved, lm, lt
      <4> QED BY <1>4, <4>1
    <3> QED BY <1>6, <1>8, <2>1, <3>1
  <2> QED BY <1>4, <1>5, <1>7, <2>2 DEF SameCalls
<1>12. SameCells(n, u, bm, bs)
  <2> DEFINE w == m.fp + Width[f]
             x == m.fp + (NumInputs[f] + NumOutputs[f])
  <2>1. Agree(m.stack, t.stack, bm, bs, w - bm)
    BY AlikeFrames
  <2>2. /\ m.fp \in Nat /\ Width[f] \in Nat /\ NumInputs[f] \in Nat /\ NumOutputs[f] \in Nat
        /\ NumInputs[f] + NumOutputs[f] =< Width[f]
    BY FrameSizes DEF WellBehaved
  <2>3. n.fp \in Nat /\ Width[n.fid] \in Nat
    BY <1>9, FrameSizes DEF WellBehaved
  <2>4. Extent(n) = x
    <3>1. Extent(n) = n.fp + Width[n.fid] + (NumInputs[f] + NumOutputs[f])
      BY <1>5 DEF Extent
    <3> QED BY <1>5, <2>2, <2>3, <3>1
  <2>5. x =< w /\ x \in Nat /\ w \in Nat
    <3> DEFINE a == NumInputs[f]
               b == NumOutputs[f]
               v == Width[f]
    <3>1. m.fp \in Nat /\ v \in Nat /\ a \in Nat /\ b \in Nat /\ a + b =< v
      BY <2>2
    <3> HIDE DEF a, b, v
    <3>2. m.fp + (a + b) =< m.fp + v /\ m.fp + (a + b) \in Nat /\ m.fp + v \in Nat
      BY <3>1
    <3> QED BY <3>2 DEF a, b, v
  <2> HIDE DEF w, x
  <2>6. Agree(m.stack, t.stack, bm, bs, x - bm)
    BY <2>1, <2>5 DEF Agree
  <2> QED BY <1>5, <1>7, <2>4, <2>6 DEF SameCells
<1> QED BY <1>10, <1>11, <1>12 DEF Alike, n, u

\* A change of what is neither a frame nor where the machine is.
LEMMA StaysAlike ==
    ASSUME NEW m, NEW t, NEW n, NEW u, NEW bm, NEW bs, NEW cm, NEW cs, Alike(m, t, bm, bs, cm, cs),
           n.fid = m.fid, n.pc = m.pc, n.fp = m.fp, n.calls = m.calls, n.stack = m.stack,
           u.fid = t.fid, u.pc = t.pc, u.fp = t.fp, u.calls = t.calls, u.stack = t.stack
    PROVE  Alike(n, u, bm, bs, cm, cs)
BY DEF Alike, SamePlace, SameCalls, SameCells, Extent, Returning

\* The end of the execution in machines that are alike.
LEMMA EndAlike ==
    ASSUME NEW m, NEW t, WellBehaved(m), WellBehaved(t),
           NEW bm \in Nat, NEW bs \in Nat, NEW cm \in Nat, NEW cs \in Nat,
           Alike(m, t, bm, bs, cm, cs), Code[m.pc].op = "ret", m.calls = <<>>, t.calls = <<>>
    PROVE  Alike(Dispatch(m), Dispatch(t), bm, bs, cm, cs) /\ Dispatch(t).status = Dispatch(m).status
<1> DEFINE n == Dispatch(m)
           u == Dispatch(t)
<1>1. t.pc = m.pc
  BY DEF Alike, SamePlace
<1>2. Changes(m, n, {"status"}) /\ n.status = "done"
  BY EndEffect DEF WellBehaved
<1>3. Changes(t, u, {"status"}) /\ u.status = "done"
  BY <1>1, EndEffect DEF WellBehaved
<1> HIDE DEF n, u
<1>4. n.fid = m.fid /\ n.pc = m.pc /\ n.fp = m.fp /\ n.calls = m.calls /\ n.stack = m.stack
  BY <1>2 DEF Changes, MachineFields, WellBehaved, MachineInv
<1>5. u.fid = t.fid /\ u.pc = t.pc /\ u.fp = t.fp /\ u.calls = t.calls /\ u.stack = t.stack
  BY <1>3 DEF Changes, MachineFields, WellBehaved, MachineInv
<1>6. Alike(n, u, bm, bs, cm, cs)
  BY <1>4, <1>5, StaysAlike
<1> QED BY <1>2, <1>3, <1>6 DEF n, u

-----------------------------------------------------------------------------
\* The returns of a call are copied alike.
LEMMA LeaveAlike ==
    ASSUME NEW m, NEW t, WellBehaved(m), WellBehaved(t),
           NEW bm \in Nat, NEW bs \in Nat, NEW cm \in Nat, NEW cs \in Nat,
           Alike(m, t, bm, bs, cm, cs), Code[m.pc].op = "leave"
    PROVE  Alike(Dispatch(m), Dispatch(t), bm, bs, cm, cs)
<1> DEFINE n == Dispatch(m)
           u == Dispatch(t)
           rets == Code[m.pc].rets
           f == Code[m.pc - 1].fun
           w == Width[m.fid]
           fm == m.fp
           ft == t.fp
           ni == NumInputs[f]
           no == NumOutputs[f]
           lr == Len(rets)
           Returned(r) == \E k \in 1 .. lr : rets[k] = r
           Position(r) == CHOOSE k \in 1 .. lr : rets[k] = r
<1>1. t.fid = m.fid /\ t.pc = m.pc /\ bm =< fm /\ ft + bm = fm + bs
  BY DEF Alike, SamePlace
<1>2. Returning(m) /\ Returning(t)
  BY <1>1 DEF Returning
<1>3. /\ ni \in Nat /\ no \in Nat /\ m.rp = fm + w + ni /\ lr \in 0 .. no
  BY <1>2, CalleeSizes
<1>4. t.rp = ft + w + ni
  BY <1>1, <1>2, CalleeSizes
<1>5. fm \in Nat /\ ft \in Nat /\ w \in Nat
  BY AlikeFrames
<1>6. /\ n.pc = m.pc + 1 /\ n.fid = m.fid /\ n.fp = fm /\ n.calls = m.calls /\ ~Returning(n)
  <2>1. LET v == Dispatch(m)
        IN Changes(m, v, {"stack", "pc"}) /\ v.pc = m.pc + 1 /\ ~Returning(v)
    BY LeaveEffect
  <2> QED BY <2>1 DEF Changes, MachineFields, WellBehaved, MachineInv
<1>7. /\ u.pc = m.pc + 1 /\ u.fid = m.fid /\ u.fp = ft /\ u.calls = t.calls
  <2>1. LET v == Dispatch(t)
        IN Changes(t, v, {"stack", "pc"}) /\ v.pc = t.pc + 1
    BY <1>1, LeaveEffect
  <2> QED BY <1>1, <2>1 DEF Changes, MachineFields, WellBehaved, MachineInv
<1>8. ASSUME NEW c \in 1 .. (fm + w)
      PROVE  n.stack[c] = IF Returned(c - fm - 1) THEN m.stack[m.rp + Position(c - fm - 1)]
                          ELSE m.stack[c]
  BY LeaveEffect
<1>9. ASSUME NEW c \in 1 .. (ft + w)
      PROVE  u.stack[c] = IF Returned(c - ft - 1) THEN t.stack[t.rp + Position(c - ft - 1)]
                          ELSE t.stack[c]
  <2>1. c \in 1 .. (t.fp + Width[t.fid]) /\ Code[t.pc].op = "leave" /\ Code[t.pc].rets = rets
    BY <1>1
  <2>2. Dispatch(t).stack[c] =
            IF \E k \in 1 .. Len(Code[t.pc].rets) : Code[t.pc].rets[k] = c - t.fp - 1
            THEN t.stack[t.rp + (CHOOSE k \in 1 .. Len(Code[t.pc].rets) :
                                    Code[t.pc].rets[k] = c - t.fp - 1)]
            ELSE t.stack[c]
    BY <2>1, LeaveEffect
  <2> QED BY <2>1, <2>2
<1>10. Agree(m.stack, t.stack, bm, bs, (fm + w + (ni + no)) - bm)
  <2>1. Extent(m) = fm + w + (ni + no)
    BY <1>2 DEF Extent
  <2> QED BY <2>1 DEF Alike, SameCells
<1>11. \A r : Returned(r) => Position(r) \in 1 .. lr
  OBVIOUS
<1>12. Extent(n) = fm + w
  BY <1>5, <1>6 DEF Extent
<1> HIDE DEF n, u, rets, f, w, fm, ft, ni, no, lr, Returned, Position
<1>13. SamePlace(n, u, bm, bs)
  BY <1>1, <1>6, <1>7 DEF SamePlace
<1>14. SameCalls(n, u, bm, bs, cm, cs)
  <2>1. SameCalls(m, t, bm, bs, cm, cs)
    BY DEF Alike
  <2> QED BY <1>6, <1>7, <2>1 DEF SameCalls
<1>15. ASSUME NEW j \in 1 .. ((fm + w) - bm) PROVE u.stack[bs + j] = n.stack[bm + j]
  <2> DEFINE r == (bm + j) - fm - 1
  <2>1. bm + j \in 1 .. (fm + w) /\ bs + j \in 1 .. (ft + w) /\ (bs + j) - ft - 1 = r
    BY <1>1, <1>5
  <2> HIDE DEF r
  <2>2. n.stack[bm + j] = IF Returned(r) THEN m.stack[m.rp + Position(r)] ELSE m.stack[bm + j]
    BY <1>8, <2>1 DEF r
  <2>3. u.stack[bs + j] = IF Returned(r) THEN t.stack[t.rp + Position(r)] ELSE t.stack[bs + j]
    BY <1>9, <2>1
  <2>4. CASE Returned(r)
    <3> DEFINE k == Position(r)
               i == (m.rp + k) - bm
    <3>1. k \in 1 .. lr
      BY <1>11, <2>4
    <3> HIDE DEF k
    <3>2. i \in 1 .. ((fm + w + (ni + no)) - bm) /\ bm + i = m.rp + k /\ bs + i = t.rp + k
      BY <1>1, <1>3, <1>4, <1>5, <3>1
    <3> HIDE DEF i
    <3>3. t.stack[bs + i] = m.stack[bm + i]
      BY <1>10, <3>2 DEF Agree
    <3> QED BY <2>2, <2>3, <2>4, <3>2, <3>3 DEF k
  <2>5. CASE ~Returned(r)
    <3>1. j \in 1 .. ((fm + w + (ni + no)) - bm)
      BY <1>1, <1>3, <1>5
    <3>2. t.stack[bs + j] = m.stack[bm + j]
      BY <1>10, <3>1 DEF Agree
    <3> QED BY <2>2, <2>3, <2>5, <3>2
  <2> QED BY <2>4, <2>5
<1>16. SameCells(n, u, bm, bs)
  BY <1>12, <1>15 DEF SameCells, Agree
<1> QED BY <1>13, <1>14, <1>16 DEF Alike, n, u

\* A machine does not become misbehaved.
LEMMA StaysWellBehaved ==
    ASSUME NEW m, WellBehaved(m)
    PROVE  WellBehaved(Dispatch(m))
<1> DEFINE n == Dispatch(m)
           i == Code[m.pc]
<1>0. MachineInv(m) /\ m.fid \in Function /\ m.pc \in Body(m.fid) /\ i.op \in Opcodes
  BY BytecodeOf DEF WellBehaved, MachineInv
<1>1. CASE i.op \in Plain
  BY <1>0, <1>1, PlainPlace
<1>2. CASE i.op = "leave"
  BY <1>0, <1>2, LeaveEffect
<1>3. CASE i.op = "tail"
  BY <1>0, <1>3, TailEffect
<1>4. CASE i.op = "ret"
  <2>1. CASE m.calls = <<>>
    BY <1>0, <1>4, <2>1, EndEffect
  <2>2. CASE m.calls # <<>>
    BY <1>0, <1>4, <2>2, ReturnEffect
  <2> QED BY <2>1, <2>2
<1>5. CASE i.op = "enter"
  <2>1. CASE ~Cached(m, i.fun, Operands(m, i.args))
    BY <1>0, <1>5, <2>1, EnterEffect
  <2>2. CASE Cached(m, i.fun, Operands(m, i.args))
    <3>1. n = Enter(m, i)
      BY <1>5 DEF Dispatch
    <3>2. LET v == Enter(m, Code[m.pc])
          IN KeepsRest(m, v) /\ MachineInv(v) /\ v.pc = m.pc + 1
      BY <1>0, <1>5, <2>2, EnterCached
    <3>3. MachineInv(n) /\ n.pc = m.pc + 1
      BY <3>1, <3>2
    <3>4. n.fid = m.fid
      <4>1. MachineFields \subseteq DOMAIN m
        BY <1>0 DEF MachineInv
      <4> QED BY <1>5, <2>2, <3>1, <4>1 DEF Enter, Skip1, Goto, MachineFields
    <3>5. m.pc \in Nat /\ (m.pc + 1) - 1 = m.pc
      BY <1>0, BytecodeOf
    <3> HIDE DEF n
    <3>6. n.pc - 1 \in Body(n.fid) /\ Code[n.pc - 1].op = "enter"
      BY <1>0, <1>5, <3>3, <3>4, <3>5
    <3> QED BY <3>3, <3>6 DEF WellBehaved, n
  <2> QED BY <2>1, <2>2
<1> QED BY <1>0, <1>1, <1>2, <1>3, <1>4, <1>5 DEF Plain

-----------------------------------------------------------------------------
\* One step of machines that are alike.

\* A step that both machines take without an answer from a cache: what is above
\* the base of m does not return from it, unless it is the end of both.
Comparable(m, t, cm) ==
    /\ SameMemory(m, t) /\ t.status = m.status
    /\ Code[m.pc].op = "ret" => Len(m.calls) > cm \/ (m.calls = <<>> /\ t.calls = <<>>)
    /\ Code[m.pc].op = "enter" =>
          LET f == Code[m.pc].fun
              args == Operands(m, Code[m.pc].args)
          IN  ~Cached(m, f, args) /\ ~Cached(t, f, args)

\* Machines that are alike, and read the same from memory, are alike after a step.
LEMMA Lockstep ==
    ASSUME NEW m, NEW t, WellBehaved(m), WellBehaved(t),
           NEW bm \in Nat, NEW bs \in Nat, NEW cm \in Nat, NEW cs \in Nat,
           Alike(m, t, bm, bs, cm, cs), Comparable(m, t, cm)
    PROVE  Alike(Dispatch(m), Dispatch(t), bm, bs, cm, cs) /\ Dispatch(t).status = Dispatch(m).status
<1> DEFINE n == Dispatch(m)
           u == Dispatch(t)
           op == Code[m.pc].op
<1>0. /\ MachineInv(m) /\ MachineInv(t) /\ t.pc = m.pc /\ t.status = m.status /\ op \in Opcodes
      /\ "status" \in DOMAIN m /\ "status" \in DOMAIN t
  <2>1. MachineInv(m) /\ MachineInv(t) /\ t.pc = m.pc /\ t.status = m.status
    BY DEF WellBehaved, Alike, SamePlace, Comparable
  <2>2. op \in Opcodes
    BY <2>1, BytecodeOf DEF MachineInv
  <2>3. "status" \in DOMAIN m /\ "status" \in DOMAIN t
    BY <2>1 DEF MachineInv, MachineFields
  <2> QED BY <2>1, <2>2, <2>3
<1>1. CASE op \in Plain
  <2>1. t.status = m.status /\ SameMemory(m, t)
    BY DEF Comparable
  <2> QED BY <1>1, <2>1, PlainAlike
<1>2. CASE op = "leave"
  <2>1. Alike(n, u, bm, bs, cm, cs)
    BY <1>2, LeaveAlike
  <2>2. Changes(m, n, {"stack", "pc"}) /\ Changes(t, u, {"stack", "pc"})
    BY <1>0, <1>2, LeaveEffect
  <2>3. n.status = m.status /\ u.status = t.status
    BY <1>0, <2>2 DEF Changes
  <2> QED BY <1>0, <2>1, <2>3
<1>3. CASE op = "tail"
  <2>1. Alike(n, u, bm, bs, cm, cs)
    BY <1>3, TailAlike
  <2>2. Changes(m, n, {"stack", "fid", "pc"}) /\ Changes(t, u, {"stack", "fid", "pc"})
    BY <1>0, <1>3, TailEffect
  <2>3. n.status = m.status /\ u.status = t.status
    BY <1>0, <2>2 DEF Changes
  <2> QED BY <1>0, <2>1, <2>3
<1>4. CASE op = "ret"
  <2>1. CASE Len(m.calls) > cm
    <3>0. m.calls # <<>> /\ t.calls # <<>>
      BY <2>1, LastCalls DEF Alike
    <3>1. Alike(n, u, bm, bs, cm, cs)
      BY <1>4, <2>1, ReturnAlike
    <3>2. /\ Changes(m, n, {"calls", "cache", "fid", "fp", "pc", "rp", "rw"})
          /\ Changes(t, u, {"calls", "cache", "fid", "fp", "pc", "rp", "rw"})
      BY <1>0, <1>4, <3>0, ReturnEffect
    <3>3. n.status = m.status /\ u.status = t.status
      BY <1>0, <3>2 DEF Changes
    <3> QED BY <1>0, <3>1, <3>3
  <2>2. CASE m.calls = <<>> /\ t.calls = <<>>
    BY <1>4, <2>2, EndAlike
  <2> QED BY <1>4, <2>1, <2>2 DEF Comparable
<1>5. CASE op = "enter"
  <2> DEFINE f == Code[m.pc].fun
             args == Operands(m, Code[m.pc].args)
  <2>1. ~Cached(m, f, args) /\ ~Cached(t, f, args)
    BY <1>5 DEF Comparable
  <2>2. Operands(t, Code[m.pc].args) = args
    BY <1>5, SameOperands
  <2>3. Alike(n, u, bm, bs, cm, cs)
    BY <1>5, <2>1, EnterAlike
  <2>4. Changes(m, n, {"stack", "calls", "fid", "fp", "pc"})
    BY <1>0, <1>5, <2>1, EnterEffect
  <2>5. Changes(t, u, {"stack", "calls", "fid", "fp", "pc"})
    BY <1>0, <1>5, <2>1, <2>2, EnterEffect
  <2>6. n.status = m.status /\ u.status = t.status
    BY <1>0, <2>4, <2>5 DEF Changes
  <2> QED BY <1>0, <2>3, <2>6
<1> QED BY <1>0, <1>1, <1>2, <1>3, <1>4, <1>5 DEF Plain

-----------------------------------------------------------------------------
\* What lies below the current frame, and its parameters, do not change.

\* The cells that a step leaves alone.
Fixed(m) == m.fp + (IF Code[m.pc].op = "tail" THEN 0 ELSE NumInputs[m.fid])

\* Where these cells end.
LEMMA FixedCells ==
    ASSUME NEW m, MachineInv(m)
    PROVE  Fixed(m) \in Nat /\ m.fp =< Fixed(m) /\ Fixed(m) =< m.fp + Width[m.fid]
           /\ Fixed(m) =< Len(m.stack) /\ Fixed(m) =< m.fp + NumInputs[m.fid]
<1>1. /\ m.fp \in Nat /\ Width[m.fid] \in Nat /\ NumInputs[m.fid] \in Nat
      /\ NumInputs[m.fid] =< Width[m.fid]
  BY FrameSizes
<1>2. Len(m.stack) \in Nat /\ m.fp + Width[m.fid] =< Len(m.stack)
  BY FrameSizes
<1> DEFINE a == Fixed(m)
<1>3. a = m.fp \/ a = m.fp + NumInputs[m.fid]
  BY <1>1 DEF Fixed
<1> HIDE DEF a
<1>4. a \in Nat /\ m.fp =< a /\ a =< m.fp + Width[m.fid] /\ a =< m.fp + NumInputs[m.fid]
  BY <1>1, <1>3
<1>5. a =< Len(m.stack)
  BY <1>1, <1>2, <1>4
<1> QED BY <1>4, <1>5 DEF a

\* A register that is written is above them.
LEMMA WriteKeeps ==
    ASSUME NEW m, MachineInv(m), Code[m.pc].op # "tail", NEW n, NEW v,
           NEW r \in NumInputs[m.fid] .. (Width[m.fid] - 1), Wrote(m, n, r, v)
    PROVE  \A c \in 1 .. Fixed(m) : n.stack[c] = m.stack[c]
<1>1. /\ m.fp \in Nat /\ NumInputs[m.fid] \in Nat /\ Width[m.fid] \in Nat
      /\ Fixed(m) = m.fp + NumInputs[m.fid]
  BY FrameSizes DEF Fixed
<1>2. IsSeq(m.stack) /\ DOMAIN m.stack = 1 .. Len(m.stack) /\ Len(m.stack) \in Nat
  BY FunctionOfSeq DEF MachineInv
<1>3. Fixed(m) =< Len(m.stack)
  BY FixedCells
<1>4. ASSUME NEW c \in 1 .. Fixed(m) PROVE c \in DOMAIN m.stack /\ c # m.fp + r + 1
  BY <1>1, <1>2, <1>3
<1> QED BY <1>4 DEF Wrote

-----------------------------------------------------------------------------
\* What a call leaves on the stack if it is answered from the cache: the
\* record of its callee, with arguments and returns.
Answered(n, m, f, args, rets) ==
    /\ \A c \in 1 .. Len(m.stack) : n.stack[c] = m.stack[c]
    /\ \A j \in 1 .. NumInputs[f] : n.stack[Len(m.stack) + j] = args[j]
    /\ \A j \in 1 .. NumOutputs[f] : n.stack[Len(m.stack) + NumInputs[f] + j] = rets[j]

\* A call that is answered leaves the record of its callee on the stack.
LEMMA CachedEffect ==
    ASSUME NEW m, MachineInv(m), Code[m.pc].op = "enter",
           Cached(m, Code[m.pc].fun, Operands(m, Code[m.pc].args))
    PROVE  LET n == Dispatch(m)
               f == Code[m.pc].fun
               args == Operands(m, Code[m.pc].args)
           IN  /\ Changes(m, n, {"stack", "pc", "rp", "rw"})
               /\ n.pc = m.pc + 1 /\ n.rp = Len(m.stack) + Len(args) /\ n.rw = Width[f]
               /\ Answered(n, m, f, args, m.cache[<<f, args>>])
               /\ Returning(n) /\ WellBehaved(n)
<1> DEFINE i == Code[m.pc]
           f == i.fun
           args == Operands(m, i.args)
           returns == m.cache[<<f, args>>]
           both == args \o returns
           record == NewFrame(f, both)
           stack == m.stack \o record
           n == Dispatch(m)
           b == [[m EXCEPT !.stack = m.stack \o NewFrame(f, args)] EXCEPT
                     !.rp = Len(m.stack) + Len(args), !.rw = Width[f], !.stack = stack]
<1>1. /\ MachineFields \subseteq DOMAIN m /\ m.fid \in Function /\ m.pc \in Body(m.fid)
      /\ IsSeq(m.stack) /\ m.pc \in Nat
  BY BytecodeOf DEF MachineInv
<1>2. f \in Function /\ IsSeq(args) /\ Len(args) = NumInputs[f]
  BY CallOf
<1>3. /\ NumInputs[f] \in Nat /\ NumOutputs[f] \in Nat /\ Width[f] \in Nat
      /\ NumInputs[f] + NumOutputs[f] =< Width[f]
  BY <1>2, EntryInBody
<1>4. IsSeq(returns) /\ Len(returns) = NumOutputs[f]
  <2>1. <<f, args>> \in DOMAIN m.cache
    BY DEF Cached
  <2> QED BY <2>1 DEF MachineInv, CacheTyped
<1>5. n = Skip1(b)
  BY DEF Dispatch, Enter
<1>6. WellBehaved(n)
  BY StaysWellBehaved DEF WellBehaved, Returning
<1> HIDE DEF record, returns, args, f
<1>7. /\ Changes(m, n, {"stack", "pc", "rp", "rw"}) /\ n.pc = m.pc + 1 /\ n.stack = stack
      /\ n.rp = Len(m.stack) + Len(args) /\ n.rw = Width[f]
  BY <1>1, <1>5 DEF Changes, Skip1, Goto, MachineFields
<1>8. Returning(n)
  <2>1. m.pc + 1 \in Follow(m.pc)
    BY NextBytecode DEF Opcodes
  <2>2. Code[m.pc + 1].op = "leave"
    BY <1>1, <2>1, BytecodeOf
  <2> QED BY <1>7, <2>2 DEF Returning
<1>9. /\ Len(both) = NumInputs[f] + NumOutputs[f] /\ IsSeq(both)
      /\ \A j \in 1 .. NumInputs[f] : both[j] = args[j]
      /\ \A j \in 1 .. NumOutputs[f] : both[NumInputs[f] + j] = returns[j]
  <2>1. IsSeq(both) /\ Len(both) = Len(args) + Len(returns)
    BY <1>2, <1>4, Concatenated
  <2>2. \A j \in 1 .. Len(args) : both[j] = args[j]
    BY <1>2, <1>4, Concatenated
  <2>3. \A j \in 1 .. Len(returns) : both[Len(args) + j] = returns[j]
    BY <1>2, <1>4, Concatenated
  <2> HIDE DEF both
  <2> QED BY <1>2, <1>4, <2>1, <2>2, <2>3
<1> HIDE DEF both
<1>10. /\ IsSeq(record) /\ Len(record) = Width[f]
       /\ \A j \in 1 .. Len(both) : record[j] = both[j]
  <2>1. Len(both) =< Width[f]
    BY <1>3, <1>9
  <2> QED BY <1>2, <1>9, <2>1, FrameOfCall DEF record
<1>11. /\ \A c \in 1 .. Len(m.stack) : stack[c] = m.stack[c]
       /\ \A j \in 1 .. Len(record) : stack[Len(m.stack) + j] = record[j]
  BY <1>1, <1>10, Concatenated
<1> DEFINE l == Len(m.stack)
           ni == NumInputs[f]
           no == NumOutputs[f]
<1> HIDE DEF stack, n
<1>12. /\ ni \in Nat /\ no \in Nat /\ Width[f] \in Nat /\ ni + no =< Width[f]
       /\ Len(both) = ni + no /\ Len(record) = Width[f] /\ l \in Nat
  BY <1>1, <1>3, <1>9, <1>10, FunctionOfSeq
<1> HIDE DEF l, ni, no
<1>13. ASSUME NEW j \in 1 .. ni PROVE n.stack[l + j] = args[j]
  <2>1. j \in 1 .. Len(both) /\ j \in 1 .. Len(record)
    BY <1>12
  <2>2. stack[l + j] = record[j] /\ record[j] = both[j] /\ both[j] = args[j]
    BY <1>9, <1>10, <1>11, <2>1 DEF l, ni
  <2> QED BY <1>7, <2>2
<1>14. ASSUME NEW j \in 1 .. no PROVE n.stack[l + ni + j] = returns[j]
  <2>1. ni + j \in 1 .. Len(both) /\ ni + j \in 1 .. Len(record) /\ l + ni + j = l + (ni + j)
    BY <1>12
  <2>2. stack[l + (ni + j)] = record[ni + j] /\ record[ni + j] = both[ni + j]
        /\ both[ni + j] = returns[j]
    BY <1>9, <1>10, <1>11, <2>1 DEF l, ni, no
  <2> QED BY <1>7, <2>1, <2>2
<1>15. \A c \in 1 .. l : n.stack[c] = m.stack[c]
  BY <1>7, <1>11 DEF l
<1>16. Answered(n, m, f, args, returns)
  BY <1>13, <1>14, <1>15 DEF Answered, l, ni, no
<1> QED BY <1>6, <1>7, <1>8, <1>16 DEF n, returns, args, f

\* A step leaves them alone.
LEMMA CellsKept ==
    ASSUME NEW m, WellBehaved(m), NEW c \in 1 .. Fixed(m)
    PROVE  Dispatch(m).stack[c] = m.stack[c]
<1> DEFINE n == Dispatch(m)
           i == Code[m.pc]
<1>0. MachineInv(m) /\ m.fid \in Function /\ m.pc \in Body(m.fid) /\ i.op \in Opcodes
      /\ MachineFields \subseteq DOMAIN m
  BY BytecodeOf DEF WellBehaved, MachineInv
<1>1. c \in 1 .. Len(m.stack) /\ Len(m.stack) \in Nat
  BY <1>0, FixedCells, FrameSizes
<1>2. SUFFICES ASSUME n.stack # m.stack PROVE n.stack[c] = m.stack[c]
  OBVIOUS
<1>3. CASE i.op \in {"add", "rdrom", "rdram"}
  <2>1. i.target \in NumInputs[m.fid] .. (Width[m.fid] - 1)
    <3>1. Definitions(m.pc) = {i.target}
      BY <1>3 DEF Definitions
    <3> QED BY <1>0, <3>1, OperandsOf
  <2>2. \E v : Wrote(m, n, i.target, v)
    <3>1. CASE i.op = "add"
      BY <1>0, <3>1, AddEffect
    <3>2. CASE i.op = "rdrom"
      BY <1>0, <1>2, <3>2, ReadRomEffect
    <3>3. CASE i.op = "rdram"
      BY <1>0, <3>3, ReadRamEffect
    <3> QED BY <1>3, <3>1, <3>2, <3>3
  <2> HIDE DEF n
  <2> QED BY <1>0, <1>3, <2>1, <2>2, WriteKeeps
<1>4. CASE i.op \in {"skipif", "jmp", "done", "fail", "wrwom", "wrram"}
  <2>1. \E S \in SUBSET (MachineFields \ {"stack"}) : Changes(m, n, S)
    <3>1. CASE i.op = "skipif"
      <4>1. Changes(m, n, {"pc"})
        BY <1>0, <3>1, SkipIfEffect
      <4> QED BY <4>1 DEF MachineFields
    <3>2. CASE i.op \in {"jmp", "done", "fail"}
      <4>1. Changes(m, n, {"pc"}) \/ Changes(m, n, {"status"})
        BY <1>0, <3>2, ControlEffect
      <4> QED BY <4>1 DEF MachineFields
    <3>3. CASE i.op = "wrwom"
      <4>1. Changes(m, n, {"status"}) \/ Changes(m, n, {"pc", "mem"})
        BY <1>0, <3>3, WriteWomEffect
      <4> QED BY <4>1 DEF MachineFields
    <3>4. CASE i.op = "wrram"
      <4>1. Changes(m, n, {"pc", "mem", "log"})
        BY <1>0, <3>4, WriteRamEffect
      <4> QED BY <4>1 DEF MachineFields
    <3> QED BY <1>4, <3>1, <3>2, <3>3, <3>4
  <2> QED BY <1>0, <1>2, <2>1 DEF Changes, MachineFields
<1>5. CASE i.op = "enter"
  <2>1. CASE Cached(m, i.fun, Operands(m, i.args))
    <3>1. Answered(n, m, i.fun, Operands(m, i.args), m.cache[<<i.fun, Operands(m, i.args)>>])
      BY <1>0, <1>5, <2>1, CachedEffect
    <3> QED BY <1>1, <3>1 DEF Answered
  <2>2. CASE ~Cached(m, i.fun, Operands(m, i.args))
    <3>1. n.stack = m.stack \o NewFrame(i.fun, Operands(m, i.args))
      BY <1>0, <1>5, <2>2, EnterEffect
    <3>2. OnTop(n.stack, m.stack, i.fun, Operands(m, i.args))
      <4>1. i.fun \in Function /\ IsSeq(Operands(m, i.args))
            /\ Len(Operands(m, i.args)) = NumInputs[i.fun]
        BY <1>0, <1>5, CallOf
      <4>2. IsSeq(m.stack)
        BY <1>0 DEF MachineInv
      <4> QED BY <3>1, <4>1, <4>2, Stacked
    <3> QED BY <1>1, <3>2 DEF OnTop
  <2> QED BY <2>1, <2>2
<1>6. CASE i.op = "tail"
  <2> DEFINE s == SubSeq(m.stack, 1, m.fp)
             args == Operands(m, i.args)
  <2>1. n.stack = s \o NewFrame(i.fun, args)
    BY <1>0, <1>6, TailEffect
  <2>2. i.fun \in Function /\ IsSeq(args) /\ Len(args) = NumInputs[i.fun]
    BY <1>0, <1>6, CallOf
  <2>3. Fixed(m) = m.fp /\ m.fp \in Nat /\ m.fp =< Len(m.stack) /\ IsSeq(m.stack)
    <3>1. m.fp \in Nat /\ IsSeq(m.stack)
      BY <1>0 DEF MachineInv
    <3> QED BY <1>0, <1>6, <3>1, FixedCells DEF Fixed
  <2>4. IsSeq(s) /\ Len(s) = m.fp
    BY <2>3, FirstCells
  <2>5. s[c] = m.stack[c]
    BY <2>3, FirstCells
  <2> HIDE DEF s, args
  <2>6. OnTop(n.stack, s, i.fun, args)
    BY <2>1, <2>2, <2>4, Stacked
  <2>7. n.stack[c] = s[c]
    BY <2>3, <2>4, <2>6 DEF OnTop
  <2> QED BY <2>5, <2>7
<1>7. CASE i.op = "ret"
  <2>1. CASE m.calls = <<>>
    <3>1. Changes(m, n, {"status"})
      BY <1>0, <1>7, <2>1, EndEffect
    <3> QED BY <1>0, <1>2, <3>1 DEF Changes, MachineFields
  <2>2. CASE m.calls # <<>>
    <3>1. Changes(m, n, {"calls", "cache", "fid", "fp", "pc", "rp", "rw"})
      BY <1>0, <1>7, <2>2, ReturnEffect
    <3> QED BY <1>0, <1>2, <3>1 DEF Changes, MachineFields
  <2> QED BY <2>1, <2>2
<1>8. CASE i.op = "leave"
  <2> DEFINE rets == i.rets
  <2>1. \A k \in 1 .. Len(rets) : rets[k] \in NumInputs[m.fid] .. (Width[m.fid] - 1)
    <3>1. Definitions(m.pc) = {rets[k] : k \in 1 .. Len(rets)}
      BY <1>8 DEF Definitions
    <3> QED BY <1>0, <3>1, OperandsOf
  <2>2. c \in 1 .. (m.fp + Width[m.fid]) /\ c =< m.fp + NumInputs[m.fid]
        /\ m.fp \in Nat /\ NumInputs[m.fid] \in Nat /\ Width[m.fid] \in Nat
    <3>1. m.fp \in Nat /\ NumInputs[m.fid] \in Nat /\ Width[m.fid] \in Nat
      BY <1>0, FrameSizes
    <3>2. Fixed(m) \in Nat /\ Fixed(m) =< m.fp + Width[m.fid] /\ Fixed(m) =< m.fp + NumInputs[m.fid]
      BY <1>0, FixedCells
    <3> QED BY <3>1, <3>2
  <2>3. ~ (c - m.fp - 1 \in NumInputs[m.fid] .. (Width[m.fid] - 1))
    BY <2>2
  <2>4. ~ \E k \in 1 .. Len(rets) : rets[k] = c - m.fp - 1
    BY <2>1, <2>3
  <2>5. n.stack[c] = IF \E k \in 1 .. Len(rets) : rets[k] = c - m.fp - 1
                     THEN m.stack[m.rp + (CHOOSE k \in 1 .. Len(rets) : rets[k] = c - m.fp - 1)]
                     ELSE m.stack[c]
    <3>1. c \in 1 .. (m.fp + Width[m.fid])
      BY <2>2
    <3> QED BY <1>8, <3>1, LeaveEffect
  <2> QED BY <2>4, <2>5
<1> QED BY <1>0, <1>3, <1>4, <1>5, <1>6, <1>7, <1>8 DEF Opcodes

-----------------------------------------------------------------------------
\* A call that is answered in one machine, and has been executed in the other.
LEMMA CachedAlike ==
    ASSUME NEW m, NEW t, WellBehaved(m), WellBehaved(t),
           NEW bm \in Nat, NEW bs \in Nat, NEW cm \in Nat, NEW cs \in Nat,
           Alike(m, t, bm, bs, cm, cs), Code[m.pc].op = "enter",
           Cached(m, Code[m.pc].fun, Operands(m, Code[m.pc].args)),
           NEW u, u.fid = t.fid, u.fp = t.fp, u.pc = t.pc + 1, u.calls = t.calls,
           Answered(u, t, Code[m.pc].fun, Operands(m, Code[m.pc].args),
                    m.cache[<<Code[m.pc].fun, Operands(m, Code[m.pc].args)>>])
    PROVE  Alike(Dispatch(m), u, bm, bs, cm, cs)
<1> DEFINE n == Dispatch(m)
           f == Code[m.pc].fun
           args == Operands(m, Code[m.pc].args)
           rets == m.cache[<<f, args>>]
           ls == Len(m.stack)
           lt == Len(t.stack)
           ni == NumInputs[f]
           no == NumOutputs[f]
<1>0. MachineInv(m) /\ m.pc \in Nat /\ MachineFields \subseteq DOMAIN m
  BY BytecodeOf DEF WellBehaved, MachineInv
<1>1. t.fid = m.fid /\ t.pc = m.pc /\ bm =< m.fp /\ t.fp + bm = m.fp + bs
  BY DEF Alike, SamePlace
<1>2. /\ Changes(m, n, {"stack", "pc", "rp", "rw"}) /\ n.pc = m.pc + 1
      /\ Answered(n, m, f, args, rets) /\ Returning(n)
  BY <1>0, CachedEffect
<1>3. n.fid = m.fid /\ n.fp = m.fp /\ n.calls = m.calls
  BY <1>0, <1>2 DEF Changes, MachineFields
<1>4. Answered(u, t, f, args, rets)
  OBVIOUS
<1>5. ~Returning(m)
  BY DEF Returning
<1>6. /\ m.fp \in Nat /\ t.fp \in Nat /\ Width[m.fid] \in Nat /\ ls = m.fp + Width[m.fid]
      /\ lt = t.fp + Width[m.fid]
  BY <1>5, AlikeFrames
<1>7. Agree(m.stack, t.stack, bm, bs, (m.fp + Width[m.fid]) - bm)
  BY AlikeFrames
<1>8. f \in Function /\ ni \in Nat /\ no \in Nat
  <2>1. f \in Function
    BY <1>0, CallOf
  <2> QED BY <2>1, EntryInBody
<1>9. Extent(n) = m.fp + Width[m.fid] + (ni + no)
  <2>1. (m.pc + 1) - 1 = m.pc
    BY <1>0
  <2> QED BY <1>2, <1>3, <2>1 DEF Extent
<1> HIDE DEF n, args, rets, f
<1>10. SamePlace(n, u, bm, bs)
  BY <1>1, <1>2, <1>3 DEF SamePlace
<1>11. SameCalls(n, u, bm, bs, cm, cs)
  <2>1. SameCalls(m, t, bm, bs, cm, cs)
    BY DEF Alike
  <2> QED BY <1>3, <2>1 DEF SameCalls
<1>12. SameCells(n, u, bm, bs)
  <2>1. ls \in Nat /\ lt \in Nat /\ bm =< ls /\ lt + bm = ls + bs /\ Extent(n) = ls + (ni + no)
    <3>1. ls \in Nat /\ lt \in Nat /\ bm =< ls /\ lt + bm = ls + bs
      <4> DEFINE w == Width[m.fid]
      <4>1. m.fp \in Nat /\ t.fp \in Nat /\ w \in Nat /\ ls = m.fp + w /\ lt = t.fp + w
        BY <1>6
      <4>2. bm =< m.fp /\ t.fp + bm = m.fp + bs
        BY <1>1
      <4> HIDE DEF ls, lt, w
      <4> QED BY <4>1, <4>2
    <3>2. Extent(n) = ls + (ni + no)
      <4> HIDE DEF ls, lt, ni, no
      <4>1. ls = m.fp + Width[m.fid]
        BY <1>6
      <4> QED BY <1>9, <4>1
    <3> QED BY <3>1, <3>2
  <2>2. Agree(m.stack, t.stack, bm, bs, ls - bm)
    BY <1>6, <1>7
  <2>3. /\ \A c \in 1 .. ls : n.stack[c] = m.stack[c]
        /\ \A j \in 1 .. ni : n.stack[ls + j] = args[j]
        /\ \A j \in 1 .. no : n.stack[ls + ni + j] = rets[j]
    BY <1>2 DEF Answered
  <2>4. /\ \A c \in 1 .. lt : u.stack[c] = t.stack[c]
        /\ \A j \in 1 .. ni : u.stack[lt + j] = args[j]
        /\ \A j \in 1 .. no : u.stack[lt + ni + j] = rets[j]
    BY <1>4 DEF Answered
  <2> HIDE DEF ls, lt, ni, no
  <2>5. ASSUME NEW j \in 1 .. ((ls + (ni + no)) - bm) PROVE u.stack[bs + j] = n.stack[bm + j]
    <3>1. \/ /\ j \in 1 .. (ls - bm) /\ bm + j \in 1 .. ls /\ bs + j \in 1 .. lt
          \/ \E k \in 1 .. (ni + no) : bm + j = ls + k /\ bs + j = lt + k
      <4>1. ni + no \in Nat
        BY <1>8
      <4> DEFINE w == ni + no
      <4> HIDE DEF w
      <4>2. w \in Nat /\ j \in 1 .. ((ls + w) - bm) /\ bm =< ls /\ lt + bm = ls + bs
        BY <2>1, <4>1 DEF w
      <4>3. \/ /\ j \in 1 .. (ls - bm) /\ bm + j \in 1 .. ls /\ bs + j \in 1 .. lt
            \/ \E k \in 1 .. w : bm + j = ls + k /\ bs + j = lt + k
        BY <2>1, <4>2, OffsetPlaces
      <4> QED BY <4>3 DEF w
    <3>2. CASE j \in 1 .. (ls - bm) /\ bm + j \in 1 .. ls /\ bs + j \in 1 .. lt
      <4>1. t.stack[bs + j] = m.stack[bm + j]
        BY <2>2, <3>2 DEF Agree
      <4> QED BY <2>3, <2>4, <3>2, <4>1
    <3>3. CASE \E k \in 1 .. (ni + no) : bm + j = ls + k /\ bs + j = lt + k
      <4>1. PICK k \in 1 .. (ni + no) : bm + j = ls + k /\ bs + j = lt + k
        BY <3>3
      <4>2. CASE k \in 1 .. ni
        BY <2>3, <2>4, <4>1, <4>2
      <4>3. CASE ~ (k \in 1 .. ni)
        <5>1. k - ni \in 1 .. no /\ ls + k = ls + ni + (k - ni) /\ lt + k = lt + ni + (k - ni)
          BY <1>8, <2>1, <4>3
        <5> QED BY <2>3, <2>4, <4>1, <5>1
      <4> QED BY <4>2, <4>3
    <3> QED BY <3>1, <3>2, <3>3
  <2> QED BY <2>1, <2>5 DEF SameCells, Agree
<1> QED BY <1>10, <1>11, <1>12 DEF Alike, n

-----------------------------------------------------------------------------
\* The call stack.

\* What neither calls nor returns stays in its frame.
LEMMA FramesStay ==
    ASSUME NEW m, WellBehaved(m),
           \/ Code[m.pc].op \notin {"enter", "ret", "tail"}
           \/ Code[m.pc].op = "ret" /\ m.calls = <<>>
           \/ /\ Code[m.pc].op = "enter"
              /\ Cached(m, Code[m.pc].fun, Operands(m, Code[m.pc].args))
    PROVE  LET n == Dispatch(m) IN n.calls = m.calls /\ n.fid = m.fid /\ n.fp = m.fp
<1> DEFINE n == Dispatch(m)
           op == Code[m.pc].op
<1>0. MachineInv(m) /\ MachineFields \subseteq DOMAIN m /\ op \in Opcodes
  BY BytecodeOf DEF WellBehaved, MachineInv
<1>1. CASE op \in Plain
  BY <1>0, <1>1, PlainPlace DEF SameFrames
<1>2. CASE op = "leave"
  <2>1. Changes(m, n, {"stack", "pc"})
    BY <1>2, LeaveEffect
  <2> QED BY <1>0, <2>1 DEF Changes, MachineFields
<1>3. CASE op = "ret" /\ m.calls = <<>>
  <2>1. Changes(m, n, {"status"})
    BY <1>0, <1>3, EndEffect
  <2> QED BY <1>0, <2>1 DEF Changes, MachineFields
<1>4. CASE op = "enter" /\ Cached(m, Code[m.pc].fun, Operands(m, Code[m.pc].args))
  <2>1. Changes(m, n, {"stack", "pc", "rp", "rw"})
    BY <1>0, <1>4, CachedEffect
  <2> QED BY <1>0, <2>1 DEF Changes, MachineFields
<1> QED BY <1>0, <1>1, <1>2, <1>3, <1>4 DEF Plain

\* The calls that a step leaves on the call stack, and how many there are.
LEMMA CallsKept ==
    ASSUME NEW m, WellBehaved(m)
    PROVE  LET n == Dispatch(m)
           IN  /\ Len(n.calls) \in Nat
               /\ \A l \in 1 .. Len(m.calls) : l =< Len(n.calls) => n.calls[l] = m.calls[l]
               /\ Len(n.calls) = Len(m.calls) \/ Len(n.calls) = Len(m.calls) + 1
                  \/ (Code[m.pc].op = "ret" /\ m.calls # <<>> /\ Len(n.calls) = Len(m.calls) - 1)
<1> DEFINE n == Dispatch(m)
           op == Code[m.pc].op
           l1 == Len(m.calls)
<1>0. MachineInv(m) /\ MachineFields \subseteq DOMAIN m /\ op \in Opcodes /\ IsSeq(m.calls) /\ l1 \in Nat
  BY BytecodeOf, FunctionOfSeq DEF WellBehaved, MachineInv
<1>1. CASE n.calls = m.calls
  BY <1>0, <1>1
<1>2. CASE op = "enter" /\ ~Cached(m, Code[m.pc].fun, Operands(m, Code[m.pc].args))
  <2> DEFINE c == [fid |-> m.fid, fp |-> m.fp, pc |-> m.pc + 1]
  <2>1. n.calls = Append(m.calls, c)
    BY <1>0, <1>2, EnterEffect
  <2> HIDE DEF n, c
  <2>2. Len(n.calls) = l1 + 1
    BY <1>0, <2>1, Appended
  <2>3. \A l \in 1 .. l1 : n.calls[l] = m.calls[l]
    BY <1>0, <2>1, Appended
  <2> HIDE DEF l1
  <2>4. Len(n.calls) \in Nat
    BY <1>0, <2>2
  <2> QED BY <2>2, <2>3, <2>4 DEF n, l1
<1>3. CASE op = "ret" /\ m.calls # <<>>
  <2>1. Len(n.calls) = l1 - 1 /\ l1 > 0
    BY <1>0, <1>3, ReturnEffect
  <2>2. \A l \in 1 .. (l1 - 1) : n.calls[l] = m.calls[l]
    BY <1>0, <1>3, ReturnEffect
  <2> HIDE DEF n, l1
  <2>3. Len(n.calls) \in Nat
    BY <1>0, <2>1
  <2>4. ASSUME NEW l \in 1 .. l1, l =< Len(n.calls) PROVE n.calls[l] = m.calls[l]
    <3>1. l \in 1 .. (l1 - 1)
      BY <1>0, <2>1, <2>4
    <3> QED BY <2>2, <3>1
  <2> QED BY <1>3, <2>1, <2>3, <2>4 DEF n, l1
<1>4. CASE op = "tail"
  <2>1. Changes(m, n, {"stack", "fid", "pc"})
    BY <1>0, <1>4, TailEffect
  <2>2. n.calls = m.calls
    BY <1>0, <2>1 DEF Changes, MachineFields
  <2> QED BY <1>1, <2>2
<1>5. CASE op \notin {"enter", "ret", "tail"} \/ (op = "ret" /\ m.calls = <<>>)
           \/ (op = "enter" /\ Cached(m, Code[m.pc].fun, Operands(m, Code[m.pc].args)))
  <2>1. n.calls = m.calls
    BY <1>5, FramesStay
  <2> QED BY <1>1, <2>1
<1> QED BY <1>2, <1>3, <1>4, <1>5

\* The frames of callers lie below the current one.
LEMMA FramesBelow ==
    ASSUME NEW m, MachineInv(m), NEW k \in 1 .. Len(m.calls)
    PROVE  LET g == FrameOf(m, k)
           IN  g.fid \in Function /\ g.fp \in Nat /\ g.fp + Width[g.fid] =< m.fp
<1> DEFINE d == Len(m.calls)
           F(l) == FrameOf(m, l).fp
           W(l) == Width[FrameOf(m, l).fid]
           T == {i \in 0 .. (d - k) : F(k) + W(k) =< F(k + 1 + i)}
<1>0. d \in Nat /\ m.fid \in Function /\ m.fp \in Nat
  BY FrameSizes
<1>1. \A l \in 1 .. d : F(l) \in Nat /\ FrameOf(m, l).fid \in Function
  <2>1. ASSUME NEW l \in 1 .. d PROVE F(l) \in Nat /\ FrameOf(m, l).fid \in Function
    <3>1. IsCall(m, l)
      BY DEF MachineInv
    <3>2. l # d + 1
      BY <1>0
    <3> QED BY <3>1, <3>2 DEF IsCall, FrameOf
  <2> QED BY <2>1
<1>2. F(d + 1) = m.fp /\ FrameOf(m, d + 1).fid = m.fid
  BY DEF FrameOf
<1>3. \A l \in 1 .. d : F(l + 1) = F(l) + W(l)
  <2>1. (d + 1) - 1 = d
    BY <1>0
  <2>2. \A l \in 1 .. ((d + 1) - 1) : F(l + 1) = F(l) + W(l)
    BY DEF MachineInv, FramesTile
  <2> QED BY <2>1, <2>2
<1>4. \A l \in 1 .. (d + 1) : F(l) \in Nat /\ W(l) \in Nat
  <2>1. ASSUME NEW l \in 1 .. (d + 1) PROVE F(l) \in Nat /\ W(l) \in Nat
    <3>1. l \in 1 .. d \/ l = d + 1
      BY <1>0
    <3> QED BY <1>0, <1>1, <1>2, <3>1, EntryInBody
  <2> QED BY <2>1
<1> HIDE DEF d, F, W
<1>5. 0 \in T
  <2>1. k + 1 + 0 = k + 1 /\ 0 \in 0 .. (d - k) /\ k \in 1 .. (d + 1) /\ k \in 1 .. d
    BY <1>0 DEF d
  <2>2. F(k) + W(k) =< F(k + 1)
    BY <1>3, <1>4, <2>1
  <2> QED BY <2>1, <2>2
<1>6. ASSUME NEW i \in 1 .. (d - k), i - 1 \in T PROVE i \in T
  <2>1. i \in 0 .. (d - k) /\ k + 1 + (i - 1) = k + i /\ k + i \in 1 .. d /\ (k + i) + 1 = k + 1 + i
        /\ k \in 1 .. (d + 1) /\ k + i \in 1 .. (d + 1)
    BY <1>0 DEF d
  <2>2. F(k) + W(k) =< F(k + i)
    BY <1>6, <2>1
  <2>3. F(k + 1 + i) = F(k + i) + W(k + i)
    BY <1>3, <2>1
  <2>4. F(k) \in Nat /\ W(k) \in Nat /\ F(k + i) \in Nat /\ W(k + i) \in Nat
    BY <1>4, <2>1
  <2>5. F(k) + W(k) =< F(k + 1 + i)
    BY <2>2, <2>3, <2>4
  <2> QED BY <2>1, <2>5
<1>7. d - k \in T
  <2>1. d - k \in Nat /\ d - k \in 0 .. (d - k)
    BY <1>0 DEF d
  <2> HIDE DEF T
  <2>2. 0 .. (d - k) \subseteq T
    BY <1>5, <1>6, <2>1, UpTo
  <2> QED BY <2>1, <2>2
<1>8. k + 1 + (d - k) = d + 1 /\ k \in 1 .. d
  <2>1. k \in 1 .. d /\ d \in Nat
    BY <1>0 DEF d
  <2> QED BY <2>1
<1>9. F(k) + W(k) =< F(d + 1)
  BY <1>7, <1>8
<1>10. FrameOf(m, k).fid \in Function /\ F(k) \in Nat
  BY <1>1, <1>8
<1>11. F(d + 1) = m.fp
  BY <1>2
<1>12. F(k) + W(k) =< m.fp
  BY <1>9, <1>11
<1> QED BY <1>10, <1>12 DEF F, W

-----------------------------------------------------------------------------
\* Words and output memories.

Words(s) == \A j \in 1 .. Len(s) : s[j] \in Word

\* Zero is a word, a word is a number.
LEMMA WordNumbers == 0 \in Word /\ Word \subseteq Nat /\ Word \subseteq Address
BY ProgramAssumption DEF Word

\* A cell is written.
LEMMA WordsWritten ==
    ASSUME NEW s, IsSeq(s), Words(s), NEW k, NEW v \in Word
    PROVE  Words([s EXCEPT ![k] = v])
<1> DEFINE t == [s EXCEPT ![k] = v]
<1>1. Len(t) = Len(s) /\ Len(s) \in Nat /\ DOMAIN s = 1 .. Len(s)
  BY OneCellChanged, FunctionOfSeq
<1>2. ASSUME NEW j \in 1 .. Len(s) PROVE t[j] \in Word
  <2>1. j \in DOMAIN s /\ s[j] \in Word
    BY <1>1 DEF Words
  <2> QED BY <2>1
<1> HIDE DEF t
<1>3. Words(t)
  BY <1>1, <1>2 DEF Words
<1> QED BY <1>3 DEF t

\* A fresh activation record, cell by cell.
LEMMA RecordCells ==
    ASSUME NEW f \in Function, NEW args, IsSeq(args), Len(args) = NumInputs[f]
    PROVE  /\ \A j \in 1 .. NumInputs[f] : NewFrame(f, args)[j] = args[j]
           /\ \A j \in (NumInputs[f] + 1) .. Width[f] : NewFrame(f, args)[j] = 0
<1> DEFINE ni == NumInputs[f]
           z == Zeroes(Width[f] - Len(args))
           k == Width[f] - Len(args)
           fr == args \o z
<1>1. ni \in Nat /\ Width[f] \in Nat /\ ni =< Width[f]
  <2>1. /\ Width[f] \in Nat /\ NumInputs[f] \in Nat /\ NumOutputs[f] \in Nat
        /\ NumInputs[f] + NumOutputs[f] =< Width[f]
    BY EntryInBody
  <2> QED BY <2>1
<1>2. k \in Nat /\ k = Width[f] - ni
  BY <1>1
<1>3. IsSeq(z) /\ Len(z) = k /\ \A j \in 1 .. k : z[j] = 0
  <2>1. z = [j \in 1 .. k |-> z[j]] /\ \A j \in 1 .. k : z[j] = 0
    BY DEF Zeroes
  <2> HIDE DEF z, k
  <2> QED BY <1>2, <2>1, SeqOfFunction
<1> HIDE DEF z, k
<1>4. \A j \in 1 .. Len(args) : fr[j] = args[j]
  BY <1>3, Concatenated
<1>5. \A j \in 1 .. Len(z) : fr[Len(args) + j] = z[j]
  BY <1>3, Concatenated
<1>6. NewFrame(f, args) = fr
  BY DEF NewFrame, z
<1> HIDE DEF ni, fr
<1>7. ASSUME NEW j \in (ni + 1) .. Width[f] PROVE fr[j] = 0
  <2>1. j - ni \in 1 .. k /\ ni + (j - ni) = j
    BY <1>1, <1>2
  <2>2. Len(args) = ni
    BY DEF ni
  <2>3. fr[ni + (j - ni)] = z[j - ni] /\ z[j - ni] = 0
    BY <1>3, <1>5, <2>1, <2>2
  <2> QED BY <2>1, <2>3
<1>8. \A j \in 1 .. NumInputs[f] : NewFrame(f, args)[j] = args[j]
  BY <1>4, <1>6
<1>9. \A j \in (NumInputs[f] + 1) .. Width[f] : NewFrame(f, args)[j] = 0
  BY <1>6, <1>7 DEF ni
<1> QED BY <1>8, <1>9

\* A record on top of words.
LEMMA WordsOnTop ==
    ASSUME NEW s, IsSeq(s), Words(s), NEW f \in Function, NEW args, IsSeq(args),
           Len(args) = NumInputs[f], Words(args), NEW t, t = s \o NewFrame(f, args)
    PROVE  Words(t)
<1> DEFINE ls == Len(s)
           w == Width[f]
           ni == NumInputs[f]
<1>1. OnTop(t, s, f, args)
  BY Stacked
<1>2. ls \in Nat /\ w \in Nat /\ ni \in Nat
  BY FunctionOfSeq, EntryInBody
<1>3. Len(t) = ls + w /\ \A j \in 1 .. ls : t[j] = s[j]
  BY <1>1 DEF OnTop
<1>4. \A j \in 1 .. w : t[ls + j] = NewFrame(f, args)[j]
  BY <1>1 DEF OnTop
<1>5. \A j \in 1 .. ni : NewFrame(f, args)[j] = args[j] /\ args[j] \in Word
  BY RecordCells DEF Words
<1>6. \A j \in (ni + 1) .. w : NewFrame(f, args)[j] = 0
  BY RecordCells
<1>7. \A j \in 1 .. ls : s[j] \in Word
  BY DEF Words
<1> HIDE DEF ls, w, ni
<1>8. ASSUME NEW j \in 1 .. (ls + w) PROVE t[j] \in Word
  <2>1. CASE j =< ls
    <3>1. j \in 1 .. ls
      BY <1>2, <2>1
    <3> QED BY <1>3, <1>7, <3>1
  <2>2. CASE ~ (j =< ls)
    <3>1. j - ls \in 1 .. w /\ ls + (j - ls) = j /\ (j - ls \in 1 .. ni \/ j - ls \in (ni + 1) .. w)
      BY <1>2, <2>2
    <3>2. NewFrame(f, args)[j - ls] \in Word
      BY <1>5, <1>6, <3>1, WordNumbers
    <3> QED BY <1>4, <3>1, <3>2
  <2> QED BY <2>1, <2>2
<1> QED BY <1>3, <1>8 DEF Words

\* An output memory that has become another one.
Extends(v, w) == Len(v) =< Len(w) /\ \A i \in 1 .. Len(v) : w[i] = v[i]

\* An output extends itself.
LEMMA ExtendsItself == ASSUME NEW v, IsSeq(v) PROVE Extends(v, v)
BY FunctionOfSeq DEF Extends

\* What extends an extension extends what that extends.
LEMMA ExtendsFurther ==
    ASSUME NEW u, NEW v, NEW w, IsSeq(u), IsSeq(v), IsSeq(w), Extends(u, v), Extends(v, w)
    PROVE  Extends(u, w)
<1> DEFINE a == Len(u)
           b == Len(v)
           c == Len(w)
<1>1. a \in Nat /\ b \in Nat /\ c \in Nat
  BY FunctionOfSeq
<1>2. a =< b /\ b =< c /\ (\A i \in 1 .. a : v[i] = u[i]) /\ (\A i \in 1 .. b : w[i] = v[i])
  BY DEF Extends
<1> HIDE DEF a, b, c
<1>3. a =< c /\ \A i \in 1 .. a : i \in 1 .. b
  BY <1>1, <1>2
<1>4. \A i \in 1 .. a : w[i] = u[i]
  BY <1>2, <1>3
<1> QED BY <1>3, <1>4 DEF Extends, a, c

\* What a write leaves in an output memory.
LEMMA WomWritten ==
    ASSUME NEW wom, IsSeq(wom), NEW a \in Nat \ {0}, NEW v, ~Collides(wom, a, v)
    PROVE  LET after == WomAfter(wom, a, v)
           IN  IsSeq(after) /\ Extends(wom, after) /\ a =< Len(after) /\ after[a] = v
<1> DEFINE l == Len(wom)
           z == Zeroes(a - Len(wom))
           grown == IF a =< l THEN wom ELSE wom \o z
           after == [grown EXCEPT ![a] = v]
<1>1. l \in Nat
  BY FunctionOfSeq
<1>2. /\ IsSeq(grown) /\ a =< Len(grown) /\ l =< Len(grown)
      /\ \A i \in 1 .. l : grown[i] = wom[i]
  <2>1. CASE a =< l
    BY <1>1, <2>1
  <2>2. CASE ~ (a =< l)
    <3> DEFINE k == a - Len(wom)
    <3>1. k \in Nat /\ l + k = a
      BY <1>1, <2>2
    <3>2. z = [j \in 1 .. k |-> z[j]]
      BY DEF Zeroes
    <3> HIDE DEF z, k
    <3>3. IsSeq(z) /\ Len(z) = k
      BY <3>1, <3>2, SeqOfFunction
    <3>4. IsSeq(wom \o z) /\ Len(wom \o z) = l + Len(z)
      BY <3>3, Concatenated
    <3>5. \A i \in 1 .. l : (wom \o z)[i] = wom[i]
      BY <3>3, Concatenated
    <3>6. grown = wom \o z
      BY <2>2
    <3> HIDE DEF grown, l
    <3>7. Len(grown) = a
      BY <3>1, <3>3, <3>4, <3>6
    <3> QED BY <1>1, <2>2, <3>4, <3>5, <3>6, <3>7
  <2> QED BY <2>1, <2>2
<1>3. a =< l => wom[a] = v
  BY DEF Collides
<1>4. WomAfter(wom, a, v) = after
  BY DEF WomAfter
<1> HIDE DEF grown
<1>5. IsSeq(after) /\ Len(after) = Len(grown)
  BY <1>2, OneCellChanged
<1>6. Len(grown) \in Nat /\ DOMAIN grown = 1 .. Len(grown)
  BY <1>2, FunctionOfSeq
<1>7. after[a] = v
  <2>1. a \in DOMAIN grown
    BY <1>2, <1>6
  <2> QED BY <2>1
<1>8. ASSUME NEW i \in 1 .. l PROVE after[i] = wom[i]
  <2>1. i \in DOMAIN grown /\ grown[i] = wom[i]
    BY <1>1, <1>2, <1>6
  <2>2. CASE i = a
    <3>1. a =< l
      BY <1>1, <2>2
    <3> QED BY <1>3, <1>7, <2>2, <3>1
  <2>3. CASE i # a
    BY <2>1, <2>3
  <2> QED BY <2>2, <2>3
<1> HIDE DEF after
<1>9. Extends(wom, after)
  BY <1>2, <1>5, <1>8 DEF Extends, l
<1> QED BY <1>2, <1>4, <1>5, <1>7, <1>9

\* What has been written already is written again.
LEMMA WrittenAgain ==
    ASSUME NEW wom, IsSeq(wom), NEW a \in Nat \ {0}, NEW v, a =< Len(wom), wom[a] = v
    PROVE  ~Collides(wom, a, v) /\ WomAfter(wom, a, v) = wom
<1>1. Len(wom) \in Nat /\ DOMAIN wom = 1 .. Len(wom) /\ wom = [i \in 1 .. Len(wom) |-> wom[i]]
  BY FunctionOfSeq
<1>2. [wom EXCEPT ![a] = v] = wom
  <2>1. a \in DOMAIN wom
    BY <1>1
  <2> QED BY <1>1, <2>1
<1> QED BY <1>2 DEF Collides, WomAfter

-----------------------------------------------------------------------------
\* A machine that neither traces nor remembers, and has words in its registers.

MemTyped(mem) ==
    /\ DOMAIN mem = {"rom", "wom", "ram", "clock"} /\ mem = [x \in DOMAIN mem |-> mem[x]]
    /\ \A i \in DOMAIN mem.rom : mem.rom[i] \in Word
    /\ IsSeq(mem.wom)
    /\ DOMAIN mem.ram = Address /\ \A a \in Address : mem.ram[a].value \in Word

Typed(s) ==
    /\ WellBehaved(s) /\ DOMAIN s.cache = {} /\ s.tracing = FALSE
    /\ IsSeq(s.log) /\ Words(s.stack) /\ MemTyped(s.mem)

\* A register of such a machine is a word.
LEMMA RegisterIsWord ==
    ASSUME NEW s, MachineInv(s), Words(s.stack), NEW r \in 0 .. (Width[s.fid] - 1)
    PROVE  Register(s, r) \in Word
<1>1. s.fp \in Nat /\ Width[s.fid] \in Nat /\ Len(s.stack) \in Nat
      /\ s.fp + Width[s.fid] =< Len(s.stack)
  BY FrameSizes
<1>2. s.fp + r + 1 \in 1 .. Len(s.stack)
  BY <1>1
<1> QED BY <1>2 DEF Register, Words

\* Registers of the current bytecode.
LEMMA UsedWords ==
    ASSUME NEW s, MachineInv(s), Words(s.stack), NEW r \in Uses(s.pc)
    PROVE  Register(s, r) \in Word
<1>1. s.fid \in Function /\ s.pc \in Body(s.fid)
  BY DEF MachineInv
<1>2. r \in 0 .. (Width[s.fid] - 1)
  BY <1>1, OperandsOf
<1> QED BY <1>2, RegisterIsWord

\* The operands of a call.
LEMMA OperandWords ==
    ASSUME NEW s, MachineInv(s), Words(s.stack), Code[s.pc].op \in {"enter", "tail"}
    PROVE  Words(Operands(s, Code[s.pc].args))
<1> DEFINE regs == Code[s.pc].args
           args == Operands(s, regs)
<1>1. Len(args) = NumInputs[Code[s.pc].fun] /\ Len(regs) = NumInputs[Code[s.pc].fun]
  BY CallOf
<1>2. \A k \in 1 .. Len(regs) : args[k] = Register(s, regs[k])
  BY CallOf
<1>3. \A k \in 1 .. Len(regs) : regs[k] \in 0 .. (Width[s.fid] - 1)
  BY CallOf
<1>4. \A k \in 1 .. Len(regs) : Register(s, regs[k]) \in Word
  BY <1>3, RegisterIsWord
<1> HIDE DEF args, regs
<1>5. Words(args)
  BY <1>1, <1>2, <1>4 DEF Words
<1> QED BY <1>5 DEF args, regs

\* Registers hold words after a step.
LEMMA WordStep ==
    ASSUME NEW s, Typed(s)
    PROVE  Words(Dispatch(s).stack)
<1> DEFINE n == Dispatch(s)
           i == Code[s.pc]
<1>0. /\ WellBehaved(s) /\ MachineInv(s) /\ s.fid \in Function /\ s.pc \in Body(s.fid)
      /\ i.op \in Opcodes /\ MachineFields \subseteq DOMAIN s /\ Words(s.stack) /\ IsSeq(s.stack)
  BY BytecodeOf DEF Typed, WellBehaved, MachineInv
<1>1. SUFFICES ASSUME n.stack # s.stack PROVE Words(n.stack)
  BY <1>0
<1>2. CASE i.op = "add"
  <2>1. Register(s, i.source) \in Word /\ i.const \in Nat
    <3>1. i.source \in Uses(s.pc)
      BY <1>2 DEF Uses
    <3> QED BY <1>0, <1>2, <3>1, UsedWords, OperandsOf
  <2>2. (Register(s, i.source) + i.const) % Limit \in Word
    <3> DEFINE x == Register(s, i.source)
               y == i.const
    <3>1. x \in Nat /\ y \in Nat
      BY <2>1, WordNumbers
    <3> HIDE DEF x, y
    <3>2. Limit \in Nat \ {0} /\ x + y \in Nat
      BY <3>1, ProgramAssumption
    <3>3. (x + y) % Limit \in 0 .. (Limit - 1)
      BY <3>2
    <3> QED BY <3>3 DEF Word, x, y
  <2>3. \E k : n.stack = [s.stack EXCEPT ![k] = (Register(s, i.source) + i.const) % Limit]
    BY <1>0, <1>2, AddEffect DEF Wrote
  <2>4. PICK k : n.stack = [s.stack EXCEPT ![k] = (Register(s, i.source) + i.const) % Limit]
    BY <2>3
  <2> DEFINE v == (Register(s, i.source) + i.const) % Limit
  <2>5. v \in Word /\ n.stack = [s.stack EXCEPT ![k] = v]
    BY <2>2, <2>4
  <2> HIDE DEF v, n
  <2>6. Words([s.stack EXCEPT ![k] = v])
    BY <1>0, <2>5, WordsWritten
  <2> QED BY <2>5, <2>6
<1>3. CASE i.op = "rdrom"
  <2> DEFINE a == Register(s, i.address) + 1
             k == s.fp + i.target + 1
             v == s.mem.rom[a]
  <2>1. IF a \in DOMAIN s.mem.rom THEN Wrote(s, n, i.target, v) ELSE n.stack = s.stack
    BY <1>0, <1>3, ReadRomEffect
  <2>2. a \in DOMAIN s.mem.rom /\ n.stack = [s.stack EXCEPT ![k] = v]
    <3> HIDE DEF n, a
    <3> QED BY <1>1, <2>1 DEF Wrote
  <2>3. v \in Word
    BY <2>2 DEF Typed, MemTyped
  <2> HIDE DEF v, n, k
  <2>4. Words([s.stack EXCEPT ![k] = v])
    BY <1>0, <2>3, WordsWritten
  <2> QED BY <2>2, <2>4
<1>4. CASE i.op = "rdram"
  <2>1. s.mem.ram[Register(s, i.address)].value \in Word
    <3>1. i.address \in Uses(s.pc)
      BY <1>4 DEF Uses
    <3>2. Register(s, i.address) \in Address
      BY <1>0, <3>1, UsedWords, WordNumbers
    <3> QED BY <3>2 DEF Typed, MemTyped
  <2>2. \E k : n.stack = [s.stack EXCEPT ![k] = s.mem.ram[Register(s, i.address)].value]
    BY <1>0, <1>4, ReadRamEffect DEF Wrote
  <2>3. PICK k : n.stack = [s.stack EXCEPT ![k] = s.mem.ram[Register(s, i.address)].value]
    BY <2>2
  <2> DEFINE v == s.mem.ram[Register(s, i.address)].value
  <2>4. v \in Word /\ n.stack = [s.stack EXCEPT ![k] = v]
    BY <2>1, <2>3
  <2> HIDE DEF v, n
  <2>5. Words([s.stack EXCEPT ![k] = v])
    BY <1>0, <2>4, WordsWritten
  <2> QED BY <2>4, <2>5
<1>5. CASE i.op = "enter"
  <2> DEFINE args == Operands(s, i.args)
  <2>1. ~Cached(s, i.fun, args)
    BY DEF Typed, Cached
  <2>2. n.stack = s.stack \o NewFrame(i.fun, args)
    BY <1>0, <1>5, <2>1, EnterEffect
  <2>3. i.fun \in Function /\ IsSeq(args) /\ Len(args) = NumInputs[i.fun] /\ Words(args)
    BY <1>0, <1>5, CallOf, OperandWords
  <2> HIDE DEF args, n
  <2> QED BY <1>0, <2>2, <2>3, WordsOnTop
<1>6. CASE i.op = "tail"
  <2> DEFINE args == Operands(s, i.args)
             q == SubSeq(s.stack, 1, s.fp)
  <2>1. n.stack = q \o NewFrame(i.fun, args)
    BY <1>0, <1>6, TailEffect
  <2>2. i.fun \in Function /\ IsSeq(args) /\ Len(args) = NumInputs[i.fun] /\ Words(args)
    BY <1>0, <1>6, CallOf, OperandWords
  <2>3. s.fp \in Nat /\ s.fp =< Len(s.stack) /\ Len(s.stack) \in Nat
    <3>1. s.fp \in Nat /\ Width[s.fid] \in Nat /\ Len(s.stack) \in Nat
          /\ s.fp + Width[s.fid] =< Len(s.stack)
      BY <1>0, FrameSizes
    <3> QED BY <3>1
  <2>4. IsSeq(q) /\ Len(q) = s.fp
    BY <1>0, <2>3, FirstCells
  <2>5. \A j \in 1 .. s.fp : q[j] = s.stack[j]
    BY <1>0, <2>3, FirstCells
  <2> HIDE DEF args, n, q
  <2>6. Words(q)
    <3>1. \A j \in 1 .. s.fp : j \in 1 .. Len(s.stack)
      BY <2>3
    <3> QED BY <1>0, <2>4, <2>5, <3>1 DEF Words
  <2> QED BY <2>1, <2>2, <2>4, <2>6, WordsOnTop
<1>7. CASE i.op = "leave"
  <2> DEFINE top == s.fp + Width[s.fid]
             f == Code[s.pc - 1].fun
  <2>0. Returning(s)
    BY <1>7 DEF Returning
  <2>1. WellBehaved(n) /\ ~Returning(n)
    BY <1>0, <1>7, LeaveEffect
  <2>2. n.fid = s.fid /\ n.fp = s.fp
    BY <1>0, <1>7, FramesStay
  <2>3. Len(n.stack) = top
    BY <2>1, <2>2, FrameSizes DEF WellBehaved, Returning
  <2>4. /\ s.fp \in Nat /\ Width[s.fid] \in Nat /\ Width[f] \in Nat /\ NumInputs[f] \in Nat
        /\ NumOutputs[f] \in Nat /\ NumInputs[f] + NumOutputs[f] =< Width[f]
        /\ s.rp = s.fp + Width[s.fid] + NumInputs[f]
        /\ Len(s.stack) = s.fp + Width[s.fid] + Width[f] /\ Len(i.rets) \in 0 .. NumOutputs[f]
    BY <1>0, <2>0, CalleeSizes, FrameSizes
  <2>5. ASSUME NEW c \in 1 .. top PROVE n.stack[c] \in Word
    <3> DEFINE Returned == \E k \in 1 .. Len(i.rets) : i.rets[k] = c - s.fp - 1
               p == CHOOSE k \in 1 .. Len(i.rets) : i.rets[k] = c - s.fp - 1
    <3>1. n.stack[c] = IF Returned THEN s.stack[s.rp + p] ELSE s.stack[c]
      BY <1>0, <1>7, LeaveEffect
    <3>2. Returned => p \in 1 .. Len(i.rets)
      OBVIOUS
    <3> HIDE DEF Returned, p
    <3> DEFINE fp == s.fp
               w == Width[s.fid]
               wf == Width[f]
               ni == NumInputs[f]
               no == NumOutputs[f]
               ls == Len(s.stack)
    <3>0. /\ fp \in Nat /\ w \in Nat /\ wf \in Nat /\ ni \in Nat /\ no \in Nat /\ ni + no =< wf
          /\ s.rp = fp + w + ni /\ ls = fp + w + wf /\ Len(i.rets) \in 0 .. no
          /\ c \in 1 .. (fp + w)
      BY <2>4
    <3> HIDE DEF fp, w, wf, ni, no, ls
    <3>3. c \in 1 .. Len(s.stack)
      BY <3>0 DEF ls
    <3>4. Returned => s.rp + p \in 1 .. Len(s.stack)
      <4>1. ASSUME p \in 1 .. Len(i.rets) PROVE s.rp + p \in 1 .. ls
        BY <3>0, <4>1
      <4> QED BY <3>2, <4>1 DEF ls
    <3> HIDE DEF n
    <3> QED BY <1>0, <3>1, <3>3, <3>4 DEF Words
  <2> QED BY <2>3, <2>5 DEF Words
<1>8. CASE i.op \in {"skipif", "jmp", "done", "fail", "wrwom", "wrram", "ret"}
  <2>1. \E S \in SUBSET (MachineFields \ {"stack"}) : Changes(s, n, S)
    <3>1. CASE i.op = "skipif"
      <4>1. Changes(s, n, {"pc"})
        BY <1>0, <3>1, SkipIfEffect
      <4> QED BY <4>1 DEF MachineFields
    <3>2. CASE i.op \in {"jmp", "done", "fail"}
      <4>1. Changes(s, n, {"pc"}) \/ Changes(s, n, {"status"})
        BY <1>0, <3>2, ControlEffect
      <4> QED BY <4>1 DEF MachineFields
    <3>3. CASE i.op = "wrwom"
      <4>1. Changes(s, n, {"status"}) \/ Changes(s, n, {"pc", "mem"})
        BY <1>0, <3>3, WriteWomEffect
      <4> QED BY <4>1 DEF MachineFields
    <3>4. CASE i.op = "wrram"
      <4>1. Changes(s, n, {"pc", "mem", "log"})
        BY <1>0, <3>4, WriteRamEffect
      <4> QED BY <4>1 DEF MachineFields
    <3>5. CASE i.op = "ret"
      <4>1. Changes(s, n, {"status"}) \/ Changes(s, n, {"calls", "cache", "fid", "fp", "pc", "rp", "rw"})
        BY <1>0, <3>5, EndEffect, ReturnEffect
      <4> QED BY <4>1 DEF MachineFields
    <3> QED BY <1>8, <3>1, <3>2, <3>3, <3>4, <3>5
  <2> QED BY <1>0, <1>1, <2>1 DEF Changes, MachineFields
<1> QED BY <1>0, <1>2, <1>3, <1>4, <1>5, <1>6, <1>7, <1>8 DEF Opcodes

-----------------------------------------------------------------------------
\* What a step does to the memories and to the log.

\* The value that an access of the read-write memory leaves there.
Accessing(s) ==
    IF Code[s.pc].op = "rdram" THEN s.mem.ram[Register(s, Code[s.pc].address)].value
                               ELSE Register(s, Code[s.pc].source)

\* Only the bytecodes that access a memory change it.
LEMMA MemoryEffect ==
    ASSUME NEW s, WellBehaved(s)
    PROVE  LET n == Dispatch(s)
               i == Code[s.pc]
               a == Register(s, i.address) + 1
               v == Register(s, i.source)
           IN  /\ i.op \notin {"wrwom", "rdram", "wrram"} => n.mem = s.mem /\ n.log = s.log
               /\ i.op = "wrwom" =>
                     /\ n.log = s.log
                     /\ n.mem = IF Collides(s.mem.wom, a, v) THEN s.mem
                                ELSE [s.mem EXCEPT !.wom = WomAfter(s.mem.wom, a, v)]
                     /\ Collides(s.mem.wom, a, v) => n.status = "failed"
               /\ i.op \in {"rdram", "wrram"} =>
                     Accessed(s, n, Register(s, i.address), Accessing(s), i.op = "wrram")
<1> DEFINE n == Dispatch(s)
           i == Code[s.pc]
<1>0. /\ MachineInv(s) /\ s.fid \in Function /\ s.pc \in Body(s.fid)
      /\ i.op \in Opcodes /\ MachineFields \subseteq DOMAIN s
  BY BytecodeOf DEF WellBehaved, MachineInv
<1>1. ASSUME i.op \notin {"wrwom", "rdram", "wrram"} PROVE n.mem = s.mem /\ n.log = s.log
  <2>1. \E S \in SUBSET (MachineFields \ {"mem", "log"}) : Changes(s, n, S)
    <3>1. CASE i.op = "skipif"
      <4>1. Changes(s, n, {"pc"})
        BY <1>0, <3>1, SkipIfEffect
      <4> QED BY <4>1 DEF MachineFields
    <3>2. CASE i.op \in {"jmp", "done", "fail"}
      <4>1. Changes(s, n, {"pc"}) \/ Changes(s, n, {"status"})
        BY <1>0, <3>2, ControlEffect
      <4> QED BY <4>1 DEF MachineFields
    <3>3. CASE i.op = "add"
      <4>1. Changes(s, n, {"stack", "pc", "status"})
        BY <1>0, <3>3, AddEffect
      <4> QED BY <4>1 DEF MachineFields
    <3>4. CASE i.op = "rdrom"
      <4>1. Changes(s, n, {"stack", "pc", "status"})
        BY <1>0, <3>4, ReadRomEffect
      <4> QED BY <4>1 DEF MachineFields
    <3>5. CASE i.op = "ret"
      <4>1. Changes(s, n, {"status"}) \/ Changes(s, n, {"calls", "cache", "fid", "fp", "pc", "rp", "rw"})
        BY <1>0, <3>5, EndEffect, ReturnEffect
      <4> QED BY <4>1 DEF MachineFields
    <3>6. CASE i.op = "leave"
      <4>1. Changes(s, n, {"stack", "pc"})
        BY <3>6, LeaveEffect
      <4> QED BY <4>1 DEF MachineFields
    <3>7. CASE i.op = "tail"
      <4>1. Changes(s, n, {"stack", "fid", "pc"})
        BY <1>0, <3>7, TailEffect
      <4> QED BY <4>1 DEF MachineFields
    <3>8. CASE i.op = "enter"
      <4>1. Changes(s, n, {"stack", "pc", "rp", "rw"}) \/ Changes(s, n, {"stack", "calls", "fid", "fp", "pc"})
        BY <1>0, <3>8, EnterEffect, CachedEffect
      <4> QED BY <4>1 DEF MachineFields
    <3> QED BY <1>0, <1>1, <3>1, <3>2, <3>3, <3>4, <3>5, <3>6, <3>7, <3>8 DEF Opcodes
  <2> HIDE DEF n
  <2> QED BY <1>0, <2>1 DEF Changes, MachineFields
<1>2. ASSUME i.op = "wrwom"
      PROVE  LET a == Register(s, i.address) + 1
                 v == Register(s, i.source)
             IN  /\ n.log = s.log
                 /\ n.mem = IF Collides(s.mem.wom, a, v) THEN s.mem
                            ELSE [s.mem EXCEPT !.wom = WomAfter(s.mem.wom, a, v)]
                 /\ Collides(s.mem.wom, a, v) => n.status = "failed"
  <2> DEFINE a == Register(s, i.address) + 1
             v == Register(s, i.source)
  <2>1. IF Collides(s.mem.wom, a, v)
        THEN Changes(s, n, {"status"}) /\ n.status = "failed"
        ELSE /\ Changes(s, n, {"pc", "mem"})
             /\ n.mem = [s.mem EXCEPT !.wom = WomAfter(s.mem.wom, a, v)]
    BY <1>0, <1>2, WriteWomEffect
  <2> HIDE DEF n, a, v
  <2>2. /\ n.log = s.log
        /\ n.mem = IF Collides(s.mem.wom, a, v) THEN s.mem
                   ELSE [s.mem EXCEPT !.wom = WomAfter(s.mem.wom, a, v)]
        /\ Collides(s.mem.wom, a, v) => n.status = "failed"
    BY <1>0, <2>1 DEF Changes, MachineFields
  <2> QED BY <2>2 DEF a, v
<1>3. ASSUME i.op \in {"rdram", "wrram"}
      PROVE  Accessed(s, n, Register(s, i.address), Accessing(s), i.op = "wrram")
  <2>1. CASE i.op = "rdram"
    <3>1. Accessed(s, n, Register(s, i.address), s.mem.ram[Register(s, i.address)].value, FALSE)
      BY <1>0, <2>1, ReadRamEffect
    <3>2. (i.op = "wrram") = FALSE /\ Accessing(s) = s.mem.ram[Register(s, i.address)].value
      BY <2>1 DEF Accessing
    <3> HIDE DEF n
    <3> QED BY <3>1, <3>2
  <2>2. CASE i.op = "wrram"
    <3>1. Accessed(s, n, Register(s, i.address), Register(s, i.source), TRUE)
      BY <1>0, <2>2, WriteRamEffect
    <3>2. (i.op = "wrram") = TRUE /\ Accessing(s) = Register(s, i.source)
      BY <2>2 DEF Accessing
    <3> HIDE DEF n
    <3> QED BY <3>1, <3>2
  <2> QED BY <1>3, <2>1, <2>2
<1> HIDE DEF n, i
<1> QED BY <1>1, <1>2, <1>3 DEF n, i

\* The memories stay of their kind, and the output memory only grows.
LEMMA MemStep ==
    ASSUME NEW s, Typed(s)
    PROVE  LET n == Dispatch(s)
           IN  /\ MemTyped(n.mem) /\ n.mem.rom = s.mem.rom /\ Extends(s.mem.wom, n.mem.wom)
               /\ IsSeq(n.log)
<1> DEFINE n == Dispatch(s)
           i == Code[s.pc]
<1> SUFFICES /\ MemTyped(n.mem) /\ n.mem.rom = s.mem.rom /\ Extends(s.mem.wom, n.mem.wom)
             /\ IsSeq(n.log)
  OBVIOUS
<1>0. WellBehaved(s) /\ MachineInv(s) /\ Words(s.stack) /\ MemTyped(s.mem) /\ IsSeq(s.log)
  BY DEF Typed, WellBehaved
<1>1. CASE i.op \notin {"wrwom", "rdram", "wrram"}
  <2>1. n.mem = s.mem /\ n.log = s.log
    BY <1>0, <1>1, MemoryEffect
  <2>2. IsSeq(s.mem.wom)
    BY <1>0 DEF MemTyped
  <2> HIDE DEF n
  <2> QED BY <1>0, <2>1, <2>2, ExtendsItself
<1>2. CASE i.op = "wrwom"
  <2> DEFINE a == Register(s, i.address) + 1
             v == Register(s, i.source)
  <2>1. n.log = s.log
    BY <1>0, <1>2, MemoryEffect
  <2>2. n.mem = IF Collides(s.mem.wom, a, v) THEN s.mem
                ELSE [s.mem EXCEPT !.wom = WomAfter(s.mem.wom, a, v)]
    BY <1>0, <1>2, MemoryEffect
  <2>3. a \in Nat \ {0}
    <3>1. i.address \in Uses(s.pc)
      BY <1>2 DEF Uses
    <3>2. Register(s, i.address) \in Nat
      BY <1>0, <3>1, UsedWords, WordNumbers
    <3> QED BY <3>2
  <2>4. IsSeq(s.mem.wom) /\ DOMAIN s.mem = {"rom", "wom", "ram", "clock"}
    BY <1>0 DEF MemTyped
  <2> HIDE DEF n, a, v
  <2>5. CASE Collides(s.mem.wom, a, v)
    <3>1. n.mem = s.mem
      BY <2>2, <2>5
    <3> QED BY <1>0, <2>1, <2>4, <3>1, ExtendsItself
  <2>6. CASE ~Collides(s.mem.wom, a, v)
    <3> DEFINE after == WomAfter(s.mem.wom, a, v)
    <3>1. IsSeq(after) /\ Extends(s.mem.wom, after)
      BY <2>3, <2>4, <2>6, WomWritten
    <3>2. n.mem = [s.mem EXCEPT !.wom = after]
      BY <2>2, <2>6
    <3> HIDE DEF after
    <3>3. /\ n.mem.wom = after /\ n.mem.rom = s.mem.rom /\ n.mem.ram = s.mem.ram
          /\ DOMAIN n.mem = DOMAIN s.mem /\ n.mem = [x \in DOMAIN n.mem |-> n.mem[x]]
      BY <2>4, <3>2
    <3>4. MemTyped(n.mem)
      BY <1>0, <3>1, <3>3 DEF MemTyped
    <3> QED BY <1>0, <2>1, <3>1, <3>3, <3>4
  <2> QED BY <2>5, <2>6
<1>3. CASE i.op \in {"rdram", "wrram"}
  <2> DEFINE a == Register(s, i.address)
             v == Accessing(s)
             now == [value |-> v, stamp |-> s.mem.clock + 1]
             entry == [address |-> a, before |-> s.mem.ram[a], after |-> now, isWrite |-> i.op = "wrram"]
  <2>1. n.mem = [s.mem EXCEPT !.clock = s.mem.clock + 1, !.ram[a] = now] /\ n.log = Append(s.log, entry)
    BY <1>0, <1>3, MemoryEffect DEF Accessed
  <2>2. a \in Address
    <3>1. i.address \in Uses(s.pc)
      BY <1>3 DEF Uses
    <3> QED BY <1>0, <3>1, UsedWords, WordNumbers
  <2>3. v \in Word
    <3>1. CASE i.op = "rdram"
      BY <1>0, <2>2, <3>1 DEF Accessing, MemTyped
    <3>2. CASE i.op = "wrram"
      <4>1. i.source \in Uses(s.pc)
        BY <3>2 DEF Uses
      <4> QED BY <1>0, <3>2, <4>1, UsedWords DEF Accessing
    <3> QED BY <1>3, <3>1, <3>2
  <2>4. DOMAIN s.mem = {"rom", "wom", "ram", "clock"} /\ DOMAIN s.mem.ram = Address /\ IsSeq(s.mem.wom)
    BY <1>0 DEF MemTyped
  <2>5. now.value = v
    OBVIOUS
  <2> HIDE DEF n, a, v, now, entry
  <2>6. /\ n.mem.wom = s.mem.wom /\ n.mem.rom = s.mem.rom /\ DOMAIN n.mem = DOMAIN s.mem
        /\ n.mem.ram = [s.mem.ram EXCEPT ![a] = now] /\ n.mem = [x \in DOMAIN n.mem |-> n.mem[x]]
    BY <2>1, <2>4
  <2>7. DOMAIN n.mem.ram = Address /\ \A b \in Address : n.mem.ram[b].value \in Word
    <3>1. \A b \in Address : n.mem.ram[b] = IF b = a THEN now ELSE s.mem.ram[b]
      BY <2>4, <2>6
    <3>2. \A b \in Address : s.mem.ram[b].value \in Word
      BY <1>0 DEF MemTyped
    <3>3. DOMAIN n.mem.ram = Address
      BY <2>4, <2>6
    <3>4. ASSUME NEW b \in Address PROVE n.mem.ram[b].value \in Word
      BY <2>3, <2>5, <3>1, <3>2
    <3> QED BY <3>3, <3>4
  <2>8. MemTyped(n.mem)
    BY <1>0, <2>6, <2>7 DEF MemTyped
  <2>9. IsSeq(n.log)
    BY <1>0, <2>1, Appended
  <2> QED BY <2>4, <2>6, <2>8, <2>9, ExtendsItself
<1> QED BY <1>1, <1>2, <1>3

\* What a step leaves alone.
LEMMA RestKept ==
    ASSUME NEW m, WellBehaved(m)
    PROVE  LET n == Dispatch(m)
           IN  /\ DOMAIN n = DOMAIN m /\ n.rows = m.rows /\ n.tracing = m.tracing
               /\ n.breakpointer = m.breakpointer
               /\ "count" \in DOMAIN m => n.count = m.count
               /\ "points" \in DOMAIN m => n.points = m.points
<1> DEFINE n == Dispatch(m)
<1>1. KeepsRest(m, n) /\ MachineFields \subseteq DOMAIN m
  BY DispatchStep DEF WellBehaved, MachineInv
<1> HIDE DEF n
<1>2. {"rows", "tracing", "breakpointer"} \subseteq DOMAIN m
  BY <1>1 DEF MachineFields
<1>3. /\ DOMAIN n = DOMAIN m /\ n.rows = m.rows /\ n.tracing = m.tracing
      /\ n.breakpointer = m.breakpointer
      /\ "count" \in DOMAIN m => n.count = m.count
      /\ "points" \in DOMAIN m => n.points = m.points
  BY <1>1, <1>2 DEF KeepsRest, Changing
<1> QED BY <1>3 DEF n

\* A machine that neither traces nor remembers goes on as one.
LEMMA TypedStep ==
    ASSUME NEW s, Typed(s)
    PROVE  Typed(Dispatch(s))
<1> DEFINE n == Dispatch(s)
<1>1. WellBehaved(s) /\ DOMAIN s.cache = {} /\ s.tracing = FALSE
  BY DEF Typed
<1>2. WellBehaved(n) /\ n.tracing = FALSE
  BY <1>1, StaysWellBehaved, RestKept
<1>3. DOMAIN n.cache = {}
  <2>1. \A key \in DOMAIN n.cache : Code[s.pc].op = "ret"
    BY <1>1, DispatchStep DEF WellBehaved
  <2>2. CASE Code[s.pc].op # "ret"
    BY <2>1, <2>2
  <2>3. CASE Code[s.pc].op = "ret" /\ s.calls = <<>>
    <3>1. Changes(s, n, {"status"}) /\ MachineFields \subseteq DOMAIN s
      BY <1>1, <2>3, EndEffect DEF WellBehaved, MachineInv
    <3> HIDE DEF n
    <3>2. n.cache = s.cache
      BY <3>1 DEF Changes, MachineFields
    <3> QED BY <1>1, <3>2
  <2>4. CASE Code[s.pc].op = "ret" /\ s.calls # <<>>
    <3>1. n.cache = Remembered(s)
      BY <1>1, <2>4, ReturnEffect DEF WellBehaved
    <3>2. Remembered(s) = s.cache
      BY <1>1 DEF Remembered
    <3> HIDE DEF n
    <3> QED BY <1>1, <3>1, <3>2
  <2> QED BY <2>2, <2>3, <2>4
<1>4. Words(n.stack) /\ MemTyped(n.mem) /\ IsSeq(n.log)
  BY WordStep, MemStep
<1> HIDE DEF n
<1>5. Typed(n)
  BY <1>2, <1>3, <1>4 DEF Typed
<1> QED BY <1>5 DEF n

-----------------------------------------------------------------------------
\* Arriving at the entry of the shard function.

\* A bytecode belongs to one function.
LEMMA BodiesApart ==
    ASSUME NEW f \in Function, NEW g \in Function, NEW pc \in Body(f), pc \in Body(g)
    PROVE  f = g
<1>1. Entry[f] =< pc /\ Entry[g] =< pc
  BY DEF Body
<1>2. Entry[f] =< Entry[g] /\ Entry[g] =< Entry[f]
  BY <1>1 DEF Body
<1>3. Entry[f] \in Nat /\ Entry[g] \in Nat
  BY ProgramAssumption, CodeAssumption
<1>4. Entry[f] = Entry[g]
  BY <1>2, <1>3
<1> QED BY <1>4, ProgramAssumption

\* The entry of the shard function is in no other function.
LEMMA EntryPointOf ==
    ASSUME EntryIsPlain, NEW m, MachineInv(m)
    PROVE  /\ m.pc = EntryPoint => m.fid = ShardFun
           /\ m.fid = ShardFun => Code[m.pc].op # "ret" /\ EntryPoint \notin Follow(m.pc)
           /\ m.pc = EntryPoint => ~Returning(m) /\ Code[m.pc].op \notin {"jmp", "ret", "done", "tail"}
<1>1. m.fid \in Function /\ m.pc \in Body(m.fid) /\ ShardFun \in Function
  BY ShardAssumption DEF MachineInv
<1>2. EntryPoint \in Body(ShardFun) /\ Code[EntryPoint].op # "leave"
  BY <1>1, EntryInBody DEF EntryPoint
<1>3. m.pc = EntryPoint => m.fid = ShardFun
  BY <1>1, <1>2, BodiesApart
<1>4. Code[EntryPoint].op \notin {"jmp", "ret", "done", "tail"}
  BY DEF EntryIsPlain, VectorTerminals
<1>5. m.fid = ShardFun => Code[m.pc].op # "ret" /\ EntryPoint \notin Follow(m.pc)
  BY <1>1, EntryAssumption DEF EntryIsPlain
<1> QED BY <1>2, <1>3, <1>4, <1>5 DEF Returning

\* What neither calls nor returns goes where control may flow, unless it stops.
LEMMA MovesWithin ==
    ASSUME NEW m, WellBehaved(m), Code[m.pc].op \notin {"enter", "ret", "tail"},
           Dispatch(m).status = "running"
    PROVE  Dispatch(m).pc \in Follow(m.pc)
<1> DEFINE n == Dispatch(m)
           i == Code[m.pc]
<1>0. MachineInv(m) /\ i.op \in Opcodes
  <2>1. m.fid \in Function /\ m.pc \in Body(m.fid) /\ MachineInv(m)
    BY DEF WellBehaved, MachineInv
  <2> QED BY <2>1, BytecodeOf
<1>1. CASE i.op = "add"
  <2>1. n.pc = m.pc + 1 \/ n.status = "failed"
    BY <1>0, <1>1, AddEffect
  <2> QED BY <1>0, <1>1, <2>1, NextBytecode
<1>2. CASE i.op = "skipif"
  <2>1. n.pc = m.pc + 1 \/ n.pc = i.goto
    BY <1>0, <1>2, SkipIfEffect
  <2> QED BY <1>0, <1>2, <2>1, NextBytecode, JumpTarget
<1>3. CASE i.op = "rdrom"
  <2>1. n.pc = m.pc + 1 \/ n.status = "panicked"
    BY <1>0, <1>3, ReadRomEffect
  <2> QED BY <1>0, <1>3, <2>1, NextBytecode
<1>4. CASE i.op = "wrwom"
  <2>1. n.pc = m.pc + 1 \/ n.status = "failed"
    BY <1>0, <1>4, WriteWomEffect
  <2> QED BY <1>0, <1>4, <2>1, NextBytecode
<1>5. CASE i.op = "rdram"
  <2>1. n.pc = m.pc + 1
    BY <1>0, <1>5, ReadRamEffect
  <2> QED BY <1>0, <1>5, <2>1, NextBytecode
<1>6. CASE i.op = "wrram"
  <2>1. n.pc = m.pc + 1
    BY <1>0, <1>6, WriteRamEffect
  <2> QED BY <1>0, <1>6, <2>1, NextBytecode
<1>7. CASE i.op \in {"jmp", "done", "fail"}
  <2>1. IF i.op = "jmp" THEN n.pc = i.goto ELSE n.status = (IF i.op = "done" THEN "done" ELSE "failed")
    BY <1>0, <1>7, ControlEffect
  <2>2. i.op = "jmp" /\ n.pc = i.goto
    <3> HIDE DEF n
    <3> QED BY <1>7, <2>1 DEF n
  <2> QED BY <1>0, <2>2, JumpTarget
<1>8. CASE i.op = "leave"
  <2>1. n.pc = m.pc + 1
    BY <1>8, LeaveEffect
  <2> QED BY <1>0, <1>8, <2>1, NextBytecode
<1> QED BY <1>0, <1>1, <1>2, <1>3, <1>4, <1>5, <1>6, <1>7, <1>8 DEF Opcodes

\* The entry of the shard function is only reached by a tail call of it.
LEMMA ArrivesByTail ==
    ASSUME EntryIsPlain, NEW m, WellBehaved(m), Dispatch(m).status = "running", Dispatch(m).pc = EntryPoint
    PROVE  Code[m.pc].op = "tail" /\ Code[m.pc].fun = ShardFun
<1> DEFINE n == Dispatch(m)
           i == Code[m.pc]
<1>0. MachineInv(m) /\ m.fid \in Function /\ m.pc \in Body(m.fid) /\ i.op \in Opcodes
  <2>1. m.fid \in Function /\ m.pc \in Body(m.fid) /\ MachineInv(m)
    BY DEF WellBehaved, MachineInv
  <2> QED BY <2>1, BytecodeOf
<1>1. WellBehaved(n) /\ MachineInv(n)
  BY StaysWellBehaved DEF WellBehaved
<1>2. n.fid = ShardFun /\ ~Returning(n)
  BY <1>1, EntryPointOf
<1>3. CASE i.op \notin {"enter", "ret", "tail"}
  <2>1. n.pc \in Follow(m.pc)
    BY <1>3, MovesWithin
  <2>2. n.fid = m.fid
    BY <1>3, FramesStay
  <2> QED BY <1>0, <1>2, <2>1, <2>2, EntryPointOf
<1>4. CASE i.op = "ret"
  <2>1. CASE m.calls = <<>>
    <3>1. n.status = "done"
      BY <1>0, <1>4, <2>1, EndEffect
    <3> QED BY <3>1
  <2>2. CASE m.calls # <<>>
    BY <1>0, <1>2, <1>4, <2>2, ReturnEffect
  <2> QED BY <2>1, <2>2
<1>5. CASE i.op = "enter"
  <2>1. CASE Cached(m, i.fun, Operands(m, i.args))
    BY <1>0, <1>2, <1>5, <2>1, CachedEffect
  <2>2. CASE ~Cached(m, i.fun, Operands(m, i.args))
    <3>1. n.fid = i.fun
      BY <1>0, <1>5, <2>2, EnterEffect
    <3>2. m.pc \in DOMAIN Code
      BY <1>0 DEF Body
    <3> QED BY <1>2, <1>5, <3>1, <3>2, EntryAssumption
  <2> QED BY <2>1, <2>2
<1>6. CASE i.op = "tail"
  <2>1. n.fid = i.fun
    BY <1>0, <1>6, TailEffect
  <2> QED BY <1>2, <1>6, <2>1
<1> QED BY <1>3, <1>4, <1>5, <1>6

\* Beyond its arguments the frame holds zeroes.
FreshFrame(m) ==
    \A j \in (NumInputs[m.fid] + 1) .. Width[m.fid] : m.stack[m.fp + j] = 0

\* A tail call leaves its arguments and zeroes.
LEMMA TailFrame ==
    ASSUME NEW m, MachineInv(m), Code[m.pc].op = "tail"
    PROVE  LET n == Dispatch(m)
           IN  /\ FreshFrame(n) /\ n.fp = m.fp
               /\ \A j \in 1 .. NumInputs[n.fid] :
                     n.stack[n.fp + j] = Operands(m, Code[m.pc].args)[j]
<1> DEFINE n == Dispatch(m)
           f == Code[m.pc].fun
           args == Operands(m, Code[m.pc].args)
           q == SubSeq(m.stack, 1, m.fp)
<1> SUFFICES /\ FreshFrame(n) /\ n.fp = m.fp
             /\ \A j \in 1 .. NumInputs[n.fid] : n.stack[n.fp + j] = args[j]
  OBVIOUS
<1>1. Changes(m, n, {"stack", "fid", "pc"}) /\ n.fid = f /\ n.stack = q \o NewFrame(f, args)
  BY TailEffect
<1>2. f \in Function /\ IsSeq(args) /\ Len(args) = NumInputs[f]
  BY CallOf
<1>3. IsSeq(q) /\ Len(q) = m.fp /\ m.fp \in Nat
  <2>1. m.fp \in Nat /\ m.fp =< Len(m.stack) /\ IsSeq(m.stack)
    <3>1. Fixed(m) \in Nat /\ m.fp =< Fixed(m) /\ Fixed(m) =< Len(m.stack) /\ m.fp \in Nat
          /\ Len(m.stack) \in Nat
      BY FixedCells, FrameSizes
    <3> QED BY <3>1 DEF MachineInv
  <2> QED BY <2>1, FirstCells
<1>4. MachineFields \subseteq DOMAIN m
  BY DEF MachineInv
<1> HIDE DEF n, args, q, f
<1>5. n.fp = m.fp
  BY <1>1, <1>4 DEF Changes, MachineFields
<1>6. OnTop(n.stack, q, f, args)
  BY <1>1, <1>2, <1>3, Stacked
<1>7. \A j \in 1 .. Width[f] : n.stack[m.fp + j] = NewFrame(f, args)[j]
  BY <1>3, <1>6 DEF OnTop
<1>8. \A j \in 1 .. NumInputs[f] : NewFrame(f, args)[j] = args[j]
  BY <1>2, RecordCells
<1>9. \A j \in (NumInputs[f] + 1) .. Width[f] : NewFrame(f, args)[j] = 0
  BY <1>2, RecordCells
<1>10. NumInputs[f] \in Nat /\ Width[f] \in Nat /\ NumInputs[f] =< Width[f]
  <2>1. /\ Width[f] \in Nat /\ NumInputs[f] \in Nat /\ NumOutputs[f] \in Nat
        /\ NumInputs[f] + NumOutputs[f] =< Width[f]
    BY <1>2, EntryInBody
  <2> QED BY <2>1
<1>11. \A j \in 1 .. NumInputs[f] : n.stack[m.fp + j] = args[j]
  <2>1. \A j \in 1 .. NumInputs[f] : j \in 1 .. Width[f]
    BY <1>10
  <2> QED BY <1>7, <1>8, <2>1
<1>12. \A j \in (NumInputs[f] + 1) .. Width[f] : n.stack[m.fp + j] = 0
  <2>1. \A j \in (NumInputs[f] + 1) .. Width[f] : j \in 1 .. Width[f]
    BY <1>10
  <2> QED BY <1>7, <1>9, <2>1
<1>13. FreshFrame(n)
  BY <1>1, <1>5, <1>12 DEF FreshFrame
<1> QED BY <1>1, <1>5, <1>11, <1>13
=============================================================================
