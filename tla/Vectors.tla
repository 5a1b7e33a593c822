------------------------------ MODULE Vectors ------------------------------
(***************************************************************************)
(* Bytecode vectors (zkc/vm/internal/bytecode/vector.go): sequences of     *)
(* bytecodes that the machine runs one after the other and the constraints *)
(* translate all at once.  This module holds what the code computes of a   *)
(* vector: its write map, its branch table, whether its control flow is    *)
(* sound and whether its reads and writes conflict.                        *)
(*                                                                         *)
(* Offsets are positions 1..Len(codes), so a skip of n at offset i goes to *)
(* i + n + 1, and vectors are numbered from 1.  The bytecodes are those    *)
(* that tell the analyses apart: an addition and a subtraction, which stand*)
(* for every bytecode that computes a register, accesses to read-write     *)
(* memories and calls, of which only the timestamps are kept, and all the  *)
(* control flow.                                                           *)
(***************************************************************************)
EXTENDS Propositions, FiniteSets

CONSTANTS
    MaxRegs,  \* No function has more registers; a variable above MaxRegs is a
              \* register whose value is forwarded (BranchId).
    Callees   \* The functions that are called, by number: the read-write
              \* memories each one declares, in order, and how often it
              \* accesses them.

ASSUME MaxRegsAssumption == MaxRegs \in Nat \ {0}

ASSUME CalleesAssumption ==
    \A f \in DOMAIN Callees : \A j \in DOMAIN Callees[f] :
        Callees[f][j].memory \in Nat \ {0} /\ Callees[f][j].accesses \in Nat

None == 0         \* The source of an addition that loads a constant.

Set(r, s, k) == [op |-> "set", target |-> r, source |-> s, constant |-> k]
Sub(r, ss) == [op |-> "sub", target |-> r, sources |-> ss]
LoadConst(r, k) == Set(r, None, k)
SkipIf(eq, l, r, n) ==
    [op |-> "skip_if", eq |-> eq, left |-> l, const |-> FALSE, right |-> r, skip |-> n]
SkipIfConst(eq, l, k, n) ==
    [op |-> "skip_if", eq |-> eq, left |-> l, const |-> TRUE, right |-> k, skip |-> n]
Skip(n) == [op |-> "skip", skip |-> n]
Switch(r, cs) == [op |-> "switch", source |-> r, cases |-> cs]
DispatchOn(cs, d) == [op |-> "dispatch", cases |-> cs, default |-> d]
Jump(pc) == [op |-> "jmp", target |-> pc]
Return == [op |-> "ret", done |-> FALSE]
Done == [op |-> "ret", done |-> TRUE]
Fail == [op |-> "fail"]
ReadWrite(m, stamp) == [op |-> "access", memory |-> m, stamp |-> stamp]
CallFun(f, args, rets) ==
    [op |-> "call", callee |-> f, args |-> args, rets |-> rets, never |-> FALSE]
NeverCallFun(f, args) ==
    [op |-> "call", callee |-> f, args |-> args, rets |-> <<>>, never |-> TRUE]

Terminal(c) == c.op \in {"jmp", "ret", "fail"} \/ (c.op = "call" /\ c.never)

Uses(c) ==
    CASE c.op = "set"     -> {c.source} \ {None}
      [] c.op = "skip_if" -> {c.left} \cup (IF c.const THEN {} ELSE {c.right})
      [] c.op = "sub"     -> Range(c.sources)
      [] c.op = "switch"  -> {c.source}
      [] c.op = "access"  -> {c.stamp} \ {None}
      [] c.op = "call"    -> Range(c.args)
      [] c.op = "dispatch" ->
            {c.default} \cup {c.cases[k].bit : k \in DOMAIN c.cases}
      [] OTHER            -> {}

Definitions(c) ==
    CASE c.op \in {"set", "sub"} -> {c.target}
      [] c.op = "call"           -> Range(c.rets)
      [] OTHER                   -> {}

\* The offsets control may reach from offset i, in the order the data-flow
\* transfer functions list their arcs.
Successors(i, c) ==
    CASE Terminal(c)      -> <<>>
      [] c.op = "skip"    -> <<i + c.skip + 1>>
      [] c.op = "skip_if" -> <<i + c.skip + 1, i + 1>>
      [] c.op \in {"switch", "dispatch"} ->
            [k \in DOMAIN c.cases |-> i + c.cases[k].skip + 1]
                                \o <<i + 1>>
      [] OTHER            -> <<i + 1>>
-----------------------------------------------------------------------------
(* Data-flow analysis (dfa.Construct).  Skips only go forward, so a single *)
(* pass in the order of the offsets is complete.  The state of an offset   *)
(* is an option: a sequence of at most one element.                        *)

StateOf(states, i, empty) == IF states[i] = <<>> THEN empty ELSE states[i][1]

ArcsTo(targets, states) ==
    [k \in DOMAIN targets |-> [target |-> targets[k], state |-> states[k]]]

Construct(codes, entry, empty, transfer(_, _), join(_, _)) ==
    LET JoinInto(states, arc) ==
            [states EXCEPT ![arc.target] =
                IF @ = <<>> THEN <<arc.state>> ELSE <<join(arc.state, @[1])>>]
        Visit(states, i) ==
            FoldLeft(JoinInto, states, transfer(i, StateOf(states, i, empty)))
        states0 == [i \in DOMAIN codes |-> IF i = 1 THEN <<entry>> ELSE <<>>]
        final   == FoldLeft(Visit, states0, [i \in DOMAIN codes |-> i])
    IN  [i \in DOMAIN codes |-> StateOf(final, i, empty)]

(* Which registers may, and which must, have been written on entry.        *)

NoWrites == [maybe |-> {}, definite |-> {}]

Write(w, rs) == [maybe |-> w.maybe \cup rs, definite |-> w.definite \cup rs]

JoinWrites(v, w) == [maybe    |-> v.maybe \cup w.maybe,
                     definite |-> v.definite \cap w.definite]

WriteMap(codes) ==
    LET Transfer(i, w) ==
            LET ts == Successors(i, codes[i])
            IN  ArcsTo(ts, [k \in DOMAIN ts |-> Write(w, Definitions(codes[i]))])
    IN  Construct(codes, NoWrites, NoWrites, Transfer, JoinWrites)

\* Faulty ValidateConflicts: only a second write is a conflict.
ValidateWrites(codes, max) ==
    LET writes == WriteMap(codes)
    IN  \A i \in DOMAIN codes :
            {r \in Definitions(codes[i]) : max[r] > 0} \cap writes[i].maybe = {}

\* A register that may but need not be written is not read, and none is
\* written twice.  Registers without width are exempt.
ValidateConflicts(codes, max) ==
    LET writes == WriteMap(codes)
        Wide(rs) == {r \in rs : max[r] > 0}
    IN  \A i \in DOMAIN codes :
            /\ Wide(Uses(codes[i])) \cap writes[i].maybe \subseteq writes[i].definite
            /\ Wide(Definitions(codes[i])) \cap writes[i].maybe = {}

\* Every path ends in a terminal bytecode and every bytecode is on a path.
ValidateControlFlow(codes) ==
    LET Reach(seen, i) ==
            IF i \in seen THEN seen \cup Range(Successors(i, codes[i])) ELSE seen
        seen == FoldLeft(Reach, {1}, [i \in DOMAIN codes |-> i])
    IN  seen = DOMAIN codes
-----------------------------------------------------------------------------
(* The branch table: the condition under which a bytecode is reached, and  *)
(* the condition under which it is reached only through a failure.         *)

Path(c, d) == [condition |-> c, dead |-> d]
EntryPoint == Path(True, False)
Unreached == Path(True, True)     \* The zero value of dfa.Path: no conjuncts.

Die(p) == Path(False, Or(p.condition, p.dead))

Extend(p, a) ==
    Path(IF p.condition = <<>> THEN NewProposition(a)
         ELSE And(p.condition, NewProposition(a)), p.dead)

AtomCount(p) == FoldLeft(LAMBDA n, c : n + Len(c), 0, p)

Simpler(p, q) ==
    \/ Len(p) < Len(q)
    \/ Len(p) = Len(q) /\ AtomCount(p) < AtomCount(q)

PropositionOf(c) == AndAll([i \in DOMAIN c |-> NewProposition(c[i])])

\* Faulty Absorbed: a dead condition of FALSE widens the condition to TRUE.
AbsorbedAlways(cond, d) == IF d = <<>> THEN True ELSE cond

SimplerOf(trial, cond) == IF Simpler(trial, cond) THEN trial ELSE cond

\* Rows on a dead path are rejected anyway: its clauses may widen the
\* condition where that makes it simpler.
Absorbed(cond, d) ==
    IF d = <<>> THEN cond ELSE SimplerOf(Or(cond, PropositionOf(d)), cond)

AbsorbDead(cond, dead) == Path(FoldLeft(Absorbed, cond, dead), dead)

JoinPaths(p, q) == AbsorbDead(Or(p.condition, q.condition), Or(p.dead, q.dead))

BranchVar(w, r) == IF r \in w.maybe THEN r + MaxRegs ELSE r

\* The comparison of a conditional skip, or its negation.
SkipAtom(c, w, sign) ==
    IF c.const THEN ConstAtom(c.eq = sign, BranchVar(w, c.left), c.right)
    ELSE VarAtom(c.eq = sign, BranchVar(w, c.left), BranchVar(w, c.right))

\* The atoms that each way on from a bytecode adds to its path.
ArcAtoms(c, w) ==
    LET Is(k, eq) == ConstAtom(eq, BranchVar(w, c.source), c.cases[k].value)
        Clear(k, eq) == ConstAtom(eq, BranchVar(w, c.cases[k].bit), 0)
    IN  CASE c.op = "skip_if" -> << <<SkipAtom(c, w, TRUE)>>, <<SkipAtom(c, w, FALSE)>> >>
          [] c.op = "switch"  -> [k \in DOMAIN c.cases |-> <<Is(k, TRUE)>>]
                                    \o << [k \in DOMAIN c.cases |-> Is(k, FALSE)] >>
          [] c.op = "dispatch" -> [k \in DOMAIN c.cases |-> <<Clear(k, FALSE)>>]
                                    \o << [k \in DOMAIN c.cases |-> Clear(k, TRUE)] >>
          [] OTHER            -> << <<>> >>

ExtendAll(p, ways) == [k \in DOMAIN ways |-> FoldLeft(Extend, p, ways[k])]

BranchStates(p, c, w) ==
    IF c.op = "fail" THEN <<Die(p)>> ELSE ExtendAll(p, ArcAtoms(c, w))

\* A failure falls through, dying, to the bytecode that follows it if any.
BranchTable(codes) ==
    LET writes == WriteMap(codes)
        Arcs(i) == IF codes[i].op = "fail"
                   THEN SelectSeq(<<i + 1>>, LAMBDA t : t <= Len(codes))
                   ELSE Successors(i, codes[i])
        Transfer(i, p) == ArcsTo(Arcs(i), BranchStates(p, codes[i], writes[i]))
    IN  Construct(codes, EntryPoint, Unreached, Transfer, JoinPaths)
-----------------------------------------------------------------------------
(* What the machine does with a vector: the bytecodes run in order and see *)
(* each other's writes.  The result names the terminal bytecode, the       *)
(* registers it leaves, the offsets visited and the accesses to read-write *)
(* memories that were made, its own and those of its calls, each with the  *)
(* stamp it carried; a result that does not fit its target is a failure.   *)

Taken(c, env) == (env[c.left] = (IF c.const THEN c.right ELSE env[c.right])) = c.eq

Target(i, c, env) ==
    CASE c.op = "skip" \/ (c.op = "skip_if" /\ Taken(c, env)) -> i + c.skip + 1
      [] c.op = "switch" ->
            LET hits == SelectSeq(c.cases, LAMBDA k : k.value = env[c.source])
            IN  IF hits = <<>> THEN i + 1 ELSE i + Head(hits).skip + 1
      [] c.op = "dispatch" ->
            LET hits == SelectSeq(c.cases, LAMBDA k : env[k.bit] # 0)
            IN  IF hits = <<>> THEN i + 1 ELSE i + Head(hits).skip + 1
      [] OTHER -> i + 1

Sum(c, env) == c.constant + (IF c.source = None THEN 0 ELSE env[c.source])

Difference(c, env) ==
    FoldLeft(LAMBDA n, r : n - env[r], env[Head(c.sources)], Tail(c.sources))

Stamped(m, stamp) == [memory |-> m, stamp |-> stamp]

\* A callee counts on from the stamps it is given, and gives back where it got.
CalleeLog(c, env) ==
    LET First(j)    == IF c.args = <<>> THEN 0 ELSE env[c.args[j]]
        Later(j, k) == IF c.args = <<>> THEN 0 ELSE First(j) + k - 1
        effects     == Callees[c.callee]
    IN  FlattenSeq([j \in DOMAIN effects |->
                       [k \in 1..effects[j].accesses |->
                           Stamped(effects[j].memory, Later(j, k))]])

Accesses(c, env) ==
    CASE c.op = "access" ->
            <<Stamped(c.memory, IF c.stamp = None THEN 0 ELSE env[c.stamp])>>
      [] c.op = "call"   -> CalleeLog(c, env)
      [] OTHER           -> <<>>

StampAfter(c, j, env) == env[c.args[j]] + Callees[c.callee][j].accesses

\* The registers after a bytecode that writes some.
Written(c, env) ==
    CASE c.op = "set"  -> [env EXCEPT ![c.target] = Sum(c, env)]
      [] c.op = "sub"  -> [env EXCEPT ![c.target] = Difference(c, env)]
      [] c.op = "call" ->
            FoldLeft(LAMBDA e, j : [e EXCEPT ![c.rets[j]] = StampAfter(c, j, env)],
                     env, [j \in DOMAIN c.rets |-> j])
      [] OTHER         -> env

Fits(c, env, max) == \A r \in Definitions(c) : env[r] \in 0..max[r]

Execute(codes, env0, max) ==
    LET Ended(s, i, failed) ==
            [s EXCEPT !.end = i, !.failed = failed,
                      !.seen = IF failed /\ codes[i].op # "fail" THEN @ ELSE @ \cup {i},
                      !.log = @ \o Accesses(codes[i], s.env)]
        Went(s, i, env) ==
            IF ~Fits(codes[i], env, max) THEN Ended(s, i, TRUE)
            ELSE [s EXCEPT !.at = Target(i, codes[i], s.env), !.env = env,
                           !.seen = @ \cup {i}, !.log = @ \o Accesses(codes[i], s.env)]
        Step(s, i) ==
            CASE s.at # i \/ s.end # None -> s
              [] s.at = i /\ s.end = None /\ Terminal(codes[i]) ->
                    Ended(s, i, codes[i].op = "fail")
              [] OTHER -> Went(s, i, Written(codes[i], s.env))
    IN  FoldLeft(Step, [at |-> 1, end |-> None, env |-> env0, seen |-> {}, log |-> <<>>,
                        failed |-> FALSE], [i \in DOMAIN codes |-> i])
=============================================================================
