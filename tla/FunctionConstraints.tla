------------------------ MODULE FunctionConstraints ------------------------
(***************************************************************************)
(* From the vectors of a function to the constraints over the rows of its  *)
(* table (zkc/constraints: vector_translator.go, path_condition.go,        *)
(* one_hot.go, mirc/branches.go, mirc/frame.go, translate_fn.go).  Each    *)
(* vector is one row: its bytecodes hold all at once, each under the       *)
(* condition the branch table gives for it, and refer to this row for what *)
(* the vector has written and to the row above for what it has not.        *)
(*                                                                         *)
(* A row records the registers, the return line, the program counter (the  *)
(* number of the vector, 0 for padding) and its selectors.                 *)
(***************************************************************************)
EXTENDS TracingPasses

RegisterOf(v) == IF v > MaxRegs THEN v - MaxRegs ELSE v
Forwarded(v) == v > MaxRegs

(* One-hot groups: the bits of a dispatch and its default.                 *)

OneHotGroups(codes) ==
    LET Group(c) == [bits |-> {c.cases[k].bit : k \in DOMAIN c.cases},
                     default |-> c.default]
        ds == SelectSeq(codes, LAMBDA c : c.op = "dispatch")
    IN  [k \in DOMAIN ds |-> Group(ds[k])]

ConditionOfAtoms(atoms) ==
    FoldLeft(LAMBDA p, a : And(p, NewProposition(a)), True, atoms)

\* An atom b = 0 (or b # 0) for a bit b of the group.
IsGroupBitAtom(a, g, eq) ==
    /\ IsEquality(a) = eq
    /\ HasConstant(a) /\ RightOf(a) = 0
    /\ RegisterOf(LeftOf(a)) \in g.bits

DefaultAtom(g, eq, forwarding) ==
    ConstAtom(eq, IF forwarding THEN g.default + MaxRegs ELSE g.default, 0)

Matched(c, g, eq) == SelectSeq(c, LAMBDA a : IsGroupBitAtom(a, g, eq))
Rest(c, g, eq)    == SelectSeq(c, LAMBDA a : ~IsGroupBitAtom(a, g, eq))

\* Faulty RewriteConjunct: some of the bits being 0 will do.
RewritePartly(c, g) ==
    LET bits == Matched(c, g, TRUE)
    IN  IF bits = <<>> THEN c
        ELSE Append(Rest(c, g, TRUE),
                    DefaultAtom(g, FALSE, Forwarded(LeftOf(Last(bits)))))

\* All bits are 0: the default is not.
RewriteConjunct(c, g) ==
    LET bits == Matched(c, g, TRUE)
    IN  IF Len(bits) # Cardinality(g.bits) THEN c
        ELSE Append(Rest(c, g, TRUE),
                    DefaultAtom(g, FALSE, Forwarded(LeftOf(Last(bits)))))

RewriteComplementConjuncts(p, g) ==
    IF \A i \in DOMAIN p : RewriteConjunct(p[i], g) = p[i] THEN p
    ELSE OrAll([i \in DOMAIN p |-> ConditionOfAtoms(RewriteConjunct(p[i], g))])

\* One of the bits is not 0, whatever else the clauses share: the default is.
RewriteComplementDisjuncts(p, g) ==
    LET Hits(i)   == Matched(p[i], g, FALSE)
        Bucket(i) == {j \in DOMAIN p :
                        /\ Len(Hits(j)) = 1
                        /\ Rest(p[j], g, FALSE) = Rest(p[i], g, FALSE)
                        /\ Forwarded(LeftOf(Hits(j)[1])) = Forwarded(LeftOf(Hits(i)[1]))}
        Covered(i) == /\ Len(Hits(i)) = 1
                      /\ {RegisterOf(LeftOf(Hits(j)[1])) : j \in Bucket(i)} = g.bits
        all   == [i \in DOMAIN p |-> i]
        firsts == SelectSeq(all, LAMBDA i : Covered(i) /\ \A j \in Bucket(i) : i <= j)
        others == SelectSeq(all, LAMBDA i : ~Covered(i))
        Rewritten(i) == Append(Rest(p[i], g, FALSE),
                               DefaultAtom(g, TRUE, Forwarded(LeftOf(Hits(i)[1]))))
    IN  IF firsts = <<>> THEN p
        ELSE OrAll([k \in DOMAIN firsts |-> ConditionOfAtoms(Rewritten(firsts[k]))] \o
                   [k \in DOMAIN others |-> ConditionOfAtoms(p[others[k]])])

RewriteOneHot(p, groups) ==
    IF IsTrue(p) \/ IsFalse(p) THEN p
    ELSE FoldLeft(LAMBDA q, g :
                     RewriteComplementDisjuncts(RewriteComplementConjuncts(q, g), g),
                  p, groups)

\* A code that is reached only after a failure is guarded by the way there.
ReachCondition(p) == IF IsFalse(p.condition) THEN p.dead ELSE p.condition

\* The condition a translated guard tests.  FALSE has no translation, nor has
\* a condition that simplifies away only now: it stands for the panic.
TranslateCondition(p) ==
    LET expanded == OrAll([i \in DOMAIN p |-> ConditionOfAtoms(p[i])])
    IN  CASE IsTrue(p) \/ IsFalse(p) -> p
          [] ~IsTrue(p) /\ ~IsFalse(p) ->
                IF IsTrue(expanded) THEN False ELSE expanded

-----------------------------------------------------------------------------
Constrained(c) == Terminal(c) \/ Definitions(c) # {}

\* What may, and what must, be written when the vector ends, however it ends.
Assignments(codes, writes) ==
    LET ends == SelectSeq([i \in DOMAIN codes |-> i], LAMBDA i : Terminal(codes[i]))
    IN  FoldLeft(LAMBDA w, i : JoinWrites(w, writes[i]), writes[Head(ends)], Tail(ends))

\* The translation of a vector: the guard of each bytecode and, for each
\* register that is not written on every path, the conditions that together
\* say it keeps the value of the row above.
TranslateVector(fn, v) ==
    LET codes  == fn.vectors[v]
        writes == WriteMap(codes)
        table  == BranchTable(codes)
        groups == OneHotGroups(codes)
        ends   == Assignments(codes, writes)
        Guard(p) == TranslateCondition(RewriteOneHot(p, groups))
        Unwritten(r) ==
            LET defs == SelectSeq([i \in DOMAIN codes |-> i],
                                  LAMBDA i : r \in Definitions(codes[i]))
            IN  [k \in DOMAIN defs |->
                    Guard(NegateProposition(ReachCondition(table[defs[k]])))]
    IN  [guards |-> [i \in DOMAIN codes |->
                        IF Constrained(codes[i]) THEN Guard(ReachCondition(table[i]))
                        ELSE True],
         constant |-> [r \in {s \in Registers(fn) :
                                /\ v > 1 /\ fn.kinds[s] # "in" /\ fn.max[s] > 0
                                /\ s \notin ends.definite} |->
                          IF r \in ends.maybe THEN Unwritten(r) ELSE <<>>],
         writes |-> writes]

Panics(tr) ==
    \/ False \in Range(tr.guards)
    \/ \E r \in DOMAIN tr.constant : False \in Range(tr.constant[r])

IsOneLine(fn) == Len(fn.vectors) = 1

\* A function of one vector has no program counter to jump with.
TranslationPanics(fn, trs) ==
    \/ \E v \in DOMAIN trs : Panics(trs[v])
    \/ IsOneLine(fn) /\ \E c \in Range(fn.vectors[1]) : c.op = "jmp"
-----------------------------------------------------------------------------
(* Rows.                                                                   *)

Row(fn, regs, ret, pc) ==
    [regs |-> regs, ret |-> ret, pc |-> pc,
     is_pc |-> [v \in DOMAIN fn.vectors |-> IF v = pc THEN 1 ELSE 0]]

PaddingRow(fn) == Row(fn, [r \in Registers(fn) |-> 0], 0, 0)

\* What a variable of a condition reads: inputs and what is forwarded from the
\* row itself, all else from the row above.
ValuesOf(fn, above, row) ==
    [v \in Registers(fn) \cup {r + MaxRegs : r \in Registers(fn)} |->
        IF Forwarded(v) \/ fn.kinds[RegisterOf(v)] = "in" THEN row.regs[RegisterOf(v)]
        ELSE above.regs[v]]

\* The constraint of one bytecode, its condition aside.
LocalHolds(fn, c, w, values, row, next) ==
    LET Read(r) == values[BranchVar(w, r)]
    IN  CASE c.op = "set"  -> row.regs[c.target] =
                                 c.constant + (IF c.source = None THEN 0 ELSE Read(c.source))
          [] c.op = "sub"  -> row.regs[c.target] =
                                 FoldLeft(LAMBDA n, r : n - Read(r),
                                          Read(Head(c.sources)), Tail(c.sources))
          [] c.op = "jmp"  -> next = c.target /\ row.ret = 0
          [] c.op = "ret"  -> IsOneLine(fn) \/ row.ret = 1
          [] c.op = "fail" -> FALSE

VectorHolds(fn, tr, v, above, row, next) ==
    LET values == ValuesOf(fn, above, row)
        codes  == fn.vectors[v]
    IN  /\ \A i \in DOMAIN codes :
               Constrained(codes[i]) /\ Holds(tr.guards[i], values) =>
                   LocalHolds(fn, codes[i], tr.writes[i], values, row, next)
        /\ \A r \in DOMAIN tr.constant :
               (\A k \in DOMAIN tr.constant[r] : Holds(tr.constant[r][k], values)) =>
                   row.regs[r] = above.regs[r]

\* The constraints on the control lines of a row.
FramingHolds(fn, above, row) ==
    /\ row.pc = 0 => row.ret = 0
    /\ above.pc = 0 /\ row.pc # 0 => row.pc = 1
    /\ above.ret # 0 => row.pc = 1
    /\ row.pc = FoldLeft(LAMBDA n, v : n + v * row.is_pc[v], 0,
                         [v \in DOMAIN fn.vectors |-> v])
    /\ row.pc * FoldLeft(+, 0, row.is_pc) = row.pc
    /\ row.pc \notin {0, 1} =>
           \A r \in Registers(fn) : fn.kinds[r] = "in" => row.regs[r] = above.regs[r]

\* Every constraint of the function at a row, given its neighbours.  One-line
\* functions are gated by the return line alone.
RowAccepted(fn, trs, above, row, below) ==
    IF IsOneLine(fn)
    THEN row.ret # 0 => VectorHolds(fn, trs[1], 1, above, row, 0)
    ELSE /\ FramingHolds(fn, above, row)
         /\ FramingHolds(fn, row, below)
         /\ \A v \in DOMAIN fn.vectors :
                row.is_pc[v] # 0 => VectorHolds(fn, trs[v], v, above, row, below.pc)
=============================================================================
