----------------------------- MODULE Timestamps -----------------------------
(***************************************************************************)
(* The threading of timestamps (zkc/vm/internal/transform/                 *)
(* thread_timestamps.go, stamp_analysis.go).  A function that declares     *)
(* read-write memories is given, for each of them, the time of its first   *)
(* access as an input and the time after its last as an output; every      *)
(* access gets a register that holds its time and every call passes the    *)
(* times on.  Between vectors the times are in the canonical registers;    *)
(* within one an analysis finds, for every offset, the register they are   *)
(* counted from and how many accesses ago that was.                        *)
(*                                                                         *)
(* Every code of a merged vector is on a path from its start, so that the  *)
(* code's special cases for dead offsets have nothing to do.               *)
(***************************************************************************)
EXTENDS TracingPasses

CONSTANT StampMax  \* The largest timestamp of each memory the function
                   \* declares; memories are numbered in that order.

ASSUME StampMaxAssumption == StampMax \in Seq(Nat)

Effects == DOMAIN StampMax
NumEffects == Len(StampMax)

\* What a function is: main, one that returns, or one that never does.
FunctionKinds == {"main", "returning", "never"}
-----------------------------------------------------------------------------
(* The registers: [stamp-ins, inputs, stamp-outs, the others].  Main has   *)
(* neither stamp-ins nor stamp-outs, a function that never returns has no  *)
(* stamp-outs: their canonical registers are new ones, here the first.     *)

NumInputs(fn) == Cardinality({r \in Registers(fn) : fn.kinds[r] = "in"})

StampIn(x) == x

CanonicalReg(fn, kind, x) ==
    CASE kind = "main"      -> Len(fn.max) + x
      [] kind = "returning" -> NumEffects + NumInputs(fn) + x
      [] kind = "never"     -> NumEffects + Len(fn.max) + x

FunctionMapping(fn, kind) ==
    [r \in Registers(fn) |->
        CASE kind = "main" -> r
          [] kind # "main" /\ (r <= NumInputs(fn) \/ kind = "never") -> r + NumEffects
          [] OTHER -> r + 2 * NumEffects]

RemapFunction(fn, kind) ==
    LET to    == FunctionMapping(fn, kind)
        n     == NumInputs(fn)
        all   == Len(fn.max)
        Laid(old, in, out) ==
            CASE kind = "main"      -> old \o out
              [] kind = "returning" -> in \o SubSeq(old, 1, n) \o out \o SubSeq(old, n + 1, all)
              [] kind = "never"     -> in \o old \o out
        Renamed(codes) == [i \in DOMAIN codes |-> SubstituteRegisters(codes[i], to)]
    IN  Function(Laid(fn.max, StampMax, StampMax),
                 Laid(fn.kinds, [x \in Effects |-> "in"],
                      [x \in Effects |-> IF kind = "returning" THEN "out" ELSE "var"]),
                 [v \in DOMAIN fn.vectors |-> Renamed(fn.vectors[v])])
-----------------------------------------------------------------------------
(* Where a stamp is: so many accesses after what a base holds, which is    *)
(* nothing, the stamp-in, the canonical register or a register that is     *)
(* defined at an offset of the vector.                                     *)

Stamp(kind, pc, off) == [kind |-> kind, pc |-> pc, off |-> off]
Literal == Stamp("literal", None, 1)    \* Time zero is that of untouched cells.
Input == Stamp("input", None, 0)
Canonical == Stamp("canonical", None, 0)
Conflict == Stamp("conflict", None, 0)

Plain(v) == v.kind \notin {"literal", "conflict"} /\ v.off = 0

Bump(v) == [v EXCEPT !.off = @ + 1]

JoinStamps(s, t) == [x \in Effects |-> IF s[x] = t[x] THEN s[x] ELSE Conflict]

\* Where control leaves the vector, whoever comes next expects the stamps in
\* their canonical registers.
IsExit(codes, i, kind) ==
    \/ codes[i].op = "jmp"
    \/ codes[i].op = "ret" /\ ~codes[i].done /\ kind # "main"

Branch(c) == c.op \in {"skip_if", "switch", "dispatch"}

\* A branch before nothing but jumps selects one of them.
JumpTableFollows(codes, i) ==
    i < Len(codes) /\ \A j \in (i + 1)..Len(codes) : codes[j].op = "jmp"

\* The way from one offset to another: the k-th of its source.
ArcKind(c, k) ==
    CASE c.op = "skip"                                -> "uncond"
      [] Branch(c) /\ k <= Len(Successors(1, c)) - 1 -> "cond"
      [] OTHER                                        -> "fall"

ArcsFrom(codes, j) ==
    LET to == Successors(j, codes[j])
    IN  [k \in DOMAIN to |-> [source |-> j, kind |-> ArcKind(codes[j], k), target |-> to[k]]]

\* The arcs into an offset, in the order of their sources.
Incoming(codes, i) ==
    SelectSeq(FlattenSeq([j \in 1..(i - 1) |-> ArcsFrom(codes, j)]),
              LAMBDA a : a.target = i)

Lands(codes, i) == \E a \in Range(Incoming(codes, i)) : a.kind # "fall"

\* Faulty Equalise: only a disagreement is settled.
EqualiseConflicts(v, exit) == v = Conflict

\* Whether a stamp must be moved to one register on all ways to a landing.
Equalise(v, exit) == ~Plain(v) \/ (exit /\ v # Canonical)

NormaliseEntry(codes, i, kind, entry) ==
    LET exit == IsExit(codes, i, kind)
    IN  [x \in Effects |->
            CASE ~Lands(codes, i) \/ ~Equalise(entry[x], exit) -> entry[x]
              [] Lands(codes, i) /\ Equalise(entry[x], exit) /\ exit -> Canonical
              [] OTHER -> Stamp("merge", i, 0)]

\* Before a branch, stamps that are no register of their own become one.
BranchState(codes, i, s) ==
    IF JumpTableFollows(codes, i) THEN [x \in Effects |-> Canonical]
    ELSE [x \in Effects |-> IF Plain(s[x]) THEN s[x] ELSE Stamp("norm", i, 0)]

EffectsOf(f) == {Callees[f][j].memory : j \in DOMAIN Callees[f]}

\* The stamps after a bytecode.
StateAfter(codes, i, s) ==
    LET c == codes[i]
    IN  CASE c.op = "access" ->
                [x \in Effects |-> IF x = c.memory THEN Bump(s[x]) ELSE s[x]]
          [] c.op = "call" ->
                [x \in Effects |-> IF x \in EffectsOf(c.callee) THEN Stamp("call", i, 0)
                                   ELSE s[x]]
          [] Branch(c) -> BranchState(codes, i, s)
          [] OTHER     -> s

\* The stamps before and after each bytecode.
AnalyseStamps(codes, kind, entry) ==
    LET After(i, s) == StateAfter(codes, i, NormaliseEntry(codes, i, kind, s))
        Transfer(i, s) ==
            LET to == Successors(i, codes[i])
            IN  ArcsTo(to, [k \in DOMAIN to |-> After(i, s)])
        joined == Construct(codes, entry, entry, Transfer, JoinStamps)
    IN  [i \in DOMAIN codes |->
            [before |-> NormaliseEntry(codes, i, kind, joined[i]),
             after  |-> After(i, joined[i]),
             need   |-> {x \in Effects : Lands(codes, i)
                                           /\ Equalise(joined[i][x], IsExit(codes, i, kind))}]]

\* The block of a landing serves all of its conditional arcs.
UnsupportedShape(codes, states) ==
    \E i \in DOMAIN codes :
        \E a, b \in {a \in Range(Incoming(codes, i)) : a.kind = "cond"} :
            states[a.source].after # states[b.source].after
-----------------------------------------------------------------------------
(* The rewriting of a vector.  The work so far is the registers, those     *)
(* that were allocated for bases, and per offset what is inserted before   *)
(* the bytecode: [fall..., edge..., pre..., code].  One that falls into    *)
(* the offset runs "fall" and then skips "edge"; a conditional arc lands   *)
(* at "edge" and an unconditional one at "pre".                            *)

NoInserts == [fall |-> <<>>, edge |-> <<>>, pre |-> <<>>]

Work(max, codes) ==
    [max |-> max, temps |-> <<>>, codes |-> codes,
     at |-> [i \in DOMAIN codes |-> NoInserts]]

Fresh(w, x, kind, pc) ==
    [w EXCEPT !.max = Append(@, StampMax[x]),
              !.temps = (<<x, kind, pc>> :> Len(w.max) + 1) @@ @]

Insert(w, i, where, c) == [w EXCEPT !.at[i][where] = Append(@, c)]

\* The register of a base; literals have none.
ResolveStamp(w, can, x, v) ==
    CASE v.kind = "literal"   -> None
      [] v.kind = "input"     -> StampIn(x)
      [] v.kind = "canonical" -> can[x]
      [] OTHER                -> w.temps[<<x, v.kind, v.pc>>]

Materialise(w, can, x, v, target) == Set(target, ResolveStamp(w, can, x, v), v.off)

\* Every way into a landing brings the stamp to the target.  One block is
\* enough for all conditional arcs: that of the first of their sources.
MergeArcs(w, can, i, x, target, incoming, states) ==
    LET conds == SelectSeq(incoming, LAMBDA a : a.kind = "cond")
        Place(acc, a) ==
            LET v    == states[a.source].after[x]
                code == Materialise(acc, can, x, v, target)
            IN  CASE code = Set(target, target, 0) -> acc
                  [] code # Set(target, target, 0) /\ a.kind = "fall" ->
                        Insert(acc, i, "fall", code)
                  [] code # Set(target, target, 0) /\ a.kind = "uncond" ->
                        Insert(acc, a.source, "pre", code)
                  [] code # Set(target, target, 0) /\ a.kind = "cond" ->
                        IF a.source = conds[1].source THEN Insert(acc, i, "edge", code) ELSE acc
    IN  FoldLeft(Place, w, incoming)

MergeAt(w, can, i, incoming, states) ==
    LET Merge(acc, x) ==
            IF x \notin states[i].need THEN acc
            ELSE IF states[i].before[x] = Canonical
            THEN MergeArcs(acc, can, i, x, can[x], incoming, states)
            ELSE MergeArcs(Fresh(acc, x, "merge", i), can, i, x, Len(acc.max) + 1,
                           incoming, states)
    IN  FoldLeft(Merge, w, [x \in Effects |-> x])

\* A register of its own for a stamp that is not in one.
StampRegister(w, can, i, x, v, kind) ==
    IF Plain(v) THEN w
    ELSE Insert(Fresh(w, x, kind, i), i, "fall",
                Materialise(w, can, x, v, Len(w.max) + 1))

StampReg(w, can, i, x, v, kind) ==
    IF Plain(v) THEN ResolveStamp(w, can, x, v) ELSE w.temps[<<x, kind, i>>]

\* Faulty Canonicalise: a stamp counted from its canonical register stays.
CanonicaliseBases(w, can, i, s) ==
    FoldLeft(LAMBDA acc, x :
                IF s[x].kind = "canonical" THEN acc
                ELSE Insert(acc, i, "fall", Materialise(acc, can, x, s[x], can[x])),
             w, [x \in Effects |-> x])

Canonicalise(w, can, i, s) ==
    FoldLeft(LAMBDA acc, x :
                IF s[x] = Canonical THEN acc
                ELSE Insert(acc, i, "fall", Materialise(acc, can, x, s[x], can[x])),
             w, [x \in Effects |-> x])

\* The branch point's own insertions (rewriteBranch).
NormaliseAll(w, can, i, s) ==
    FoldLeft(LAMBDA acc, x : StampRegister(acc, can, i, x, s[x], "norm"),
             w, [x \in Effects |-> x])

\* The stamps of the callee's memories are passed, and come back in registers
\* of their own.
ThreadCall(w, can, i, s) ==
    LET c       == w.codes[i]
        effects == [j \in DOMAIN Callees[c.callee] |-> Callees[c.callee][j].memory]
        Pass(acc, x) ==
            LET passed == StampRegister(acc, can, i, x, s[x], "stamp")
                back   == IF c.never THEN passed ELSE Fresh(passed, x, "call", i)
                reg    == StampReg(passed, can, i, x, s[x], "stamp")
            IN  [back EXCEPT !.codes[i].args = Append(@, reg),
                             !.codes[i].rets = IF c.never THEN @
                                               ELSE Append(@, Len(back.max))]
    IN  FoldLeft(Pass, w, effects)

ThreadInstruction(w, can, i, kind, s) ==
    LET c == w.codes[i]
        Access(x, stamped) ==
            [stamped EXCEPT !.codes[i].stamp = StampReg(stamped, can, i, x, s[x], "stamp")]
    IN  CASE c.op = "access" /\ c.memory \in Effects ->
                Access(c.memory, StampRegister(w, can, i, c.memory, s[c.memory], "stamp"))
          [] c.op = "call" -> ThreadCall(w, can, i, s)
          [] IsExit(w.codes, i, kind) \/ (Branch(c) /\ JumpTableFollows(w.codes, i)) ->
                Canonicalise(w, can, i, s)
          [] Branch(c) /\ ~JumpTableFollows(w.codes, i) -> NormaliseAll(w, can, i, s)
          [] OTHER -> w

SkipOver(edge, incoming) ==
    IF edge # <<>> /\ \E a \in Range(incoming) : a.kind = "fall"
    THEN <<Skip(Len(edge))>> ELSE <<>>

RebuildVector(w, incoming) ==
    LET codes == w.codes
        Fall(i) == w.at[i].fall \o SkipOver(w.at[i].edge, incoming[i])
        packets == [i \in DOMAIN codes |->
                        Fall(i) \o w.at[i].edge \o w.at[i].pre \o <<codes[i]>>]
        starts  == [i \in DOMAIN codes |-> Start(packets, i)]
        Edge(i) == starts[i] + Len(Fall(i))
        Pre(i)  == Edge(i) + Len(w.at[i].edge)
        Here(i) == Pre(i) + Len(w.at[i].pre)
        Moved(i, n) == (IF codes[i].op = "skip" THEN Pre(i + n + 1) ELSE Edge(i + n + 1))
                          - Here(i) - 1
    IN  FlattenSeq([i \in DOMAIN codes |->
                       Front(packets[i]) \o <<Reskip(codes[i], LAMBDA n : Moved(i, n))>>])

ThreadVector(max, can, kind, codes, states) ==
    LET incoming == [i \in DOMAIN codes |-> Incoming(codes, i)]
        Sweep(w, i) == ThreadInstruction(MergeAt(w, can, i, incoming[i], states),
                                         can, i, kind, states[i].before)
        Built(w) == [max |-> w.max, codes |-> RebuildVector(w, incoming)]
    IN  Built(FoldLeft(Sweep, Work(max, codes), [i \in DOMAIN codes |-> i]))
-----------------------------------------------------------------------------
(* The threading of a function.                                            *)

JumpTargets(vectors) ==
    UNION {{c.target : c \in {d \in Range(codes) : d.op = "jmp"}} : codes \in Range(vectors)}

EntryStamps(kind) == [x \in Effects |-> IF kind = "main" THEN Literal ELSE Input]

CanonicalStamps == [x \in Effects |-> Canonical]

\* An entry that is jumped to gets a row in front of it that brings the stamps
\* to their canonical registers; the other vectors move by one.
SeedRow(can, kind) ==
    [x \in Effects |->
        IF kind = "main" THEN LoadConst(can[x], 1) ELSE Set(can[x], StampIn(x), 0)]

\* Faulty ShiftJumps: the vectors move but the jumps do not.
ShiftNothing(codes) == codes

ShiftJumps(codes) ==
    [i \in DOMAIN codes |-> IF codes[i].op = "jmp" THEN Jump(codes[i].target + 1) ELSE codes[i]]

Seeded(vectors) == 1 \in JumpTargets(vectors)

AnalysesOf(vectors, kind) ==
    [v \in DOMAIN vectors |->
        AnalyseStamps(vectors[v], kind,
                      IF v = 1 /\ ~Seeded(vectors) THEN EntryStamps(kind) ELSE CanonicalStamps)]

ThreadingPanics(fn, kind) ==
    LET analyses == AnalysesOf(fn.vectors, kind)
    IN  \E v \in DOMAIN fn.vectors : UnsupportedShape(fn.vectors[v], analyses[v])

ThreadTimestamps(fn0, kind) ==
    LET fn       == RemapFunction(fn0, kind)
        can      == [x \in Effects |-> CanonicalReg(fn0, kind, x)]
        analyses == AnalysesOf(fn.vectors, kind)
        Thread(acc, v) ==
            LET done == ThreadVector(acc.max, can, kind, fn.vectors[v], analyses[v])
            IN  [max |-> done.max, vectors |-> Append(acc.vectors, done.codes)]
        threaded == FoldLeft(Thread, [max |-> fn.max, vectors |-> <<>>],
                             [v \in DOMAIN fn.vectors |-> v])
        vectors  == IF Seeded(fn.vectors)
                    THEN <<SeedRow(can, kind)>>
                           \o [v \in DOMAIN threaded.vectors |-> ShiftJumps(threaded.vectors[v])]
                    ELSE threaded.vectors
    IN  IF Effects = {} THEN fn0
        ELSE Function(threaded.max,
                      [r \in DOMAIN threaded.max |->
                          IF r \in Registers(fn) THEN fn.kinds[r] ELSE "var"],
                      vectors)
=============================================================================
