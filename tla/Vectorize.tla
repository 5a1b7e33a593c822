----------------------------- MODULE Vectorize -----------------------------
(***************************************************************************)
(* The vectorisation of one function (zkc/vm/internal/transform/           *)
(* vectorize.go).  Starting from the entry, each vector that is reached    *)
(* absorbs the targets of its jumps, the rightmost first, as long as the   *)
(* merged vector has no conflict; a jump to what was absorbed further      *)
(* right becomes a skip.  The vectors that nothing jumps to any more are   *)
(* pruned and the jumps rebound.                                           *)
(***************************************************************************)
EXTENDS Flatten

CONSTANTS Programs,  \* The functions to vectorise: sequences of statements.
          MaxOf        \* The largest value of each register, a sequence.

ASSUME MaxAssumption == MaxOf \in Seq(Nat) /\ Len(MaxOf) <= MaxRegs

VARIABLES
    source,    \* The statements of the function.
    code,      \* Its vectors as compiled.
    insns,     \* Its vectors as merged; those not reached (yet) are empty.
    visited,   \* The vectors that are or were on the worklist.
    worklist,  \* The stack of vectors to merge.
    pc,        \* The vector being merged, None between two of them.
    vec,       \* What it is so far.
    externs,   \* For each vector, the offset it was absorbed at, or None.
    index,     \* The jump under consideration, None when they are exhausted.
    phase      \* "merge" and then "done".

vars == <<source, code, insns, visited, worklist, pc, vec, externs, index, phase>>

\* The rightmost jump among the first n bytecodes.
LastJump(codes, n) ==
    LET js == {i \in 1..n : codes[i].op = "jmp"}
    IN  IF js = {} THEN None ELSE CHOOSE i \in js : \A j \in js : j <= i

\* The jump gives way to a skip to an offset on its right.
ReplaceJump(codes, i, offset) == [codes EXCEPT ![i] = Skip(offset - i - 1)]

\* The jump gives way to the codes of its target, and the skips over it grow.
InlineJump(codes, i, target) ==
    LET Moved(k) == IF k > i THEN k + Len(target) - 1 ELSE k
        Resized(k, skip) == Moved(k + skip + 1) - Moved(k) - 1
        Relocate(k) ==
            LET c == codes[k]
            IN  CASE c.op \in {"skip", "skip_if"} ->
                        [c EXCEPT !.skip = Resized(k, @)]
                  [] c.op \in {"switch", "dispatch"} ->
                        [c EXCEPT !.cases = [j \in DOMAIN @ |->
                            [@[j] EXCEPT !.skip = Resized(k, @)]]]
                  [] OTHER -> c
        all == [k \in DOMAIN codes |-> Relocate(k)]
    IN  SubSeq(all, 1, i - 1) \o target \o SubSeq(all, i + 1, Len(all))

\* Faulty UpdateMicroMap: what lies to the right of the splice is not moved.
UpdateMicroMapUnmoved(ext, i, target, n) == [ext EXCEPT ![target] = i]

UpdateMicroMap(ext, i, target, n) ==
    [t \in DOMAIN ext |->
        CASE t = target               -> i
          [] t # target /\ ext[t] > i -> ext[t] + n - 1
          [] OTHER                    -> ext[t]]

Init ==
    /\ source \in Programs
    /\ code = Compile(source)
    /\ insns = [k \in DOMAIN code |-> <<>>]
    /\ visited = {1}
    /\ worklist = <<1>>
    /\ pc = None
    /\ vec = <<>>
    /\ externs = <<>>
    /\ index = None
    /\ phase = "merge"

Pop ==
    /\ phase = "merge" /\ pc = None /\ worklist # <<>>
    /\ pc' = Last(worklist)
    /\ worklist' = Front(worklist)
    /\ vec' = code[pc']
    /\ externs' = [t \in DOMAIN code |-> None]
    /\ index' = LastJump(vec', Len(vec'))
    /\ UNCHANGED <<source, code, insns, visited, phase>>

JumpTarget == vec[index].target

\* Neither the entry of the vector itself nor what lies to the left: that
\* would unfold a loop.
Forward == JumpTarget # pc /\ (externs[JumpTarget] = None \/ externs[JumpTarget] > index)

Merged ==
    IF externs[JumpTarget] = None THEN InlineJump(vec, index, code[JumpTarget])
    ELSE ReplaceJump(vec, index, externs[JumpTarget])

Accept ==
    /\ pc # None /\ index # None
    /\ Forward
    /\ ValidateConflicts(Merged, MaxOf)
    /\ vec' = Merged
    /\ externs' = IF externs[JumpTarget] # None THEN externs
                  ELSE UpdateMicroMap(externs, index, JumpTarget, Len(code[JumpTarget]))
    /\ index' = LastJump(vec', Len(vec'))
    /\ UNCHANGED <<source, code, insns, visited, worklist, pc, phase>>

\* Try the next jump on the left.
Reject ==
    /\ pc # None /\ index # None
    /\ ~(Forward /\ ValidateConflicts(Merged, MaxOf))
    /\ index' = LastJump(vec, index - 1)
    /\ UNCHANGED <<source, code, insns, visited, worklist, pc, vec, externs, phase>>

\* Faulty MarkJumpTargets: a vector that was merged before is merged again.
MarkAllTargets(codes, seen, stack) ==
    [seen |-> seen,
     stack |-> stack \o SetToSeq({c.target : c \in {d \in Range(codes) : d.op = "jmp"}}
                                    \ Range(stack))]

\* The targets of the vector's jumps are pushed, from the right.
MarkJumpTargets(codes, seen, stack) ==
    FoldLeft(LAMBDA acc, c :
                IF c.op # "jmp" \/ c.target \in acc.seen THEN acc
                ELSE [seen |-> acc.seen \cup {c.target},
                      stack |-> Append(acc.stack, c.target)],
             [seen |-> seen, stack |-> stack], Reverse(codes))

Finish ==
    /\ pc # None /\ index = None
    /\ insns' = [insns EXCEPT ![pc] = vec]
    /\ LET marked == MarkJumpTargets(vec, visited, worklist)
       IN  visited' = marked.seen /\ worklist' = marked.stack
    /\ pc' = None
    /\ vec' = <<>>
    /\ externs' = <<>>
    /\ UNCHANGED <<source, code, index, phase>>

\* Faulty RebindJumps: jumps keep the numbers of before the pruning.
RebindNothing(codes, mapping) == codes

RebindJumps(codes, mapping) ==
    [i \in DOMAIN codes |->
        IF codes[i].op = "jmp" THEN Jump(mapping[codes[i].target]) ELSE codes[i]]

PruneUnreachable(vectors) ==
    LET Kept(n) == Cardinality({i \in 1..n : vectors[i] # <<>>})
        mapping == [i \in DOMAIN vectors |-> Kept(i)]
        kept    == SelectSeq(vectors, LAMBDA v : v # <<>>)
    IN  [i \in DOMAIN kept |-> RebindJumps(kept[i], mapping)]

Prune ==
    /\ phase = "merge" /\ pc = None /\ worklist = <<>>
    /\ insns' = PruneUnreachable(insns)
    /\ phase' = "done"
    /\ UNCHANGED <<source, code, visited, worklist, pc, vec, externs, index>>

Next == Pop \/ Accept \/ Reject \/ Finish \/ Prune

\* The pass runs on until it is done: weak fairness of Next, which is enabled
\* in every state but the last.
Fairness == []<>(phase = "done") \/ []<><<TRUE>>_vars

Spec == Init /\ [][Next]_vars /\ Fairness
-----------------------------------------------------------------------------
(* Reference definitions.                                                  *)

Valuations == {env \in [DOMAIN MaxOf -> 0..Max(Range(MaxOf))] :
                  \A r \in DOMAIN MaxOf : env[r] <= MaxOf[r]}

\* No run of a program takes more steps than it has configurations.
Fuel(vectors) == Len(vectors) * Cardinality(Valuations) + 1

Meaning(vectors, at, env) == RunVectors(vectors, at, env, MaxOf, Fuel(vectors))

\* The paths through a vector that end at a given offset, as the sequences of
\* their earlier offsets.
RECURSIVE PathsTo(_, _)
PathsTo(codes, i) ==
    (IF i = 1 THEN {<<>>} ELSE {}) \cup
    UNION {{Append(p, j) : p \in PathsTo(codes, j)} :
              j \in {k \in 1..(i - 1) : i \in Range(Successors(k, codes[k]))}}

WrittenOn(codes, path, max) ==
    {r \in UNION {Definitions(codes[path[k]]) : k \in DOMAIN path} : max[r] > 0}

\* Whatever the path, a bytecode reads each register either before or after
\* it is written, and no path writes a register twice.
Unambiguous(codes, max) ==
    \A i \in DOMAIN codes :
        \A p, q \in PathsTo(codes, i) :
            /\ Uses(codes[i]) \cap WrittenOn(codes, p, max)
                 = Uses(codes[i]) \cap WrittenOn(codes, q, max)
            /\ WrittenOn(codes, p, max) \cap WrittenOn(codes, <<i>>, max) = {}
-----------------------------------------------------------------------------
(* Properties.                                                             *)

\* The vectors compiled from the flat statements do what the block statements
\* mean: labels, short circuits, loops and the bypass of a false branch lead
\* where they should (lower/flatten.go, compileStatement).
FlatteningKeepsMeaning ==
    (phase = "merge" /\ visited = {1} /\ worklist = <<1>>) =>
        \A env \in Valuations :
            RunSource(source, env, MaxOf, Fuel(code)) = Meaning(code, 1, env)

\* At every point of the merge the vector does what the vectors it has
\* absorbed do one after the other, whatever the registers hold: a skip that
\* crosses a splice still lands where it did, and no write is seen too early
\* (inlineJump, replaceJump, updateMicroMap).
MergingKeepsMeaning ==
    pc # None =>
        \A env \in Valuations :
            Meaning([code EXCEPT ![pc] = vec], pc, env) = Meaning(code, pc, env)

\* The pruned and rebound function computes what its statements mean.
VectorizedKeepsMeaning ==
    phase = "done" =>
        \A env \in Valuations :
            Meaning(insns, 1, env) = RunSource(source, env, MaxOf, Fuel(code))

\* Every vector, merged or being merged, ends on every path, has no code off
\* its paths, and on each path reads and writes its registers without
\* ambiguity: what the write map promises, checked path by path.
MergedAreLegal ==
    \A codes \in ({vec} \cup Range(insns)) \ {<<>>} :
        ValidateControlFlow(codes) /\ Unambiguous(codes, MaxOf)

\* The greedy merge ends: no loop is unfolded for ever, whatever jumps to what
\* (the guard on back edges and the marks of visited vectors).
VectorizationEnds == <>(phase = "done")
=============================================================================
