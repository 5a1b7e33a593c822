------------------------------ MODULE Pipeline ------------------------------
(***************************************************************************)
(* The tracing pipeline (zkc/vm/transform.go) on one function.  Once it    *)
(* has been vectorised, timestamps are threaded through it, its conditions *)
(* are factored, its switches lowered and its registers allocated.         *)
(***************************************************************************)
EXTENDS Vectorize, Timestamps

CONSTANTS Kinds,     \* The kind of each register of the source, inputs first.
          ClockMax   \* Bound: the latest time at which a function is entered.

ASSUME KindsAssumption == Kinds \in [DOMAIN MaxOf -> {"in", "out", "var"}]

VARIABLES
    stage,   \* How far the function has come.
    fn,      \* The function as the last pass left it.
    kind     \* Which of FunctionKinds it is.

pipelineVars == <<vars, stage, fn, kind>>

NoFunction == Function(<<>>, <<>>, <<>>)

PipelineInit ==
    /\ Init
    /\ stage = "vectors"
    /\ fn = NoFunction
    /\ kind = "returning"

Merge ==
    /\ Next
    /\ UNCHANGED <<stage, fn, kind>>

\* ValidateProgram runs after the last pass, but none mends a vector that is
\* broken here.
LegalVector(codes, max) == ValidateControlFlow(codes) /\ ValidateConflicts(codes, max)

Legal(f) == \A codes \in Range(f.vectors) : LegalVector(codes, f.max)

\* A function that never returns has no return, and only one that declares
\* memories is threaded.
MayBe(k) ==
    /\ k = "never" => ~\E codes \in Range(insns) : Return \in Range(codes)
    /\ Effects = {} => k = "returning"

Thread ==
    /\ phase = "done" /\ stage = "vectors"
    /\ \E k \in FunctionKinds :
           /\ MayBe(k)
           /\ kind' = k
           /\ LET before == Function(MaxOf, Kinds, insns)
              IN  IF ThreadingPanics(before, k)
                  THEN fn' = NoFunction /\ stage' = "panicked"
                  ELSE /\ fn' = ThreadTimestamps(before, k)
                       /\ stage' = IF Legal(fn') THEN "threaded" ELSE "rejected"
    /\ UNCHANGED vars

\* The other passes, in the order of the tracing pipeline.
Pass(from, to, result) ==
    /\ stage = from
    /\ stage' = to
    /\ fn' = result
    /\ UNCHANGED <<vars, kind>>

Factor   == Pass("threaded", "factored", FactorSkipConditions(fn))
Lower    == Pass("factored", "lowered", LowerSwitches(fn))
Allocate == Pass("lowered", "allocated", AllocateRegisters(fn))

PipelineNext == Merge \/ Thread \/ Factor \/ Lower \/ Allocate

PipelineSpec == PipelineInit /\ [][PipelineNext]_pipelineVars
-----------------------------------------------------------------------------
(* Reference definitions.                                                  *)

\* The values some registers of a function may have.
FramesOf(f, rs) ==
    {g \in [rs -> 0..Max(Range(f.max))] : \A r \in rs : g[r] <= f.max[r]}

Inputs(f) == {r \in Registers(f) : f.kinds[r] = "in"}

Source == Function(MaxOf, Kinds, code)

\* A call: the arguments, the time of each memory, and what is left on the
\* stack in the other registers, if only all zeros or all ones.
Requests ==
    [args : FramesOf(Source, Inputs(Source)),
     clock : IF kind = "main" THEN {[x \in Effects |-> 1]} ELSE [Effects -> 1..ClockMax],
     junk : BOOLEAN]

Frame(q) ==
    LET stamps == IF kind = "main" THEN 0 ELSE NumEffects
    IN  [r \in Registers(fn) |->
            CASE r <= stamps           -> q.clock[r]
              [] r - stamps \in DOMAIN q.args -> q.args[r - stamps]
              [] OTHER                 -> IF q.junk THEN fn.max[r] ELSE 0]

SourceFrame(args) == [r \in DOMAIN MaxOf |-> IF r \in DOMAIN args THEN args[r] ELSE 0]

RunOf(q) == RunVectors(fn.vectors, 1, Frame(q), fn.max, Fuel(fn.vectors))

Intended(q) == RunSource(source, SourceFrame(q.args), MaxOf, Fuel(code))

Passed == {"threaded", "factored", "lowered", "allocated"}

\* What a caller sees of an outcome.
Results(outcome, kinds) ==
    IF outcome.end = "return"
    THEN LET outs == SelectSeq([r \in DOMAIN kinds |-> r], LAMBDA r : kinds[r] = "out")
         IN  [k \in DOMAIN outs |-> outcome.env[outs[k]]]
    ELSE <<>>

Memories(log) == [i \in DOMAIN log |-> log[i].memory]

\* The time of each memory after some accesses.
TimeAfter(log, clock) ==
    [x \in Effects |-> clock[x] + Cardinality({i \in DOMAIN log : log[i].memory = x})]

TimeIsUp(log, clock) == \E x \in Effects : TimeAfter(log, clock)[x] > StampMax[x]

TimesOut(log, clock) == IF kind = "returning" THEN TimeAfter(log, clock) ELSE <<>>

\* Whether each access carries the time that the clock of its memory shows.
OnTime(log, clock) ==
    \A i \in DOMAIN log :
        log[i].stamp = TimeAfter(SubSeq(log, 1, i - 1), clock)[log[i].memory]

\* A skip lands on a branch before nothing but jumps.
LandsOnTable(vectors) ==
    \E codes \in Range(vectors) : \E i \in DOMAIN codes :
        Branch(codes[i]) /\ JumpTableFollows(codes, i) /\ Lands(codes, i)

CasesLandTogether(vectors) ==
    \E codes \in Range(vectors) : \E c \in Range(codes) :
        c.op = "switch" /\ \E j, k \in DOMAIN c.cases :
            j # k /\ c.cases[j].skip = c.cases[k].skip
-----------------------------------------------------------------------------
(* Properties.                                                             *)

\* The accesses intended, also of a run without end: those of many turns of a loop.
IntendedLog(q) ==
    RunBlock(source, [end |-> "", env |-> SourceFrame(q.args), fuel |-> Fuel(code), log |-> <<>>],
             MaxOf).log

\* A run returns what is intended and ends as that does, or fails because a time
\* has no room in its register; a loop that makes accesses cannot but do that.
AsIntended(ran, q) ==
    LET meant == Intended(q)
    IN  \/ ran.end = "fail" /\ TimeIsUp(ran.log, q.clock)
        \/ /\ ran.end = meant.end
           /\ ran.end = "forever" => ~TimeIsUp(IntendedLog(q), q.clock)
           /\ ran.end = "return" =>
                  Results(ran, fn.kinds)
                     = TimesOut(meant.log, q.clock) \o Results(meant, Kinds)

\* The accesses of a run are on time, and those intended if it ends so.
AccessesAsIntended(ran, q) ==
    /\ OnTime(ran.log, q.clock)
    /\ ran.end = Intended(q).end => Memories(ran.log) = Memories(Intended(q).log)

\* Every pass keeps what the function returns for its arguments, whatever is
\* left in its other registers, and how it ends: a factored or relocated skip
\* lands where it did, no register that still matters shares its column with
\* another, and a threaded function returns the times its accesses have come to
\* and fails on their account only when a time has no room in its register.
PassesKeepMeaning ==
    (stage \in Passed /\ ~LandsOnTable(insns)) =>
        \A q \in Requests : AsIntended(RunOf(q), q)

\* Every access carries the time the clock of its memory would show: one more
\* than the access before it, on whatever path, across vectors, loops and
\* calls; and a run that ends as it should has made the accesses that the
\* statements make.  (The one shape where this fails is a skip to a branch before
\* nothing but jumps.)
AccessesOnTime ==
    (stage \in Passed /\ ~LandsOnTable(insns)) =>
        \A q \in Requests : AccessesAsIntended(RunOf(q), q)

\* After each pass every vector still ends on every path, has no code off its
\* paths and on each path reads and writes its registers without ambiguity:
\* what the translation to constraints relies on.
PassesKeepVectorsLegal ==
    stage \in Passed =>
        \A codes \in Range(fn.vectors) :
            ValidateControlFlow(codes) /\ Unambiguous(codes, fn.max)

\* The row that seedEntryRow puts before an entry that is jumped to lacks an end,
\* and nothing else: did it jump on, every vector would be legal, and the function
\* would return what is intended and make its accesses on time, entered anew or
\* jumped back to.
SeedRowLacksOnlyJump ==
    LET ended == [fn.vectors EXCEPT ![1] = Append(@, Jump(2))]
    IN  /\ \A codes \in Range(ended) : LegalVector(codes, fn.max)
        /\ \A q \in Requests :
              LET ran == RunVectors(ended, 1, Frame(q), fn.max, Fuel(ended))
              IN  AsIntended(ran, q) /\ AccessesAsIntended(ran, q)

\* Threading never meets a shape it does not support, and what it makes is
\* legal unless two cases of a switch land together, a skip lands on a branch
\* before nothing but jumps, or the entry is jumped to, as by a loop that the
\* function begins with; and then the row put before the entry is all that is
\* wrong.
ThreadingFailuresExplained ==
    /\ stage # "panicked"
    /\ stage = "rejected" =>
           \/ CasesLandTogether(insns) \/ LandsOnTable(insns)
           \/ Seeded(insns) /\ SeedRowLacksOnlyJump
=============================================================================
