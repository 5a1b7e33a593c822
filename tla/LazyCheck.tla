------------------------------ MODULE LazyCheck ------------------------------
(***************************************************************************)
(* Checking a lazy trace in parallel (trace/trace.go, LazyTrace.Apply;     *)
(* schema/constraint/checker/checker.go, CheckLazy): a pool of workers     *)
(* forces the futures of the shards and checks each shard produced, their  *)
(* results are reduced chunk by chunk, and the messages left over on a bus *)
(* are reported at the end.                                                *)
(*                                                                         *)
(* An item is the future of a shard: whether it produces one, the errors   *)
(* it produces, the messages the shard sends and receives on the one bus,  *)
(* whether a constraint of its own fails in it, and whether checking the   *)
(* bus panics on it.                                                       *)
(***************************************************************************)
EXTENDS WorkerPool, SequencesExt

CONSTANT Message

\* The mapper of LazyTrace.Apply returns the errors of the future.
ASSUME ItemAssumption ==
    /\ "nil" \notin Message
    /\ \A item \in Item :
          /\ {item.produced, item.fails, item.panics} \subseteq BOOLEAN
          /\ {item.sends, item.receives} \subseteq [Message -> Nat]
          /\ Mapper(item) = item.errors

VARIABLES slots,      \* results, written by the handler of each shard
          phase,      \* map, reduce, checked or crashed
          partials,   \* the result of each chunk, as far as it was reduced
          taken,      \* the index up to which each chunk was reduced
          verdict     \* what the check returns

checkVars == <<slots, phase, partials, taken, verdict>>

allVars == <<vars, checkVars>>

-----------------------------------------------------------------------------
\* Results.

\* A nil state: no shard was processed.
Absent == [nil |-> "state"]

\* A state without a tally: the bus constraint panicked.
NoTally == [nil |-> "tally"]

\* The zero value of a Result, and of what the check returns.
NoResult == [state |-> Absent, failures |-> <<>>, errors |-> <<>>]
NoVerdict == [unbalanced |-> {}, failures |-> <<>>, errors |-> <<>>]

\* processBusConstraint: the net count of every message the shard carries.
Tally(item) ==
    [m \in {k \in Message : item.sends[k] + item.receives[k] > 0} |->
        item.sends[m] - item.receives[m]]

\* processShard, processConstraint: an intercepted panic is an error and
\* leaves the bus without a tally.
ProcessShard(i) ==
    LET item == items[i]
    IN  [state    |-> IF item.panics THEN NoTally ELSE Tally(item),
         failures |-> IF item.fails THEN <<i>> ELSE <<>>,
         errors   |-> IF item.panics THEN <<[panic |-> i]>> ELSE <<>>]

Count(tally, m) == IF m \in DOMAIN tally THEN tally[m] ELSE 0

\* Faulty JoinStates: messages only one side has are dropped.
JoinCommon(l, r) ==
    IF l = NoTally THEN r
    ELSE IF r = NoTally THEN l
    ELSE [m \in DOMAIN l |-> l[m] + Count(r, m)]

\* joinStates
JoinStates(l, r) ==
    IF l = NoTally THEN r
    ELSE IF r = NoTally THEN l
    ELSE [m \in DOMAIN l \cup DOMAIN r |-> Count(l, m) + Count(r, m)]

\* resultReducer
Reducer(l, r) ==
    [state    |-> IF l.state = Absent THEN r.state
                  ELSE IF r.state = Absent THEN l.state
                  ELSE JoinStates(l.state, r.state),
     failures |-> l.failures \o r.failures,
     errors   |-> l.errors \o r.errors]

-----------------------------------------------------------------------------
\* LazyTrace.Apply.

\* The handler is called on the shard, if the future produced one.
Handle(w) ==
    LET i == worker[w].index
    IN  slots' = IF items[i].produced THEN [slots EXCEPT ![i] = ProcessShard(i)] ELSE slots

\* The pool's caller, and its workers, whose mapper forces a future and calls
\* the handler.
PoolStep ==
    \/ Caller /\ UNCHANGED checkVars
    \/ \E w \in Workers :
          \/ (Receive(w) \/ Exit(w) \/ Store(w)) /\ UNCHANGED checkVars
          \/ Call(w) /\ Handle(w) /\ UNCHANGED <<phase, partials, taken, verdict>>

-----------------------------------------------------------------------------
\* ParallelReduce.

\* The chunk of worker w ends before item w * n / workers, counting from zero.
ChunkEnd(w) == (w * Len(items)) \div Size(Len(items))

ChunkStart(w) == ChunkEnd(w - 1)

\* The workers start on the first item of their chunk.
StartReduce ==
    /\ phase = "map" /\ main = "returned"
    /\ phase' = "reduce"
    /\ partials' = [w \in Workers |-> slots[ChunkStart(w) + 1]]
    /\ taken' = [w \in Workers |-> ChunkStart(w) + 1]
    /\ UNCHANGED <<vars, slots, verdict>>

\* acc = reducer(acc, item)
ReduceOne(w) ==
    /\ phase = "reduce" /\ taken[w] < ChunkEnd(w)
    /\ partials' = [partials EXCEPT ![w] = Reducer(partials[w], slots[taken[w] + 1])]
    /\ taken' = [taken EXCEPT ![w] = taken[w] + 1]
    /\ UNCHANGED <<vars, slots, phase, verdict>>

\* The partial results are combined in order; no items reduce to the zero
\* value.
Combine ==
    LET combined[w \in Workers] ==
            IF w = 1 THEN partials[1] ELSE Reducer(combined[w - 1], partials[w])
    IN  IF items = <<>> THEN NoResult ELSE combined[Size(Len(items))]

\* The workers have reduced their chunks; CheckLazy finalises the bus, unless
\* no shard was processed, and iterating a tally that is nil panics.
Finalise ==
    LET result == Combine
    IN  /\ phase = "reduce" /\ \A w \in Workers : taken[w] = ChunkEnd(w)
        /\ IF result.state = NoTally
           THEN phase' = "crashed" /\ UNCHANGED verdict
           ELSE /\ phase' = "checked"
                /\ verdict' =
                     [unbalanced |-> IF result.state = Absent THEN {}
                                     ELSE {m \in DOMAIN result.state : result.state[m] # 0},
                      failures   |-> result.failures,
                      errors     |-> FlattenSeq(results) \o result.errors]
        /\ UNCHANGED <<vars, slots, partials, taken>>

CheckInit ==
    /\ Init
    /\ slots = [i \in DOMAIN items |-> NoResult]
    /\ phase = "map" /\ partials = <<>> /\ taken = <<>>
    /\ verdict = NoVerdict

ReduceStep == StartReduce \/ Finalise \/ \E w \in Workers : ReduceOne(w)

CheckNext == PoolStep \/ ReduceStep

\* Some goroutine that can run is run, and futures and checks terminate.
CheckSpec == CheckInit /\ [][CheckNext]_allVars /\ WF_allVars(CheckNext)

-----------------------------------------------------------------------------

Produced == {i \in DOMAIN items : items[i].produced}

Tallied == {i \in Produced : ~items[i].panics}

\* How many more times m was sent than received in the first k shards.
Balance(m) ==
    LET net[k \in 0 .. Len(items)] ==
            IF k = 0 THEN 0
            ELSE net[k - 1] + IF k \in Tallied THEN items[k].sends[m] - items[k].receives[m]
                                               ELSE 0
    IN  net

\* And in the whole trace.
Net(m) == Balance(m)[Len(items)]

\* f lists the numbers in S from the smallest up.
Lists(f, S) ==
    /\ S = {f[k] : k \in 1 .. Len(f)}
    /\ \A j, k \in 1 .. Len(f) : j < k => f[j] < f[k]

InOrder(S) == CHOOSE f \in [1 .. Cardinality(S) -> S] : Lists(f, S)

\* What a check returns depends on neither the schedule nor the chunks the
\* trace was divided into: the failures and the errors of all shards in their
\* order, and the messages that do not balance over the trace as a whole,
\* wherever the shards that send and receive them are.  There is none only when
\* the constraint panicked on every shard that was produced: then there is no
\* tally to finalise, and the check itself panics.
VerdictOfWholeTrace ==
    /\ phase = "crashed" => Produced # {} /\ Tallied = {}
    /\ phase = "checked" => verdict =
          [unbalanced |-> {m \in Message : Net(m) # 0},
           failures   |-> InOrder({i \in Produced : items[i].fails}),
           errors     |-> FlattenSeq([i \in DOMAIN items |-> items[i].errors])
                            \o [k \in 1 .. Cardinality(Produced \ Tallied) |->
                                 [panic |-> InOrder(Produced \ Tallied)[k]]]]

\* Every check ends.
CheckEnds == <>(phase \in {"checked", "crashed"})
=============================================================================
