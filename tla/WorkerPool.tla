----------------------------- MODULE WorkerPool -----------------------------
(***************************************************************************)
(* array.ParallelMap (util/collection/array/map.go): a pool of goroutines  *)
(* that take the indices of the items from a buffered channel.  The caller *)
(* starts the workers, sends every index, closes the channel and waits for *)
(* the workers to exit.  (ParallelApply is the same without results.)      *)
(*                                                                         *)
(* Indices count from one.                                                 *)
(***************************************************************************)
EXTENDS Integers, Sequences, FiniteSets

CONSTANTS Item, MaxItems,   \* the items, and a bound on how many
          NumCPU,           \* runtime.NumCPU()
          Mapper(_),        \* the function mapped
          Unset             \* the zero value of a result

ASSUME PoolAssumption ==
    /\ MaxItems \in Nat /\ NumCPU \in Nat \ {0}
    /\ \A item \in Item : Mapper(item) # Unset

VARIABLES items,      \* the items to map
          main,       \* where the caller is: start, send, wait or returned
          next,       \* the next index to send
          channel,    \* ch: the indices sent and not yet received
          closed,     \* has ch been closed?
          wg,         \* the wait group's counter
          worker,     \* where each worker is, and the index it works on
          results,
          calls       \* history: the indices the mapper was called on

vars == <<items, main, next, channel, closed, wg, worker, results, calls>>

-----------------------------------------------------------------------------

\* min(n, runtime.NumCPU()), which is the capacity of the channel as well.
Size(n) == IF n < NumCPU THEN n ELSE NumCPU

Workers == 1 .. Size(Len(items))

Unborn == [at |-> "unborn"]
Ranging == [at |-> "range"]
Exited == [at |-> "exited"]

\* wg.Add(1); go func()
Start ==
    /\ main = "start"
    /\ IF \E w \in Workers : worker[w] = Unborn
       THEN LET w == CHOOSE v \in Workers : worker[v] = Unborn
            IN  /\ worker' = [worker EXCEPT ![w] = Ranging] /\ wg' = wg + 1
                /\ UNCHANGED main
       ELSE main' = "send" /\ UNCHANGED <<worker, wg>>
    /\ UNCHANGED <<items, next, channel, closed, results, calls>>

\* ch <- i blocks while the buffer is full.
Send ==
    /\ main = "send" /\ next =< Len(items) /\ Len(channel) < Size(Len(items))
    /\ channel' = Append(channel, next) /\ next' = next + 1
    /\ UNCHANGED <<items, main, closed, wg, worker, results, calls>>

\* Faulty Close: the channel is left open.
CloseForgotten ==
    /\ main = "send" /\ next > Len(items)
    /\ main' = "wait"
    /\ UNCHANGED <<items, next, channel, closed, wg, worker, results, calls>>

\* close(ch)
Close ==
    /\ main = "send" /\ next > Len(items)
    /\ main' = "wait" /\ closed' = TRUE
    /\ UNCHANGED <<items, next, channel, wg, worker, results, calls>>

\* Faulty Await: the caller returns once all the work is handed out.
AwaitDrained ==
    /\ main = "wait" /\ channel = <<>>
    /\ main' = "returned"
    /\ UNCHANGED <<items, next, channel, closed, wg, worker, results, calls>>

\* wg.Wait()
Await ==
    /\ main = "wait" /\ wg = 0
    /\ main' = "returned"
    /\ UNCHANGED <<items, next, channel, closed, wg, worker, results, calls>>

\* Faulty Receive: the index stays in the channel.
ReceiveKeeping(w) ==
    /\ worker[w] = Ranging /\ channel # <<>>
    /\ worker' = [worker EXCEPT ![w] = [at |-> "call", index |-> Head(channel)]]
    /\ UNCHANGED <<items, main, next, channel, closed, wg, results, calls>>

\* for i := range ch
Receive(w) ==
    /\ worker[w] = Ranging /\ channel # <<>>
    /\ worker' = [worker EXCEPT ![w] = [at |-> "call", index |-> Head(channel)]]
    /\ channel' = Tail(channel)
    /\ UNCHANGED <<items, main, next, closed, wg, results, calls>>

\* The range ends when the channel is closed and empty; defer wg.Done()
Exit(w) ==
    /\ worker[w] = Ranging /\ channel = <<>> /\ closed
    /\ worker' = [worker EXCEPT ![w] = Exited] /\ wg' = wg - 1
    /\ UNCHANGED <<items, main, next, channel, closed, results, calls>>

\* mapper(uint(i), items[i])
Call(w) ==
    /\ worker[w].at = "call"
    /\ worker' = [worker EXCEPT ![w].at = "store"]
    /\ calls' = Append(calls, worker[w].index)
    /\ UNCHANGED <<items, main, next, channel, closed, wg, results>>

\* results[i] = ...
Store(w) ==
    /\ worker[w].at = "store"
    /\ results' = [results EXCEPT ![worker[w].index] = Mapper(items[worker[w].index])]
    /\ worker' = [worker EXCEPT ![w] = Ranging]
    /\ UNCHANGED <<items, main, next, channel, closed, wg, calls>>

Init ==
    /\ items \in UNION {[1 .. n -> Item] : n \in 0 .. MaxItems}
    /\ main = "start" /\ next = 1
    /\ channel = <<>> /\ closed = FALSE /\ wg = 0
    /\ worker = [w \in Workers |-> Unborn]
    /\ results = [i \in DOMAIN items |-> Unset]
    /\ calls = <<>>

Caller == Start \/ Send \/ Close \/ Await

Goroutine(w) == Receive(w) \/ Exit(w) \/ Call(w) \/ Store(w)

Next == Caller \/ \E w \in Workers : Goroutine(w)

\* The scheduler runs every goroutine that can run, and mappers terminate.
Fairness == WF_vars(Caller) /\ \A w \in 1 .. NumCPU : WF_vars(w \in Workers /\ Goroutine(w))

Spec == Init /\ [][Next]_vars /\ Fairness

-----------------------------------------------------------------------------

Indices(seq) == {seq[k] : k \in DOMAIN seq}

Distinct(seq) == \A j, k \in DOMAIN seq : seq[j] = seq[k] => j = k

Calling == {w \in Workers : worker[w].at = "call"}

Running == {w \in Workers : worker[w] \notin {Unborn, Exited}}

\* The state has its type; the counter of the wait group counts the workers
\* running.
PoolTypeOK ==
    /\ items \in Seq(Item)
    /\ main \in {"start", "send", "wait", "returned"}
    /\ next \in 1 .. Len(items) + 1
    /\ channel \in Seq(DOMAIN items)
    /\ calls \in Seq(DOMAIN items)
    /\ worker \in [Workers -> {Unborn, Ranging, Exited}
                                 \cup [at : {"call", "store"}, index : DOMAIN items]]
    /\ wg = Cardinality(Running)

\* No index is lost or handed out twice: those sent are in the channel, in the
\* hands of one worker, or done, and only ever in one of these places.
WorkConserved ==
    LET held == {worker[w].index : w \in Calling}
    IN  /\ 1 .. next - 1 = Indices(channel) \cup held \cup Indices(calls)
        /\ Indices(channel) \cap held = {}
        /\ Indices(channel) \cap Indices(calls) = {}
        /\ held \cap Indices(calls) = {}
        /\ Distinct(channel) /\ Distinct(calls)
        /\ \A v, w \in Calling : worker[v].index = worker[w].index => v = w

\* Once the call returned, no goroutine of it is left behind, which could still
\* write a result the caller is reading.
NothingLeftRunning ==
    main = "returned" => \A w \in Workers : worker[w] = Exited

Contract == INSTANCE MapContract WITH
    given <- items, mapped <- results, finished <- main = "returned"

\* The pool maps as a sequential map does.
PoolKeepsContract == Contract!Map
=============================================================================
