-------------------------- MODULE LazyCheck_proofs --------------------------
(***************************************************************************)
(* Proofs about WorkerPool and LazyCheck, for any number of items and      *)
(* processors, any function mapped and any messages: in every interleaving *)
(* of the caller and its workers no index is lost or handled twice, no     *)
(* worker outlives the call, what the pool does is what MapContract        *)
(* allows, and what a check of a lazy trace returns depends on the trace   *)
(* alone.                                                                  *)
(*                                                                         *)
(* PoolInv is inductive.  That the caller returns only when every result   *)
(* is there combines all of it: the counter of the wait group is 0, so no  *)
(* worker runs (PoolTypeOK); one that has exited found the channel closed  *)
(* and empty (CallerInv), so all indices were sent and, as none is lost,   *)
(* called (WorkConserved), and a call that no worker is about to store is  *)
(* stored (ResultsInv).                                                    *)
(*                                                                         *)
(* Reduces(r, a, b) says what a result is worth: that r is the result of   *)
(* the shards after a, up to b.  A slot is the result of its shard, and    *)
(* the reducer makes the result of two intervals that meet from theirs, so *)
(* that CheckInv is inductive and the chunks, which follow one another,    *)
(* combine to the result of the whole trace.                               *)
(***************************************************************************)
EXTENDS LazyCheck, NaturalRecursion, FiniteSetTheorems, SequenceTheorems

-----------------------------------------------------------------------------
\* The invariant of the pool.

Storing == {w \in Workers : worker[w].at = "store"}

\* The caller starts every worker before it sends anything, and closes the
\* channel when it has sent everything; workers go when they see that.
CallerInv ==
    /\ closed \in BOOLEAN
    /\ closed <=> main \in {"wait", "returned"}
    /\ closed => next = Len(items) + 1
    /\ main # "start" => \A w \in Workers : worker[w] # Unborn
    /\ \A w \in Workers : worker[w] = Exited => closed /\ channel = <<>>
    /\ NothingLeftRunning

\* A result is there once its call was made and its worker has stored it.
ResultsInv ==
    /\ DOMAIN results = DOMAIN items
    /\ \A w \in Storing : worker[w].index \in Indices(calls)
    /\ \A v, w \in Storing : worker[v].index = worker[w].index => v = w
    /\ \A i \in DOMAIN items :
          results[i] = IF i \in Indices(calls) /\ \A w \in Storing : worker[w].index # i
                       THEN Mapper(items[i]) ELSE Unset

PoolInv == PoolTypeOK /\ WorkConserved /\ CallerInv /\ ResultsInv

-----------------------------------------------------------------------------
\* Sequences of indices.

\* Appending adds an index, and keeps the indices distinct if it is new.
LEMMA AppendIndices ==
    ASSUME NEW S, NEW s \in Seq(S), NEW e \in S
    PROVE  /\ Append(s, e) \in Seq(S)
           /\ Indices(Append(s, e)) = Indices(s) \cup {e}
           /\ Distinct(s) /\ e \notin Indices(s) => Distinct(Append(s, e))
<1> DEFINE t == Append(s, e)
           n == Len(s)
<1>1. /\ t \in Seq(S) /\ Len(t) = n + 1 /\ t[n + 1] = e
      /\ \A i \in 1 .. n : t[i] = s[i]
  BY AppendProperties
<1>2. n \in Nat /\ DOMAIN s = 1 .. n /\ DOMAIN t = 1 .. (n + 1)
  BY <1>1, LenProperties
<1> HIDE DEF t, n
<1>3. 1 .. (n + 1) = (1 .. n) \cup {n + 1}
  BY <1>2, SMT
<1>4. Indices(t) = Indices(s) \cup {e}
  BY <1>1, <1>2, <1>3 DEF Indices
<1>5. ASSUME Distinct(s), e \notin Indices(s) PROVE Distinct(t)
  <2>1. \A i \in 1 .. n : s[i] # e
    BY <1>2, <1>5 DEF Indices
  <2> QED BY <1>1, <1>2, <1>3, <1>5, <2>1 DEF Distinct
<1> QED BY <1>1, <1>4, <1>5 DEF t

\* Taking the head removes an index, and only that one if they are distinct.
LEMMA TailIndices ==
    ASSUME NEW S, NEW s \in Seq(S), s # <<>>
    PROVE  /\ Head(s) \in S /\ Tail(s) \in Seq(S)
           /\ Indices(s) = {Head(s)} \cup Indices(Tail(s))
           /\ Distinct(s) => Distinct(Tail(s)) /\ Head(s) \notin Indices(Tail(s))
<1> DEFINE t == Tail(s)
           h == Head(s)
           n == Len(s)
<1>1. /\ h \in S /\ t \in Seq(S) /\ Len(t) = n - 1
      /\ \A i \in 1 .. Len(t) : t[i] = s[i + 1]
  BY HeadTailProperties
<1>2. n \in Nat /\ n # 0 /\ DOMAIN s = 1 .. n /\ DOMAIN t = 1 .. (n - 1) /\ h = s[1]
  BY <1>1, LenProperties, EmptySeq, SMT
<1> HIDE DEF t, h, n
<1>3. \A i \in 1 .. (n - 1) : t[i] = s[i + 1] /\ i + 1 \in 1 .. n /\ i + 1 # 1
  BY <1>1, <1>2, SMT
<1>4. \A i \in 1 .. n : i = 1 \/ (i - 1 \in 1 .. (n - 1) /\ s[i] = t[i - 1])
  <2> TAKE i \in 1 .. n
  <2>1. i = 1 \/ (i - 1 \in 1 .. (n - 1) /\ (i - 1) + 1 = i)
    BY <1>2, SMT
  <2> QED BY <2>1, <1>3
<1>5. 1 \in 1 .. n
  BY <1>2, SMT
<1>6. Indices(s) = {h} \cup Indices(t)
  <2>1. ASSUME NEW x \in Indices(s) PROVE x \in {h} \cup Indices(t)
    <3>1. PICK i \in 1 .. n : x = s[i]
      BY <1>2 DEF Indices
    <3> QED BY <3>1, <1>2, <1>4 DEF Indices
  <2>2. ASSUME NEW x \in Indices(t) PROVE x \in Indices(s)
    <3>1. PICK i \in 1 .. (n - 1) : x = t[i]
      BY <1>2 DEF Indices
    <3> QED BY <3>1, <1>2, <1>3 DEF Indices
  <2>3. h \in Indices(s)
    BY <1>2, <1>5 DEF Indices
  <2> QED BY <2>1, <2>2, <2>3
<1>7. ASSUME Distinct(s) PROVE Distinct(t) /\ h \notin Indices(t)
  <2>1. \A i, j \in 1 .. (n - 1) : i + 1 = j + 1 => i = j
    BY <1>2, SMT
  <2>2. Distinct(t)
    <3> SUFFICES ASSUME NEW i \in 1 .. (n - 1), NEW j \in 1 .. (n - 1), t[i] = t[j]
                 PROVE  i = j
      BY <1>2 DEF Distinct
    <3>1. s[i + 1] = s[j + 1] /\ i + 1 \in 1 .. n /\ j + 1 \in 1 .. n
      BY <1>3
    <3>2. i + 1 = j + 1
      BY <3>1, <1>2, <1>7 DEF Distinct
    <3> QED BY <3>2, <2>1
  <2>3. h \notin Indices(t)
    BY <1>2, <1>3, <1>5, <1>7 DEF Distinct, Indices
  <2> QED BY <2>2, <2>3
<1> QED BY <1>1, <1>6, <1>7 DEF t, h

\* The empty sequence has no indices.
LEMMA NoIndices == Indices(<<>>) = {} /\ Distinct(<<>>)
<1>1. DOMAIN <<>> = {}
  BY EmptySeq, SMT
<1> QED BY <1>1 DEF Indices, Distinct

-----------------------------------------------------------------------------
\* Workers.

\* What a worker does tells its state.
LEMMA WorkerStates ==
    ASSUME PoolTypeOK, NEW w \in Workers
    PROVE  /\ worker[w].at \in {"unborn", "range", "exited", "call", "store"}
           /\ worker[w] = Unborn <=> worker[w].at = "unborn"
           /\ worker[w] = Ranging <=> worker[w].at = "range"
           /\ worker[w] = Exited <=> worker[w].at = "exited"
           /\ worker[w].at \in {"call", "store"} =>
                 /\ worker[w].index \in DOMAIN items
                 /\ worker[w] = [at |-> worker[w].at, index |-> worker[w].index]
<1>1. \/ worker[w] = Unborn \/ worker[w] = Ranging \/ worker[w] = Exited
      \/ worker[w] \in [at : {"call", "store"}, index : DOMAIN items]
  BY DEF PoolTypeOK
<1>2. Unborn.at = "unborn" /\ Ranging.at = "range" /\ Exited.at = "exited"
  BY DEF Unborn, Ranging, Exited
<1>3. CASE worker[w] \in {Unborn, Ranging, Exited}
  BY <1>2, <1>3
<1>4. CASE worker[w] \in [at : {"call", "store"}, index : DOMAIN items]
  <2>1. /\ worker[w].at \in {"call", "store"} /\ worker[w].index \in DOMAIN items
        /\ worker[w] = [at |-> worker[w].at, index |-> worker[w].index]
    BY <1>4
  <2> QED BY <2>1, <1>2
<1> QED BY <1>1, <1>3, <1>4

\* There are finitely many workers.
LEMMA WorkersFinite ==
    ASSUME PoolTypeOK
    PROVE  IsFiniteSet(Workers) /\ IsFiniteSet(Running) /\ Cardinality(Running) \in Nat
<1>1. Size(Len(items)) \in Nat
  BY PoolAssumption, LenProperties, SMT DEF PoolTypeOK, Size
<1>2. IsFiniteSet(Workers)
  BY <1>1, FS_Interval, SMT DEF Workers
<1>3. Running \in SUBSET Workers
  BY DEF Running
<1>4. IsFiniteSet(Running)
  BY <1>2, <1>3, FS_Subset
<1> QED BY <1>2, <1>4, FS_CardinalityType

-----------------------------------------------------------------------------
\* Steps of the caller.

\* The caller starts a worker, or begins to send.
LEMMA StartInv ==
    ASSUME PoolInv, Start
    PROVE  PoolInv'
<1>1. CASE \E w \in Workers : worker[w] = Unborn
  <2> DEFINE b == CHOOSE v \in Workers : worker[v] = Unborn
  <2>1. b \in Workers /\ worker[b] = Unborn
    BY <1>1
  <2> HIDE DEF b
  <2>2. /\ worker' = [worker EXCEPT ![b] = Ranging] /\ wg' = wg + 1
        /\ UNCHANGED <<items, main, next, channel, closed, results, calls>>
        /\ main = "start"
    BY <1>1 DEF Start, b
  <2>3. Workers' = Workers /\ DOMAIN worker = Workers
    BY <2>2 DEF Workers, PoolInv, PoolTypeOK
  <2>4. worker'[b] = Ranging /\ \A w \in Workers : w # b => worker'[w] = worker[w]
    BY <2>1, <2>2, <2>3
  <2>5. Ranging.at = "range" /\ Ranging # Unborn /\ Ranging # Exited /\ Unborn.at = "unborn"
    BY DEF Ranging, Unborn, Exited
  <2>6. Calling' = Calling /\ Storing' = Storing
    BY <2>1, <2>3, <2>4, <2>5 DEF Calling, Storing
  <2>7. \A w \in Calling \cup Storing : worker'[w] = worker[w]
    BY <2>1, <2>4, <2>5 DEF Calling, Storing
  <2>8. Running' = Running \cup {b} /\ b \notin Running
    BY <2>1, <2>3, <2>4, <2>5 DEF Running
  <2>9. PoolTypeOK'
    <3>1. Cardinality(Running') = Cardinality(Running) + 1
      BY <2>8, WorkersFinite, FS_AddElement DEF PoolInv
    <3>2. worker' \in [Workers -> {Unborn, Ranging, Exited}
                              \cup [at : {"call", "store"}, index : DOMAIN items]]
      BY <2>1, <2>2 DEF PoolInv, PoolTypeOK
    <3> QED BY <2>2, <2>3, <3>1, <3>2 DEF PoolInv, PoolTypeOK
  <2>10. WorkConserved'
    BY <2>2, <2>6, <2>7 DEF PoolInv, WorkConserved
  <2>11. CallerInv'
    BY <2>2, <2>3, <2>4, <2>5 DEF PoolInv, CallerInv, NothingLeftRunning
  <2>12. ResultsInv'
    BY <2>2, <2>6, <2>7 DEF PoolInv, ResultsInv
  <2> QED BY <2>9, <2>10, <2>11, <2>12 DEF PoolInv
<1>2. CASE ~\E w \in Workers : worker[w] = Unborn
  <2>1. /\ main = "start" /\ main' = "send"
        /\ UNCHANGED <<items, next, channel, closed, wg, worker, results, calls>>
    BY <1>2 DEF Start
  <2>2. Workers' = Workers /\ Running' = Running /\ Calling' = Calling /\ Storing' = Storing
    BY <2>1 DEF Workers, Running, Calling, Storing
  <2>3. PoolTypeOK'
    BY <2>1, <2>2 DEF PoolInv, PoolTypeOK
  <2>4. WorkConserved'
    BY <2>1, <2>2 DEF PoolInv, WorkConserved
  <2>5. CallerInv'
    BY <1>2, <2>1, <2>2 DEF PoolInv, CallerInv, NothingLeftRunning
  <2>6. ResultsInv'
    BY <2>1, <2>2 DEF PoolInv, ResultsInv
  <2> QED BY <2>3, <2>4, <2>5, <2>6 DEF PoolInv
<1> QED BY <1>1, <1>2

\* It sends an index that is nowhere yet.
LEMMA SendInv ==
    ASSUME PoolInv, Send
    PROVE  PoolInv'
<1>1. /\ main = "send" /\ next =< Len(items)
      /\ channel' = Append(channel, next) /\ next' = next + 1
      /\ UNCHANGED <<items, main, closed, wg, worker, results, calls>>
  BY DEF Send
<1>2. Workers' = Workers /\ Running' = Running /\ Calling' = Calling /\ Storing' = Storing
  BY <1>1 DEF Workers, Running, Calling, Storing
<1>3. /\ Len(items) \in Nat /\ DOMAIN items = 1 .. Len(items)
      /\ next \in 1 .. Len(items) /\ channel \in Seq(DOMAIN items)
  BY <1>1, LenProperties, SMT DEF PoolInv, PoolTypeOK
<1>4. next \notin 1 .. next - 1 /\ 1 .. next' - 1 = (1 .. next - 1) \cup {next}
  BY <1>1, <1>3, SMT
<1>5. /\ Append(channel, next) \in Seq(DOMAIN items)
      /\ Indices(channel') = Indices(channel) \cup {next}
      /\ Distinct(channel) /\ next \notin Indices(channel) => Distinct(channel')
  BY <1>1, <1>3, AppendIndices
<1>6. PoolTypeOK'
  <2>1. next' \in 1 .. Len(items) + 1
    BY <1>1, <1>3, SMT
  <2> QED BY <1>1, <1>2, <1>5, <2>1 DEF PoolInv, PoolTypeOK
<1>7. WorkConserved'
  <2> DEFINE held == {worker[w].index : w \in Calling}
  <2>1. /\ 1 .. next - 1 = Indices(channel) \cup held \cup Indices(calls)
        /\ Indices(channel) \cap held = {}
        /\ Indices(channel) \cap Indices(calls) = {}
        /\ held \cap Indices(calls) = {}
        /\ Distinct(channel) /\ Distinct(calls)
        /\ \A v, w \in Calling : worker[v].index = worker[w].index => v = w
    BY DEF PoolInv, WorkConserved
  <2>2. held' = held
    BY <1>1, <1>2
  <2> HIDE DEF held
  <2>3. next \notin Indices(channel) /\ next \notin held /\ next \notin Indices(calls)
    BY <1>4, <2>1
  <2>4. /\ 1 .. next' - 1 = Indices(channel') \cup held \cup Indices(calls)
        /\ Indices(channel') \cap held = {}
        /\ Indices(channel') \cap Indices(calls) = {}
        /\ Distinct(channel')
    BY <1>4, <1>5, <2>1, <2>3
  <2> QED BY <1>1, <1>2, <2>1, <2>2, <2>4 DEF WorkConserved, held
<1>8. CallerInv'
  BY <1>1, <1>2 DEF PoolInv, CallerInv, NothingLeftRunning
<1>9. ResultsInv'
  BY <1>1, <1>2 DEF PoolInv, ResultsInv
<1> QED BY <1>6, <1>7, <1>8, <1>9 DEF PoolInv

\* It closes the channel when all are sent.
LEMMA CloseInv ==
    ASSUME PoolInv, Close
    PROVE  PoolInv'
<1>1. /\ main = "send" /\ next > Len(items) /\ main' = "wait" /\ closed' = TRUE
      /\ UNCHANGED <<items, next, channel, wg, worker, results, calls>>
  BY DEF Close
<1>2. Workers' = Workers /\ Running' = Running /\ Calling' = Calling /\ Storing' = Storing
  BY <1>1 DEF Workers, Running, Calling, Storing
<1>3. next = Len(items) + 1
  BY <1>1, LenProperties, SMT DEF PoolInv, PoolTypeOK
<1>4. PoolTypeOK'
  BY <1>1, <1>2 DEF PoolInv, PoolTypeOK
<1>5. WorkConserved'
  BY <1>1, <1>2 DEF PoolInv, WorkConserved
<1>6. CallerInv'
  BY <1>1, <1>2, <1>3 DEF PoolInv, CallerInv, NothingLeftRunning
<1>7. ResultsInv'
  BY <1>1, <1>2 DEF PoolInv, ResultsInv
<1> QED BY <1>4, <1>5, <1>6, <1>7 DEF PoolInv

\* When the wait group is at 0, every worker has been started and has exited.
LEMMA WaitEnds ==
    ASSUME PoolInv, Await
    PROVE  \A w \in Workers : worker[w] = Exited
<1>1. Running = {}
  BY WorkersFinite, FS_EmptySet DEF Await, PoolInv, PoolTypeOK
<1>2. \A w \in Workers : worker[w] # Unborn
  BY DEF Await, PoolInv, CallerInv
<1> QED BY <1>1, <1>2 DEF Running

\* And returns when no worker is left.
LEMMA AwaitInv ==
    ASSUME PoolInv, Await
    PROVE  PoolInv'
<1>1. /\ main = "wait" /\ main' = "returned"
      /\ UNCHANGED <<items, next, channel, closed, wg, worker, results, calls>>
  BY DEF Await
<1>2. Workers' = Workers /\ Running' = Running /\ Calling' = Calling /\ Storing' = Storing
  BY <1>1 DEF Workers, Running, Calling, Storing
<1>3. PoolTypeOK'
  BY <1>1, <1>2 DEF PoolInv, PoolTypeOK
<1>4. WorkConserved'
  BY <1>1, <1>2 DEF PoolInv, WorkConserved
<1>5. CallerInv'
  BY <1>1, <1>2, WaitEnds DEF PoolInv, CallerInv, NothingLeftRunning
<1>6. ResultsInv'
  BY <1>1, <1>2 DEF PoolInv, ResultsInv
<1> QED BY <1>3, <1>4, <1>5, <1>6 DEF PoolInv

-----------------------------------------------------------------------------
\* Steps of a worker.

\* A worker that receives an index holds it from then on.
LEMMA ReceiveInv ==
    ASSUME PoolInv, NEW w \in Workers, Receive(w)
    PROVE  PoolInv'
<1> DEFINE h == Head(channel)
           busy == [at |-> "call", index |-> h]
<1>1. /\ worker[w] = Ranging /\ channel # <<>>
      /\ worker' = [worker EXCEPT ![w] = busy] /\ channel' = Tail(channel)
      /\ UNCHANGED <<items, main, next, closed, wg, results, calls>>
  BY DEF Receive
<1>2. /\ h \in DOMAIN items /\ Tail(channel) \in Seq(DOMAIN items)
      /\ Indices(channel) = {h} \cup Indices(Tail(channel))
      /\ Distinct(channel) =>
            Distinct(Tail(channel)) /\ h \notin Indices(Tail(channel))
  BY <1>1, TailIndices DEF PoolInv, PoolTypeOK
<1> HIDE DEF h
<1>3. Workers' = Workers /\ DOMAIN worker = Workers
  BY <1>1 DEF Workers, PoolInv, PoolTypeOK
<1>4. worker'[w] = busy /\ \A v \in Workers : v # w => worker'[v] = worker[v]
  BY <1>1, <1>3
<1>5. /\ busy.at = "call" /\ busy.index = h /\ busy # Unborn /\ busy # Exited
      /\ Ranging.at = "range" /\ Ranging # Unborn /\ Ranging # Exited
  BY DEF Ranging, Unborn, Exited
<1>6. busy \in [at : {"call", "store"}, index : DOMAIN items]
  BY <1>2
<1> HIDE DEF busy
<1>7. /\ Running' = Running /\ Storing' = Storing
      /\ Calling' = Calling \cup {w} /\ w \notin Calling /\ w \notin Storing
  BY <1>1, <1>3, <1>4, <1>5 DEF Running, Calling, Storing
<1>8. \A v \in Calling \cup Storing : worker'[v] = worker[v]
  BY <1>4, <1>7 DEF Calling, Storing
<1>9. PoolTypeOK'
  <2>1. worker' \in [Workers -> {Unborn, Ranging, Exited}
                            \cup [at : {"call", "store"}, index : DOMAIN items]]
    BY <1>1, <1>6 DEF PoolInv, PoolTypeOK
  <2> QED BY <1>1, <1>2, <1>3, <1>7, <2>1 DEF PoolInv, PoolTypeOK
<1>10. WorkConserved'
  <2> DEFINE held == {worker[v].index : v \in Calling}
  <2>1. /\ 1 .. next - 1 = Indices(channel) \cup held \cup Indices(calls)
        /\ Indices(channel) \cap held = {}
        /\ Indices(channel) \cap Indices(calls) = {}
        /\ held \cap Indices(calls) = {}
        /\ Distinct(channel) /\ Distinct(calls)
        /\ \A v, u \in Calling : worker[v].index = worker[u].index => v = u
    BY DEF PoolInv, WorkConserved
  <2>2. held' = held \cup {h}
    BY <1>4, <1>5, <1>7, <1>8
  <2>3. \A v \in Calling : worker[v].index \in held
    OBVIOUS
  <2> HIDE DEF held
  <2>4. h \notin held
    BY <1>2, <2>1
  <2>5. \A v, u \in Calling' : worker'[v].index = worker'[u].index => v = u
    BY <1>4, <1>5, <1>7, <1>8, <2>1, <2>3, <2>4
  <2>6. /\ 1 .. next - 1 = Indices(channel') \cup held' \cup Indices(calls)
        /\ Indices(channel') \cap held' = {}
        /\ Indices(channel') \cap Indices(calls) = {}
        /\ held' \cap Indices(calls) = {}
        /\ Distinct(channel')
    BY <1>1, <1>2, <2>1, <2>2
  <2> QED BY <1>1, <2>1, <2>5, <2>6 DEF WorkConserved, held
<1>11. CallerInv'
  <2>1. \A v \in Workers : worker[v] # Exited
    BY <1>1 DEF PoolInv, CallerInv
  <2>2. main # "returned"
    BY <2>1 DEF PoolInv, CallerInv, NothingLeftRunning
  <2>3. \A v \in Workers : worker'[v] # Exited
    BY <1>4, <1>5, <2>1
  <2>4. main # "start" => \A v \in Workers : worker'[v] # Unborn
    BY <1>4, <1>5 DEF PoolInv, CallerInv
  <2> QED BY <1>1, <1>3, <2>2, <2>3, <2>4 DEF PoolInv, CallerInv, NothingLeftRunning
<1>12. ResultsInv'
  BY <1>1, <1>7, <1>8 DEF PoolInv, ResultsInv
<1> QED BY <1>9, <1>10, <1>11, <1>12 DEF PoolInv

\* A worker exits only when the channel is closed and empty.
LEMMA ExitInv ==
    ASSUME PoolInv, NEW w \in Workers, Exit(w)
    PROVE  PoolInv'
<1>1. /\ worker[w] = Ranging /\ channel = <<>> /\ closed
      /\ worker' = [worker EXCEPT ![w] = Exited] /\ wg' = wg - 1
      /\ UNCHANGED <<items, main, next, channel, closed, results, calls>>
  BY DEF Exit
<1>2. Workers' = Workers /\ DOMAIN worker = Workers
  BY <1>1 DEF Workers, PoolInv, PoolTypeOK
<1>3. worker'[w] = Exited /\ \A v \in Workers : v # w => worker'[v] = worker[v]
  BY <1>1, <1>2
<1>4. /\ Ranging.at = "range" /\ Ranging # Unborn /\ Ranging # Exited
      /\ Exited.at = "exited" /\ Exited # Unborn
  BY DEF Ranging, Unborn, Exited
<1>5. /\ Running' = Running \ {w} /\ w \in Running
      /\ Calling' = Calling /\ Storing' = Storing /\ w \notin Calling \cup Storing
  BY <1>1, <1>2, <1>3, <1>4 DEF Running, Calling, Storing
<1>6. \A v \in Calling \cup Storing : worker'[v] = worker[v]
  BY <1>3, <1>5 DEF Calling, Storing
<1>7. PoolTypeOK'
  <2>1. Cardinality(Running') = Cardinality(Running) - 1
    BY <1>5, WorkersFinite, FS_RemoveElement DEF PoolInv
  <2>2. worker' \in [Workers -> {Unborn, Ranging, Exited}
                            \cup [at : {"call", "store"}, index : DOMAIN items]]
    BY <1>1 DEF PoolInv, PoolTypeOK
  <2> QED BY <1>1, <1>2, <2>1, <2>2 DEF PoolInv, PoolTypeOK
<1>8. WorkConserved'
  BY <1>1, <1>5, <1>6 DEF PoolInv, WorkConserved
<1>9. CallerInv'
  BY <1>1, <1>2, <1>3, <1>4 DEF PoolInv, CallerInv, NothingLeftRunning
<1>10. ResultsInv'
  BY <1>1, <1>5, <1>6 DEF PoolInv, ResultsInv
<1> QED BY <1>7, <1>8, <1>9, <1>10 DEF PoolInv

\* A worker that has called the mapper has yet to store what it returned.
LEMMA CallInv ==
    ASSUME PoolInv, NEW w \in Workers, Call(w)
    PROVE  PoolInv'
<1> DEFINE k == worker[w].index
           busy == [at |-> "store", index |-> k]
<1>1. /\ worker[w].at = "call"
      /\ worker' = [worker EXCEPT ![w].at = "store"] /\ calls' = Append(calls, k)
      /\ UNCHANGED <<items, main, next, channel, closed, wg, results>>
  BY DEF Call
<1>2. /\ k \in DOMAIN items /\ worker[w] = [at |-> "call", index |-> k]
      /\ worker[w] # Unborn /\ worker[w] # Exited
  BY <1>1, WorkerStates DEF PoolInv
<1>3. Workers' = Workers /\ DOMAIN worker = Workers
  BY <1>1 DEF Workers, PoolInv, PoolTypeOK
<1> HIDE DEF k
<1>4. worker'[w] = busy /\ \A v \in Workers : v # w => worker'[v] = worker[v]
  BY <1>1, <1>2, <1>3
<1>5. busy.at = "store" /\ busy.index = k /\ busy # Unborn /\ busy # Exited
  BY DEF Unborn, Exited
<1>6. busy \in [at : {"call", "store"}, index : DOMAIN items]
  BY <1>2
<1> HIDE DEF busy
<1>7. /\ Running' = Running
      /\ Calling' = Calling \ {w} /\ w \in Calling
      /\ Storing' = Storing \cup {w} /\ w \notin Storing
  BY <1>1, <1>2, <1>3, <1>4, <1>5 DEF Running, Calling, Storing
<1>8. \A v \in (Calling \cup Storing) \ {w} : worker'[v] = worker[v]
  BY <1>4 DEF Calling, Storing
<1>9. /\ Append(calls, k) \in Seq(DOMAIN items)
      /\ Indices(calls') = Indices(calls) \cup {k}
      /\ Distinct(calls) /\ k \notin Indices(calls) => Distinct(calls')
  BY <1>1, <1>2, AppendIndices DEF PoolInv, PoolTypeOK
<1>10. k \notin Indices(calls)
  BY <1>7 DEF PoolInv, WorkConserved, k
<1>11. PoolTypeOK'
  <2>1. worker' \in [Workers -> {Unborn, Ranging, Exited}
                            \cup [at : {"call", "store"}, index : DOMAIN items]]
    <3>1. \A v \in Workers : worker'[v] \in {Unborn, Ranging, Exited}
                            \cup [at : {"call", "store"}, index : DOMAIN items]
      BY <1>4, <1>6 DEF PoolInv, PoolTypeOK
    <3>2. worker' = [v \in Workers |-> worker'[v]]
      BY <1>1, <1>3 DEF PoolInv, PoolTypeOK
    <3> QED BY <3>1, <3>2
  <2> QED BY <1>1, <1>3, <1>7, <1>9, <2>1 DEF PoolInv, PoolTypeOK
<1>12. WorkConserved'
  <2> DEFINE held == {worker[v].index : v \in Calling}
  <2>1. /\ 1 .. next - 1 = Indices(channel) \cup held \cup Indices(calls)
        /\ Indices(channel) \cap held = {}
        /\ Indices(channel) \cap Indices(calls) = {}
        /\ held \cap Indices(calls) = {}
        /\ Distinct(channel) /\ Distinct(calls)
        /\ \A v, u \in Calling : worker[v].index = worker[u].index => v = u
    BY DEF PoolInv, WorkConserved
  <2>2. k \in held
    BY <1>7 DEF k
  <2>3. held' = held \ {k}
    <3>1. ASSUME NEW x \in held' PROVE x \in held \ {k}
      <4>1. PICK v \in Calling' : x = worker'[v].index
        OBVIOUS
      <4>2. v \in Calling /\ v # w /\ x = worker[v].index
        BY <4>1, <1>7, <1>8
      <4> QED BY <4>2, <1>7, <2>1 DEF k
    <3>2. ASSUME NEW x \in held \ {k} PROVE x \in held'
      <4>1. PICK v \in Calling : x = worker[v].index /\ x # k
        OBVIOUS
      <4>2. v # w
        BY <4>1 DEF k
      <4> QED BY <4>1, <4>2, <1>7, <1>8
    <3> HIDE DEF held
    <3> QED BY <3>1, <3>2
  <2>4. \A v, u \in Calling' : worker'[v].index = worker'[u].index => v = u
    BY <1>7, <1>8, <2>1
  <2> HIDE DEF held
  <2>5. /\ 1 .. next - 1 = Indices(channel) \cup held' \cup Indices(calls')
        /\ Indices(channel) \cap held' = {}
        /\ Indices(channel) \cap Indices(calls') = {}
        /\ held' \cap Indices(calls') = {}
        /\ Distinct(calls')
    BY <1>9, <1>10, <2>1, <2>2, <2>3
  <2> QED BY <1>1, <2>1, <2>4, <2>5 DEF WorkConserved, held
<1>13. CallerInv'
  <2>1. main # "returned"
    BY <1>2 DEF PoolInv, CallerInv, NothingLeftRunning
  <2> QED BY <1>1, <1>3, <1>4, <1>5, <2>1 DEF PoolInv, CallerInv, NothingLeftRunning
<1>14. ResultsInv'
  <2>1. /\ DOMAIN results = DOMAIN items
        /\ \A v \in Storing : worker[v].index \in Indices(calls)
        /\ \A v, u \in Storing : worker[v].index = worker[u].index => v = u
        /\ \A i \in DOMAIN items :
              results[i] = IF i \in Indices(calls) /\ \A v \in Storing : worker[v].index # i
                           THEN Mapper(items[i]) ELSE Unset
    BY DEF PoolInv, ResultsInv
  <2>2. \A v \in Storing : worker'[v].index = worker[v].index /\ worker[v].index # k
    BY <1>7, <1>8, <1>10, <2>1
  <2>3. worker'[w].index = k
    BY <1>4, <1>5
  <2>4. \A v \in Storing' : worker'[v].index \in Indices(calls')
    BY <1>7, <1>9, <2>1, <2>2, <2>3
  <2>5. \A v, u \in Storing' : worker'[v].index = worker'[u].index => v = u
    BY <1>7, <2>1, <2>2, <2>3
  <2>6. ASSUME NEW i \in DOMAIN items
        PROVE  (i \in Indices(calls') /\ \A v \in Storing' : worker'[v].index # i)
                 <=> (i \in Indices(calls) /\ \A v \in Storing : worker[v].index # i)
    BY <1>7, <1>9, <1>10, <2>2, <2>3
  <2> QED BY <1>1, <2>1, <2>4, <2>5, <2>6 DEF ResultsInv
<1> QED BY <1>11, <1>12, <1>13, <1>14 DEF PoolInv

\* A worker stores a result where there is none yet.
LEMMA StoreInv ==
    ASSUME PoolInv, NEW w \in Workers, Store(w)
    PROVE  PoolInv' /\ worker[w].index \in DOMAIN items /\ results[worker[w].index] = Unset
<1> DEFINE k == worker[w].index
<1>1. /\ worker[w].at = "store"
      /\ results' = [results EXCEPT ![k] = Mapper(items[k])]
      /\ worker' = [worker EXCEPT ![w] = Ranging]
      /\ UNCHANGED <<items, main, next, channel, closed, wg, calls>>
  BY DEF Store
<1>2. k \in DOMAIN items /\ worker[w] # Unborn /\ worker[w] # Exited
  BY <1>1, WorkerStates DEF PoolInv
<1>3. Workers' = Workers /\ DOMAIN worker = Workers
  BY <1>1 DEF Workers, PoolInv, PoolTypeOK
<1> HIDE DEF k
<1>4. worker'[w] = Ranging /\ \A v \in Workers : v # w => worker'[v] = worker[v]
  BY <1>1, <1>3
<1>5. Ranging.at = "range" /\ Ranging # Unborn /\ Ranging # Exited
  BY DEF Ranging, Unborn, Exited
<1>6. /\ Running' = Running
      /\ Calling' = Calling /\ w \notin Calling
      /\ Storing' = Storing \ {w} /\ w \in Storing
  BY <1>1, <1>2, <1>3, <1>4, <1>5 DEF Running, Calling, Storing
<1>7. \A v \in (Calling \cup Storing) \ {w} : worker'[v] = worker[v]
  BY <1>4 DEF Calling, Storing
<1>8. PoolTypeOK'
  <2>1. worker' \in [Workers -> {Unborn, Ranging, Exited}
                            \cup [at : {"call", "store"}, index : DOMAIN items]]
    BY <1>1 DEF PoolInv, PoolTypeOK
  <2> QED BY <1>1, <1>3, <1>6, <2>1 DEF PoolInv, PoolTypeOK
<1>9. WorkConserved'
  BY <1>1, <1>6, <1>7 DEF PoolInv, WorkConserved
<1>10. CallerInv'
  <2>1. main # "returned"
    BY <1>2 DEF PoolInv, CallerInv, NothingLeftRunning
  <2> QED BY <1>1, <1>3, <1>4, <1>5, <2>1 DEF PoolInv, CallerInv, NothingLeftRunning
<1>11. /\ DOMAIN results = DOMAIN items
       /\ \A v \in Storing : worker[v].index \in Indices(calls)
       /\ \A v, u \in Storing : worker[v].index = worker[u].index => v = u
       /\ \A i \in DOMAIN items :
             results[i] = IF i \in Indices(calls) /\ \A v \in Storing : worker[v].index # i
                          THEN Mapper(items[i]) ELSE Unset
  BY DEF PoolInv, ResultsInv
<1>12. results[k] = Unset
  BY <1>2, <1>6, <1>11 DEF k
<1>13. ResultsInv'
  <2>1. /\ \A v \in Storing' : worker'[v].index \in Indices(calls)
        /\ \A v, u \in Storing' : worker'[v].index = worker'[u].index => v = u
    BY <1>6, <1>7, <1>11
  <2>2. k \in Indices(calls) /\ \A v \in Storing' : worker'[v].index # k
    BY <1>6, <1>7, <1>11 DEF k
  <2>3. results'[k] = Mapper(items[k]) /\ DOMAIN results' = DOMAIN items
    BY <1>1, <1>2, <1>11
  <2>4. ASSUME NEW i \in DOMAIN items, i # k
        PROVE  /\ results'[i] = results[i]
               /\ (\A v \in Storing' : worker'[v].index # i)
                     <=> (\A v \in Storing : worker[v].index # i)
    <3>1. results'[i] = results[i]
      BY <1>1, <1>11, <2>4
    <3>2. worker[w].index # i
      BY <2>4 DEF k
    <3> QED BY <3>1, <3>2, <1>6, <1>7
  <2>5. \A i \in DOMAIN items :
           results'[i] = IF i \in Indices(calls) /\ \A v \in Storing' : worker'[v].index # i
                         THEN Mapper(items[i]) ELSE Unset
    <3> TAKE i \in DOMAIN items
    <3>1. CASE i = k
      BY <3>1, <2>2, <2>3
    <3>2. CASE i # k
      BY <3>2, <2>4, <1>11
    <3> QED BY <3>1, <3>2
  <2> QED BY <1>1, <2>1, <2>3, <2>5 DEF ResultsInv
<1> QED BY <1>2, <1>8, <1>9, <1>10, <1>12, <1>13 DEF PoolInv, k

-----------------------------------------------------------------------------
\* The theorems.

\* No worker has started.
LEMMA PoolInit == Init => PoolInv
<1> SUFFICES ASSUME Init PROVE PoolInv
  OBVIOUS
<1>1. PICK n \in 0 .. MaxItems : items \in [1 .. n -> Item]
  BY DEF Init
<1>2. n \in Nat /\ items \in Seq(Item) /\ Len(items) = n /\ DOMAIN items = 1 .. n
  <2>1. n \in Nat
    BY PoolAssumption, SMT
  <2>2. items \in Seq(Item)
    BY <1>1, <2>1, SeqDef
  <2> QED BY <1>1, <2>1, <2>2, LenProperties, SMT
<1>3. /\ main = "start" /\ next = 1 /\ channel = <<>> /\ closed = FALSE /\ wg = 0
      /\ worker = [w \in Workers |-> Unborn]
      /\ results = [i \in DOMAIN items |-> Unset] /\ calls = <<>>
  BY DEF Init
<1>4. Unborn.at = "unborn" /\ Unborn # Exited
  BY DEF Unborn, Exited
<1>5. Running = {} /\ Calling = {} /\ Storing = {}
  BY <1>3, <1>4 DEF Running, Calling, Storing
<1>6. PoolTypeOK
  <2>1. Cardinality(Running) = 0
    BY <1>5, FS_EmptySet
  <2>2. <<>> \in Seq(DOMAIN items) /\ 1 \in 1 .. Len(items) + 1
    BY <1>2, EmptySeq, SMT
  <2> QED BY <1>2, <1>3, <2>1, <2>2 DEF PoolTypeOK
<1>7. WorkConserved
  <2>1. 1 .. next - 1 = {}
    BY <1>3, SMT
  <2> QED BY <1>3, <1>5, <2>1, NoIndices DEF WorkConserved
<1>8. CallerInv
  BY <1>3, <1>4 DEF CallerInv, NothingLeftRunning
<1>9. ResultsInv
  BY <1>3, <1>5, NoIndices DEF ResultsInv
<1> QED BY <1>6, <1>7, <1>8, <1>9 DEF PoolInv

\* No step of the caller or of a worker breaks the invariant.
LEMMA PoolInvStep == PoolInv /\ [Next]_vars => PoolInv'
<1> SUFFICES ASSUME PoolInv, [Next]_vars PROVE PoolInv'
  OBVIOUS
<1>1. CASE Caller
  BY <1>1, StartInv, SendInv, CloseInv, AwaitInv DEF Caller
<1>2. ASSUME NEW w \in Workers, Goroutine(w) PROVE PoolInv'
  BY <1>2, ReceiveInv, ExitInv, CallInv, StoreInv DEF Goroutine
<1>3. CASE UNCHANGED vars
  <2>1. Workers' = Workers /\ Running' = Running /\ Calling' = Calling /\ Storing' = Storing
    BY <1>3 DEF vars, Workers, Running, Calling, Storing
  <2> QED BY <1>3, <2>1 DEF vars, PoolInv, PoolTypeOK, WorkConserved, CallerInv,
                            NothingLeftRunning, ResultsInv
<1> QED BY <1>1, <1>2, <1>3 DEF Next

\* The inductive invariant holds in every interleaving (map.go, ParallelMap).
THEOREM PoolSound == Spec => []PoolInv
<1>1. Init /\ [][Next]_vars => []PoolInv
  BY PoolInit, PoolInvStep, PTL
<1> QED BY <1>1, PTL DEF Spec

\* No index is lost, and none is handed to two workers, however the caller and
\* the workers interleave on the channel (map.go, ParallelMap).
THEOREM NoWorkLost == Spec => []WorkConserved
<1>1. PoolInv => WorkConserved
  BY DEF PoolInv
<1> QED BY <1>1, PoolSound, PTL

\* When ParallelMap returns, all of its goroutines have exited.
THEOREM NothingLeft == Spec => []NothingLeftRunning
<1>1. PoolInv => NothingLeftRunning
  BY DEF PoolInv, CallerInv
<1> QED BY <1>1, PoolSound, PTL

\* The pool does what a sequential map may do, in its order or another: every
\* step maps one item, returns all the results, or is invisible.
THEOREM PoolRefinesMap == Spec => Contract!MapSafe
<1>1. Init => Contract!MapInit
  BY DEF Init, Contract!MapInit
<1>2. PoolInv /\ [Next]_vars => [Contract!MapNext]_(Contract!mapVars)
  <2> SUFFICES ASSUME PoolInv, [Next]_vars
               PROVE  Contract!MapNext \/ UNCHANGED <<items, results, main = "returned">>
    BY DEF Contract!mapVars
  <2>1. CASE Start \/ Send \/ Close
    BY <2>1 DEF Start, Send, Close
  <2>2. CASE Await
    <3>1. \A w \in Workers : worker[w] = Exited
      BY <2>2, WaitEnds
    <3>2. /\ main = "wait" /\ main' = "returned" /\ UNCHANGED <<items, results>>
      BY <2>2 DEF Await
    <3>3. closed /\ next = Len(items) + 1
      BY <3>2 DEF PoolInv, CallerInv
    <3>4. Exited.at = "exited"
      BY DEF Exited
    <3>5. Calling = {} /\ Storing = {}
      BY <3>1, <3>4 DEF Calling, Storing
    <3>6. ASSUME NEW i \in DOMAIN items PROVE i \in Indices(calls)
      <4>1. /\ Len(items) \in Nat /\ DOMAIN items = 1 .. Len(items) /\ NumCPU \in Nat \ {0}
        BY LenProperties, PoolAssumption DEF PoolInv, PoolTypeOK
      <4>2. 1 \in Workers
        BY <3>6, <4>1, SMT DEF Workers, Size
      <4>3. channel = <<>>
        BY <3>1, <4>2 DEF PoolInv, CallerInv
      <4>4. i \in 1 .. next - 1
        BY <3>3, <3>6, <4>1, SMT
      <4> QED BY <3>5, <4>3, <4>4, NoIndices DEF PoolInv, WorkConserved
    <3>7. ASSUME NEW i \in DOMAIN items PROVE results[i] # Unset
      <4>1. results[i] = Mapper(items[i])
        BY <3>5, <3>6 DEF PoolInv, ResultsInv
      <4>2. items[i] \in Item
        BY ElementOfSeq, LenProperties DEF PoolInv, PoolTypeOK
      <4> QED BY <4>1, <4>2, PoolAssumption
    <3> QED BY <3>2, <3>7 DEF Contract!MapNext, Contract!Finish
  <2>3. ASSUME NEW w \in Workers, Receive(w) \/ Exit(w) \/ Call(w)
        PROVE  UNCHANGED <<items, results, main = "returned">>
    BY <2>3 DEF Receive, Exit, Call
  <2>4. ASSUME NEW w \in Workers, Store(w) PROVE Contract!MapNext
    <3> DEFINE k == worker[w].index
    <3>1. k \in DOMAIN items /\ results[k] = Unset
      BY <2>4, StoreInv
    <3>2. /\ results' = [results EXCEPT ![k] = Mapper(items[k])] /\ UNCHANGED <<items, main>>
      BY <2>4 DEF Store
    <3>3. main # "returned"
      <4>1. worker[w] # Exited
        BY <2>4 DEF Store, Exited
      <4> QED BY <4>1 DEF PoolInv, CallerInv, NothingLeftRunning
    <3>4. Contract!MapOne(k)
      BY <3>1, <3>2, <3>3 DEF Contract!MapOne
    <3> QED BY <3>1, <3>4 DEF Contract!MapNext
  <2>5. CASE UNCHANGED vars
    BY <2>5 DEF vars
  <2> QED BY <2>1, <2>2, <2>3, <2>4, <2>5 DEF Next, Caller, Goroutine
<1>3. Init /\ [][Next]_vars => []PoolInv
  BY PoolInit, PoolInvStep, PTL
<1> QED BY <1>1, <1>2, <1>3, PTL DEF Spec, Contract!MapSafe

-----------------------------------------------------------------------------
\* What is said of a result.

Failing == {i \in Produced : items[i].fails}

Panicking == Produced \ Tallied

\* Those after a, up to b.
Between(S, a, b) == {i \in S : a < i /\ i =< b}

Tallies == UNION {[D -> Int] : D \in SUBSET Message}

States == {Absent, NoTally} \cup Tallies

PanicsOf(f) == [k \in 1 .. Len(f) |-> [panic |-> f[k]]]

Results == [state : States, failures : Seq(Nat), errors : Seq([panic : Nat])]

\* The state of a bus over the shards after a, up to b.
StateReduces(s, a, b) ==
    /\ s = Absent <=> Between(Produced, a, b) = {}
    /\ s = NoTally <=> Between(Produced, a, b) # {} /\ Between(Tallied, a, b) = {}
    /\ s \in States
    /\ \A m \in Message : Count(s, m) = Balance(m)[b] - Balance(m)[a]

\* The result of the shards after a, up to b.
Reduces(r, a, b) ==
    /\ r \in Results
    /\ StateReduces(r.state, a, b)
    /\ Lists(r.failures, Between(Failing, a, b))
    /\ \E f \in Seq(Nat) : Lists(f, Between(Panicking, a, b)) /\ r.errors = PanicsOf(f)

-----------------------------------------------------------------------------
\* Lists of numbers.

\* A function on the first n numbers is a sequence of that length.
LEMMA FunctionIsSeq ==
    ASSUME NEW S, NEW n \in Nat, NEW s \in [1 .. n -> S]
    PROVE  s \in Seq(S) /\ Len(s) = n
<1>1. s \in Seq(S)
  BY SeqDef
<1> QED BY <1>1, LenProperties

\* The empty list lists nothing.
LEMMA ListsNothing == <<>> \in Seq(Nat) /\ Lists(<<>>, {})
<1>1. <<>> \in Seq(Nat) /\ Len(<<>>) = 0 /\ 1 .. 0 = {}
  BY EmptySeq, SMT
<1> QED BY <1>1 DEF Lists

\* And that of one number lists it.
LEMMA ListsOne ==
    ASSUME NEW i \in Nat
    PROVE  <<i>> \in Seq(Nat) /\ Lists(<<i>>, {i})
<1>1. <<i>> \in Seq(Nat) /\ Len(<<i>>) = 1 /\ <<i>>[1] = i /\ 1 .. 1 = {1}
  BY SMT
<1> HIDE DEF Lists
<1>2. {i} = {<<i>>[k] : k \in 1 .. Len(<<i>>)}
  BY <1>1, Zenon
<1>3. \A j, k \in 1 .. Len(<<i>>) : j < k => <<i>>[j] < <<i>>[k]
  BY <1>1, SMT
<1> QED BY <1>1, <1>2, <1>3 DEF Lists

\* A list goes on with a list of larger numbers.
LEMMA ListsMore ==
    ASSUME NEW S, NEW T, NEW f \in Seq(Nat), NEW g \in Seq(Nat), Lists(f, S), Lists(g, T),
           \A x \in S, y \in T : x < y
    PROVE  f \o g \in Seq(Nat) /\ Lists(f \o g, S \cup T)
<1> DEFINE h == f \o g
           p == Len(f)
           q == Len(g)
<1>1. /\ h \in Seq(Nat) /\ Len(h) = p + q
      /\ \A k \in 1 .. p + q : h[k] = IF k <= p THEN f[k] ELSE g[k - p]
  BY ConcatProperties
<1>2. p \in Nat /\ q \in Nat /\ f \in [1 .. p -> Nat] /\ g \in [1 .. q -> Nat]
  BY LenProperties
<1>3. /\ S = {f[k] : k \in 1 .. p} /\ \A j, k \in 1 .. p : j < k => f[j] < f[k]
      /\ T = {g[k] : k \in 1 .. q} /\ \A j, k \in 1 .. q : j < k => g[j] < g[k]
  BY DEF Lists
<1> HIDE DEF h, p, q
<1>4. \A k \in 1 .. p + q : \/ k \in 1 .. p /\ h[k] = f[k]
                            \/ k - p \in 1 .. q /\ h[k] = g[k - p] /\ k > p
  BY <1>1, <1>2
<1>5. /\ \A k \in 1 .. p : k \in 1 .. p + q /\ h[k] = f[k]
      /\ \A k \in 1 .. q : k + p \in 1 .. p + q /\ h[k + p] = g[k]
  BY <1>1, <1>2
<1>6. S \cup T = {h[k] : k \in 1 .. p + q}
  <2>1. ASSUME NEW x \in S \cup T PROVE \E k \in 1 .. p + q : x = h[k]
    <3>1. CASE x \in S
      <4>1. PICK k \in 1 .. p : x = f[k]
        BY <1>3, <3>1
      <4> QED BY <1>5, <4>1
    <3>2. CASE x \in T
      <4>1. PICK k \in 1 .. q : x = g[k]
        BY <1>3, <3>2
      <4> QED BY <1>5, <4>1
    <3> QED BY <3>1, <3>2
  <2>2. ASSUME NEW k \in 1 .. p + q PROVE h[k] \in S \cup T
    BY <1>3, <1>4
  <2> QED BY <2>1, <2>2
<1>7. ASSUME NEW j \in 1 .. p + q, NEW k \in 1 .. p + q, j < k PROVE h[j] < h[k]
  <2>1. CASE j \in 1 .. p /\ h[j] = f[j] /\ k \in 1 .. p /\ h[k] = f[k]
    BY <1>3, <1>7, <2>1
  <2>2. CASE j \in 1 .. p /\ h[j] = f[j] /\ k - p \in 1 .. q /\ h[k] = g[k - p]
    BY <1>3, <2>2
  <2>3. CASE j - p \in 1 .. q /\ h[j] = g[j - p] /\ k - p \in 1 .. q /\ h[k] = g[k - p]
    <3>1. j - p < k - p
      BY <1>2, <1>7
    <3> QED BY <1>3, <2>3, <3>1
  <2>4. ~ (k \in 1 .. p /\ j > p)
    BY <1>2, <1>7
  <2> QED BY <1>4, <2>1, <2>2, <2>3, <2>4
<1>8. Lists(h, S \cup T)
  <2>1. Len(h) = p + q
    BY <1>1
  <2> QED BY <2>1, <1>6, <1>7 DEF Lists
<1> QED BY <1>1, <1>8 DEF h

\* A list has an entry for each number on it.
LEMMA ListsAll ==
    ASSUME NEW S, NEW f \in Seq(Nat), Lists(f, S)
    PROVE  /\ Len(f) \in Nat /\ Cardinality(S) = Len(f)
           /\ f \in [1 .. Len(f) -> S]
<1> DEFINE p == Len(f)
<1>1. p \in Nat /\ f \in [1 .. p -> Nat]
  BY LenProperties
<1>2. S = {f[k] : k \in 1 .. p} /\ \A j, k \in 1 .. p : j < k => f[j] < f[k]
  BY DEF Lists
<1> HIDE DEF p
<1>3. f \in [1 .. p -> S]
  BY <1>1, <1>2
<1>4. \A j, k \in 1 .. p : f[j] = f[k] => j = k
  <2> SUFFICES ASSUME NEW j \in 1 .. p, NEW k \in 1 .. p, f[j] = f[k], j # k PROVE FALSE
    OBVIOUS
  <2>1. j < k \/ k < j
    BY <1>1
  <2>2. f[j] < f[k] \/ f[k] < f[j]
    BY <1>2, <2>1
  <2> QED BY <2>2, <1>1
<1>5. f \in Bijection(1 .. p, S)
  <2>1. f \in Injection(1 .. p, S)
    BY <1>3, <1>4 DEF Injection, IsInjective
  <2>2. f \in Surjection(1 .. p, S)
    BY <1>2, <1>3 DEF Surjection
  <2> QED BY <2>1, <2>2 DEF Bijection
<1>6. ExistsBijection(1 .. p, S)
  BY <1>5 DEF ExistsBijection
<1>7. IsFiniteSet(1 .. p) /\ Cardinality(1 .. p) = p
  BY <1>1, FS_Interval
<1>8. Cardinality(S) = p
  BY <1>6, <1>7, FS_Bijection
<1> QED BY <1>1, <1>3, <1>8 DEF p

\* There is one list of a set.
LEMMA ListsUnique ==
    ASSUME NEW S, NEW p \in Nat, NEW f \in [1 .. p -> S], NEW g \in [1 .. p -> S],
           S \subseteq Nat,
           S = {f[k] : k \in 1 .. p}, \A j, k \in 1 .. p : j < k => f[j] < f[k],
           S = {g[k] : k \in 1 .. p}, \A j, k \in 1 .. p : j < k => g[j] < g[k]
    PROVE  f = g
<1> DEFINE Bad == {k \in 1 .. p : f[k] # g[k]}
<1> SUFFICES ASSUME Bad # {} PROVE FALSE
  <2>1. Bad = {} => \A k \in 1 .. p : f[k] = g[k]
    OBVIOUS
  <2>2. f = [k \in 1 .. p |-> f[k]] /\ g = [k \in 1 .. p |-> g[k]]
    OBVIOUS
  <2> HIDE DEF Bad
  <2>3. (\A k \in 1 .. p : f[k] = g[k]) => f = g
    BY <2>2, Zenon
  <2> QED BY <2>1, <2>3
<1>1. Bad \in SUBSET Nat
  OBVIOUS
<1>2. PICK k \in Bad : \A i \in Bad : k =< i
  <2> HIDE DEF Bad
  <2> QED BY <1>1, Smallest
<1>3. k \in 1 .. p /\ f[k] # g[k] /\ f[k] \in Nat /\ g[k] \in Nat
  BY <1>2
<1>4. \A i \in 1 .. p : i < k => f[i] = g[i]
  BY <1>2
<1>5. CASE f[k] < g[k]
  <2>1. PICK j \in 1 .. p : f[k] = g[j]
    BY <1>3
  <2>2. j < k \/ j = k \/ k < j
    OBVIOUS
  <2>3. CASE j < k
    BY <1>3, <1>4, <2>1, <2>3
  <2>4. CASE k < j
    <3>1. g[k] < g[j] /\ g[j] \in Nat
      BY <2>4
    <3>2. g[k] < f[k]
      BY <2>1, <3>1
    <3> QED BY <1>3, <1>5, <3>2
  <2> QED BY <1>3, <2>1, <2>2, <2>3, <2>4
<1>6. CASE g[k] < f[k]
  <2>1. PICK j \in 1 .. p : g[k] = f[j]
    BY <1>3
  <2>2. j < k \/ j = k \/ k < j
    OBVIOUS
  <2>3. CASE j < k
    BY <1>3, <1>4, <2>1, <2>3
  <2>4. CASE k < j
    <3>1. f[k] < f[j] /\ f[j] \in Nat
      BY <2>4
    <3>2. f[k] < g[k]
      BY <2>1, <3>1
    <3> QED BY <1>3, <1>6, <3>2
  <2> QED BY <1>3, <2>1, <2>2, <2>3, <2>4
<1> QED BY <1>3, <1>5, <1>6

\* A list of a set is the one InOrder chooses.
LEMMA ListsInOrder ==
    ASSUME NEW S \in SUBSET Nat, NEW f \in Seq(Nat), Lists(f, S)
    PROVE  f = InOrder(S) /\ Len(f) = Cardinality(S)
<1> DEFINE p == Cardinality(S)
           g == InOrder(S)
<1>1. p \in Nat /\ Len(f) = p /\ f \in [1 .. p -> S]
  BY ListsAll
<1>2. g \in [1 .. p -> S] /\ Lists(g, S)
  <2>1. \E e \in [1 .. Cardinality(S) -> S] : Lists(e, S)
    BY <1>1
  <2> QED BY <2>1 DEF InOrder
<1>3. Len(g) = p
  <2> HIDE DEF g, p
  <2> QED BY <1>1, <1>2
<1> HIDE DEF g, p
<1>4. /\ S = {f[k] : k \in 1 .. p} /\ \A j, k \in 1 .. p : j < k => f[j] < f[k]
      /\ S = {g[k] : k \in 1 .. p} /\ \A j, k \in 1 .. p : j < k => g[j] < g[k]
  BY <1>1, <1>2, <1>3 DEF Lists
<1>5. f = g
  BY <1>1, <1>2, <1>4, ListsUnique
<1> QED BY <1>1, <1>5 DEF g, p

-----------------------------------------------------------------------------
\* The errors of panicking shards, one list after another.
LEMMA PanicsMore ==
    ASSUME NEW f \in Seq(Nat), NEW g \in Seq(Nat)
    PROVE  /\ PanicsOf(f) \in Seq([panic : Nat])
           /\ PanicsOf(f) \o PanicsOf(g) = PanicsOf(f \o g)
<1> DEFINE P == [panic : Nat]
<1>1. \A h \in Seq(Nat) :
         /\ PanicsOf(h) \in Seq(P) /\ Len(PanicsOf(h)) = Len(h) /\ Len(h) \in Nat
         /\ \A k \in 1 .. Len(h) : PanicsOf(h)[k] = [panic |-> h[k]]
  <2> TAKE h \in Seq(Nat)
  <2>1. Len(h) \in Nat /\ h \in [1 .. Len(h) -> Nat]
    BY LenProperties
  <2>2. PanicsOf(h) \in [1 .. Len(h) -> P]
    BY <2>1 DEF PanicsOf
  <2>3. PanicsOf(h) \in Seq(P) /\ Len(PanicsOf(h)) = Len(h)
    <3> HIDE DEF P
    <3> QED BY <2>1, <2>2, FunctionIsSeq
  <2> QED BY <2>1, <2>3 DEF PanicsOf
<1> DEFINE h == f \o g
           u == PanicsOf(f) \o PanicsOf(g)
<1>2. /\ h \in Seq(Nat) /\ Len(h) = Len(f) + Len(g)
      /\ \A i \in 1 .. Len(f) + Len(g) : h[i] = IF i <= Len(f) THEN f[i] ELSE g[i - Len(f)]
  BY ConcatProperties
<1>3. /\ u \in Seq(P) /\ Len(u) = Len(f) + Len(g)
      /\ \A i \in 1 .. Len(f) + Len(g) :
            u[i] = IF i <= Len(f) THEN PanicsOf(f)[i] ELSE PanicsOf(g)[i - Len(f)]
  <2> DEFINE pf == PanicsOf(f)
             pg == PanicsOf(g)
  <2>1. pf \in Seq(P) /\ pg \in Seq(P)
    BY <1>1
  <2>2. Len(pf) = Len(f) /\ Len(pg) = Len(g)
    BY <1>1
  <2> HIDE DEF P, pf, pg
  <2>3. /\ pf \o pg \in Seq(P) /\ Len(pf \o pg) = Len(pf) + Len(pg)
        /\ \A i \in 1 .. Len(pf) + Len(pg) :
              (pf \o pg)[i] = IF i <= Len(pf) THEN pf[i] ELSE pg[i - Len(pf)]
    BY <2>1, ConcatProperties
  <2> QED BY <2>2, <2>3 DEF pf, pg
<1> HIDE DEF h, u, P
<1>4. \A i \in 1 .. Len(u) : u[i] = PanicsOf(h)[i]
  <2> TAKE i \in 1 .. Len(u)
  <2>1. Len(f) \in Nat /\ Len(g) \in Nat /\ i \in 1 .. Len(f) + Len(g)
    BY <1>1, <1>3
  <2>2. PanicsOf(h)[i] = [panic |-> h[i]]
    BY <1>1, <1>2, <2>1
  <2>3. CASE i <= Len(f)
    <3>1. i \in 1 .. Len(f)
      BY <2>1, <2>3
    <3>2. h[i] = f[i] /\ u[i] = PanicsOf(f)[i]
      BY <1>2, <1>3, <2>1, <2>3
    <3>3. PanicsOf(f)[i] = [panic |-> f[i]]
      BY <1>1, <3>1
    <3> QED BY <2>2, <3>2, <3>3
  <2>4. CASE ~ (i <= Len(f))
    <3>1. i - Len(f) \in 1 .. Len(g)
      BY <2>1, <2>4
    <3>2. h[i] = g[i - Len(f)] /\ u[i] = PanicsOf(g)[i - Len(f)]
      BY <1>2, <1>3, <2>1, <2>4
    <3>3. PanicsOf(g)[i - Len(f)] = [panic |-> g[i - Len(f)]]
      BY <1>1, <3>1
    <3> QED BY <2>2, <3>2, <3>3
  <2> QED BY <2>3, <2>4
<1>5. u = PanicsOf(h)
  <2>1. PanicsOf(h) \in Seq(P) /\ Len(u) = Len(PanicsOf(h))
    BY <1>1, <1>2, <1>3
  <2> QED BY <1>3, <1>4, <2>1, SeqEqual
<1>6. PanicsOf(f) \in Seq([panic : Nat])
  BY <1>1 DEF P
<1> QED BY <1>5, <1>6 DEF h, u

-----------------------------------------------------------------------------
\* The shards.

\* What a shard is.
LEMMA Shards ==
    ASSUME items \in Seq(Item)
    PROVE  /\ Len(items) \in Nat /\ DOMAIN items = 1 .. Len(items)
           /\ \A i \in DOMAIN items :
                 /\ items[i].produced \in BOOLEAN /\ items[i].fails \in BOOLEAN
                 /\ items[i].panics \in BOOLEAN
                 /\ items[i].sends \in [Message -> Nat] /\ items[i].receives \in [Message -> Nat]
                 /\ Mapper(items[i]) = items[i].errors
<1>1. Len(items) \in Nat /\ DOMAIN items = 1 .. Len(items)
  BY LenProperties
<1>2. \A i \in DOMAIN items : items[i] \in Item
  BY <1>1, ElementOfSeq
<1>3. ASSUME NEW i \in DOMAIN items
      PROVE  /\ {items[i].produced, items[i].fails, items[i].panics} \subseteq BOOLEAN
             /\ {items[i].sends, items[i].receives} \subseteq [Message -> Nat]
             /\ Mapper(items[i]) = items[i].errors
  BY <1>2, ItemAssumption, Zenon
<1>4. ASSUME NEW i \in DOMAIN items
      PROVE  /\ items[i].produced \in BOOLEAN /\ items[i].fails \in BOOLEAN
             /\ items[i].panics \in BOOLEAN
             /\ items[i].sends \in [Message -> Nat] /\ items[i].receives \in [Message -> Nat]
             /\ Mapper(items[i]) = items[i].errors
  BY <1>3, Zenon
<1> QED BY <1>1, <1>4

\* The numbers of shards of a kind, in an interval and in two that meet.
LEMMA Intervals ==
    ASSUME NEW S, NEW n \in Nat, S \subseteq 1 .. n
    PROVE  /\ Between(S, 0, n) = S
           /\ \A a \in 0 .. n : Between(S, a, a) = {}
           /\ \A i \in 1 .. n : Between(S, i - 1, i) = IF i \in S THEN {i} ELSE {}
           /\ \A a, b, c \in 0 .. n : a =< b /\ b =< c =>
                 /\ Between(S, a, c) = Between(S, a, b) \cup Between(S, b, c)
                 /\ \A x \in Between(S, a, b), y \in Between(S, b, c) : x < y
<1> USE DEF Between
<1>1. Between(S, 0, n) = S
  <2>1. \A x \in S : 0 < x /\ x =< n
    OBVIOUS
  <2> QED BY <2>1
<1>2. \A a \in 0 .. n : Between(S, a, a) = {}
  <2>1. \A x \in S, a \in 0 .. n : ~ (a < x /\ x =< a)
    OBVIOUS
  <2> QED BY <2>1
<1>3. \A i \in 1 .. n : Between(S, i - 1, i) = IF i \in S THEN {i} ELSE {}
  <2> TAKE i \in 1 .. n
  <2>1. \A x \in S : (i - 1 < x /\ x =< i) <=> x = i
    OBVIOUS
  <2> QED BY <2>1
<1>4. ASSUME NEW a \in 0 .. n, NEW b \in 0 .. n, NEW c \in 0 .. n, a =< b, b =< c
      PROVE  /\ Between(S, a, c) = Between(S, a, b) \cup Between(S, b, c)
             /\ \A x \in Between(S, a, b), y \in Between(S, b, c) : x < y
  <2>1. \A x \in S : (a < x /\ x =< c) <=> (a < x /\ x =< b) \/ (b < x /\ x =< c)
    BY <1>4
  <2>2. \A x, y \in S : x =< b /\ b < y => x < y
    BY <1>4
  <2> QED BY <2>1, <2>2
<1> QED BY <1>1, <1>2, <1>3, <1>4

\* What shard k adds to the balance of m.
Carried(k, m) == IF k \in Tallied THEN items[k].sends[m] - items[k].receives[m] ELSE 0

\* Balances are computed shard by shard.
LEMMA Balances ==
    ASSUME items \in Seq(Item), NEW m \in Message
    PROVE  /\ Balance(m) \in [0 .. Len(items) -> Int]
           /\ Balance(m)[0] = 0
           /\ \A k \in 1 .. Len(items) : Balance(m)[k] = Balance(m)[k - 1] + Carried(k, m)
<1> DEFINE n == Len(items)
           Sums(net) == net = [k \in 0 .. n |->
                                IF k = 0 THEN 0
                                ELSE net[k - 1]
                                       + IF k \in Tallied
                                         THEN items[k].sends[m] - items[k].receives[m] ELSE 0]
           step == [x \in (1 .. n) \X Int |-> x[2] + Carried(x[1], m)]
           net == CHOOSE f : Sums(f)
<1>1. n \in Nat
  BY Shards
<1>2. \A k \in 1 .. n : Carried(k, m) \in Int
  <2> TAKE k \in 1 .. n
  <2>1. k \in DOMAIN items
    BY Shards
  <2>2. items[k].sends[m] \in Nat /\ items[k].receives[m] \in Nat
    BY <2>1, Shards
  <2> QED BY <2>2 DEF Carried
<1>3. \E f : Sums(f)
  <2>1. step \in [(1 .. n) \X Int -> Int]
    BY <1>2
  <2>2. PICK f \in [0 .. n -> Int] : InSteps(f, 0, n, step)
    <3>1. 0 \in Int
      OBVIOUS
    <3> HIDE DEF step, n
    <3> QED BY <1>1, <2>1, <3>1, Recursion, Zenon
  <2>3. ASSUME NEW k \in 0 .. n, k # 0 PROVE f[k] = f[k - 1] + Carried(k, m)
    <3>1. k \in 1 .. n /\ k - 1 \in 0 .. n
      BY <1>1, <2>3
    <3> QED BY <2>2, <3>1 DEF InSteps
  <2>4. Sums(f)
    <3> HIDE DEF n
    <3> QED BY <2>2, <2>3 DEF InSteps, Carried
  <2> QED BY <2>4
<1>4. Sums(net)
  <2> HIDE DEF Sums
  <2> QED BY <1>3
<1>5. Balance(m) = net
  BY DEF Balance
<1> HIDE DEF net, n
<1>6. net[0] = 0 /\ \A k \in 1 .. n : net[k] = net[k - 1] + Carried(k, m)
  BY <1>1, <1>4 DEF Carried
<1> DEFINE T == {k \in 0 .. n : net[k] \in Int}
<1>7. 0 .. n \subseteq T
  <2>1. 0 \in T
    BY <1>1, <1>6
  <2>2. ASSUME NEW k \in 1 .. n, k - 1 \in T PROVE k \in T
    <3>1. k \in 0 .. n /\ net[k - 1] \in Int /\ Carried(k, m) \in Int
      BY <1>1, <1>2, <2>2
    <3> QED BY <1>6, <3>1
  <2> HIDE DEF T
  <2> QED BY <1>1, <2>1, <2>2, UpTo
<1>8. net \in [0 .. n -> Int]
  BY <1>4, <1>7
<1> QED BY <1>5, <1>6, <1>8 DEF n

-----------------------------------------------------------------------------
\* States of the bus.

\* The two nil states count nothing, and are no tallies.
LEMMA NilStates ==
    /\ Absent # NoTally /\ Absent \in States /\ NoTally \in States
    /\ \A m \in Message : Count(Absent, m) = 0 /\ Count(NoTally, m) = 0
    /\ Absent \notin Tallies /\ NoTally \notin Tallies
<1>1. /\ DOMAIN Absent = {"nil"} /\ DOMAIN NoTally = {"nil"}
      /\ Absent.nil = "state" /\ NoTally.nil = "tally"
  BY DEF Absent, NoTally
<1>2. "nil" \notin Message
  BY ItemAssumption
<1>3. \A m \in Message : m \notin {"nil"}
  BY <1>2
<1>4. \A s \in Tallies : DOMAIN s # {"nil"}
  BY <1>2 DEF Tallies
<1> QED BY <1>1, <1>3, <1>4 DEF Count, States

\* The state of a bus over what l and r are over.
Joined(l, r) == IF l = Absent THEN r ELSE IF r = Absent THEN l ELSE JoinStates(l, r)

\* What a tally counts.
LEMMA TallyCounts ==
    ASSUME NEW D \in SUBSET Message, NEW s \in [D -> Int]
    PROVE  /\ s \in States /\ s # Absent /\ s # NoTally
           /\ \A m \in Message : Count(s, m) = IF m \in D THEN s[m] ELSE 0
<1>1. s \in Tallies
  BY DEF Tallies
<1> QED BY <1>1, NilStates DEF States, Count

\* What any state counts is a number.
LEMMA StateCounts ==
    ASSUME NEW s \in States, NEW m \in Message
    PROVE  Count(s, m) \in Int
<1>1. CASE s \in Tallies
  <2>1. PICK D \in SUBSET Message : s \in [D -> Int]
    BY <1>1 DEF Tallies
  <2> QED BY <2>1, TallyCounts
<1> QED BY <1>1, NilStates DEF States

\* Joining adds up, and keeps a tally if there is one.
LEMMA JoinedStates ==
    ASSUME NEW l \in States, NEW r \in States
    PROVE  /\ Joined(l, r) \in States
           /\ Joined(l, r) = Absent <=> l = Absent /\ r = Absent
           /\ Joined(l, r) = NoTally <=>
                 {l, r} \subseteq {Absent, NoTally} /\ (l = NoTally \/ r = NoTally)
           /\ \A m \in Message : Count(Joined(l, r), m) = Count(l, m) + Count(r, m)
<1>1. \A s \in States, m \in Message : Count(s, m) \in Int
  BY StateCounts
<1>2. CASE l = Absent
  <2>1. Joined(l, r) = r
    BY <1>2 DEF Joined
  <2> QED BY <1>1, <1>2, <2>1, NilStates
<1>3. CASE l # Absent /\ r = Absent
  <2>1. Joined(l, r) = l
    BY <1>3 DEF Joined
  <2> QED BY <1>1, <1>3, <2>1, NilStates
<1>4. CASE l = NoTally /\ r # Absent
  <2>1. Joined(l, r) = r
    BY <1>4, NilStates DEF Joined, JoinStates
  <2> QED BY <1>1, <1>4, <2>1, NilStates
<1>5. CASE l # Absent /\ l # NoTally /\ r = NoTally
  <2>1. Joined(l, r) = l
    BY <1>5, NilStates DEF Joined, JoinStates
  <2> QED BY <1>1, <1>5, <2>1, NilStates
<1>6. CASE {l, r} \cap {Absent, NoTally} = {}
  <2>1. l \in Tallies /\ r \in Tallies
    BY <1>6 DEF States
  <2>2. PICK D \in SUBSET Message : l \in [D -> Int]
    BY <2>1 DEF Tallies
  <2>3. PICK E \in SUBSET Message : r \in [E -> Int]
    BY <2>1 DEF Tallies
  <2> DEFINE s == [m \in D \cup E |-> Count(l, m) + Count(r, m)]
  <2>4. Joined(l, r) = s
    BY <1>6, <2>2, <2>3 DEF Joined, JoinStates
  <2>5. s \in [D \cup E -> Int] /\ D \cup E \in SUBSET Message
    BY <1>1
  <2>6. \A m \in D \cup E : s[m] = Count(l, m) + Count(r, m)
    OBVIOUS
  <2>7. \A m \in Message : m \notin D \cup E => Count(l, m) = 0 /\ Count(r, m) = 0
    BY <2>2, <2>3 DEF Count
  <2> HIDE DEF s
  <2>8. /\ s \in States /\ s # Absent /\ s # NoTally
        /\ \A m \in Message : Count(s, m) = IF m \in D \cup E THEN s[m] ELSE 0
    <3> DEFINE F == D \cup E
    <3>1. F \in SUBSET Message /\ s \in [F -> Int]
      BY <2>5
    <3> HIDE DEF F
    <3>2. /\ s \in States /\ s # Absent /\ s # NoTally
          /\ \A m \in Message : Count(s, m) = IF m \in F THEN s[m] ELSE 0
      BY <3>1, TallyCounts
    <3> QED BY <3>2 DEF F
  <2>9. \A m \in Message : Count(s, m) = Count(l, m) + Count(r, m)
    BY <2>6, <2>7, <2>8
  <2> QED BY <1>6, <2>4, <2>8, <2>9
<1> QED BY <1>2, <1>3, <1>4, <1>5, <1>6

-----------------------------------------------------------------------------
\* Results.

\* The errors of no shard, and of one.
LEMMA PanicsFew ==
    /\ PanicsOf(<<>>) = <<>>
    /\ \A i \in Nat : PanicsOf(<<i>>) = <<[panic |-> i]>>
<1>1. PanicsOf(<<>>) = <<>>
  <2>1. Len(<<>>) = 0 /\ 1 .. 0 = {}
    BY EmptySeq, SMT
  <2> QED BY <2>1 DEF PanicsOf
<1>2. ASSUME NEW i \in Nat PROVE PanicsOf(<<i>>) = <<[panic |-> i]>>
  <2>1. <<i>> \in Seq(Nat) /\ Len(<<i>>) = 1 /\ <<i>>[1] = i /\ 1 .. 1 = {1}
    BY SMT
  <2> DEFINE e == [panic |-> i]
             P == PanicsOf(<<i>>)
  <2>2. P \in Seq([panic : Nat])
    BY <2>1, PanicsMore
  <2>3. P[1] = e /\ DOMAIN P = {1}
    BY <2>1 DEF PanicsOf
  <2>4. e \in [panic : Nat]
    OBVIOUS
  <2> HIDE DEF P, e
  <2>5. Len(P) = 1
    BY <2>2, <2>3, LenProperties, SMT
  <2>6. <<e>> \in Seq([panic : Nat]) /\ Len(<<e>>) = 1 /\ <<e>>[1] = e
    BY <2>4, SMT
  <2>7. \A k \in 1 .. Len(P) : P[k] = <<e>>[k]
    BY <2>3, <2>5, <2>6
  <2>8. P = <<e>>
    BY <2>2, <2>5, <2>6, <2>7, SeqEqual
  <2> QED BY <2>8 DEF P, e
<1> QED BY <1>1, <1>2

\* The kinds of shards a result is about.
LEMMA Kinds ==
    ASSUME items \in Seq(Item)
    PROVE  /\ Produced \subseteq 1 .. Len(items) /\ Tallied \subseteq 1 .. Len(items)
           /\ Failing \subseteq 1 .. Len(items) /\ Panicking \subseteq 1 .. Len(items)
BY Shards DEF Produced, Tallied, Failing, Panicking

\* No shards reduce to the zero value.
LEMMA NothingReduces ==
    ASSUME items \in Seq(Item), NEW a \in 0 .. Len(items)
    PROVE  Reduces(NoResult, a, a)
<1> DEFINE n == Len(items)
<1>1. n \in Nat
  BY Shards
<1>2. /\ Between(Produced, a, a) = {} /\ Between(Tallied, a, a) = {}
      /\ Between(Failing, a, a) = {} /\ Between(Panicking, a, a) = {}
  BY <1>1, Kinds, Intervals
<1>3. \A m \in Message : Balance(m)[a] \in Int
  <2> TAKE m \in Message
  <2> QED BY Balances
<1>4. StateReduces(Absent, a, a)
  BY <1>2, <1>3, NilStates DEF StateReduces
<1>5. NoResult \in Results
  <2>1. <<>> \in Seq([panic : Nat])
    BY EmptySeq
  <2> QED BY <2>1, NilStates, ListsNothing DEF NoResult, Results
<1>6. /\ NoResult.state = Absent /\ NoResult.failures = <<>> /\ NoResult.errors = <<>>
  BY DEF NoResult
<1> QED BY <1>2, <1>4, <1>5, <1>6, ListsNothing, PanicsFew DEF Reduces

\* What the handler leaves in the slot of shard i.
SlotOf(i) == IF items[i].produced THEN ProcessShard(i) ELSE NoResult

\* It is the result of that shard (checker.go, processShard).
LEMMA SlotReduces ==
    ASSUME items \in Seq(Item), NEW i \in 1 .. Len(items)
    PROVE  Reduces(SlotOf(i), i - 1, i)
<1> DEFINE n == Len(items)
           item == items[i]
<1>1. n \in Nat /\ i \in DOMAIN items /\ i \in Nat
  BY Shards
<1>2. /\ item.produced \in BOOLEAN /\ item.fails \in BOOLEAN /\ item.panics \in BOOLEAN
      /\ item.sends \in [Message -> Nat] /\ item.receives \in [Message -> Nat]
  BY <1>1, Shards
<1>3. /\ Between(Produced, i - 1, i) = IF i \in Produced THEN {i} ELSE {}
      /\ Between(Tallied, i - 1, i) = IF i \in Tallied THEN {i} ELSE {}
      /\ Between(Failing, i - 1, i) = IF i \in Failing THEN {i} ELSE {}
      /\ Between(Panicking, i - 1, i) = IF i \in Panicking THEN {i} ELSE {}
  <2>1. /\ Produced \subseteq 1 .. n /\ Tallied \subseteq 1 .. n
        /\ Failing \subseteq 1 .. n /\ Panicking \subseteq 1 .. n
    BY Kinds
  <2> HIDE DEF n
  <2>2. \A S : S \subseteq 1 .. n => Between(S, i - 1, i) = IF i \in S THEN {i} ELSE {}
    <3> TAKE S
    <3> HAVE S \subseteq 1 .. n
    <3>1. i \in 1 .. n
      BY DEF n
    <3>2. n \in Nat
      BY <1>1
    <3>3. \A k \in 1 .. n : Between(S, k - 1, k) = IF k \in S THEN {k} ELSE {}
      BY <3>2, Intervals
    <3> QED BY <3>1, <3>3
  <2> QED BY <2>1, <2>2
<1>4. /\ i \in Produced <=> item.produced
      /\ i \in Tallied <=> item.produced /\ ~item.panics
      /\ i \in Failing <=> item.produced /\ item.fails
      /\ i \in Panicking <=> item.produced /\ item.panics
  BY <1>1, <1>2 DEF Produced, Tallied, Failing, Panicking
<1>5. \A m \in Message : Balance(m)[i] - Balance(m)[i - 1] = Carried(i, m)
  <2> TAKE m \in Message
  <2>1. /\ Balance(m)[i] = Balance(m)[i - 1] + Carried(i, m) /\ Balance(m)[i - 1] \in Int
        /\ Balance(m)[i] \in Int
    <3>1. i - 1 \in 0 .. Len(items) /\ i \in 0 .. Len(items)
      BY <1>1
    <3> QED BY <3>1, Balances
  <2>2. Carried(i, m) \in Int
    BY <1>2 DEF Carried
  <2> QED BY <2>1, <2>2
<1> DEFINE s == SlotOf(i)
<1>6. s \in [state : {s.state}, failures : {s.failures}, errors : {s.errors}]
  BY DEF SlotOf, ProcessShard, NoResult
<1>7. /\ s.state = IF ~item.produced THEN Absent ELSE IF item.panics THEN NoTally ELSE Tally(item)
      /\ s.failures = IF item.produced /\ item.fails THEN <<i>> ELSE <<>>
      /\ s.errors = IF item.produced /\ item.panics THEN <<[panic |-> i]>> ELSE <<>>
  BY <1>2 DEF SlotOf, ProcessShard, NoResult
<1> HIDE DEF s
<1>8. StateReduces(s.state, i - 1, i)
  <2>1. CASE ~item.produced
    <3>1. \A m \in Message : Carried(i, m) = 0
      BY <1>4, <2>1 DEF Carried
    <3> QED BY <1>3, <1>4, <1>5, <1>7, <2>1, <3>1, NilStates DEF StateReduces
  <2>2. CASE item.produced /\ item.panics
    <3>1. \A m \in Message : Carried(i, m) = 0
      BY <1>4, <2>2 DEF Carried
    <3> QED BY <1>3, <1>4, <1>5, <1>7, <2>2, <3>1, NilStates DEF StateReduces
  <2>3. CASE item.produced /\ ~item.panics
    <3> DEFINE D == {k \in Message : item.sends[k] + item.receives[k] > 0}
               t == Tally(item)
    <3>1. D \in SUBSET Message /\ t \in [D -> Int]
      BY <1>2 DEF Tally
    <3>2. \A m \in D : t[m] = item.sends[m] - item.receives[m]
      BY DEF Tally
    <3>3. \A m \in Message : m \notin D => item.sends[m] - item.receives[m] = 0
      BY <1>2
    <3> HIDE DEF D, t
    <3>4. /\ t \in States /\ t # Absent /\ t # NoTally
          /\ \A m \in Message : Count(t, m) = IF m \in D THEN t[m] ELSE 0
      BY <3>1, TallyCounts
    <3>5. \A m \in Message : Count(t, m) = Carried(i, m)
      BY <1>4, <2>3, <3>2, <3>3, <3>4 DEF Carried
    <3>6. s.state = t
      BY <1>7, <2>3 DEF t
    <3> QED BY <1>3, <1>4, <1>5, <2>3, <3>4, <3>5, <3>6 DEF StateReduces
  <2> QED BY <1>2, <2>1, <2>2, <2>3
<1>9. s.failures \in Seq(Nat) /\ Lists(s.failures, Between(Failing, i - 1, i))
  <2>1. CASE item.produced /\ item.fails
    BY <1>1, <1>3, <1>4, <1>7, <2>1, ListsOne
  <2>2. CASE ~(item.produced /\ item.fails)
    BY <1>3, <1>4, <1>7, <2>2, ListsNothing
  <2> QED BY <2>1, <2>2
<1>10. \E f \in Seq(Nat) : Lists(f, Between(Panicking, i - 1, i)) /\ s.errors = PanicsOf(f)
  <2>1. CASE item.produced /\ item.panics
    <3>1. s.errors = PanicsOf(<<i>>)
      BY <1>1, <1>7, <2>1, PanicsFew
    <3>2. <<i>> \in Seq(Nat) /\ Lists(<<i>>, Between(Panicking, i - 1, i))
      BY <1>1, <1>3, <1>4, <2>1, ListsOne
    <3> QED BY <3>1, <3>2
  <2>2. CASE ~(item.produced /\ item.panics)
    BY <1>3, <1>4, <1>7, <2>2, ListsNothing, PanicsFew
  <2> QED BY <2>1, <2>2
<1>11. s \in Results
  <2>1. s.state \in States
    BY <1>8 DEF StateReduces
  <2>2. s.errors \in Seq([panic : Nat])
    BY <1>10, PanicsMore
  <2> QED BY <1>6, <1>9, <2>1, <2>2 DEF Results
<1>12. Reduces(s, i - 1, i)
  BY <1>8, <1>9, <1>10, <1>11 DEF Reduces
<1> QED BY <1>12 DEF s

\* The result of the shards after a, up to b, and that of those after b, up to
\* c, make that of those after a, up to c.
LEMMA ReducerReduces ==
    ASSUME items \in Seq(Item),
           NEW a \in 0 .. Len(items), NEW b \in 0 .. Len(items), NEW c \in 0 .. Len(items),
           a =< b, b =< c,
           NEW l, NEW r, Reduces(l, a, b), Reduces(r, b, c)
    PROVE  Reduces(Reducer(l, r), a, c)
<1> DEFINE n == Len(items)
           s == Reducer(l, r)
           Meet(S) == /\ Between(S, a, c) = Between(S, a, b) \cup Between(S, b, c)
                      /\ \A x \in Between(S, a, b), y \in Between(S, b, c) : x < y
<1>1. n \in Nat
  BY Shards
<1>2. Meet(Produced) /\ Meet(Tallied) /\ Meet(Failing) /\ Meet(Panicking)
  <2>1. /\ Produced \subseteq 1 .. n /\ Tallied \subseteq 1 .. n
        /\ Failing \subseteq 1 .. n /\ Panicking \subseteq 1 .. n
    BY Kinds
  <2>2. \A S : S \subseteq 1 .. n => Meet(S)
    <3> TAKE S
    <3> HAVE S \subseteq 1 .. n
    <3>1. a \in 0 .. n /\ b \in 0 .. n /\ c \in 0 .. n
      OBVIOUS
    <3> HIDE DEF n
    <3>2. \A i, j, k \in 0 .. n : i =< j /\ j =< k =>
             /\ Between(S, i, k) = Between(S, i, j) \cup Between(S, j, k)
             /\ \A x \in Between(S, i, j), y \in Between(S, j, k) : x < y
      BY <1>1, Intervals
    <3> QED BY <3>1, <3>2
  <2> HIDE DEF n, Meet
  <2> QED BY <2>1, <2>2
<1>3. /\ l \in Results /\ StateReduces(l.state, a, b)
      /\ Lists(l.failures, Between(Failing, a, b))
      /\ r \in Results /\ StateReduces(r.state, b, c)
      /\ Lists(r.failures, Between(Failing, b, c))
  BY DEF Reduces
<1>4. PICK f \in Seq(Nat) : Lists(f, Between(Panicking, a, b)) /\ l.errors = PanicsOf(f)
  BY DEF Reduces
<1>5. PICK g \in Seq(Nat) : Lists(g, Between(Panicking, b, c)) /\ r.errors = PanicsOf(g)
  BY DEF Reduces
<1>6. /\ l.state \in States /\ r.state \in States
      /\ l.failures \in Seq(Nat) /\ r.failures \in Seq(Nat)
  BY <1>3 DEF Results
<1>7. /\ s.state = Joined(l.state, r.state) /\ s.failures = l.failures \o r.failures
      /\ s.errors = l.errors \o r.errors
      /\ s = [state |-> s.state, failures |-> s.failures, errors |-> s.errors]
  BY DEF Reducer, Joined
<1> HIDE DEF s
<1>8. StateReduces(s.state, a, c)
  <2>1. /\ Joined(l.state, r.state) \in States
        /\ Joined(l.state, r.state) = Absent <=> l.state = Absent /\ r.state = Absent
        /\ Joined(l.state, r.state) = NoTally <=>
              {l.state, r.state} \subseteq {Absent, NoTally} /\ (l.state = NoTally \/ r.state = NoTally)
        /\ \A m \in Message :
              Count(Joined(l.state, r.state), m) = Count(l.state, m) + Count(r.state, m)
    BY <1>6, JoinedStates
  <2>2. /\ l.state = Absent <=> Between(Produced, a, b) = {}
        /\ l.state = NoTally <=> Between(Produced, a, b) # {} /\ Between(Tallied, a, b) = {}
        /\ \A m \in Message : Count(l.state, m) = Balance(m)[b] - Balance(m)[a]
        /\ r.state = Absent <=> Between(Produced, b, c) = {}
        /\ r.state = NoTally <=> Between(Produced, b, c) # {} /\ Between(Tallied, b, c) = {}
        /\ \A m \in Message : Count(r.state, m) = Balance(m)[c] - Balance(m)[b]
    BY <1>3 DEF StateReduces
  <2>3. /\ Between(Produced, a, c) = Between(Produced, a, b) \cup Between(Produced, b, c)
        /\ Between(Tallied, a, c) = Between(Tallied, a, b) \cup Between(Tallied, b, c)
    BY <1>2
  <2>4. /\ Between(Tallied, a, b) \subseteq Between(Produced, a, b)
        /\ Between(Tallied, b, c) \subseteq Between(Produced, b, c)
    BY DEF Between, Tallied
  <2>5. ASSUME NEW m \in Message
        PROVE  Count(s.state, m) = Balance(m)[c] - Balance(m)[a]
    <3>1. /\ Balance(m)[a] \in Int /\ Balance(m)[b] \in Int /\ Balance(m)[c] \in Int
      BY Balances
    <3>2. Count(s.state, m) = (Balance(m)[b] - Balance(m)[a]) + (Balance(m)[c] - Balance(m)[b])
      BY <1>7, <2>1, <2>2
    <3> QED BY <3>1, <3>2
  <2>6. s.state = Absent <=> Between(Produced, a, c) = {}
    BY <1>7, <2>1, <2>2, <2>3
  <2>7. s.state = NoTally <=> Between(Produced, a, c) # {} /\ Between(Tallied, a, c) = {}
    BY <1>7, <2>1, <2>2, <2>3, <2>4, NilStates
  <2> QED BY <1>7, <2>1, <2>5, <2>6, <2>7 DEF StateReduces
<1>9. s.failures \in Seq(Nat) /\ Lists(s.failures, Between(Failing, a, c))
  <2> DEFINE u == l.failures
             v == r.failures
  <2>1. u \in Seq(Nat) /\ v \in Seq(Nat)
    BY <1>6
  <2>2. Lists(u, Between(Failing, a, b)) /\ Lists(v, Between(Failing, b, c))
    BY <1>3
  <2>3. s.failures = u \o v
    BY <1>7
  <2> HIDE DEF u, v
  <2> DEFINE F == Between(Failing, a, b)
             G == Between(Failing, b, c)
  <2>4. Between(Failing, a, c) = F \cup G /\ \A x \in F, y \in G : x < y
    BY <1>2
  <2>5. Lists(u, F) /\ Lists(v, G)
    BY <2>2
  <2> HIDE DEF F, G
  <2>6. u \o v \in Seq(Nat) /\ Lists(u \o v, F \cup G)
    BY <2>1, <2>4, <2>5, ListsMore
  <2> QED BY <2>3, <2>4, <2>6
<1>10. /\ f \o g \in Seq(Nat) /\ Lists(f \o g, Between(Panicking, a, c))
       /\ s.errors = PanicsOf(f \o g)
  <2>1. f \o g \in Seq(Nat) /\ Lists(f \o g, Between(Panicking, a, c))
    <3> DEFINE F == Between(Panicking, a, b)
               G == Between(Panicking, b, c)
    <3>1. Between(Panicking, a, c) = F \cup G /\ \A x \in F, y \in G : x < y
      BY <1>2
    <3>2. Lists(f, F) /\ Lists(g, G)
      BY <1>4, <1>5
    <3> HIDE DEF F, G
    <3>3. f \o g \in Seq(Nat) /\ Lists(f \o g, F \cup G)
      BY <3>1, <3>2, ListsMore
    <3> QED BY <3>1, <3>3
  <2>2. s.errors = PanicsOf(f \o g)
    BY <1>4, <1>5, <1>7, PanicsMore
  <2> QED BY <2>1, <2>2
<1>11. s \in Results
  <2>1. s.errors \in Seq([panic : Nat])
    <3> DEFINE h == f \o g
    <3>1. h \in Seq(Nat) /\ s.errors = PanicsOf(h)
      BY <1>10
    <3> HIDE DEF h
    <3> QED BY <3>1, PanicsMore
  <2>2. s.state \in States
    BY <1>8 DEF StateReduces
  <2>3. s = [state |-> s.state, failures |-> s.failures, errors |-> s.errors]
    BY <1>7
  <2>4. s.failures \in Seq(Nat)
    BY <1>9
  <2> QED BY <2>1, <2>2, <2>3, <2>4 DEF Results
<1>12. Reduces(s, a, c)
  BY <1>8, <1>9, <1>10, <1>11 DEF Reduces
<1> QED BY <1>12 DEF s

-----------------------------------------------------------------------------
\* Chunks.

\* What a quotient is.
LEMMA Quotient ==
    ASSUME NEW a \in Nat, NEW k \in Nat \ {0}
    PROVE  a \div k \in Nat /\ k * (a \div k) =< a /\ a < k * (a \div k) + k
BY SMT

\* No larger number is contained as often.
LEMMA QuotientAtLeast ==
    ASSUME NEW a \in Nat, NEW k \in Nat \ {0}, NEW d \in Nat, k * d =< a
    PROVE  d =< a \div k
<1> DEFINE e == a \div k
<1>1. e \in Nat /\ a < k * e + k
  BY Quotient
<1> HIDE DEF e
<1>2. SUFFICES ASSUME e < d PROVE FALSE
  BY <1>1 DEF e
<1>3. PICK j \in Nat : d = e + 1 + j
  <2>1. d - e - 1 \in Nat /\ d = e + 1 + (d - e - 1)
    BY <1>1, <1>2
  <2> QED BY <2>1
<1>4. k * d = k * e + k + k * j /\ k * j \in Nat /\ k * e \in Nat
  BY <1>1, <1>3
<1> QED BY <1>1, <1>4

\* The chunks of the workers follow one another, none is empty, and the last
\* ends with the last shard.
LEMMA Chunks ==
    ASSUME items \in Seq(Item), NEW k, k = Size(Len(items))
    PROVE  /\ k \in Nat /\ Workers = 1 .. k /\ (k = 0 <=> Len(items) = 0)
           /\ k # 0 =>
                 /\ \A w \in 0 .. k : ChunkEnd(w) \in 0 .. Len(items)
                 /\ ChunkEnd(0) = 0 /\ ChunkEnd(k) = Len(items)
                 /\ \A w \in 1 .. k : ChunkStart(w) = ChunkEnd(w - 1) /\ ChunkEnd(w - 1) < ChunkEnd(w)
<1> DEFINE n == Len(items)
<1>1. n \in Nat /\ NumCPU \in Nat \ {0}
  BY Shards, PoolAssumption
<1>2. k = IF n < NumCPU THEN n ELSE NumCPU
  BY DEF Size
<1> HIDE DEF n
<1>3. k \in Nat /\ k =< n /\ (k = 0 <=> n = 0)
  BY <1>1, <1>2
<1>4. Workers = 1 .. k
  BY DEF Workers
<1>5. ASSUME k # 0
      PROVE  /\ \A w \in 0 .. k : ChunkEnd(w) \in 0 .. n
             /\ ChunkEnd(0) = 0 /\ ChunkEnd(k) = n
             /\ \A w \in 1 .. k : ChunkStart(w) = ChunkEnd(w - 1) /\ ChunkEnd(w - 1) < ChunkEnd(w)
  <2> DEFINE t == [w \in Nat |-> w * n]
             e == [w \in Nat |-> t[w] \div k]
  <2>1. \A w \in Nat : ChunkEnd(w) = e[w]
    BY DEF ChunkEnd, n
  <2>2. /\ \A w \in Nat : t[w] \in Nat
        /\ \A w \in Nat : t[w + 1] = t[w] + n
        /\ t[0] = 0 /\ t[k] = k * n
    <3>1. \A w \in Nat : w * n \in Nat /\ (w + 1) * n = w * n + n
      BY <1>1, SMT
    <3>2. 0 * n = 0
      BY <1>1, SMT
    <3>3. \A w \in Nat : t[w] = w * n /\ w + 1 \in Nat
      OBVIOUS
    <3> HIDE DEF t
    <3> QED BY <1>3, <3>1, <3>2, <3>3
  <2> HIDE DEF t
  <2>3. k \in Nat \ {0}
    BY <1>3, <1>5
  <2>4. ASSUME NEW w \in Nat PROVE e[w] \in Nat /\ k * e[w] =< t[w] /\ t[w] < k * e[w] + k
    <3> DEFINE a == t[w]
    <3>1. a \in Nat
      BY <2>2
    <3> HIDE DEF a
    <3>2. a \div k \in Nat /\ k * (a \div k) =< a /\ a < k * (a \div k) + k
      BY <2>3, <3>1, Quotient
    <3> QED BY <3>2 DEF a
  <2>5. ASSUME NEW w \in Nat, NEW d \in Nat, k * d =< t[w] PROVE d =< e[w]
    <3> DEFINE a == t[w]
    <3>1. a \in Nat /\ k * d =< a
      BY <2>2, <2>5
    <3> HIDE DEF a
    <3>2. d =< a \div k
      BY <2>3, <3>1, QuotientAtLeast
    <3> QED BY <3>2 DEF a
  <2> HIDE DEF e
  <2>6. ASSUME NEW w \in Nat PROVE e[w] + 1 =< e[w + 1]
    <3> DEFINE p == k * e[w]
               d == e[w] + 1
    <3>1. e[w] \in Nat /\ d \in Nat /\ k * d = p + k /\ p \in Nat
      BY <2>3, <2>4, SMT
    <3>2. p =< t[w]
      BY <2>4
    <3>3. t[w] \in Nat /\ t[w + 1] = t[w] + n /\ w + 1 \in Nat
      BY <2>2
    <3> HIDE DEF p, d
    <3>4. k * d =< t[w + 1]
      BY <1>1, <1>3, <3>1, <3>2, <3>3
    <3>5. d =< e[w + 1]
      BY <2>5, <3>1, <3>3, <3>4
    <3> QED BY <3>5 DEF d
  <2>7. e[0] = 0
    <3> DEFINE d == e[0]
    <3>1. d \in Nat /\ k * d =< 0
      BY <2>2, <2>4
    <3> HIDE DEF d
    <3>2. d # 0 => k * d > 0
      BY <2>3, <3>1, SMT
    <3>3. k * d \in Nat
      BY <2>3, <3>1, SMT
    <3>4. d = 0
      BY <3>1, <3>2, <3>3
    <3> QED BY <3>4 DEF d
  <2>8. e[k] = n
    <3>1. n =< e[k]
      <4>1. k * n =< t[k]
        BY <1>1, <2>2, <2>3, SMT
      <4> QED BY <1>1, <1>3, <2>5, <4>1
    <3>2. ~ (n < e[k])
      <4> SUFFICES ASSUME n < e[k] PROVE FALSE
        OBVIOUS
      <4>1. e[k] \in Nat /\ k * e[k] =< k * n
        BY <1>3, <2>2, <2>4
      <4>2. PICK j \in Nat : e[k] = n + 1 + j
        <5>1. e[k] - n - 1 \in Nat /\ e[k] = n + 1 + (e[k] - n - 1)
          BY <1>1, <4>1
        <5> QED BY <5>1
      <4>3. k * e[k] = k * n + k + k * j /\ k * j \in Nat /\ k * n \in Nat
        BY <1>1, <2>3, <4>2, SMT
      <4> DEFINE u == k * e[k]
                 v == k * n
                 z == k * j
      <4>4. u =< v /\ u = v + k + z /\ z \in Nat /\ v \in Nat
        BY <4>1, <4>3
      <4> HIDE DEF u, v, z
      <4> QED BY <2>3, <4>4
    <3>3. e[k] \in Nat
      BY <1>3, <2>4
    <3> QED BY <1>1, <3>1, <3>2, <3>3
  <2>9. \A w \in 1 .. k : e[w - 1] < e[w]
    <3> TAKE w \in 1 .. k
    <3>1. w - 1 \in Nat /\ w \in Nat /\ (w - 1) + 1 = w
      BY <1>3
    <3>2. e[w - 1] + 1 =< e[w]
      BY <2>6, <3>1
    <3> QED BY <2>4, <3>1, <3>2
  <2>10. \A w \in 0 .. k : e[w] =< n
    <3> DEFINE T == {i \in 0 .. k : e[k - i] =< n}
    <3>1. 0 \in T
      BY <1>1, <1>3, <2>8
    <3>2. ASSUME NEW i \in 1 .. k, i - 1 \in T PROVE i \in T
      <4>1. /\ k - i \in Nat /\ (k - i) + 1 = k - (i - 1) /\ i \in 0 .. k
            /\ k - (i - 1) \in Nat
        BY <1>3
      <4>2. e[k - (i - 1)] =< n
        BY <3>2
      <4>3. e[k - i] + 1 =< e[k - (i - 1)]
        BY <2>6, <4>1
      <4>4. e[k - i] \in Nat /\ e[k - (i - 1)] \in Nat
        BY <2>4, <4>1
      <4> QED BY <1>1, <4>1, <4>2, <4>3, <4>4
    <3>3. 0 .. k \subseteq T
      <4> HIDE DEF T
      <4> QED BY <1>3, <3>1, <3>2, UpTo
    <3> TAKE w \in 0 .. k
    <3>4. k - w \in 0 .. k /\ k - (k - w) = w
      BY <1>3
    <3> QED BY <3>3, <3>4
  <2>11. \A w \in 0 .. k : e[w] \in 0 .. n
    <3> TAKE w \in 0 .. k
    <3>1. e[w] \in Nat
      BY <1>3, <2>4
    <3> QED BY <1>1, <2>10, <3>1
  <2>12. /\ \A w \in 0 .. k : w \in Nat
         /\ \A w \in 1 .. k : w \in Nat /\ w - 1 \in Nat
         /\ 0 \in Nat /\ k \in Nat
    BY <1>3
  <2>13. \A w \in 0 .. k : ChunkEnd(w) \in 0 .. n
    BY <2>1, <2>11, <2>12
  <2>14. ChunkEnd(0) = 0 /\ ChunkEnd(k) = n
    BY <2>1, <2>7, <2>8, <2>12
  <2>15. \A w \in 1 .. k : ChunkStart(w) = ChunkEnd(w - 1) /\ ChunkEnd(w - 1) < ChunkEnd(w)
    <3> TAKE w \in 1 .. k
    <3>1. ChunkEnd(w - 1) = e[w - 1] /\ ChunkEnd(w) = e[w]
      BY <2>1, <2>12
    <3>2. e[w - 1] < e[w]
      BY <2>9
    <3> QED BY <3>1, <3>2 DEF ChunkStart
  <2> QED BY <2>13, <2>14, <2>15
<1> QED BY <1>3, <1>4, <1>5 DEF n

\* What is said of a trace depends on the trace alone.
LEMMA SameTrace ==
    ASSUME items' = items
    PROVE  /\ Produced' = Produced /\ Tallied' = Tallied /\ Failing' = Failing
           /\ Panicking' = Panicking
           /\ \A m : Balance(m)' = Balance(m)
           /\ \A r, a, b : Reduces(r, a, b)' <=> Reduces(r, a, b)
           /\ Workers' = Workers
           /\ \A w : ChunkEnd(w)' = ChunkEnd(w) /\ ChunkStart(w)' = ChunkStart(w)
           /\ \A i : SlotOf(i)' = SlotOf(i)
<1>1. Produced' = Produced
  BY DEF Produced
<1>2. Tallied' = Tallied
  BY <1>1 DEF Tallied
<1>3. Failing' = Failing /\ Panicking' = Panicking
  BY <1>1, <1>2 DEF Failing, Panicking
<1>4. \A m : Balance(m)' = Balance(m)
  BY <1>2 DEF Balance
<1>5. \A r, a, b : StateReduces(r, a, b)' <=> StateReduces(r, a, b)
  BY <1>1, <1>2, <1>4 DEF StateReduces
<1>6. \A r, a, b : Reduces(r, a, b)' <=> Reduces(r, a, b)
  BY <1>3, <1>5 DEF Reduces
<1>7. Workers' = Workers
  BY DEF Workers
<1>8. \A w : ChunkEnd(w)' = ChunkEnd(w)
  BY DEF ChunkEnd
<1>9. \A w : ChunkStart(w)' = ChunkStart(w)
  BY <1>8 DEF ChunkStart
<1>10. \A i : SlotOf(i)' = SlotOf(i)
  BY DEF SlotOf, ProcessShard
<1> QED BY <1>1, <1>2, <1>3, <1>4, <1>6, <1>7, <1>8, <1>9, <1>10

\* The reducer makes results of results.
LEMMA ReducerType ==
    ASSUME NEW l \in Results, NEW r \in Results
    PROVE  Reducer(l, r) \in Results
<1> DEFINE s == Reducer(l, r)
           P == [panic : Nat]
<1>1. /\ l.state \in States /\ l.failures \in Seq(Nat) /\ l.errors \in Seq(P)
      /\ r.state \in States /\ r.failures \in Seq(Nat) /\ r.errors \in Seq(P)
  BY DEF Results
<1>2. /\ s.state = Joined(l.state, r.state) /\ s.failures = l.failures \o r.failures
      /\ s.errors = l.errors \o r.errors
      /\ s = [state |-> s.state, failures |-> s.failures, errors |-> s.errors]
  BY DEF Reducer, Joined
<1> HIDE DEF s, P
<1>3. s.state \in States
  BY <1>1, <1>2, JoinedStates
<1>4. s.failures \in Seq(Nat) /\ s.errors \in Seq(P)
  BY <1>1, <1>2, ConcatProperties
<1>5. s \in [state : States, failures : Seq(Nat), errors : Seq(P)]
  BY <1>2, <1>3, <1>4
<1> QED BY <1>5 DEF s, P, Results

\* The results of the chunks make the result of the trace.
LEMMA CombineReduces ==
    ASSUME items \in Seq(Item),
           \A w \in Workers : Reduces(partials[w], ChunkStart(w), ChunkEnd(w))
    PROVE  Reduces(Combine, 0, Len(items))
<1> DEFINE n == Len(items)
           k == Size(n)
<1>1. n \in Nat /\ (n = 0 <=> items = <<>>)
  BY Shards, EmptySeq
<1>2. CASE n = 0
  <2>1. Combine = NoResult
    BY <1>1, <1>2 DEF Combine
  <2>2. Reduces(NoResult, 0, 0)
    BY <1>2, NothingReduces
  <2> QED BY <1>2, <2>1, <2>2
<1>3. CASE n # 0
  <2>1. /\ k \in Nat \ {0} /\ Workers = 1 .. k
        /\ \A w \in 0 .. k : ChunkEnd(w) \in 0 .. n
        /\ ChunkEnd(0) = 0 /\ ChunkEnd(k) = n
        /\ \A w \in 1 .. k : ChunkStart(w) = ChunkEnd(w - 1) /\ ChunkEnd(w - 1) < ChunkEnd(w)
    BY <1>3, Chunks
  <2> DEFINE Folds(c) == c = [w \in Workers |->
                               IF w = 1 THEN partials[1] ELSE Reducer(c[w - 1], partials[w])]
             c == CHOOSE f : Folds(f)
             step == [x \in (1 .. (k - 1)) \X Results |-> Reducer(x[2], partials[x[1] + 1])]
  <2>2. \A w \in 1 .. k : partials[w] \in Results
    BY <2>1 DEF Reduces
  <2>3. \E f : Folds(f)
    <3> DEFINE m == k - 1
    <3>1. m \in Nat /\ \A i \in 1 .. m : i + 1 \in 1 .. k
      <4> HIDE DEF k
      <4> QED BY <2>1
    <3>2. step \in [(1 .. m) \X Results -> Results]
      BY <2>2, <3>1, ReducerType
    <3>3. partials[1] \in Results
      <4> HIDE DEF k
      <4> QED BY <2>1, <2>2
    <3>4. PICK f \in [0 .. m -> Results] : InSteps(f, partials[1], m, step)
      <4> HIDE DEF step, m
      <4> QED BY <3>1, <3>2, <3>3, Recursion, Zenon
    <3> DEFINE g == [w \in 1 .. k |-> f[w - 1]]
    <3>5. ASSUME NEW w \in 1 .. k, w # 1 PROVE g[w] = Reducer(g[w - 1], partials[w])
      <4> HIDE DEF k
      <4>1. w - 1 \in 1 .. m /\ (w - 1) + 1 = w /\ w - 1 \in 1 .. k /\ (w - 1) - 1 \in 0 .. m
        BY <2>1, <3>5
      <4>2. f[w - 1] = step[<<w - 1, f[(w - 1) - 1]>>]
        BY <3>4, <4>1 DEF InSteps
      <4>3. f[(w - 1) - 1] \in Results
        BY <3>4, <4>1
      <4>4. step[<<w - 1, f[(w - 1) - 1]>>] = Reducer(f[(w - 1) - 1], partials[(w - 1) + 1])
        BY <4>1, <4>3
      <4> QED BY <4>1, <4>2, <4>4
    <3>6. g[1] = partials[1]
      <4> HIDE DEF k
      <4>1. 1 \in 1 .. k /\ 1 - 1 = 0
        BY <2>1
      <4> QED BY <3>4, <4>1 DEF InSteps
    <3>7. Folds(g)
      <4> DEFINE h == [w \in Workers |->
                          IF w = 1 THEN partials[1] ELSE Reducer(g[w - 1], partials[w])]
      <4>1. \A w \in 1 .. k : g[w] = IF w = 1 THEN partials[1] ELSE Reducer(g[w - 1], partials[w])
        <5> HIDE DEF g
        <5> QED BY <3>5, <3>6
      <4>2. g = [w \in 1 .. k |-> g[w]]
        OBVIOUS
      <4> HIDE DEF g
      <4>3. g = h
        BY <2>1, <4>1, <4>2
      <4> QED BY <4>3 DEF h
    <3> QED BY <3>7
  <2>4. Folds(c)
    <3> HIDE DEF Folds
    <3> QED BY <2>3
  <2>5. Combine = c[k]
    BY <1>1, <1>3 DEF Combine
  <2> HIDE DEF c, k, n
  <2>6. /\ c[1] = partials[1]
        /\ \A w \in 1 .. k : w # 1 => c[w] = Reducer(c[w - 1], partials[w])
    BY <2>1, <2>4
  <2> DEFINE T == {i \in 0 .. (k - 1) : Reduces(c[i + 1], 0, ChunkEnd(i + 1))}
  <2>7. 0 \in T
    <3>1. 1 \in Workers /\ 1 \in 1 .. k /\ ChunkStart(1) = ChunkEnd(1 - 1) /\ 1 - 1 = 0
          /\ 0 \in 0 .. (k - 1)
      BY <2>1
    <3>2. Reduces(partials[1], ChunkStart(1), ChunkEnd(1))
      BY <3>1
    <3>3. Reduces(c[1], 0, ChunkEnd(1))
      BY <2>1, <2>6, <3>1, <3>2
    <3> QED BY <3>1, <3>3
  <2>8. ASSUME NEW i \in 1 .. (k - 1), i - 1 \in T PROVE i \in T
    <3> DEFINE w == i + 1
    <3>1. /\ w \in 1 .. k /\ w # 1 /\ w - 1 = i /\ (i - 1) + 1 = i /\ i \in 0 .. (k - 1)
          /\ i \in 0 .. k /\ w \in 0 .. k /\ 0 \in 0 .. n
      BY <2>1, <1>1
    <3>2. Reduces(c[i], 0, ChunkEnd(i))
      BY <2>8, <3>1
    <3>3. ChunkStart(w) = ChunkEnd(i) /\ ChunkEnd(i) < ChunkEnd(w)
      BY <2>1, <3>1
    <3>4. Reduces(partials[w], ChunkEnd(i), ChunkEnd(w))
      BY <2>1, <3>1, <3>3
    <3>5. c[w] = Reducer(c[i], partials[w])
      BY <2>6, <3>1
    <3>6. Reduces(Reducer(c[i], partials[w]), 0, ChunkEnd(w))
      <4> DEFINE b == ChunkEnd(i)
                 e == ChunkEnd(w)
                 l == c[i]
                 r == partials[w]
      <4>1. 0 \in 0 .. n /\ b \in 0 .. n /\ e \in 0 .. n /\ 0 =< b /\ b =< e
        BY <2>1, <3>1, <3>3, <1>1
      <4>2. Reduces(l, 0, b) /\ Reduces(r, b, e)
        BY <3>2, <3>4
      <4> HIDE DEF b, e, l, r, w
      <4>3. Reduces(Reducer(l, r), 0, e)
        BY <4>1, <4>2, ReducerReduces DEF n
      <4> QED BY <4>3 DEF b, e, l, r
    <3>7. Reduces(c[w], 0, ChunkEnd(w))
      BY <3>5, <3>6
    <3> QED BY <3>1, <3>7
  <2>9. 0 .. (k - 1) \subseteq T
    <3> DEFINE m == k - 1
    <3>1. m \in Nat
      BY <2>1
    <3> HIDE DEF T
    <3>2. \A i \in 1 .. m : i - 1 \in T => i \in T
      BY <2>8
    <3> HIDE DEF m
    <3>3. 0 .. m \subseteq T
      BY <2>7, <3>1, <3>2, UpTo
    <3> QED BY <3>3 DEF m
  <2>10. k - 1 \in 0 .. (k - 1) /\ (k - 1) + 1 = k
    BY <2>1
  <2>11. Reduces(c[k], 0, ChunkEnd(k))
    BY <2>9, <2>10
  <2> QED BY <2>1, <2>5, <2>11 DEF n
<1> QED BY <1>2, <1>3

-----------------------------------------------------------------------------
\* What the result of the whole trace says.
LEMMA WholeTrace ==
    ASSUME items \in Seq(Item), NEW r, Reduces(r, 0, Len(items))
    PROVE  /\ r.state = NoTally => Produced # {} /\ Tallied = {}
           /\ r.state # NoTally =>
                 (IF r.state = Absent THEN {} ELSE {m \in DOMAIN r.state : r.state[m] # 0})
                    = {m \in Message : Net(m) # 0}
           /\ r.failures = InOrder({i \in Produced : items[i].fails})
           /\ r.errors = [k \in 1 .. Cardinality(Produced \ Tallied) |->
                            [panic |-> InOrder(Produced \ Tallied)[k]]]
<1> DEFINE n == Len(items)
           s == r.state
           unbalanced == {m \in Message : Net(m) # 0}
<1>1. n \in Nat
  BY Shards
<1>2. /\ Produced \subseteq 1 .. n /\ Tallied \subseteq 1 .. n
      /\ Failing \subseteq 1 .. n /\ Panicking \subseteq 1 .. n
  BY Kinds
<1>3. /\ Between(Produced, 0, n) = Produced /\ Between(Tallied, 0, n) = Tallied
      /\ Between(Failing, 0, n) = Failing /\ Between(Panicking, 0, n) = Panicking
  <2> HIDE DEF n
  <2> QED BY <1>1, <1>2, Intervals
<1>4. Failing \in SUBSET Nat /\ Panicking \in SUBSET Nat
  <2> HIDE DEF n
  <2> QED BY <1>1, <1>2
<1>5. StateReduces(s, 0, n) /\ r.failures \in Seq(Nat) /\ Lists(r.failures, Failing)
  BY <1>3 DEF Reduces, Results
<1>6. s = NoTally => Produced # {} /\ Tallied = {}
  BY <1>3, <1>5 DEF StateReduces
<1>7. \A m \in Message : Net(m) = Count(s, m)
  <2> TAKE m \in Message
  <2>1. Balance(m)[0] = 0 /\ Balance(m)[n] \in Int
    BY <1>1, Balances
  <2>2. Count(s, m) = Balance(m)[n] - Balance(m)[0]
    BY <1>5 DEF StateReduces
  <2> QED BY <2>1, <2>2 DEF Net
<1> HIDE DEF s
<1>8. s # NoTally =>
         (IF s = Absent THEN {} ELSE {m \in DOMAIN s : s[m] # 0}) = unbalanced
  <2>1. CASE s = Absent
    <3>1. unbalanced = {}
      BY <1>7, <2>1, NilStates
    <3> QED BY <2>1, <3>1
  <2>2. CASE s # Absent /\ s # NoTally
    <3>1. s \in Tallies
      BY <1>5, <2>2 DEF StateReduces, States
    <3>2. PICK D \in SUBSET Message : s \in [D -> Int]
      BY <3>1 DEF Tallies
    <3>3. \A m \in Message : Net(m) = IF m \in D THEN s[m] ELSE 0
      BY <1>7, <3>2, TallyCounts
    <3>4. {m \in DOMAIN s : s[m] # 0} = unbalanced
      BY <3>2, <3>3
    <3> QED BY <2>2, <3>4
  <2> QED BY <2>1, <2>2
<1>9. r.failures = InOrder(Failing)
  <2> DEFINE f == r.failures
  <2>1. f \in Seq(Nat) /\ Lists(f, Failing)
    BY <1>5
  <2> HIDE DEF f
  <2>2. f = InOrder(Failing)
    BY <1>4, <2>1, ListsInOrder
  <2> QED BY <2>2 DEF f
<1>10. r.errors = [k \in 1 .. Cardinality(Panicking) |-> [panic |-> InOrder(Panicking)[k]]]
  <2>1. PICK f \in Seq(Nat) : Lists(f, Panicking) /\ r.errors = PanicsOf(f)
    BY <1>3 DEF Reduces
  <2>2. f = InOrder(Panicking) /\ Len(f) = Cardinality(Panicking)
    BY <1>4, <2>1, ListsInOrder
  <2> QED BY <2>1, <2>2 DEF PanicsOf
<1> QED BY <1>6, <1>8, <1>9, <1>10 DEF s, Failing, Panicking

-----------------------------------------------------------------------------
\* The inductive invariant.

\* The handler was called on the shards the mapper was.
SlotsInv ==
    slots = [i \in DOMAIN items |-> IF i \in Indices(calls) THEN SlotOf(i) ELSE NoResult]

\* Each worker has reduced a part of its chunk.
ReduceInv ==
    /\ DOMAIN partials = Workers /\ DOMAIN taken = Workers
    /\ \A w \in Workers :
          /\ taken[w] \in ChunkStart(w) + 1 .. ChunkEnd(w)
          /\ Reduces(partials[w], ChunkStart(w), taken[w])

CheckInv ==
    /\ PoolInv /\ results = [i \in DOMAIN items |-> results[i]] /\ SlotsInv
    /\ phase # "map" => main = "returned"
    /\ phase = "reduce" => ReduceInv
    /\ VerdictOfWholeTrace

\* When the pool's caller has returned, every shard was handled, its errors are
\* there, and no goroutine of the pool takes a step.
LEMMA Returned ==
    ASSUME PoolInv, results = [i \in DOMAIN items |-> results[i]], main = "returned"
    PROVE  /\ Indices(calls) = DOMAIN items
           /\ results = [i \in DOMAIN items |-> items[i].errors]
           /\ ~ PoolStep
<1>1. \A w \in Workers : worker[w] = Exited
  BY DEF PoolInv, CallerInv, NothingLeftRunning
<1>2. closed /\ next = Len(items) + 1
  BY DEF PoolInv, CallerInv
<1>3. Exited.at = "exited" /\ Ranging.at = "range"
  BY DEF Exited, Ranging
<1>4. Calling = {} /\ Storing = {}
  BY <1>1, <1>3 DEF Calling, Storing
<1>5. /\ items \in Seq(Item) /\ Len(items) \in Nat /\ DOMAIN items = 1 .. Len(items)
  BY Shards DEF PoolInv, PoolTypeOK
<1>6. ASSUME NEW i \in DOMAIN items PROVE i \in Indices(calls)
  <2>1. 1 \in Workers
    BY <1>5, <1>6, PoolAssumption, SMT DEF Workers, Size
  <2>2. channel = <<>>
    BY <1>1, <2>1 DEF PoolInv, CallerInv
  <2>3. i \in 1 .. next - 1
    BY <1>2, <1>5, <1>6, SMT
  <2> QED BY <1>4, <2>2, <2>3, NoIndices DEF PoolInv, WorkConserved
<1>7. Indices(calls) \subseteq DOMAIN items
  <2>1. calls \in Seq(DOMAIN items)
    BY DEF PoolInv, PoolTypeOK
  <2>2. \A k \in DOMAIN calls : calls[k] \in DOMAIN items
    BY <2>1, LenProperties, ElementOfSeq
  <2> QED BY <2>2 DEF Indices
<1>8. Indices(calls) = DOMAIN items
  BY <1>6, <1>7
<1>9. results = [i \in DOMAIN items |-> items[i].errors]
  <2>1. \A i \in DOMAIN items : results[i] = items[i].errors
    <3> TAKE i \in DOMAIN items
    <3>1. results[i] = Mapper(items[i])
      BY <1>4, <1>6 DEF PoolInv, ResultsInv
    <3>2. Mapper(items[i]) = items[i].errors
      BY <1>5, Shards
    <3> QED BY <3>1, <3>2
  <2> QED BY <2>1
<1>10. ~ PoolStep
  <2>1. ~ Caller
    BY DEF Caller, Start, Send, Close, Await
  <2>2. ASSUME NEW w \in Workers PROVE ~ (Receive(w) \/ Exit(w) \/ Store(w) \/ Call(w))
    BY <1>1, <1>3 DEF Receive, Exit, Store, Call
  <2> QED BY <2>1, <2>2 DEF PoolStep
<1> QED BY <1>8, <1>9, <1>10

\* No shard was handled.
LEMMA CheckInitInv == CheckInit => CheckInv
<1> SUFFICES ASSUME CheckInit PROVE CheckInv
  OBVIOUS
<1>1. PoolInv
  BY PoolInit DEF CheckInit
<1>2. results = [i \in DOMAIN items |-> results[i]] /\ calls = <<>>
  BY DEF CheckInit, Init
<1>3. SlotsInv
  BY <1>2, NoIndices DEF CheckInit, SlotsInv
<1> QED BY <1>1, <1>2, <1>3 DEF CheckInit, CheckInv, VerdictOfWholeTrace

\* A step of the pool.
LEMMA PoolStepInv ==
    ASSUME CheckInv, PoolStep
    PROVE  CheckInv'
<1>1. PoolInv /\ main # "returned" /\ phase = "map"
  BY Returned DEF CheckInv
<1>2. Caller \/ (\E w \in Workers : Receive(w) \/ Exit(w) \/ Store(w) \/ Call(w))
  BY DEF PoolStep
<1>3. PoolInv' /\ items' = items /\ phase' = phase
  <2>1. Next
    BY <1>2 DEF Next, Goroutine
  <2>2. PoolInv'
    BY <1>1, <2>1, PoolInvStep
  <2>3. items' = items
    BY <1>2 DEF Caller, Start, Send, Close, Await, Receive, Exit, Store, Call
  <2> QED BY <2>2, <2>3 DEF PoolStep, checkVars
<1>4. results' = [i \in DOMAIN items' |-> results'[i]]
  <2>1. results = [i \in DOMAIN items |-> results[i]]
    BY DEF CheckInv
  <2>2. CASE UNCHANGED results
    BY <1>3, <2>1, <2>2
  <2>3. ASSUME NEW w \in Workers, Store(w) PROVE results' = [i \in DOMAIN items' |-> results'[i]]
    <3>1. results' = [results EXCEPT ![worker[w].index] = Mapper(items[worker[w].index])]
      BY <2>3 DEF Store
    <3> QED BY <1>3, <2>1, <3>1
  <2>4. UNCHANGED results \/ \E w \in Workers : Store(w)
    BY <1>2 DEF Caller, Start, Send, Close, Await, Receive, Exit, Call
  <2> QED BY <2>2, <2>3, <2>4
<1>5. SlotsInv'
  <2>1. \A i : SlotOf(i)' = SlotOf(i)
    BY <1>3, SameTrace
  <2>2. slots = [i \in DOMAIN items |-> IF i \in Indices(calls) THEN SlotOf(i) ELSE NoResult]
    BY DEF CheckInv, SlotsInv
  <2>3. CASE UNCHANGED <<calls, slots>>
    BY <1>3, <2>1, <2>2, <2>3 DEF SlotsInv
  <2>4. ASSUME NEW w \in Workers, Call(w), Handle(w)
        PROVE  SlotsInv'
    <3> DEFINE i == worker[w].index
    <3>1. i \in DOMAIN items /\ calls' = Append(calls, i)
      BY <1>1, <2>4, WorkerStates DEF Call, PoolInv
    <3>2. slots' = IF items[i].produced THEN [slots EXCEPT ![i] = ProcessShard(i)] ELSE slots
      BY <2>4 DEF Handle
    <3> HIDE DEF i
    <3>3. Indices(calls') = Indices(calls) \cup {i}
      <4>1. calls \in Seq(DOMAIN items)
        BY <1>1 DEF PoolInv, PoolTypeOK
      <4> QED BY <3>1, <4>1, AppendIndices
    <3>4. SlotOf(i) = IF items[i].produced THEN ProcessShard(i) ELSE NoResult
      BY DEF SlotOf
    <3>5. slots' = [slots EXCEPT ![i] = SlotOf(i)]
      <4>1. CASE items[i].produced
        BY <3>2, <3>4, <4>1
      <4>2. CASE ~items[i].produced
        <5>1. slots[i] = SlotOf(i)
          BY <2>2, <3>1, <3>4, <4>2
        <5>2. slots' = slots /\ slots = [slots EXCEPT ![i] = slots[i]]
          BY <2>2, <3>2, <4>2
        <5> QED BY <5>1, <5>2
      <4> QED BY <4>1, <4>2
    <3>6. slots' = [j \in DOMAIN items |-> IF j \in Indices(calls') THEN SlotOf(j) ELSE NoResult]
      BY <2>2, <3>1, <3>3, <3>5
    <3> QED BY <1>3, <2>1, <3>6 DEF SlotsInv
  <2>5. UNCHANGED <<calls, slots>> \/ \E w \in Workers : Call(w) /\ Handle(w)
    BY DEF PoolStep, Caller, Start, Send, Close, Await, Receive, Exit, Store, checkVars
  <2> QED BY <2>3, <2>4, <2>5
<1> QED BY <1>1, <1>3, <1>4, <1>5 DEF CheckInv, VerdictOfWholeTrace

\* What the pool left stays when it is done.
LEMMA PoolStays ==
    ASSUME CheckInv, UNCHANGED <<vars, slots>>
    PROVE  /\ PoolInv' /\ SlotsInv' /\ results' = [i \in DOMAIN items' |-> results'[i]]
           /\ items' = items /\ main' = main
<1>1. UNCHANGED <<items, main, results, calls, slots>>
  BY DEF vars
<1>2. PoolInv'
  BY PoolInvStep DEF CheckInv
<1>3. SlotsInv'
  <2>1. \A i : SlotOf(i)' = SlotOf(i)
    BY <1>1, SameTrace
  <2>2. slots = [i \in DOMAIN items |-> IF i \in Indices(calls) THEN SlotOf(i) ELSE NoResult]
    BY DEF CheckInv, SlotsInv
  <2> QED BY <1>1, <2>1, <2>2 DEF SlotsInv
<1> QED BY <1>1, <1>2, <1>3 DEF CheckInv

\* All slots are filled once the reduction has begun.
LEMMA SlotsFilled ==
    ASSUME CheckInv, main = "returned"
    PROVE  /\ items \in Seq(Item)
           /\ \A i \in 1 .. Len(items) : slots[i] = SlotOf(i)
<1>1. items \in Seq(Item)
  BY DEF CheckInv, PoolInv, PoolTypeOK
<1>2. Indices(calls) = DOMAIN items /\ DOMAIN items = 1 .. Len(items)
  BY <1>1, Returned, Shards DEF CheckInv
<1>3. slots = [i \in DOMAIN items |-> IF i \in Indices(calls) THEN SlotOf(i) ELSE NoResult]
  BY DEF CheckInv, SlotsInv
<1> QED BY <1>1, <1>2, <1>3

\* The chunk of a worker.
LEMMA ChunkOf ==
    ASSUME items \in Seq(Item), NEW w \in Workers
    PROVE  /\ ChunkStart(w) \in 0 .. Len(items) /\ ChunkEnd(w) \in 0 .. Len(items)
           /\ ChunkStart(w) < ChunkEnd(w) /\ Len(items) \in Nat
<1> DEFINE k == Size(Len(items))
<1>1. k \in Nat /\ Workers = 1 .. k
  BY Chunks
<1>2. k # 0 /\ w \in 0 .. k /\ w - 1 \in 0 .. k /\ w \in 1 .. k
  <2> HIDE DEF k
  <2> QED BY <1>1
<1>3. /\ \A v \in 0 .. k : ChunkEnd(v) \in 0 .. Len(items)
      /\ \A v \in 1 .. k : ChunkStart(v) = ChunkEnd(v - 1) /\ ChunkEnd(v - 1) < ChunkEnd(v)
  BY <1>2, Chunks
<1> HIDE DEF k
<1>4. /\ ChunkEnd(w) \in 0 .. Len(items) /\ ChunkEnd(w - 1) \in 0 .. Len(items)
      /\ ChunkStart(w) = ChunkEnd(w - 1) /\ ChunkEnd(w - 1) < ChunkEnd(w)
  BY <1>2, <1>3
<1> QED BY <1>4, Shards

\* Each worker begins with the first shard of its chunk.
LEMMA StartReduceInv ==
    ASSUME CheckInv, StartReduce
    PROVE  CheckInv'
<1>1. /\ main = "returned" /\ phase' = "reduce" /\ UNCHANGED <<vars, slots>>
      /\ partials' = [w \in Workers |-> slots[ChunkStart(w) + 1]]
      /\ taken' = [w \in Workers |-> ChunkStart(w) + 1]
  BY DEF StartReduce
<1>2. /\ PoolInv' /\ SlotsInv' /\ results' = [i \in DOMAIN items' |-> results'[i]]
      /\ items' = items /\ main' = main
  BY <1>1, PoolStays
<1>3. items \in Seq(Item) /\ \A i \in 1 .. Len(items) : slots[i] = SlotOf(i)
  BY <1>1, SlotsFilled
<1>4. ASSUME NEW w \in Workers
      PROVE  /\ taken'[w] \in ChunkStart(w) + 1 .. ChunkEnd(w)
             /\ Reduces(partials'[w], ChunkStart(w), taken'[w])
  <2> DEFINE a == ChunkStart(w)
             i == a + 1
  <2>1. /\ a \in 0 .. Len(items) /\ ChunkEnd(w) \in 0 .. Len(items)
        /\ a < ChunkEnd(w) /\ Len(items) \in Nat
    BY <1>3, ChunkOf
  <2> HIDE DEF a
  <2>2. i \in 1 .. Len(items) /\ i - 1 = a /\ i \in a + 1 .. ChunkEnd(w)
    BY <2>1
  <2>3. taken'[w] = i /\ partials'[w] = slots[i]
    BY <1>1 DEF a
  <2> HIDE DEF i
  <2>4. Reduces(SlotOf(i), i - 1, i)
    BY <1>3, <2>2, SlotReduces
  <2>5. slots[i] = SlotOf(i)
    BY <1>3, <2>2
  <2>6. taken'[w] \in a + 1 .. ChunkEnd(w) /\ Reduces(partials'[w], a, taken'[w])
    BY <2>2, <2>3, <2>4, <2>5
  <2> QED BY <2>6 DEF a
<1>5. ReduceInv'
  <2>1. /\ \A r, a, b : Reduces(r, a, b)' <=> Reduces(r, a, b)
        /\ Workers' = Workers
        /\ \A w : ChunkEnd(w)' = ChunkEnd(w) /\ ChunkStart(w)' = ChunkStart(w)
    BY <1>2, SameTrace
  <2>2. DOMAIN partials' = Workers /\ DOMAIN taken' = Workers
    BY <1>1
  <2> QED BY <1>4, <2>1, <2>2 DEF ReduceInv
<1> QED BY <1>1, <1>2, <1>5 DEF CheckInv, VerdictOfWholeTrace

\* And goes on with the next (map.go, ParallelReduce).
LEMMA ReduceOneInv ==
    ASSUME CheckInv, NEW w \in Workers, ReduceOne(w)
    PROVE  CheckInv'
<1>1. /\ phase = "reduce" /\ phase' = "reduce" /\ UNCHANGED <<vars, slots>>
      /\ taken[w] < ChunkEnd(w)
      /\ partials' = [partials EXCEPT ![w] = Reducer(partials[w], slots[taken[w] + 1])]
      /\ taken' = [taken EXCEPT ![w] = taken[w] + 1]
  BY DEF ReduceOne
<1>2. /\ PoolInv' /\ SlotsInv' /\ results' = [i \in DOMAIN items' |-> results'[i]]
      /\ items' = items /\ main' = main
  BY <1>1, PoolStays
<1>3. main = "returned" /\ ReduceInv
  BY <1>1 DEF CheckInv
<1>4. items \in Seq(Item) /\ \A i \in 1 .. Len(items) : slots[i] = SlotOf(i)
  BY <1>3, SlotsFilled
<1>5. /\ taken'[w] \in ChunkStart(w) + 1 .. ChunkEnd(w)
      /\ Reduces(partials'[w], ChunkStart(w), taken'[w])
  <2> DEFINE a == ChunkStart(w)
             e == ChunkEnd(w)
             b == taken[w]
             i == b + 1
             l == partials[w]
  <2>1. a \in 0 .. Len(items) /\ e \in 0 .. Len(items) /\ a < e /\ Len(items) \in Nat
    BY <1>4, ChunkOf
  <2>2. b \in a + 1 .. e /\ b < e /\ Reduces(l, a, b)
    BY <1>1, <1>3 DEF ReduceInv
  <2>3. taken'[w] = i /\ partials'[w] = Reducer(l, slots[i])
    BY <1>1, <1>3 DEF ReduceInv
  <2> HIDE DEF a, e, b, l
  <2>4. /\ i \in 1 .. Len(items) /\ i - 1 = b /\ i \in a + 1 .. e /\ b \in 0 .. Len(items)
        /\ i \in 0 .. Len(items) /\ a =< b /\ b =< i
    BY <2>1, <2>2
  <2> HIDE DEF i
  <2> DEFINE r == slots[i]
  <2>5. Reduces(SlotOf(i), i - 1, i)
    BY <1>4, <2>4, SlotReduces
  <2>6. Reduces(r, b, i)
    BY <1>4, <2>4, <2>5
  <2> HIDE DEF r
  <2>7. Reduces(Reducer(l, r), a, i)
    BY <1>4, <2>1, <2>2, <2>4, <2>6, ReducerReduces
  <2>8. taken'[w] \in a + 1 .. e /\ Reduces(partials'[w], a, taken'[w])
    BY <2>3, <2>4, <2>7 DEF r
  <2> QED BY <2>8 DEF a, e
<1>6. \A v \in Workers : v # w => partials'[v] = partials[v] /\ taken'[v] = taken[v]
  BY <1>1, <1>3 DEF ReduceInv
<1>7. \A v \in Workers : /\ taken'[v] \in ChunkStart(v) + 1 .. ChunkEnd(v)
                         /\ Reduces(partials'[v], ChunkStart(v), taken'[v])
  <2> TAKE v \in Workers
  <2>1. CASE v = w
    BY <1>5, <2>1
  <2>2. CASE v # w
    BY <1>3, <1>6, <2>2 DEF ReduceInv
  <2> QED BY <2>1, <2>2
<1>8. ReduceInv'
  <2>1. /\ \A r, a, b : Reduces(r, a, b)' <=> Reduces(r, a, b)
        /\ Workers' = Workers
        /\ \A v : ChunkEnd(v)' = ChunkEnd(v) /\ ChunkStart(v)' = ChunkStart(v)
    BY <1>2, SameTrace
  <2>2. DOMAIN partials' = Workers /\ DOMAIN taken' = Workers
    BY <1>1, <1>3 DEF ReduceInv
  <2> QED BY <1>7, <2>1, <2>2 DEF ReduceInv
<1> QED BY <1>1, <1>2, <1>3, <1>8 DEF CheckInv, VerdictOfWholeTrace

\* The result of the whole trace is finalised (checker.go, CheckLazy).
LEMMA FinaliseInv ==
    ASSUME CheckInv, Finalise
    PROVE  CheckInv'
<1> DEFINE r == Combine
           entry == [unbalanced |-> IF r.state = Absent THEN {}
                                    ELSE {m \in DOMAIN r.state : r.state[m] # 0},
                     failures   |-> r.failures,
                     errors     |-> FlattenSeq(results) \o r.errors]
<1>1. /\ phase = "reduce" /\ \A w \in Workers : taken[w] = ChunkEnd(w)
      /\ UNCHANGED <<vars, slots>>
      /\ IF r.state = NoTally
         THEN phase' = "crashed" /\ UNCHANGED verdict
         ELSE phase' = "checked" /\ verdict' = entry
  BY DEF Finalise
<1>2. /\ PoolInv' /\ SlotsInv' /\ results' = [i \in DOMAIN items' |-> results'[i]]
      /\ items' = items /\ main' = main
  BY <1>1, PoolStays
<1>3. main = "returned" /\ ReduceInv
  BY <1>1 DEF CheckInv
<1>4. items \in Seq(Item)
  BY <1>3, SlotsFilled
<1>5. results = [i \in DOMAIN items |-> items[i].errors]
  BY <1>3, Returned DEF CheckInv
<1>6. Reduces(r, 0, Len(items))
  <2>1. \A w \in Workers : Reduces(partials[w], ChunkStart(w), ChunkEnd(w))
    BY <1>1, <1>3 DEF ReduceInv
  <2> QED BY <1>4, <2>1, CombineReduces
<1> HIDE DEF r
<1>7. /\ r.state = NoTally => Produced # {} /\ Tallied = {}
      /\ r.state # NoTally =>
            (IF r.state = Absent THEN {} ELSE {m \in DOMAIN r.state : r.state[m] # 0})
               = {m \in Message : Net(m) # 0}
      /\ r.failures = InOrder({i \in Produced : items[i].fails})
      /\ r.errors = [k \in 1 .. Cardinality(Produced \ Tallied) |->
                       [panic |-> InOrder(Produced \ Tallied)[k]]]
  BY <1>4, <1>6, WholeTrace
<1>8. /\ phase' = "crashed" => Produced # {} /\ Tallied = {}
      /\ phase' = "checked" => verdict' =
            [unbalanced |-> {m \in Message : Net(m) # 0},
             failures   |-> InOrder({i \in Produced : items[i].fails}),
             errors     |-> FlattenSeq([i \in DOMAIN items |-> items[i].errors])
                              \o [k \in 1 .. Cardinality(Produced \ Tallied) |->
                                   [panic |-> InOrder(Produced \ Tallied)[k]]]]
  <2>1. CASE r.state = NoTally
    BY <1>1, <1>7, <2>1
  <2>2. CASE r.state # NoTally
    <3>1. phase' = "checked" /\ verdict' = entry
      BY <1>1, <2>2
    <3>2. entry = [unbalanced |-> {m \in Message : Net(m) # 0},
                   failures   |-> InOrder({i \in Produced : items[i].fails}),
                   errors     |-> FlattenSeq([i \in DOMAIN items |-> items[i].errors])
                                    \o [k \in 1 .. Cardinality(Produced \ Tallied) |->
                                         [panic |-> InOrder(Produced \ Tallied)[k]]]]
      BY <1>5, <1>7, <2>2, Zenon
    <3> QED BY <3>1, <3>2
  <2> QED BY <2>1, <2>2
<1>9. VerdictOfWholeTrace'
  <2>1. /\ Produced' = Produced /\ Tallied' = Tallied
        /\ \A m : Balance(m)' = Balance(m)
    BY <1>2, SameTrace
  <2>2. \A m : Net(m)' = Net(m)
    BY <1>2, <2>1 DEF Net
  <2> QED BY <1>2, <1>8, <2>1, <2>2, Zenon DEF VerdictOfWholeTrace
<1>10. phase' # "map" /\ phase' # "reduce" /\ main' = "returned"
  BY <1>1, <1>2, <1>3
<1> QED BY <1>2, <1>9, <1>10 DEF CheckInv

\* What CheckLazy returns is a property of the trace: whatever the schedule of
\* the workers and the chunks they reduce, it is the failures and the errors of
\* all shards in their order, and the messages that do not balance over all of
\* them (trace/trace.go, Apply; checker.go, CheckLazy).
THEOREM VerdictIsOfTheTrace == CheckSpec => []VerdictOfWholeTrace
<1>1. CheckInit => CheckInv
  BY CheckInitInv
<1>2. CheckInv /\ [CheckNext]_allVars => CheckInv'
  <2> SUFFICES ASSUME CheckInv, [CheckNext]_allVars PROVE CheckInv'
    OBVIOUS
  <2>1. CASE PoolStep
    BY <2>1, PoolStepInv
  <2>2. CASE StartReduce
    BY <2>2, StartReduceInv
  <2>3. CASE Finalise
    BY <2>3, FinaliseInv
  <2>4. ASSUME NEW w \in Workers, ReduceOne(w) PROVE CheckInv'
    BY <2>4, ReduceOneInv
  <2>5. CASE UNCHANGED allVars
    <3>1. UNCHANGED <<vars, slots>> /\ UNCHANGED <<phase, partials, taken, verdict>>
      BY <2>5 DEF allVars, checkVars
    <3>2. /\ PoolInv' /\ SlotsInv' /\ results' = [i \in DOMAIN items' |-> results'[i]]
          /\ items' = items /\ main' = main
      BY <3>1, PoolStays
    <3>3. /\ \A r, a, b : Reduces(r, a, b)' <=> Reduces(r, a, b)
          /\ Workers' = Workers
          /\ \A w : ChunkEnd(w)' = ChunkEnd(w) /\ ChunkStart(w)' = ChunkStart(w)
          /\ Produced' = Produced /\ Tallied' = Tallied
          /\ \A m : Balance(m)' = Balance(m)
      BY <3>2, SameTrace
    <3>4. ReduceInv => ReduceInv'
      BY <3>1, <3>3 DEF ReduceInv
    <3>5. \A m : Net(m)' = Net(m)
      BY <3>2, <3>3 DEF Net
    <3>6. VerdictOfWholeTrace'
      <4>1. VerdictOfWholeTrace
        BY DEF CheckInv
      <4> QED BY <3>1, <3>2, <3>3, <3>5, <4>1, Zenon DEF VerdictOfWholeTrace
    <3> QED BY <3>1, <3>2, <3>4, <3>6 DEF CheckInv
  <2> QED BY <2>1, <2>2, <2>3, <2>4, <2>5 DEF CheckNext, ReduceStep
<1>3. CheckInv => VerdictOfWholeTrace
  BY DEF CheckInv
<1> QED BY <1>1, <1>2, <1>3, PTL DEF CheckSpec
=============================================================================
