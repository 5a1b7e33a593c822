----------------------------- MODULE Replay_proofs ---------------------------
(***************************************************************************)
(* Proofs that the shards of an execution replay it (ShardsReplayExecution *)
(* and FailureIsTraced), for every program whose shard function has a      *)
(* plain entry (EntryIsPlain: it ends no vector, and no loop starts there),*)
(* any inputs, and any number of shards.                                   *)
(*                                                                         *)
(* All machines are compared with one reference execution: RefStep, of a   *)
(* machine that neither traces nor remembers a call, records a row at      *)
(* every breakpoint and counts the entries of the shard function.  A       *)
(* machine is Beside it, from the state a where it started up to t, if it  *)
(* is Alike t above what a had, with the same memories and a log that t    *)
(* has after that of a.                                                    *)
(*                                                                         *)
(* A step of a machine is one of the reference execution, but for a call   *)
(* that is answered from the cache: that is as many steps as it takes the  *)
(* reference execution to return from it.  ReplayInv is why it returns the *)
(* same: what is in the cache (Replays), and every call in progress        *)
(* (InProgress), can be executed from any state with at least the present  *)
(* output, to no effect but its returns and rows that the machine has      *)
(* already.  A shard starts with the output of the end of the execution,   *)
(* in which whatever it writes is found written: hence Outputs.            *)
(*                                                                         *)
(* The fast machine cuts the reference execution at its checkpoints (Cut), *)
(* where shards start; that each stops at the next cut is a matter of      *)
(* counting (Ticking, Counted), because the execution passes the entry of  *)
(* the shard function once at each count (SameEntry).  ReplayTrack, which  *)
(* says all this of the machines of Sharding, is inductive, and the end of *)
(* this module draws the conclusions.                                      *)
(***************************************************************************)
EXTENDS Sharding_proofs

-----------------------------------------------------------------------------
\* The reference execution: of a machine that neither traces nor remembers,
\* with a row at every breakpoint and a count of the entries of the shard
\* function.

RowOf(m, opcode) ==
    [fid |-> m.fid, pc |-> m.pc, frame |-> Frame(m), terminal |-> opcode \in FrameTerminals]

Noted(s) ==
    IF s.pc \in TracePoints THEN Append(s.rows, RowOf(s, Code[s.pc].op)) ELSE s.rows

Seen(s) ==
    [s EXCEPT !.rows = Noted(s), !.count = IF s.pc = EntryPoint THEN s.count + 1 ELSE s.count]

RefStep(s) ==
    LET n == Dispatch(Seen(s))
    IN  [n EXCEPT !.rows = IF n.status = "failed" THEN Append(n.rows, RowOf(n, "none")) ELSE n.rows]

RefInv(s) ==
    /\ Typed(s) /\ "count" \in DOMAIN s /\ s.count \in Nat /\ IsSeq(s.rows)
    /\ s.status = "running" /\ s.pc = EntryPoint => FreshFrame(s)

\* What a later state has of an earlier one.
Later(s, t) ==
    /\ RefInv(t) /\ t.mem.rom = s.mem.rom /\ Extends(s.mem.wom, t.mem.wom)
    /\ s.count =< t.count

\* The fields that a handler leaves alone.
LEMMA HandledFields ==
    ASSUME NEW m, NEW n, MachineFields \subseteq DOMAIN m, Handled(m, n)
    PROVE  /\ DOMAIN n = DOMAIN m
           /\ n.fid = m.fid /\ n.pc = m.pc /\ n.fp = m.fp /\ n.rp = m.rp /\ n.rw = m.rw
           /\ n.stack = m.stack /\ n.calls = m.calls /\ n.cache = m.cache
           /\ n.tracing = m.tracing /\ n.breakpointer = m.breakpointer
           /\ n.mem = m.mem /\ n.log = m.log
BY DEF Handled, MachineFields

\* A handler does not make a machine misbehave.
LEMMA HandledBehaved ==
    ASSUME NEW m, NEW n, WellBehaved(m), Handled(m, n)
    PROVE  WellBehaved(n)
<1>1. MachineInv(m) /\ MachineFields \subseteq DOMAIN m
  BY DEF WellBehaved, MachineInv
<1>2. MachineInv(n)
  BY <1>1, HandledFrames
<1>3. n.pc = m.pc /\ n.fid = m.fid
  BY <1>1, HandledFields
<1> QED BY <1>2, <1>3 DEF WellBehaved, Returning

\* A handler leaves such a machine as it is.
LEMMA HandledTyped ==
    ASSUME NEW m, NEW n, Typed(m), Handled(m, n)
    PROVE  Typed(n)
<1>1. WellBehaved(m) /\ MachineFields \subseteq DOMAIN m
  BY DEF Typed, WellBehaved, MachineInv
<1>2. WellBehaved(n)
  BY <1>1, HandledBehaved
<1>3. /\ n.stack = m.stack /\ n.cache = m.cache /\ n.tracing = m.tracing
      /\ n.mem = m.mem /\ n.log = m.log
  BY <1>1, HandledFields
<1> QED BY <1>2, <1>3 DEF Typed

\* The breakpoint of the reference execution.
LEMMA SeenFields ==
    ASSUME NEW s, RefInv(s)
    PROVE  LET x == Seen(s)
           IN  /\ Handled(s, x) /\ Typed(x) /\ x.status = s.status
               /\ x.rows = Noted(s) /\ IsSeq(x.rows)
               /\ x.count = (IF s.pc = EntryPoint THEN s.count + 1 ELSE s.count)
               /\ x.count \in Nat
<1> DEFINE x == Seen(s)
           c == IF s.pc = EntryPoint THEN s.count + 1 ELSE s.count
<1>1. /\ MachineFields \subseteq DOMAIN s /\ "count" \in DOMAIN s /\ s.count \in Nat /\ IsSeq(s.rows)
      /\ Typed(s)
  BY DEF RefInv, Typed, WellBehaved, MachineInv
<1>2. c \in Nat
  BY <1>1
<1>3. IsSeq(Noted(s))
  BY <1>1, Appended DEF Noted
<1>4. x = [s EXCEPT !.rows = Noted(s), !.count = c]
  BY DEF Seen
<1> HIDE DEF x, c
<1>5. /\ Handled(s, x) /\ x.status = s.status /\ x.rows = Noted(s) /\ x.count = c
  BY <1>1, <1>4 DEF Handled, MachineFields
<1>6. Typed(x)
  BY <1>1, <1>5, HandledTyped
<1> QED BY <1>2, <1>3, <1>5, <1>6 DEF x, c

\* A step of the reference execution.
LEMMA RefStepFields ==
    ASSUME NEW s, RefInv(s)
    PROVE  LET n == Dispatch(Seen(s))
               t == RefStep(s)
           IN  /\ Typed(n) /\ Handled(n, t) /\ Typed(t) /\ t.status = n.status
               /\ t.rows = (IF n.status = "failed" THEN Append(Noted(s), RowOf(n, "none")) ELSE Noted(s))
               /\ IsSeq(t.rows) /\ "count" \in DOMAIN t
               /\ t.count = (IF s.pc = EntryPoint THEN s.count + 1 ELSE s.count)
<1> DEFINE x == Seen(s)
           n == Dispatch(x)
           t == RefStep(s)
           rows == IF n.status = "failed" THEN Append(Noted(s), RowOf(n, "none")) ELSE Noted(s)
           c == IF s.pc = EntryPoint THEN s.count + 1 ELSE s.count
<1>1. /\ Handled(s, x) /\ Typed(x) /\ x.rows = Noted(s) /\ IsSeq(x.rows) /\ x.count = c
  BY SeenFields
<1>2. "count" \in DOMAIN x
  BY <1>1 DEF Handled, RefInv
<1>3. Typed(n)
  BY <1>1, TypedStep
<1>4. DOMAIN n = DOMAIN x /\ n.rows = x.rows /\ n.count = x.count
  BY <1>1, <1>2, RestKept DEF Typed
<1>5. t = [n EXCEPT !.rows = IF n.status = "failed" THEN Append(n.rows, RowOf(n, "none")) ELSE n.rows]
  BY DEF RefStep
<1>6. MachineFields \subseteq DOMAIN n
  BY <1>3 DEF Typed, WellBehaved, MachineInv
<1> HIDE DEF x, n, t, c
<1>7. t = [n EXCEPT !.rows = rows]
  BY <1>1, <1>4, <1>5
<1>8. IsSeq(rows)
  BY <1>1, Appended
<1> HIDE DEF rows
<1>9. Handled(n, t) /\ t.status = n.status /\ t.rows = rows /\ t.count = n.count /\ DOMAIN t = DOMAIN n
  BY <1>6, <1>7 DEF Handled, MachineFields
<1>10. Typed(t)
  BY <1>3, <1>9, HandledTyped
<1>11. "count" \in DOMAIN t /\ t.count = c
  BY <1>1, <1>2, <1>4, <1>9
<1> QED BY <1>3, <1>8, <1>9, <1>10, <1>11 DEF x, n, t, rows, c

\* It keeps what is known of the reference execution, and is later.
LEMMA RefStepLater ==
    ASSUME EntryIsPlain, NEW s, RefInv(s)
    PROVE  /\ Later(s, RefStep(s))
           /\ s.pc = EntryPoint => RefStep(s).count = s.count + 1
<1> DEFINE x == Seen(s)
           n == Dispatch(x)
           t == RefStep(s)
<1>1. Handled(s, x) /\ Typed(x) /\ MachineFields \subseteq DOMAIN s /\ s.count \in Nat
  BY SeenFields DEF RefInv, Typed, WellBehaved, MachineInv
<1>2. /\ Typed(n) /\ Handled(n, t) /\ Typed(t) /\ t.status = n.status
      /\ IsSeq(t.rows) /\ "count" \in DOMAIN t
      /\ t.count = (IF s.pc = EntryPoint THEN s.count + 1 ELSE s.count)
  BY RefStepFields
<1>3. x.mem = s.mem
  BY <1>1, HandledFields
<1>4. n.mem.rom = x.mem.rom /\ Extends(x.mem.wom, n.mem.wom)
  BY <1>1, MemStep
<1>5. MachineFields \subseteq DOMAIN n
  BY <1>2 DEF Typed, WellBehaved, MachineInv
<1>6. t.status = "running" /\ t.pc = EntryPoint => FreshFrame(t)
  <2> SUFFICES ASSUME t.status = "running", t.pc = EntryPoint PROVE FreshFrame(t)
    OBVIOUS
  <2>1. n.status = "running" /\ n.pc = EntryPoint /\ n.fid = t.fid /\ n.fp = t.fp /\ n.stack = t.stack
    <3> HIDE DEF n, t
    <3> QED BY <1>2, <1>5, HandledFields
  <2>2. Code[x.pc].op = "tail" /\ MachineInv(x)
    BY <1>1, <2>1, ArrivesByTail DEF Typed, WellBehaved
  <2>3. FreshFrame(n)
    BY <2>2, TailFrame
  <2> HIDE DEF n, t
  <2> QED BY <2>1, <2>3 DEF FreshFrame
<1> HIDE DEF x, n, t
<1>7. t.mem = n.mem
  BY <1>2, <1>5, HandledFields
<1>8. t.count \in Nat /\ s.count =< t.count /\ (s.pc = EntryPoint => t.count = s.count + 1)
  BY <1>1, <1>2
<1>9. RefInv(t)
  BY <1>2, <1>6, <1>8 DEF RefInv
<1>10. Later(s, t)
  BY <1>3, <1>4, <1>7, <1>8, <1>9 DEF Later
<1> QED BY <1>8, <1>10 DEF t

\* A state is not earlier than itself.
LEMMA LaterItself ==
    ASSUME NEW s, RefInv(s)
    PROVE  Later(s, s)
<1>1. IsSeq(s.mem.wom) /\ s.count \in Nat
  BY DEF RefInv, Typed, MemTyped
<1>2. Extends(s.mem.wom, s.mem.wom)
  BY <1>1, ExtendsItself
<1> QED BY <1>1, <1>2 DEF Later

\* What is later than a later state is later.
LEMMA LaterFurther ==
    ASSUME NEW s, NEW t, NEW u, RefInv(s), Later(s, t), Later(t, u)
    PROVE  Later(s, u)
<1>1. /\ IsSeq(s.mem.wom) /\ s.count \in Nat /\ IsSeq(t.mem.wom) /\ t.count \in Nat
      /\ IsSeq(u.mem.wom) /\ u.count \in Nat
  BY DEF Later, RefInv, Typed, MemTyped
<1>2. Extends(s.mem.wom, u.mem.wom)
  BY <1>1, ExtendsFurther DEF Later
<1>3. s.count =< u.count
  <2>1. s.count =< t.count /\ t.count =< u.count
    BY DEF Later
  <2> QED BY <1>1, <2>1
<1> QED BY <1>2, <1>3 DEF Later

-----------------------------------------------------------------------------
\* What the reference execution reaches.

\* The states from s to t.
IsPath(p, n, s, t) ==
    /\ n \in Nat /\ p[0] = s /\ p[n] = t
    /\ \A i \in 1 .. n : p[i - 1].status = "running" /\ p[i] = RefStep(p[i - 1])

Reaches(s, t) == \E n, p : IsPath(p, n, s, t)

\* An execution reaches the state it is in.
LEMMA ReachesItself == ASSUME NEW s PROVE Reaches(s, s)
<1> DEFINE p == [i \in {0} |-> s]
<1>1. p[0] = s
  OBVIOUS
<1> HIDE DEF p
<1>2. IsPath(p, 0, s, s)
  BY <1>1 DEF IsPath
<1> QED BY <1>2 DEF Reaches

\* It reaches the next one.
LEMMA ReachesNext == ASSUME NEW s, s.status = "running" PROVE Reaches(s, RefStep(s))
<1> DEFINE t == RefStep(s)
           p == [i \in 0 .. 1 |-> IF i = 0 THEN s ELSE t]
<1>1. p[0] = s /\ p[1] = t
  OBVIOUS
<1> HIDE DEF p, t
<1>2. ASSUME NEW i \in 1 .. 1 PROVE p[i - 1].status = "running" /\ p[i] = RefStep(p[i - 1])
  <2>1. i = 1 /\ i - 1 = 0
    OBVIOUS
  <2> QED BY <1>1, <2>1 DEF t
<1>3. IsPath(p, 1, s, t)
  BY <1>1, <1>2 DEF IsPath
<1> QED BY <1>3 DEF Reaches, t

\* One path after another.
LEMMA ReachesFurther ==
    ASSUME NEW s, NEW t, NEW u, Reaches(s, t), Reaches(t, u)
    PROVE  Reaches(s, u)
<1>1. PICK n, p : IsPath(p, n, s, t)
  BY DEF Reaches
<1>2. PICK k, q : IsPath(q, k, t, u)
  BY DEF Reaches
<1>3. n \in Nat /\ k \in Nat
  BY <1>1, <1>2 DEF IsPath
<1> DEFINE r == [i \in 0 .. (n + k) |-> IF i =< n THEN p[i] ELSE q[i - n]]
<1>4. \A i \in 0 .. n : r[i] = p[i]
  BY <1>3
<1>5. \A i \in 0 .. k : r[n + i] = q[i]
  <2> TAKE i \in 0 .. k
  <2>1. CASE i = 0
    <3>1. n + i = n /\ n \in 0 .. n
      BY <1>3, <2>1
    <3>2. p[n] = q[0]
      BY <1>1, <1>2 DEF IsPath
    <3> HIDE DEF r
    <3> QED BY <1>4, <2>1, <3>1, <3>2
  <2>2. CASE i # 0
    <3>1. n + i \in 0 .. (n + k) /\ ~ (n + i =< n) /\ (n + i) - n = i
      BY <1>3, <2>2
    <3>2. r[n + i] = q[(n + i) - n]
      BY <3>1
    <3> HIDE DEF r
    <3> QED BY <3>1, <3>2
  <2> QED BY <2>1, <2>2
<1> HIDE DEF r
<1>6. ASSUME NEW i \in 1 .. (n + k) PROVE r[i - 1].status = "running" /\ r[i] = RefStep(r[i - 1])
  <2>1. CASE i =< n
    <3>1. i \in 0 .. n /\ i - 1 \in 0 .. n /\ i \in 1 .. n
      BY <1>3, <2>1
    <3>2. r[i] = p[i] /\ r[i - 1] = p[i - 1]
      BY <1>4, <3>1
    <3> QED BY <1>1, <3>1, <3>2 DEF IsPath
  <2>2. CASE ~ (i =< n)
    <3> DEFINE j == i - n
    <3>1. j \in 0 .. k /\ j - 1 \in 0 .. k /\ j \in 1 .. k /\ n + j = i /\ n + (j - 1) = i - 1
      BY <1>3, <2>2
    <3> HIDE DEF j
    <3>2. r[n + j] = q[j] /\ r[n + (j - 1)] = q[j - 1]
      BY <1>5, <3>1
    <3>3. r[i] = q[j] /\ r[i - 1] = q[j - 1]
      BY <3>1, <3>2
    <3> QED BY <1>2, <3>1, <3>3 DEF IsPath
  <2> QED BY <2>1, <2>2
<1>7. n + k \in Nat /\ 0 \in 0 .. n /\ k \in 0 .. k
  BY <1>3
<1>8. r[0] = s
  BY <1>1, <1>4, <1>7 DEF IsPath
<1>9. r[n + k] = u
  BY <1>2, <1>5, <1>7 DEF IsPath
<1>10. IsPath(r, n + k, s, u)
  BY <1>6, <1>7, <1>8, <1>9 DEF IsPath
<1> QED BY <1>10 DEF Reaches

\* The rest of a path.
LEMMA RestOfPath ==
    ASSUME NEW s, NEW t, NEW n, NEW p, IsPath(p, n, s, t), NEW k \in 0 .. n
    PROVE  Reaches(p[k], t)
<1>1. n \in Nat
  BY DEF IsPath
<1> DEFINE q == [i \in 0 .. (n - k) |-> p[k + i]]
<1>2. n - k \in Nat /\ k + (n - k) = n /\ k + 0 = k /\ k \in Nat
  BY <1>1
<1>3. \A i \in 0 .. (n - k) : q[i] = p[k + i]
  OBVIOUS
<1> HIDE DEF q
<1>4. q[0] = p[k] /\ q[n - k] = p[n]
  <2>1. 0 \in 0 .. (n - k) /\ n - k \in 0 .. (n - k)
    BY <1>2
  <2>2. q[0] = p[k + 0] /\ q[n - k] = p[k + (n - k)]
    BY <1>3, <2>1
  <2> QED BY <1>2, <2>2
<1>5. ASSUME NEW i \in 1 .. (n - k) PROVE q[i - 1].status = "running" /\ q[i] = RefStep(q[i - 1])
  <2>1. /\ i \in 0 .. (n - k) /\ i - 1 \in 0 .. (n - k) /\ k + i \in 1 .. n
        /\ k + (i - 1) = (k + i) - 1
    BY <1>2
  <2>2. q[i] = p[k + i] /\ q[i - 1] = p[k + (i - 1)]
    BY <1>3, <2>1
  <2>3. q[i - 1] = p[(k + i) - 1]
    BY <2>1, <2>2
  <2>4. p[(k + i) - 1].status = "running" /\ p[k + i] = RefStep(p[(k + i) - 1])
    BY <2>1 DEF IsPath
  <2> QED BY <2>2, <2>3, <2>4
<1>6. p[n] = t
  BY DEF IsPath
<1>7. IsPath(q, n - k, p[k], t)
  BY <1>2, <1>4, <1>5, <1>6 DEF IsPath
<1> QED BY <1>7 DEF Reaches

\* There is one execution: of what it reaches, one reaches the other.
LEMMA SamePath ==
    ASSUME NEW s, NEW t, NEW u, NEW n, NEW p, NEW k, NEW q,
           IsPath(p, n, s, t), IsPath(q, k, s, u), n =< k
    PROVE  Reaches(t, u)
<1>1. n \in Nat /\ k \in Nat
  BY DEF IsPath
<1> DEFINE T == {i \in 0 .. n : p[i] = q[i]}
<1>2. 0 \in T
  BY <1>1 DEF IsPath
<1>3. ASSUME NEW i \in 1 .. n, i - 1 \in T PROVE i \in T
  <2>1. i \in 1 .. k /\ p[i - 1] = q[i - 1] /\ i \in 0 .. n
    BY <1>1, <1>3
  <2>2. p[i] = RefStep(p[i - 1]) /\ q[i] = RefStep(q[i - 1])
    BY <2>1 DEF IsPath
  <2> QED BY <2>1, <2>2
<1>4. 0 .. n \subseteq T
  <2> HIDE DEF T
  <2> QED BY <1>1, <1>2, <1>3, UpTo
<1>5. p[n] = q[n] /\ n \in 0 .. k
  BY <1>1, <1>4
<1>6. Reaches(q[n], u)
  BY <1>5, RestOfPath
<1>7. q[n] = t
  BY <1>5 DEF IsPath
<1> QED BY <1>6, <1>7

\* Of two states that are reached from one, one reaches the other.
LEMMA EitherReaches ==
    ASSUME NEW s, NEW t, NEW u, Reaches(s, t), Reaches(s, u)
    PROVE  Reaches(t, u) \/ Reaches(u, t)
<1>1. PICK n, p : IsPath(p, n, s, t)
  BY DEF Reaches
<1>2. PICK k, q : IsPath(q, k, s, u)
  BY DEF Reaches
<1>3. n \in Nat /\ k \in Nat
  BY <1>1, <1>2 DEF IsPath
<1>4. n =< k \/ k =< n
  BY <1>3
<1> QED BY <1>1, <1>2, <1>4, SamePath

\* The first step of an execution.
LEMMA FirstStep ==
    ASSUME NEW s, NEW t, Reaches(s, t)
    PROVE  s = t \/ (s.status = "running" /\ Reaches(RefStep(s), t))
<1>1. PICK n, p : IsPath(p, n, s, t)
  BY DEF Reaches
<1>2. n \in Nat /\ p[0] = s /\ p[n] = t
  BY <1>1 DEF IsPath
<1>3. CASE n = 0
  BY <1>2, <1>3
<1>4. CASE n # 0
  <2>1. 1 \in 1 .. n /\ 1 \in 0 .. n /\ 1 - 1 = 0
    BY <1>2, <1>4
  <2>2. p[1 - 1].status = "running" /\ p[1] = RefStep(p[1 - 1])
    BY <1>1, <2>1 DEF IsPath
  <2>3. Reaches(p[1], t)
    BY <1>1, <2>1, RestOfPath
  <2> QED BY <1>2, <2>1, <2>2, <2>3
<1> QED BY <1>3, <1>4

\* What is reached is later.
LEMMA ReachesLater ==
    ASSUME EntryIsPlain, NEW s, NEW t, RefInv(s), Reaches(s, t)
    PROVE  Later(s, t)
<1>1. PICK n, p : IsPath(p, n, s, t)
  BY DEF Reaches
<1>2. n \in Nat /\ p[0] = s /\ p[n] = t
  BY <1>1 DEF IsPath
<1> DEFINE T == {i \in 0 .. n : Later(s, p[i])}
<1>3. 0 \in T
  BY <1>2, LaterItself
<1>4. ASSUME NEW i \in 1 .. n, i - 1 \in T PROVE i \in T
  <2>1. Later(s, p[i - 1]) /\ i \in 0 .. n
    BY <1>2, <1>4
  <2>2. p[i] = RefStep(p[i - 1])
    BY <1>1 DEF IsPath
  <2>3. RefInv(p[i - 1])
    BY <2>1 DEF Later
  <2>4. Later(p[i - 1], p[i])
    BY <2>2, <2>3, RefStepLater
  <2>5. Later(s, p[i])
    BY <2>1, <2>4, LaterFurther
  <2> QED BY <2>1, <2>5
<1>5. 0 .. n \subseteq T
  <2> HIDE DEF T
  <2> QED BY <1>2, <1>3, <1>4, UpTo
<1> QED BY <1>2, <1>5

\* After an entry of the shard function it has been counted.
LEMMA CountedPast ==
    ASSUME EntryIsPlain, NEW s, NEW t, RefInv(s), Reaches(s, t), s.pc = EntryPoint, s # t
    PROVE  s.count + 1 =< t.count
<1>1. Reaches(RefStep(s), t)
  BY FirstStep
<1>2. RefInv(RefStep(s)) /\ RefStep(s).count = s.count + 1
  BY RefStepLater DEF Later
<1>3. Later(RefStep(s), t)
  BY <1>1, <1>2, ReachesLater
<1> QED BY <1>2, <1>3 DEF Later

-----------------------------------------------------------------------------
\* Rows.

\* The rows of functions that declare effects, of those in s.
StepsOf(s) ==
    LET upTo[n \in 0 .. Len(s)] ==
            IF n = 0 THEN <<>>
            ELSE IF s[n].fid \in Effectless THEN upTo[n - 1]
            ELSE Append(upTo[n - 1], s[n])
    IN  upTo[Len(s)]

\* These are the rows that the shards are compared by.
LEMMA StepRowsOf == \A m : StepRows(m) = StepsOf(m.rows)
BY DEF StepRows, StepsOf

Kept(x, row) == IF row.fid \in Effectless THEN x ELSE Append(x, row)

\* The rows kept of the first i of s, for every i.
KeptUpTo(u, s) == u[0] = <<>> /\ \A i \in 1 .. Len(s) : u[i] = Kept(u[i - 1], s[i])

\* There is a sequence of nothing.
LEMMA NoElements == IsSeq(<<>>) /\ Len(<<>>) = 0
BY EmptySeq DEF IsSeq

\* The rows that are kept can be computed one by one.
LEMMA StepsUpTo ==
    ASSUME NEW s, IsSeq(s)
    PROVE  \E u : KeptUpTo(u, s) /\ StepsOf(s) = u[Len(s)] /\ \A i \in 0 .. Len(s) : IsSeq(u[i])
<1> DEFINE L == Len(s)
           S == Seq(Range(s))
           Selected(f) == f = [n \in 0 .. L |-> IF n = 0 THEN <<>>
                                                ELSE IF s[n].fid \in Effectless THEN f[n - 1]
                                                ELSE Append(f[n - 1], s[n])]
           step == [p \in (1 .. L) \X S |-> Kept(p[2], s[p[1]])]
           rest == CHOOSE f : Selected(f)
<1>0. L \in Nat /\ DOMAIN s = 1 .. L
  BY FunctionOfSeq
<1>1. \A i \in 1 .. L : \A x \in S : Kept(x, s[i]) \in S
  <2> TAKE i \in 1 .. L
  <2> TAKE x \in S
  <2>1. s[i] \in Range(s)
    BY <1>0 DEF Range
  <2> QED BY <2>1 DEF Kept
<1>2. PICK f \in [0 .. L -> S] : InSteps(f, <<>>, L, step)
  <2>1. step \in [(1 .. L) \X S -> S] /\ <<>> \in S
    BY <1>1
  <2> HIDE DEF step, L, S
  <2> QED BY <1>0, <2>1, Recursion, Zenon
<1>3. ASSUME NEW n \in 0 .. L, n # 0 PROVE f[n] = Kept(f[n - 1], s[n])
  <2>1. n \in 1 .. L /\ n - 1 \in 0 .. L
    BY <1>0, <1>3
  <2>2. f[n - 1] \in S
    BY <1>2, <2>1
  <2>3. <<n, f[n - 1]>> \in (1 .. L) \X S
    BY <2>1, <2>2
  <2>4. f[n] = step[<<n, f[n - 1]>>]
    BY <1>2, <2>1 DEF InSteps
  <2>5. step[<<n, f[n - 1]>>] = Kept(f[n - 1], s[n])
    BY <2>3
  <2> QED BY <2>4, <2>5
<1>4. Selected(f)
  <2>1. f[0] = <<>> /\ DOMAIN f = 0 .. L
    BY <1>2 DEF InSteps
  <2> QED BY <1>2, <1>3, <2>1 DEF Kept
<1>5. Selected(rest)
  <2> HIDE DEF Selected
  <2> QED BY <1>4
<1>6. StepsOf(s) = rest[L]
  BY DEF StepsOf
<1> HIDE DEF rest
<1>7. rest[0] = <<>>
  BY <1>0, <1>5
<1>8. ASSUME NEW i \in 1 .. L PROVE rest[i] = Kept(rest[i - 1], s[i])
  <2>1. i \in 0 .. L /\ i # 0
    BY <1>0
  <2> QED BY <1>5, <2>1 DEF Kept
<1>9. KeptUpTo(rest, s)
  BY <1>7, <1>8 DEF KeptUpTo
<1> DEFINE T == {i \in 0 .. L : rest[i] \in S}
<1>10. 0 \in T
  <2>1. <<>> \in S
    OBVIOUS
  <2> HIDE DEF S
  <2> QED BY <1>0, <1>7, <2>1
<1>11. ASSUME NEW i \in 1 .. L, i - 1 \in T PROVE i \in T
  <2>1. i \in 0 .. L
    BY <1>0
  <2> QED BY <1>1, <1>8, <1>11, <2>1
<1>12. 0 .. L \subseteq T
  <2> HIDE DEF T, L
  <2> QED BY <1>0, <1>10, <1>11, UpTo
<1>13. ASSUME NEW i \in 0 .. L PROVE IsSeq(rest[i])
  <2> DEFINE x == rest[i]
  <2>1. x \in S
    BY <1>12
  <2> HIDE DEF x
  <2>2. x = [j \in 1 .. Len(x) |-> x[j]] /\ Len(x) \in Nat
    BY <2>1
  <2>3. IsSeq(x)
    BY <2>2, SeqOfFunction
  <2> QED BY <2>3 DEF x
<1>14. \A i \in 0 .. Len(s) : IsSeq(rest[i])
  BY <1>13
<1>15. KeptUpTo(rest, s) /\ StepsOf(s) = rest[Len(s)] /\ \A i \in 0 .. Len(s) : IsSeq(rest[i])
  BY <1>6, <1>9, <1>14
<1> QED BY <1>15, Zenon

\* There is one way to keep rows.
LEMMA SameKept ==
    ASSUME NEW s, NEW t, IsSeq(s), IsSeq(t), NEW u, NEW v, KeptUpTo(u, s), KeptUpTo(v, t),
           Len(s) =< Len(t), \A i \in 1 .. Len(s) : t[i] = s[i]
    PROVE  v[Len(s)] = u[Len(s)]
<1> DEFINE L == Len(s)
           T == {i \in 0 .. L : v[i] = u[i]}
<1>0. L \in Nat /\ Len(t) \in Nat
  BY FunctionOfSeq
<1>1. 0 \in T
  BY <1>0 DEF KeptUpTo
<1>2. ASSUME NEW i \in 1 .. L, i - 1 \in T PROVE i \in T
  <2>1. i \in 0 .. L /\ i \in 1 .. Len(t) /\ t[i] = s[i]
    BY <1>0
  <2>2. u[i] = Kept(u[i - 1], s[i]) /\ v[i] = Kept(v[i - 1], t[i])
    BY <2>1 DEF KeptUpTo
  <2> QED BY <1>2, <2>1, <2>2
<1>3. 0 .. L \subseteq T
  <2> HIDE DEF T, L
  <2> QED BY <1>0, <1>1, <1>2, UpTo
<1> QED BY <1>0, <1>3

\* Of no rows none is kept.
LEMMA NoSteps == StepsOf(<<>>) = <<>>
<1>1. PICK u : KeptUpTo(u, <<>>) /\ StepsOf(<<>>) = u[Len(<<>>)]
  BY NoElements, StepsUpTo
<1> QED BY <1>1, NoElements DEF KeptUpTo

\* One more row is kept, or is not.
LEMMA StepsAppended ==
    ASSUME NEW s, IsSeq(s), NEW row
    PROVE  /\ StepsOf(Append(s, row)) = Kept(StepsOf(s), row)
           /\ IsSeq(StepsOf(s))
<1> DEFINE t == Append(s, row)
           L == Len(s)
<1>0. L \in Nat
  BY FunctionOfSeq
<1>1. IsSeq(t) /\ Len(t) = L + 1 /\ t[L + 1] = row
  BY Appended
<1>2. \A i \in 1 .. L : t[i] = s[i]
  BY Appended
<1>3. PICK u : KeptUpTo(u, s) /\ StepsOf(s) = u[Len(s)] /\ \A i \in 0 .. Len(s) : IsSeq(u[i])
  BY StepsUpTo
<1>4. PICK v : KeptUpTo(v, t) /\ StepsOf(t) = v[Len(t)]
  BY <1>1, StepsUpTo
<1> HIDE DEF t
<1>5. v[L] = u[L]
  <2>1. Len(s) =< Len(t)
    BY <1>0, <1>1
  <2> QED BY <1>1, <1>2, <1>3, <1>4, <2>1, SameKept
<1>6. v[L + 1] = Kept(v[L], row)
  <2>1. L + 1 \in 1 .. Len(t) /\ (L + 1) - 1 = L
    BY <1>0, <1>1
  <2>2. v[L + 1] = Kept(v[(L + 1) - 1], t[L + 1])
    BY <1>4, <2>1 DEF KeptUpTo
  <2> QED BY <1>1, <2>1, <2>2
<1>7. StepsOf(t) = Kept(StepsOf(s), row)
  BY <1>1, <1>3, <1>4, <1>5, <1>6
<1>8. IsSeq(StepsOf(s))
  <2>1. L \in 0 .. Len(s)
    BY <1>0
  <2> QED BY <1>3, <2>1
<1> QED BY <1>7, <1>8 DEF t

\* The elements of a sequence with one more.
LEMMA RangeAppended ==
    ASSUME NEW s, IsSeq(s), NEW e
    PROVE  Range(Append(s, e)) = Range(s) \cup {e}
<1> DEFINE t == Append(s, e)
           L == Len(s)
<1>1. L \in Nat /\ DOMAIN s = 1 .. L /\ DOMAIN t = 1 .. (L + 1) /\ t[L + 1] = e
  BY FunctionOfSeq, Appended
<1>2. \A i \in 1 .. L : t[i] = s[i]
  BY Appended
<1> HIDE DEF t, L
<1>3. ASSUME NEW x \in Range(t) PROVE x \in Range(s) \cup {e}
  <2>1. PICK i \in 1 .. (L + 1) : x = t[i]
    BY <1>1 DEF Range
  <2>2. i \in 1 .. L \/ i = L + 1
    BY <1>1
  <2> QED BY <1>1, <1>2, <2>1, <2>2 DEF Range
<1>4. ASSUME NEW x \in Range(s) \cup {e} PROVE x \in Range(t)
  <2>1. CASE x = e
    <3>1. L + 1 \in 1 .. (L + 1)
      BY <1>1
    <3> QED BY <1>1, <2>1, <3>1 DEF Range
  <2>2. CASE x \in Range(s)
    <3>1. PICK i \in 1 .. L : x = s[i]
      BY <1>1, <2>2 DEF Range
    <3>2. i \in 1 .. (L + 1)
      BY <1>1
    <3> QED BY <1>1, <1>2, <3>1, <3>2 DEF Range
  <2> QED BY <2>1, <2>2
<1>5. Range(t) = Range(s) \cup {e}
  BY <1>3, <1>4
<1> QED BY <1>5 DEF t

\* One more element at the end of the second of two sequences.
LEMMA AppendedBehind ==
    ASSUME NEW s, NEW t, IsSeq(s), IsSeq(t), NEW e
    PROVE  Append(s \o t, e) = s \o Append(t, e)
<1> DEFINE a == Len(s)
           b == Len(t)
           st == s \o t
           te == Append(t, e)
           l == Append(st, e)
           r == s \o te
<1>0. a \in Nat /\ b \in Nat
  BY FunctionOfSeq
<1>1. IsSeq(st) /\ Len(st) = a + b
  BY Concatenated
<1>2. IsSeq(te) /\ Len(te) = b + 1 /\ te[b + 1] = e
  BY Appended
<1>3. \A i \in 1 .. b : te[i] = t[i]
  BY Appended
<1>4. \A i \in 1 .. a : st[i] = s[i]
  BY Concatenated
<1>5. \A i \in 1 .. b : st[a + i] = t[i]
  BY Concatenated
<1> HIDE DEF st, te
<1>6. IsSeq(l) /\ Len(l) = Len(st) + 1 /\ l[Len(st) + 1] = e
  BY <1>1, Appended
<1>7. \A i \in 1 .. Len(st) : l[i] = st[i]
  BY <1>1, Appended
<1>8. IsSeq(r) /\ Len(r) = a + Len(te)
  BY <1>2, Concatenated
<1>9. \A i \in 1 .. a : r[i] = s[i]
  BY <1>2, Concatenated
<1>10. \A i \in 1 .. Len(te) : r[a + i] = te[i]
  BY <1>2, Concatenated
<1> HIDE DEF l, r, a, b
<1>11. Len(l) = Len(r) /\ Len(l) = (a + b) + 1
  BY <1>0, <1>1, <1>2, <1>6, <1>8
<1>12. ASSUME NEW i \in 1 .. Len(l) PROVE l[i] = r[i]
  <2>1. CASE i =< a
    <3>1. i \in 1 .. a /\ i \in 1 .. (a + b)
      BY <1>0, <1>11, <2>1
    <3> QED BY <1>1, <1>4, <1>7, <1>9, <3>1
  <2>2. CASE ~ (i =< a) /\ i =< a + b
    <3>1. i - a \in 1 .. b /\ i - a \in 1 .. (b + 1) /\ a + (i - a) = i /\ i \in 1 .. (a + b)
      BY <1>0, <1>11, <2>2
    <3>2. l[i] = st[i]
      BY <1>1, <1>7, <3>1
    <3>3. st[a + (i - a)] = t[i - a]
      BY <1>5, <3>1
    <3>4. r[a + (i - a)] = te[i - a]
      BY <1>2, <1>10, <3>1
    <3>5. te[i - a] = t[i - a]
      BY <1>3, <3>1
    <3> QED BY <3>1, <3>2, <3>3, <3>4, <3>5
  <2>3. CASE i = (a + b) + 1
    <3>1. i = a + (b + 1) /\ b + 1 \in 1 .. (b + 1)
      BY <1>0, <2>3
    <3>2. r[a + (b + 1)] = te[b + 1]
      BY <1>2, <1>10, <3>1
    <3> QED BY <1>1, <1>2, <1>6, <2>3, <3>1, <3>2
  <2>4. i =< a \/ (~ (i =< a) /\ i =< a + b) \/ i = (a + b) + 1
    BY <1>0, <1>11
  <2> QED BY <2>1, <2>2, <2>3, <2>4
<1>13. l = r
  BY <1>6, <1>8, <1>11, <1>12, SameSeq
<1> QED BY <1>13 DEF l, r, st, te

-----------------------------------------------------------------------------
\* The reference execution beside a machine.

\* Machines that are alike have the same row.
LEMMA SameRow ==
    ASSUME NEW m, NEW t, WellBehaved(m), WellBehaved(t),
           NEW bm \in Nat, NEW bs \in Nat, NEW cm \in Nat, NEW cs \in Nat,
           Alike(m, t, bm, bs, cm, cs), ~Returning(m), NEW opcode
    PROVE  RowOf(t, opcode) = RowOf(m, opcode)
<1> DEFINE fm == m.fp
           ft == t.fp
           w == Width[m.fid]
<1>1. /\ t.fid = m.fid /\ t.pc = m.pc /\ fm \in Nat /\ ft \in Nat
      /\ bm =< fm /\ ft + bm = fm + bs /\ w \in Nat
      /\ IsSeq(m.stack) /\ IsSeq(t.stack)
      /\ Len(m.stack) = fm + w /\ Len(t.stack) = ft + w
  BY AlikeFrames
<1>2. Agree(m.stack, t.stack, bm, bs, (fm + w) - bm)
  BY AlikeFrames
<1>3. \A j \in 1 .. w : t.stack[ft + j] = m.stack[fm + j]
  <2> TAKE j \in 1 .. w
  <2> HIDE DEF fm, ft, w
  <2>1. (fm - bm) + j \in 1 .. ((fm + w) - bm) /\ bm + ((fm - bm) + j) = fm + j
        /\ bs + ((fm - bm) + j) = ft + j
    BY <1>1
  <2>2. t.stack[bs + ((fm - bm) + j)] = m.stack[bm + ((fm - bm) + j)]
    BY <1>2, <2>1 DEF Agree
  <2> QED BY <2>1, <2>2
<1>4. ASSUME NEW s, NEW f \in Nat, IsSeq(s), Len(s) = f + w
      PROVE  LET p == SubSeq(s, f + 1, Len(s))
             IN  IsSeq(p) /\ Len(p) = w /\ \A j \in 1 .. w : p[j] = s[f + j]
  <2> DEFINE b == Len(s)
  <2>0. w \in Nat /\ b = f + w
    BY <1>1, <1>4
  <2> HIDE DEF w
  <2>1. b \in Nat /\ f =< b /\ b - f = w
    <3> HIDE DEF b
    <3> QED BY <2>0
  <2>3. b =< Len(s)
    <3>1. b = Len(s) /\ b \in Nat
      BY <2>1
    <3> HIDE DEF b
    <3> QED BY <3>1
  <2> HIDE DEF b
  <2>2. /\ IsSeq(SubSeq(s, f + 1, b)) /\ Len(SubSeq(s, f + 1, b)) = b - f
        /\ \A j \in 1 .. (b - f) : SubSeq(s, f + 1, b)[j] = s[f + j]
    BY <1>4, <2>1, <2>3, Part
  <2> QED BY <2>1, <2>2 DEF b
<1> DEFINE p == SubSeq(m.stack, m.fp + 1, Len(m.stack))
           q == SubSeq(t.stack, t.fp + 1, Len(t.stack))
<1>5. IsSeq(p) /\ Len(p) = w
  BY <1>1, <1>4
<1>6. \A j \in 1 .. w : p[j] = m.stack[fm + j]
  BY <1>1, <1>4
<1>7. IsSeq(q) /\ Len(q) = w
  BY <1>1, <1>4
<1>8. \A j \in 1 .. w : q[j] = t.stack[ft + j]
  BY <1>1, <1>4
<1> HIDE DEF p, q, fm, ft
<1>9. q = p
  BY <1>3, <1>5, <1>6, <1>7, <1>8, SameSeq
<1>10. Frame(t) = Frame(m)
  BY <1>9 DEF Frame, p, q
<1> QED BY <1>1, <1>10 DEF RowOf

\* What fails has executed a plain bytecode.
LEMMA FailsInPlace ==
    ASSUME NEW m, WellBehaved(m), m.status # "failed", Dispatch(m).status = "failed"
    PROVE  Code[m.pc].op \in Plain
<1> DEFINE n == Dispatch(m)
           i == Code[m.pc]
<1>0. MachineInv(m) /\ i.op \in Opcodes /\ "status" \in DOMAIN m
  <2>1. m.fid \in Function /\ m.pc \in Body(m.fid) /\ MachineInv(m) /\ "status" \in DOMAIN m
    BY DEF WellBehaved, MachineInv, MachineFields
  <2> QED BY <2>1, BytecodeOf
<1>1. CASE i.op = "enter"
  <2>1. Changes(m, n, {"stack", "pc", "rp", "rw"}) \/ Changes(m, n, {"stack", "calls", "fid", "fp", "pc"})
    BY <1>0, <1>1, EnterEffect, CachedEffect
  <2>2. n.status = m.status
    <3> HIDE DEF n
    <3> QED BY <1>0, <2>1 DEF Changes
  <2> QED BY <2>2
<1>2. CASE i.op = "leave"
  <2>1. Changes(m, n, {"stack", "pc"})
    BY <1>2, LeaveEffect
  <2>2. n.status = m.status
    <3> HIDE DEF n
    <3> QED BY <1>0, <2>1 DEF Changes
  <2> QED BY <2>2
<1>3. CASE i.op = "ret"
  <2>1. CASE m.calls = <<>>
    <3>1. n.status = "done"
      BY <1>0, <1>3, <2>1, EndEffect
    <3> QED BY <3>1
  <2>2. CASE m.calls # <<>>
    <3>1. Changes(m, n, {"calls", "cache", "fid", "fp", "pc", "rp", "rw"})
      BY <1>0, <1>3, <2>2, ReturnEffect
    <3>2. n.status = m.status
      <4> HIDE DEF n
      <4> QED BY <1>0, <3>1 DEF Changes
    <3> QED BY <3>2
  <2> QED BY <2>1, <2>2
<1>4. CASE i.op = "tail"
  <2>1. Changes(m, n, {"stack", "fid", "pc"})
    BY <1>0, <1>4, TailEffect
  <2>2. n.status = m.status
    <3> HIDE DEF n
    <3> QED BY <1>0, <2>1 DEF Changes
  <2> QED BY <2>2
<1> QED BY <1>0, <1>1, <1>2, <1>3, <1>4 DEF Plain

\* The rows of the reference execution after a step, in terms of a machine
\* beside it that goes from m to n.
RowsAfter(rows, m, n) ==
    LET seen == IF m.pc \in TracePoints THEN Append(rows, RowOf(m, Code[m.pc].op)) ELSE rows
    IN  IF n.status = "failed" THEN Append(seen, RowOf(n, "none")) ELSE seen

\* What lies below stays.
KeptBelow(t, u, bs, cs) ==
    /\ \A c \in 1 .. bs : u.stack[c] = t.stack[c]
    /\ \A l \in 1 .. cs : u.calls[l] = t.calls[l]

\* Breakpoints at which rows are recorded are no LEAVE.
LEMMA TracedInPlace ==
    ASSUME NEW m, m.pc \in TracePoints
    PROVE  ~Returning(m)
BY DEF TracePoints, VectorTerminals, Returning

\* The reference execution takes the step of a machine that it is alike to.
LEMMA StepAlike ==
    ASSUME NEW m, NEW t, WellBehaved(m), RefInv(t), m.status # "failed",
           NEW bm \in Nat, NEW bs \in Nat, NEW cm \in Nat, NEW cs \in Nat,
           Alike(m, t, bm, bs, cm, cs), Comparable(m, t, cm)
    PROVE  LET n == Dispatch(m)
               u == RefStep(t)
           IN  /\ Alike(n, u, bm, bs, cm, cs) /\ u.status = n.status
               /\ u.rows = RowsAfter(t.rows, m, n)
               /\ KeptBelow(t, u, bs, cs)
<1> DEFINE n == Dispatch(m)
           x == Seen(t)
           d == Dispatch(x)
           u == RefStep(t)
<1> SUFFICES /\ Alike(n, u, bm, bs, cm, cs) /\ u.status = n.status
             /\ u.rows = RowsAfter(t.rows, m, n)
             /\ KeptBelow(t, u, bs, cs)
  OBVIOUS
<1>1. /\ WellBehaved(t) /\ MachineFields \subseteq DOMAIN t /\ Handled(t, x) /\ Typed(x)
      /\ x.status = t.status /\ WellBehaved(x)
  BY SeenFields DEF RefInv, Typed, WellBehaved, MachineInv
<1>2. /\ Typed(d) /\ Handled(d, u) /\ u.status = d.status /\ WellBehaved(d)
      /\ u.rows = (IF d.status = "failed" THEN Append(Noted(t), RowOf(d, "none")) ELSE Noted(t))
  BY RefStepFields DEF Typed
<1>3. /\ x.fid = t.fid /\ x.pc = t.pc /\ x.fp = t.fp /\ x.calls = t.calls /\ x.stack = t.stack
      /\ x.cache = t.cache /\ x.mem = t.mem
  BY <1>1, HandledFields
<1>4. Alike(m, x, bm, bs, cm, cs)
  <2> HIDE DEF x
  <2> QED BY <1>3, StaysAlike
<1>5. Comparable(m, x, cm)
  <2> HIDE DEF x
  <2> QED BY <1>1, <1>3 DEF Comparable, SameMemory, Cached
<1>6. Alike(n, d, bm, bs, cm, cs) /\ d.status = n.status
  <2> HIDE DEF x
  <2> QED BY <1>1, <1>4, <1>5, Lockstep
<1>7. MachineFields \subseteq DOMAIN d
  BY <1>2 DEF WellBehaved, MachineInv
<1>8. WellBehaved(n)
  BY StaysWellBehaved
<1>9. t.pc = m.pc
  BY DEF Alike, SamePlace
<1>10. n.status = "failed" => RowOf(d, "none") = RowOf(n, "none")
  <2> SUFFICES ASSUME n.status = "failed" PROVE RowOf(d, "none") = RowOf(n, "none")
    OBVIOUS
  <2>1. Code[m.pc].op \in Plain /\ MachineInv(m)
    BY FailsInPlace DEF WellBehaved
  <2>2. ~Returning(n)
    BY <2>1, PlainPlace
  <2> HIDE DEF n, d
  <2> QED BY <1>2, <1>6, <1>8, <2>2, SameRow
<1>11. m.pc \in TracePoints => RowOf(t, Code[m.pc].op) = RowOf(m, Code[m.pc].op)
  BY <1>1, TracedInPlace, SameRow
<1>12. u.rows = RowsAfter(t.rows, m, n)
  <2> HIDE DEF n, d, u
  <2> QED BY <1>2, <1>6, <1>9, <1>10, <1>11 DEF RowsAfter, Noted
<1>13. \A c \in 1 .. bs : d.stack[c] = x.stack[c]
  <2> TAKE c \in 1 .. bs
  <2>1. Fixed(x) \in Nat /\ x.fp =< Fixed(x) /\ x.fp \in Nat
    BY <1>1, FixedCells, FrameSizes DEF WellBehaved
  <2>2. bm =< m.fp /\ x.fp + bm = m.fp + bs /\ m.fp \in Nat
    BY <1>4, FrameSizes DEF Alike, SamePlace, WellBehaved
  <2>3. bs =< x.fp
    <3> DEFINE a == x.fp
               b == m.fp
    <3> HIDE DEF a, b
    <3>1. a \in Nat /\ b \in Nat /\ bm =< b /\ a + bm = b + bs => bs =< a
      OBVIOUS
    <3> QED BY <2>1, <2>2, <3>1 DEF a, b
  <2>4. c \in 1 .. Fixed(x)
    BY <2>1, <2>3
  <2> HIDE DEF x
  <2> QED BY <1>1, <2>4, CellsKept
<1>14. \A l \in 1 .. cs : d.calls[l] = x.calls[l]
  <2> TAKE l \in 1 .. cs
  <2>1. Len(d.calls) \in Nat /\ Len(x.calls) \in Nat /\ Len(n.calls) \in Nat /\ Len(m.calls) \in Nat
    BY <1>1, <1>2, <1>8, FrameSizes DEF WellBehaved
  <2>2. cm =< Len(n.calls) /\ Len(d.calls) + cm = Len(n.calls) + cs
    BY <1>6 DEF Alike, SameCalls
  <2>3. cm =< Len(m.calls) /\ Len(x.calls) + cm = Len(m.calls) + cs
    BY <1>4 DEF Alike, SameCalls
  <2>4. l =< Len(d.calls) /\ l \in 1 .. Len(x.calls)
    <3> DEFINE ld == Len(d.calls)
               lx == Len(x.calls)
               ln == Len(n.calls)
               lm == Len(m.calls)
    <3> HIDE DEF ld, lx, ln, lm
    <3>1. /\ ld \in Nat /\ lx \in Nat /\ ln \in Nat /\ lm \in Nat
          /\ cm =< ln /\ ld + cm = ln + cs /\ cm =< lm /\ lx + cm = lm + cs
          => l =< ld /\ l \in 1 .. lx
      OBVIOUS
    <3> QED BY <2>1, <2>2, <2>3, <3>1 DEF ld, lx, ln, lm
  <2> HIDE DEF x
  <2> QED BY <1>1, <2>4, CallsKept
<1> HIDE DEF n, d, u, x
<1>15. /\ u.fid = d.fid /\ u.pc = d.pc /\ u.fp = d.fp /\ u.calls = d.calls /\ u.stack = d.stack
  BY <1>2, <1>7, HandledFields
<1>16. Alike(n, u, bm, bs, cm, cs)
  BY <1>6, <1>15, StaysAlike
<1>17. KeptBelow(t, u, bs, cs)
  BY <1>3, <1>13, <1>14, <1>15 DEF KeptBelow
<1> QED BY <1>2, <1>6, <1>12, <1>16, <1>17

-----------------------------------------------------------------------------
\* The memories of the reference execution beside a machine.

\* The registers that a bytecode reads are the same.
LEMMA SameUses ==
    ASSUME NEW m, NEW t, WellBehaved(m), WellBehaved(t),
           NEW bm \in Nat, NEW bs \in Nat, NEW cm \in Nat, NEW cs \in Nat,
           Alike(m, t, bm, bs, cm, cs), NEW r \in Uses(m.pc)
    PROVE  Register(t, r) = Register(m, r)
<1>1. m.fid \in Function /\ m.pc \in Body(m.fid)
  BY DEF WellBehaved, MachineInv
<1>2. r \in 0 .. (Width[m.fid] - 1)
  BY <1>1, OperandsOf
<1> QED BY <1>2, SameRegister

\* What a step of the reference execution does to memories and log, in terms of
\* the registers of a machine it is alike to.
LEMMA StepMemory ==
    ASSUME NEW m, NEW t, WellBehaved(m), RefInv(t),
           NEW bm \in Nat, NEW bs \in Nat, NEW cm \in Nat, NEW cs \in Nat,
           Alike(m, t, bm, bs, cm, cs)
    PROVE  LET u == RefStep(t)
               i == Code[m.pc]
               a == Register(m, i.address) + 1
               v == Register(m, i.source)
           IN  /\ i.op \notin {"wrwom", "rdram", "wrram"} => u.mem = t.mem /\ u.log = t.log
               /\ i.op = "wrwom" =>
                     /\ u.log = t.log
                     /\ u.mem = IF Collides(t.mem.wom, a, v) THEN t.mem
                                ELSE [t.mem EXCEPT !.wom = WomAfter(t.mem.wom, a, v)]
                     /\ Collides(t.mem.wom, a, v) => u.status = "failed"
               /\ i.op \in {"rdram", "wrram"} /\ t.mem.ram = m.mem.ram =>
                     Accessed(t, u, Register(m, i.address), Accessing(m), i.op = "wrram")
<1> DEFINE x == Seen(t)
           d == Dispatch(x)
           u == RefStep(t)
           i == Code[m.pc]
           a == Register(m, i.address) + 1
           v == Register(m, i.source)
<1>1. /\ WellBehaved(t) /\ MachineFields \subseteq DOMAIN t /\ Handled(t, x) /\ Typed(x)
      /\ WellBehaved(x)
  BY SeenFields DEF RefInv, Typed, WellBehaved, MachineInv
<1>2. Typed(d) /\ Handled(d, u) /\ u.status = d.status /\ MachineFields \subseteq DOMAIN d
  BY RefStepFields DEF Typed, WellBehaved, MachineInv
<1>3. x.pc = t.pc /\ x.fp = t.fp /\ x.stack = t.stack /\ x.mem = t.mem /\ x.log = t.log
  BY <1>1, HandledFields
<1>4. u.mem = d.mem /\ u.log = d.log
  <2> HIDE DEF u, d
  <2> QED BY <1>2, HandledFields
<1>5. t.pc = m.pc
  BY DEF Alike, SamePlace
<1>6. \A r \in Uses(m.pc) : Register(x, r) = Register(m, r)
  <2>1. \A r \in Uses(m.pc) : Register(t, r) = Register(m, r)
    BY <1>1, SameUses
  <2> HIDE DEF x
  <2> QED BY <1>3, <2>1 DEF Register
<1> HIDE DEF x
<1>7. ASSUME i.op \notin {"wrwom", "rdram", "wrram"} PROVE u.mem = t.mem /\ u.log = t.log
  <2>1. Code[x.pc].op \notin {"wrwom", "rdram", "wrram"}
    BY <1>3, <1>5, <1>7
  <2>2. d.mem = x.mem /\ d.log = x.log
    BY <1>1, <2>1, MemoryEffect
  <2> HIDE DEF d, u
  <2> QED BY <1>3, <1>4, <2>2
<1>8. ASSUME i.op = "wrwom"
      PROVE  /\ u.log = t.log
             /\ u.mem = IF Collides(t.mem.wom, a, v) THEN t.mem
                        ELSE [t.mem EXCEPT !.wom = WomAfter(t.mem.wom, a, v)]
             /\ Collides(t.mem.wom, a, v) => u.status = "failed"
  <2>1. Code[x.pc] = i
    BY <1>3, <1>5
  <2>2. i.address \in Uses(m.pc) /\ i.source \in Uses(m.pc)
    BY <1>8 DEF Uses
  <2>3. Register(x, i.address) + 1 = a /\ Register(x, i.source) = v
    BY <1>6, <2>2
  <2>4. /\ d.log = x.log
        /\ d.mem = IF Collides(x.mem.wom, Register(x, i.address) + 1, Register(x, i.source)) THEN x.mem
                   ELSE [x.mem EXCEPT !.wom = WomAfter(x.mem.wom, Register(x, i.address) + 1, Register(x, i.source))]
        /\ Collides(x.mem.wom, Register(x, i.address) + 1, Register(x, i.source)) => d.status = "failed"
    BY <1>1, <1>8, <2>1, MemoryEffect
  <2> HIDE DEF d, u, a, v
  <2> QED BY <1>2, <1>3, <1>4, <2>3, <2>4
<1>9. ASSUME i.op \in {"rdram", "wrram"}, t.mem.ram = m.mem.ram
      PROVE  Accessed(t, u, Register(m, i.address), Accessing(m), i.op = "wrram")
  <2>1. Code[x.pc] = i
    BY <1>3, <1>5
  <2>2. Register(x, i.address) = Register(m, i.address)
    <3>1. i.address \in Uses(m.pc)
      BY <1>9 DEF Uses
    <3> QED BY <1>6, <3>1
  <2>3. Accessing(x) = Accessing(m)
    <3>1. CASE i.op = "rdram"
      BY <1>3, <1>9, <2>1, <2>2, <3>1 DEF Accessing
    <3>2. CASE i.op # "rdram"
      <4>1. i.source \in Uses(m.pc)
        BY <1>9, <3>2 DEF Uses
      <4> QED BY <1>6, <2>1, <3>2, <4>1 DEF Accessing
    <3> QED BY <3>1, <3>2
  <2>4. Accessed(x, d, Register(x, i.address), Accessing(x), i.op = "wrram")
    BY <1>1, <1>9, <2>1, MemoryEffect
  <2> HIDE DEF d, u, i
  <2>5. Accessed(x, d, Register(m, i.address), Accessing(m), i.op = "wrram")
    BY <2>2, <2>3, <2>4
  <2> QED BY <1>3, <1>4, <2>5 DEF Accessed
<1> HIDE DEF u, i
<1> QED BY <1>7, <1>8, <1>9 DEF u, i

-----------------------------------------------------------------------------
\* Calls that may be memoised, wherever they are made.

\* Rows that have been added: none of a function that declares effects.
AddedRows(a, t, seen) ==
    /\ StepsOf(t.rows) = StepsOf(a.rows)
    /\ Range(a.rows) \subseteq Range(t.rows) /\ Range(t.rows) \subseteq Range(a.rows) \cup seen

\* What is below the frame that a executes, and what is visible of the memories,
\* has not changed.
Undisturbed(a, t) ==
    /\ RefInv(t) /\ t.status = "running"
    /\ t.mem = a.mem /\ t.log = a.log /\ t.count = a.count
    /\ \A c \in 1 .. a.fp : t.stack[c] = a.stack[c]

\* Machine m is, above bm cells and cm calls, what t is above what a started with.
Follows(m, a, t, bm, cm) ==
    /\ Undisturbed(a, t)
    /\ Alike(m, t, bm, a.fp, cm, Len(a.calls))
    /\ \A l \in 1 .. Len(a.calls) : t.calls[l] = a.calls[l]

\* A step that a follower takes too.
LEMMA AsideStep ==
    ASSUME EntryIsPlain, NEW m, NEW a, NEW t, NEW bm \in Nat, NEW cm \in Nat,
           WellBehaved(m), m.status = "running", Dispatch(m).status = "running",
           m.fid \in Effectless, m.fid # ShardFun, RefInv(a), Follows(m, a, t, bm, cm),
           t.mem.rom = m.mem.rom,
           Code[m.pc].op = "ret" => Len(m.calls) > cm,
           Code[m.pc].op = "enter" => ~Cached(m, Code[m.pc].fun, Operands(m, Code[m.pc].args)),
           Code[m.pc].op = "wrwom" =>
              LET c == Register(m, Code[m.pc].address) + 1
              IN  /\ c \in Nat \ {0} /\ c =< Len(t.mem.wom)
                  /\ t.mem.wom[c] = Register(m, Code[m.pc].source)
    PROVE  LET u == RefStep(t)
           IN  /\ Reaches(t, u) /\ Follows(Dispatch(m), a, u, bm, cm)
               /\ u.rows = IF m.pc \in TracePoints THEN Append(t.rows, RowOf(m, Code[m.pc].op))
                                                   ELSE t.rows
<1> DEFINE n == Dispatch(m)
           u == RefStep(t)
           i == Code[m.pc]
           c == Register(m, i.address) + 1
           v == Register(m, i.source)
           bs == a.fp
           cs == Len(a.calls)
<1> SUFFICES /\ Reaches(t, u) /\ Follows(n, a, u, bm, cm)
             /\ u.rows = IF m.pc \in TracePoints THEN Append(t.rows, RowOf(m, i.op)) ELSE t.rows
  OBVIOUS
<1>1. /\ RefInv(t) /\ t.status = "running" /\ t.mem = a.mem /\ t.log = a.log /\ t.count = a.count
      /\ Alike(m, t, bm, bs, cm, cs) /\ WellBehaved(t) /\ DOMAIN t.cache = {}
      /\ bs \in Nat /\ cs \in Nat /\ IsSeq(t.mem.wom)
      /\ DOMAIN t.mem = {"rom", "wom", "ram", "clock"} /\ t.mem = [x \in DOMAIN t.mem |-> t.mem[x]]
  <2>1. RefInv(t) /\ RefInv(a) /\ WellBehaved(t) /\ DOMAIN t.cache = {} /\ MemTyped(t.mem)
        /\ MachineInv(a)
    BY DEF Follows, Undisturbed, RefInv, Typed, WellBehaved
  <2>2. bs \in Nat /\ cs \in Nat
    BY <2>1, FrameSizes
  <2> QED BY <2>1, <2>2 DEF Follows, Undisturbed, MemTyped
<1>2. i.op \notin {"rdram", "wrram"}
  <2>1. m.fid \in Function /\ m.pc \in Body(m.fid)
    BY DEF WellBehaved, MachineInv
  <2> QED BY <2>1, OperandsOf
<1>3. i.op = "wrwom" => ~Collides(t.mem.wom, c, v) /\ WomAfter(t.mem.wom, c, v) = t.mem.wom
  BY <1>1, WrittenAgain
<1>4. i.op = "wrwom" => ~Collides(m.mem.wom, c, v)
  <2>1. i.op = "wrwom" => (Collides(m.mem.wom, c, v) => n.status = "failed")
    BY MemoryEffect
  <2> QED BY <2>1
<1>5. Comparable(m, t, cm)
  <2>1. SameMemory(m, t)
    BY <1>2, <1>3, <1>4 DEF SameMemory
  <2>2. i.op = "enter" => ~Cached(t, i.fun, Operands(m, i.args))
    BY <1>1 DEF Cached
  <2> QED BY <1>1, <2>1, <2>2 DEF Comparable
<1>6. /\ Alike(n, u, bm, bs, cm, cs) /\ u.status = n.status
      /\ u.rows = RowsAfter(t.rows, m, n) /\ KeptBelow(t, u, bs, cs)
  BY <1>1, <1>5, StepAlike
<1>7. u.mem = t.mem /\ u.log = t.log
  <2>1. CASE i.op = "wrwom"
    <3>1. /\ u.log = t.log
          /\ u.mem = IF Collides(t.mem.wom, c, v) THEN t.mem
                     ELSE [t.mem EXCEPT !.wom = WomAfter(t.mem.wom, c, v)]
      BY <1>1, <2>1, StepMemory
    <3>2. u.mem = [t.mem EXCEPT !.wom = t.mem.wom]
      <4> HIDE DEF u, c, v
      <4> QED BY <1>3, <2>1, <3>1
    <3>3. [t.mem EXCEPT !.wom = t.mem.wom] = t.mem
      <4> DEFINE mem == t.mem
      <4>1. mem = [x \in DOMAIN mem |-> mem[x]]
        BY <1>1
      <4> HIDE DEF mem
      <4>2. [mem EXCEPT !.wom = mem.wom] = mem
        BY <4>1
      <4> QED BY <4>2 DEF mem
    <3> QED BY <3>1, <3>2, <3>3
  <2>2. CASE i.op # "wrwom"
    <3>1. i.op \notin {"wrwom", "rdram", "wrram"}
      BY <1>2, <2>2
    <3>2. WellBehaved(m) /\ RefInv(t) /\ Alike(m, t, bm, bs, cm, cs) /\ bs \in Nat /\ cs \in Nat
      BY <1>1
    <3> HIDE DEF i, bs, cs
    <3>3. Code[m.pc].op \notin {"wrwom", "rdram", "wrram"} => RefStep(t).mem = t.mem /\ RefStep(t).log = t.log
      BY <3>2, StepMemory
    <3> QED BY <3>1, <3>3 DEF i
  <2> QED BY <2>1, <2>2
<1>8. u.count = t.count /\ RefInv(u)
  <2>1. t.pc # EntryPoint
    <3>1. t.fid = m.fid /\ MachineInv(t)
      BY <1>1 DEF Alike, SamePlace, WellBehaved
    <3> QED BY <3>1, EntryPointOf
  <2>2. u.count = (IF t.pc = EntryPoint THEN t.count + 1 ELSE t.count)
    BY <1>1, RefStepFields
  <2>3. RefInv(u)
    BY <1>1, RefStepLater DEF Later
  <2> QED BY <2>1, <2>2, <2>3
<1>9. Reaches(t, u)
  BY <1>1, ReachesNext
<1> HIDE DEF n, u
<1>10. \A b \in 1 .. a.fp : u.stack[b] = a.stack[b]
  <2>1. \A b \in 1 .. a.fp : t.stack[b] = a.stack[b]
    BY DEF Follows, Undisturbed
  <2>2. \A b \in 1 .. a.fp : u.stack[b] = t.stack[b]
    BY <1>6 DEF KeptBelow
  <2> QED BY <2>1, <2>2
<1>11. \A l \in 1 .. Len(a.calls) : u.calls[l] = a.calls[l]
  <2>1. \A l \in 1 .. Len(a.calls) : t.calls[l] = a.calls[l]
    BY DEF Follows
  <2>2. \A l \in 1 .. Len(a.calls) : u.calls[l] = t.calls[l]
    BY <1>6 DEF KeptBelow
  <2> QED BY <2>1, <2>2
<1>12. n.status = "running" /\ u.status = "running"
  BY <1>6 DEF n
<1>13. Undisturbed(a, u)
  BY <1>1, <1>7, <1>8, <1>10, <1>12 DEF Undisturbed
<1>14. Follows(n, a, u, bm, cm)
  BY <1>6, <1>11, <1>13 DEF Follows
<1>15. u.rows = IF m.pc \in TracePoints THEN Append(t.rows, RowOf(m, i.op)) ELSE t.rows
  BY <1>6, <1>12 DEF RowsAfter
<1> QED BY <1>9, <1>14, <1>15

\* A row of a function without effects.
LEMMA RowAdded ==
    ASSUME NEW a, NEW t, NEW u, NEW row, NEW seen, NEW more, IsSeq(t.rows),
           AddedRows(a, t, seen), seen \subseteq more, row \in more, row.fid \in Effectless,
           u.rows = t.rows \/ u.rows = Append(t.rows, row)
    PROVE  AddedRows(a, u, more)
<1>1. CASE u.rows = t.rows
  BY <1>1 DEF AddedRows
<1>2. CASE u.rows = Append(t.rows, row)
  <2>1. StepsOf(u.rows) = StepsOf(t.rows)
    BY <1>2, StepsAppended DEF Kept
  <2>2. Range(u.rows) = Range(t.rows) \cup {row}
    BY <1>2, RangeAppended
  <2> QED BY <2>1, <2>2 DEF AddedRows
<1> QED BY <1>1, <1>2

\* Rows that have been added one after the other.
LEMMA RowsAdded ==
    ASSUME NEW a, NEW t, NEW u, NEW seen, AddedRows(a, t, seen), AddedRows(t, u, seen)
    PROVE  AddedRows(a, u, seen)
BY DEF AddedRows

\* Nothing has been added to the same rows.
LEMMA NoneAdded ==
    ASSUME NEW a, NEW t, NEW seen, t.rows = a.rows
    PROVE  AddedRows(a, t, seen)
BY DEF AddedRows

-----------------------------------------------------------------------------
\* Calls that are answered.

\* A call of f that is about to be executed, with at least the output w.
Entered(a, f, args, rom, w) ==
    /\ RefInv(a) /\ a.status = "running" /\ a.fid = f /\ a.pc = Entry[f] /\ a.calls # <<>>
    /\ a.mem.rom = rom /\ Extends(w, a.mem.wom)
    /\ \A j \in 1 .. Width[f] : a.stack[a.fp + j] = NewFrame(f, args)[j]

\* It has been executed.
Returned(a, u, f, args, rets) ==
    LET caller == a.calls[Len(a.calls)]
    IN  /\ Undisturbed(a, u)
        /\ u.fid = caller.fid /\ u.fp = caller.fp /\ u.pc = caller.pc
        /\ u.calls = SubSeq(a.calls, 1, Len(a.calls) - 1)
        /\ \A j \in 1 .. NumInputs[f] : u.stack[a.fp + j] = args[j]
        /\ \A j \in 1 .. NumOutputs[f] : u.stack[a.fp + NumInputs[f] + j] = rets[j]

\* Executing the call, wherever it is made, returns rets and leaves rows in seen.
Replays(f, args, rets, rom, w, seen) ==
    \A a : Entered(a, f, args, rom, w) =>
        \E u : Reaches(a, u) /\ Returned(a, u, f, args, rets) /\ AddedRows(a, u, seen)

\* The reference execution has made a call from t to u.
Resumed(t, u, seen) ==
    /\ Reaches(t, u) /\ RefInv(u) /\ u.status = "running"
    /\ u.mem = t.mem /\ u.log = t.log /\ u.calls = t.calls
    /\ u.count = RefStep(t).count /\ AddedRows(t, u, seen)
    /\ \A c \in 1 .. Len(t.stack) : u.stack[c] = t.stack[c]

\* All but the last of what has been appended to.
LEMMA FrontOfAppended ==
    ASSUME NEW s, IsSeq(s), NEW e
    PROVE  LET t == Append(s, e)
           IN  t # <<>> /\ t[Len(t)] = e /\ SubSeq(t, 1, Len(t) - 1) = s
<1> DEFINE t == Append(s, e)
           L == Len(s)
<1>1. L \in Nat
  BY FunctionOfSeq
<1>2. IsSeq(t) /\ Len(t) = L + 1 /\ t[L + 1] = e
  BY Appended
<1>3. \A i \in 1 .. L : t[i] = s[i]
  BY Appended
<1> HIDE DEF t
<1> DEFINE q == SubSeq(t, 1, L)
<1>4. L =< Len(t) /\ Len(t) - 1 = L
  BY <1>1, <1>2
<1>5. IsSeq(q) /\ Len(q) = L
  BY <1>1, <1>2, <1>4, FirstCells
<1>6. \A j \in 1 .. L : q[j] = t[j]
  BY <1>1, <1>2, <1>4, FirstCells
<1> HIDE DEF q
<1>7. q = s
  BY <1>3, <1>5, <1>6, SameSeq
<1>8. t # <<>>
  BY <1>1, <1>2, NoElements
<1>9. t[Len(t)] = e
  BY <1>2
<1> QED BY <1>4, <1>7, <1>8, <1>9 DEF q, t

\* The call is made.
LEMMA CallEntered ==
    ASSUME EntryIsPlain, NEW m, NEW t, WellBehaved(m), RefInv(t), t.status = "running",
           NEW bm \in Nat, NEW bs \in Nat, NEW cm \in Nat, NEW cs \in Nat,
           Alike(m, t, bm, bs, cm, cs), Code[m.pc].op = "enter", NEW w, Extends(w, t.mem.wom)
    PROVE  LET e == RefStep(t)
               f == Code[m.pc].fun
               args == Operands(m, Code[m.pc].args)
           IN  /\ Entered(e, f, args, t.mem.rom, w)
               /\ e.mem = t.mem /\ e.log = t.log /\ e.rows = t.rows /\ e.fp = Len(t.stack)
               /\ e.calls = Append(t.calls, [fid |-> t.fid, fp |-> t.fp, pc |-> t.pc + 1])
               /\ KeptBelow(t, e, Len(t.stack), 0)
<1> DEFINE x == Seen(t)
           d == Dispatch(x)
           e == RefStep(t)
           f == Code[m.pc].fun
           regs == Code[m.pc].args
           args == Operands(m, regs)
<1> SUFFICES /\ Entered(e, f, args, t.mem.rom, w)
             /\ e.mem = t.mem /\ e.log = t.log /\ e.rows = t.rows /\ e.fp = Len(t.stack)
             /\ e.calls = Append(t.calls, [fid |-> t.fid, fp |-> t.fp, pc |-> t.pc + 1])
             /\ KeptBelow(t, e, Len(t.stack), 0)
  OBVIOUS
<1>1. /\ WellBehaved(t) /\ MachineInv(t) /\ MachineFields \subseteq DOMAIN t /\ Handled(t, x) /\ Typed(x)
      /\ x.status = t.status /\ MachineInv(x) /\ MachineFields \subseteq DOMAIN x /\ DOMAIN x.cache = {}
      /\ IsSeq(t.stack)
  BY SeenFields DEF RefInv, Typed, WellBehaved, MachineInv
<1>2. /\ Typed(d) /\ Handled(d, e) /\ e.status = d.status /\ MachineFields \subseteq DOMAIN d
      /\ e.rows = (IF d.status = "failed" THEN Append(Noted(t), RowOf(d, "none")) ELSE Noted(t))
  BY RefStepFields DEF Typed, WellBehaved, MachineInv
<1>3. /\ x.fid = t.fid /\ x.pc = t.pc /\ x.fp = t.fp /\ x.stack = t.stack /\ x.mem = t.mem
      /\ x.log = t.log /\ x.calls = t.calls
  BY <1>1, HandledFields
<1>4. t.pc = m.pc
  BY DEF Alike, SamePlace
<1>5. Operands(t, regs) = args
  BY <1>1, SameOperands
<1>6. Operands(x, regs) = args
  <2>1. Operands(x, regs) = Operands(t, regs)
    <3> HIDE DEF x, regs
    <3> QED BY <1>3 DEF Operands, Register
  <2> QED BY <1>5, <2>1
<1>7. f \in Function /\ IsSeq(args) /\ Len(args) = NumInputs[f]
  <2>1. MachineInv(m)
    BY DEF WellBehaved
  <2> QED BY <2>1, CallOf
<1> HIDE DEF x
<1>8. Code[x.pc].op = "enter" /\ Code[x.pc].fun = f /\ Code[x.pc].args = regs
  BY <1>3, <1>4
<1>9. ~Cached(x, Code[x.pc].fun, Operands(x, Code[x.pc].args))
  BY <1>1 DEF Cached
<1>10. /\ Changes(x, d, {"stack", "calls", "fid", "fp", "pc"})
       /\ d.fid = f /\ d.fp = Len(x.stack) /\ d.pc = Entry[f]
       /\ d.stack = x.stack \o NewFrame(f, Operands(x, regs))
       /\ d.calls = Append(x.calls, [fid |-> x.fid, fp |-> x.fp, pc |-> x.pc + 1])
       /\ d.calls # <<>>
  BY <1>1, <1>8, <1>9, EnterEffect
<1>11. OnTop(t.stack \o NewFrame(f, args), t.stack, f, args)
  BY <1>1, <1>7, Stacked
<1> HIDE DEF d, e, f, args, regs
<1>12. d.mem = t.mem /\ d.log = t.log /\ d.status = "running"
  BY <1>1, <1>3, <1>10 DEF Changes, MachineFields
<1>13. d.stack = t.stack \o NewFrame(f, args)
  BY <1>3, <1>6, <1>10
<1>14. \A c \in 1 .. Len(t.stack) : d.stack[c] = t.stack[c]
  BY <1>11, <1>13 DEF OnTop
<1>15. \A j \in 1 .. Width[f] : d.stack[Len(t.stack) + j] = NewFrame(f, args)[j]
  BY <1>11, <1>13 DEF OnTop
<1>16. /\ e.fid = d.fid /\ e.pc = d.pc /\ e.fp = d.fp /\ e.stack = d.stack /\ e.mem = d.mem
       /\ e.log = d.log /\ e.calls = d.calls
  BY <1>2, HandledFields
<1>17. t.pc \notin TracePoints
  BY <1>3, <1>8 DEF TracePoints, VectorTerminals
<1>18. e.rows = t.rows
  BY <1>2, <1>12, <1>17 DEF Noted
<1>19. e.fp = Len(t.stack) /\ e.calls = Append(t.calls, [fid |-> t.fid, fp |-> t.fp, pc |-> t.pc + 1])
  BY <1>3, <1>10, <1>16
<1>20. KeptBelow(t, e, Len(t.stack), 0)
  <2>1. \A c \in 1 .. Len(t.stack) : e.stack[c] = t.stack[c]
    BY <1>14, <1>16
  <2>2. \A l \in 1 .. 0 : e.calls[l] = t.calls[l]
    OBVIOUS
  <2> QED BY <2>1, <2>2 DEF KeptBelow
<1>21. \A j \in 1 .. Width[f] : e.stack[e.fp + j] = NewFrame(f, args)[j]
  BY <1>15, <1>16, <1>19
<1>22. RefInv(e)
  BY RefStepLater DEF Later, e
<1>23. Entered(e, f, args, t.mem.rom, w)
  BY <1>2, <1>10, <1>12, <1>16, <1>21, <1>22 DEF Entered
<1> QED BY <1>12, <1>16, <1>18, <1>19, <1>20, <1>23

\* What one machine finds in the cache the reference execution finds out.
LEMMA AnswerAlike ==
    ASSUME EntryIsPlain, NEW m, NEW t, WellBehaved(m), RefInv(t), t.status = "running",
           NEW bm \in Nat, NEW bs \in Nat, NEW cm \in Nat, NEW cs \in Nat,
           Alike(m, t, bm, bs, cm, cs), Code[m.pc].op = "enter",
           Cached(m, Code[m.pc].fun, Operands(m, Code[m.pc].args)),
           NEW w, Extends(w, t.mem.wom), NEW seen,
           Replays(Code[m.pc].fun, Operands(m, Code[m.pc].args),
                   m.cache[<<Code[m.pc].fun, Operands(m, Code[m.pc].args)>>], t.mem.rom, w, seen)
    PROVE  \E u : Resumed(t, u, seen) /\ Alike(Dispatch(m), u, bm, bs, cm, cs)
<1> DEFINE e == RefStep(t)
           f == Code[m.pc].fun
           args == Operands(m, Code[m.pc].args)
           rets == m.cache[<<f, args>>]
<1>1. /\ Entered(e, f, args, t.mem.rom, w)
      /\ e.mem = t.mem /\ e.log = t.log /\ e.rows = t.rows /\ e.fp = Len(t.stack)
      /\ e.calls = Append(t.calls, [fid |-> t.fid, fp |-> t.fp, pc |-> t.pc + 1])
  BY CallEntered
<1>2. \A c \in 1 .. Len(t.stack) : e.stack[c] = t.stack[c]
  <2>1. KeptBelow(t, e, Len(t.stack), 0)
    BY CallEntered
  <2> HIDE DEF e
  <2> QED BY <2>1 DEF KeptBelow
<1>3. Reaches(t, e)
  BY ReachesNext
<1>4. Replays(f, args, rets, t.mem.rom, w, seen)
  OBVIOUS
<1>5. WellBehaved(t) /\ IsSeq(t.calls)
  BY DEF RefInv, Typed, WellBehaved, MachineInv
<1> HIDE DEF e, rets
<1>6. PICK u : Reaches(e, u) /\ Returned(e, u, f, args, rets) /\ AddedRows(e, u, seen)
  <2> HIDE DEF f, args
  <2> QED BY <1>1, <1>4 DEF Replays
<1>7. e.calls[Len(e.calls)] = [fid |-> t.fid, fp |-> t.fp, pc |-> t.pc + 1]
      /\ SubSeq(e.calls, 1, Len(e.calls) - 1) = t.calls
  <2> DEFINE c == [fid |-> t.fid, fp |-> t.fp, pc |-> t.pc + 1]
  <2>1. e.calls = Append(t.calls, c)
    BY <1>1
  <2> HIDE DEF c
  <2>2. Append(t.calls, c)[Len(Append(t.calls, c))] = c
        /\ SubSeq(Append(t.calls, c), 1, Len(Append(t.calls, c)) - 1) = t.calls
    BY <1>5, FrontOfAppended
  <2> QED BY <2>1, <2>2 DEF c
<1> HIDE DEF f, args
<1>8. u.fid = t.fid /\ u.fp = t.fp /\ u.pc = t.pc + 1 /\ u.calls = t.calls
  BY <1>6, <1>7 DEF Returned
<1>9. RefInv(u) /\ u.status = "running" /\ u.mem = e.mem /\ u.log = e.log /\ u.count = e.count
  BY <1>6 DEF Returned, Undisturbed
<1>10. \A c \in 1 .. Len(t.stack) : u.stack[c] = t.stack[c]
  BY <1>1, <1>2, <1>6 DEF Returned, Undisturbed
<1>11. \A j \in 1 .. NumInputs[f] : u.stack[Len(t.stack) + j] = args[j]
  BY <1>1, <1>6 DEF Returned
<1>12. \A j \in 1 .. NumOutputs[f] : u.stack[Len(t.stack) + NumInputs[f] + j] = rets[j]
  BY <1>1, <1>6 DEF Returned
<1>13. Answered(u, t, f, args, rets)
  BY <1>10, <1>11, <1>12 DEF Answered
<1>14. Alike(Dispatch(m), u, bm, bs, cm, cs)
  <2>1. Answered(u, t, Code[m.pc].fun, Operands(m, Code[m.pc].args),
                 m.cache[<<Code[m.pc].fun, Operands(m, Code[m.pc].args)>>])
    BY <1>13 DEF f, args, rets
  <2> QED BY <1>5, <1>8, <2>1, CachedAlike
<1>15. Reaches(t, u)
  BY <1>3, <1>6, ReachesFurther
<1>16. AddedRows(t, u, seen)
  BY <1>1, <1>6 DEF AddedRows
<1>17. Resumed(t, u, seen)
  BY <1>1, <1>8, <1>9, <1>10, <1>15, <1>16 DEF Resumed, e
<1> QED BY <1>14, <1>17

-----------------------------------------------------------------------------
\* A call that has been followed to its return.

\* The reference execution returns what the call returns, and has called nothing
\* but what it called.
LEMMA CallReplayed ==
    ASSUME EntryIsPlain, NEW m, NEW a, NEW t, WellBehaved(m), m.status = "running",
           Code[m.pc].op = "ret", m.calls # <<>>, RefInv(a), a.calls # <<>>,
           Follows(m, a, t, m.fp, Len(m.calls))
    PROVE  LET u == RefStep(t)
               ni == NumInputs[m.fid]
           IN  /\ Reaches(t, u)
               /\ Returned(a, u, m.fid, Slice(m, m.fp, ni), Slice(m, m.fp + ni, NumOutputs[m.fid]))
               /\ u.rows = IF m.pc \in TracePoints THEN Append(t.rows, RowOf(m, Code[m.pc].op))
                                                   ELSE t.rows
<1> DEFINE x == Seen(t)
           d == Dispatch(x)
           u == RefStep(t)
           ni == NumInputs[m.fid]
           no == NumOutputs[m.fid]
           args == Slice(m, m.fp, ni)
           rets == Slice(m, m.fp + ni, no)
<1> SUFFICES /\ Reaches(t, u) /\ Returned(a, u, m.fid, args, rets)
             /\ u.rows = IF m.pc \in TracePoints THEN Append(t.rows, RowOf(m, Code[m.pc].op))
                                                 ELSE t.rows
  OBVIOUS
<1>0. /\ RefInv(t) /\ t.status = "running" /\ t.mem = a.mem /\ t.log = a.log /\ t.count = a.count
      /\ Alike(m, t, m.fp, a.fp, Len(m.calls), Len(a.calls))
      /\ \A c \in 1 .. a.fp : t.stack[c] = a.stack[c]
  BY DEF Follows, Undisturbed
<1>1. /\ WellBehaved(t) /\ MachineInv(t) /\ MachineFields \subseteq DOMAIN t /\ Handled(t, x) /\ Typed(x)
      /\ x.status = t.status /\ MachineInv(x) /\ MachineFields \subseteq DOMAIN x
      /\ WellBehaved(a) /\ MachineInv(a) /\ MachineInv(m)
  BY <1>0, SeenFields DEF RefInv, Typed, WellBehaved, MachineInv
<1>2. /\ Typed(d) /\ Handled(d, u) /\ u.status = d.status /\ MachineFields \subseteq DOMAIN d
      /\ u.rows = (IF d.status = "failed" THEN Append(Noted(t), RowOf(d, "none")) ELSE Noted(t))
      /\ u.count = (IF t.pc = EntryPoint THEN t.count + 1 ELSE t.count)
  BY <1>0, RefStepFields DEF Typed, WellBehaved, MachineInv
<1>3. /\ x.fid = t.fid /\ x.pc = t.pc /\ x.fp = t.fp /\ x.stack = t.stack /\ x.mem = t.mem
      /\ x.log = t.log /\ x.calls = t.calls
  BY <1>1, HandledFields
<1>4. /\ m.fp \in Nat /\ a.fp \in Nat /\ t.fp \in Nat /\ Len(m.calls) \in Nat /\ Len(a.calls) \in Nat
      /\ Len(t.calls) \in Nat
  BY <1>1, FrameSizes
<1>5. t.pc = m.pc /\ t.fid = m.fid /\ t.fp = a.fp /\ ~Returning(m)
  <2>1. t.pc = m.pc /\ t.fid = m.fid /\ t.fp + m.fp = m.fp + a.fp
    BY <1>0 DEF Alike, SamePlace
  <2> QED BY <1>4, <2>1 DEF Returning
<1>6. t.calls = a.calls
  <2>1. Len(t.calls) + Len(m.calls) = Len(m.calls) + Len(a.calls)
    BY <1>0 DEF Alike, SameCalls
  <2>2. Len(t.calls) = Len(a.calls)
    <3> DEFINE lt == Len(t.calls)
               lm == Len(m.calls)
               la == Len(a.calls)
    <3>1. lt \in Nat /\ lm \in Nat /\ la \in Nat /\ lt + lm = lm + la
      BY <1>4, <2>1
    <3> HIDE DEF lt, lm, la
    <3>2. lt = la
      BY <3>1
    <3> QED BY <3>2 DEF lt, la
  <2>3. IsSeq(t.calls) /\ IsSeq(a.calls)
    BY <1>1 DEF MachineInv
  <2>4. \A l \in 1 .. Len(a.calls) : t.calls[l] = a.calls[l]
    BY DEF Follows
  <2> QED BY <2>2, <2>3, <2>4, SameSeq
<1> HIDE DEF x
<1>7. Code[x.pc].op = "ret" /\ x.calls # <<>>
  BY <1>3, <1>5, <1>6
<1>8. /\ Changes(x, d, {"calls", "cache", "fid", "fp", "pc", "rp", "rw"})
      /\ d.fid = x.calls[Len(x.calls)].fid /\ d.fp = x.calls[Len(x.calls)].fp
      /\ d.pc = x.calls[Len(x.calls)].pc
      /\ d.calls = SubSeq(x.calls, 1, Len(x.calls) - 1)
  BY <1>1, <1>7, ReturnEffect
<1> HIDE DEF d
<1>9. d.mem = t.mem /\ d.log = t.log /\ d.stack = t.stack /\ d.status = "running"
  BY <1>0, <1>1, <1>3, <1>8 DEF Changes, MachineFields
<1>10. t.pc # EntryPoint
  <2>1. Code[t.pc].op = "ret"
    BY <1>5
  <2> QED BY <1>1, <2>1, EntryPointOf
<1> HIDE DEF u
<1>11. /\ u.fid = d.fid /\ u.pc = d.pc /\ u.fp = d.fp /\ u.stack = d.stack /\ u.mem = d.mem
       /\ u.log = d.log /\ u.calls = d.calls
  BY <1>2, HandledFields
<1>12. RefInv(u) /\ Reaches(t, u)
  BY <1>0, RefStepLater, ReachesNext DEF Later, u
<1>13. Undisturbed(a, u)
  BY <1>0, <1>2, <1>9, <1>10, <1>11, <1>12 DEF Undisturbed
<1>14. /\ ni \in Nat /\ no \in Nat /\ Width[m.fid] \in Nat /\ ni + no =< Width[m.fid]
       /\ Len(m.stack) = m.fp + Width[m.fid] /\ IsSeq(m.stack)
  BY <1>1, <1>5, FrameSizes DEF MachineInv, Returning
<1>15. \A j \in 1 .. Width[m.fid] : t.stack[a.fp + j] = m.stack[m.fp + j]
  <2> TAKE j \in 1 .. Width[m.fid]
  <2>1. Extent(m) - m.fp = Width[m.fid]
    BY <1>4, <1>5, <1>14 DEF Extent
  <2>2. Agree(m.stack, t.stack, m.fp, a.fp, Width[m.fid])
    BY <1>0, <2>1 DEF Alike, SameCells
  <2> QED BY <2>2 DEF Agree
<1>16. \A j \in 1 .. ni : args[j] = m.stack[m.fp + j]
  <2>1. m.fp + ni =< Len(m.stack)
    <3> DEFINE fp == m.fp
               w == Width[m.fid]
               ls == Len(m.stack)
    <3>1. fp \in Nat /\ ni \in Nat /\ no \in Nat /\ w \in Nat /\ ni + no =< w /\ ls = fp + w
      BY <1>4, <1>14
    <3> HIDE DEF fp, ni, no, w, ls
    <3>2. fp + ni =< ls
      BY <3>1
    <3> QED BY <3>2 DEF fp, ls
  <2>2. IsSeq(m.stack) /\ m.fp \in Nat /\ ni \in Nat
    BY <1>4, <1>14
  <2> HIDE DEF ni
  <2> QED BY <2>1, <2>2, SliceOf
<1>17. \A j \in 1 .. no : rets[j] = m.stack[m.fp + ni + j]
  <2>1. (m.fp + ni) + no =< Len(m.stack) /\ m.fp + ni \in Nat
    <3> DEFINE fp == m.fp
               w == Width[m.fid]
               ls == Len(m.stack)
    <3>1. fp \in Nat /\ ni \in Nat /\ no \in Nat /\ w \in Nat /\ ni + no =< w /\ ls = fp + w
      BY <1>4, <1>14
    <3> HIDE DEF fp, ni, no, w, ls
    <3>2. (fp + ni) + no =< ls /\ fp + ni \in Nat
      BY <3>1
    <3> QED BY <3>2 DEF fp, ls
  <2> HIDE DEF ni, no
  <2> QED BY <1>14, <2>1, SliceOf
<1> HIDE DEF args, rets
<1>18. \A j \in 1 .. ni : u.stack[a.fp + j] = args[j]
  <2> TAKE j \in 1 .. ni
  <2>1. j \in 1 .. Width[m.fid]
    <3> HIDE DEF ni, no
    <3> QED BY <1>14
  <2>2. t.stack[a.fp + j] = m.stack[m.fp + j] /\ args[j] = m.stack[m.fp + j]
    BY <1>15, <1>16, <2>1
  <2> QED BY <1>9, <1>11, <2>2
<1>19. \A j \in 1 .. no : u.stack[a.fp + ni + j] = rets[j]
  <2> TAKE j \in 1 .. no
  <2> HIDE DEF ni, no
  <2>1. ni + j \in 1 .. Width[m.fid] /\ a.fp + ni + j = a.fp + (ni + j) /\ m.fp + ni + j = m.fp + (ni + j)
    <3> DEFINE w == Width[m.fid]
               fa == a.fp
               fm == m.fp
    <3>1. w \in Nat /\ fa \in Nat /\ fm \in Nat
      BY <1>4, <1>14
    <3>2. ni + no =< w /\ ni \in Nat /\ no \in Nat
      BY <1>14
    <3> HIDE DEF w, fa, fm
    <3>3. ni + j \in 1 .. w /\ fa + ni + j = fa + (ni + j) /\ fm + ni + j = fm + (ni + j)
      BY <3>1, <3>2
    <3> QED BY <3>3 DEF w, fa, fm
  <2>2. t.stack[a.fp + (ni + j)] = m.stack[m.fp + (ni + j)]
    BY <1>15, <2>1
  <2>3. rets[j] = m.stack[m.fp + ni + j]
    BY <1>17
  <2> QED BY <1>9, <1>11, <2>1, <2>2, <2>3
<1>20. Returned(a, u, m.fid, args, rets)
  <2>1. u.fid = a.calls[Len(a.calls)].fid /\ u.fp = a.calls[Len(a.calls)].fp
        /\ u.pc = a.calls[Len(a.calls)].pc /\ u.calls = SubSeq(a.calls, 1, Len(a.calls) - 1)
    BY <1>3, <1>6, <1>8, <1>11
  <2> QED BY <1>13, <1>18, <1>19, <2>1 DEF Returned
<1>21. RowOf(t, Code[m.pc].op) = RowOf(m, Code[m.pc].op)
  BY <1>0, <1>1, <1>4, <1>5, SameRow
<1>22. u.rows = IF m.pc \in TracePoints THEN Append(t.rows, RowOf(m, Code[m.pc].op)) ELSE t.rows
  BY <1>2, <1>5, <1>9, <1>21 DEF Noted
<1> QED BY <1>12, <1>20, <1>22

-----------------------------------------------------------------------------
\* Calls in progress.

\* The frames stay that have not been returned from, but for a tail call.
LEMMA FramesKept ==
    ASSUME NEW m, WellBehaved(m), Code[m.pc].op # "tail",
           NEW k \in 1 .. (Len(m.calls) + 1), k =< Len(Dispatch(m).calls) + 1
    PROVE  FrameOf(Dispatch(m), k) = FrameOf(m, k)
<1> DEFINE n == Dispatch(m)
           op == Code[m.pc].op
           ln == Len(n.calls)
           lm == Len(m.calls)
<1>0. MachineInv(m) /\ MachineFields \subseteq DOMAIN m /\ IsSeq(m.calls) /\ lm \in Nat
  BY FunctionOfSeq DEF WellBehaved, MachineInv
<1>1. CASE op = "enter" /\ ~Cached(m, Code[m.pc].fun, Operands(m, Code[m.pc].args))
  <2> DEFINE c == [fid |-> m.fid, fp |-> m.fp, pc |-> m.pc + 1]
  <2>1. n.calls = Append(m.calls, c)
    BY <1>0, <1>1, EnterEffect
  <2>2. c.fid = m.fid /\ c.fp = m.fp
    OBVIOUS
  <2> HIDE DEF n, c
  <2>3. ln = lm + 1 /\ n.calls[lm + 1] = c
    BY <1>0, <2>1, Appended
  <2>4. \A l \in 1 .. lm : n.calls[l] = m.calls[l]
    BY <1>0, <2>1, Appended
  <2>5. k # ln + 1
    <3> HIDE DEF ln, lm
    <3>1. k \in 1 .. (lm + 1)
      BY DEF lm
    <3> QED BY <1>0, <2>3, <3>1
  <2>6. FrameOf(n, k) = [fid |-> n.calls[k].fid, fp |-> n.calls[k].fp]
    BY <2>5 DEF FrameOf
  <2>7. CASE k = lm + 1
    <3>1. FrameOf(m, k) = [fid |-> m.fid, fp |-> m.fp]
      BY <2>7 DEF FrameOf
    <3>2. n.calls[k] = c
      BY <2>3, <2>7
    <3> QED BY <2>2, <2>6, <3>1, <3>2 DEF n
  <2>8. CASE k # lm + 1
    <3>1. FrameOf(m, k) = [fid |-> m.calls[k].fid, fp |-> m.calls[k].fp]
      BY <2>8 DEF FrameOf
    <3>2. k \in 1 .. lm
      <4>1. k \in 1 .. (lm + 1)
        OBVIOUS
      <4> HIDE DEF lm
      <4> QED BY <1>0, <2>8, <4>1 DEF lm
    <3>3. n.calls[k] = m.calls[k]
      BY <2>4, <3>2
    <3> QED BY <2>6, <3>1, <3>3 DEF n
  <2> QED BY <2>7, <2>8
<1>2. CASE op = "ret" /\ m.calls # <<>>
  <2> DEFINE caller == m.calls[lm]
  <2>1. n.fid = caller.fid /\ n.fp = caller.fp /\ ln = lm - 1 /\ lm > 0
    BY <1>0, <1>2, ReturnEffect
  <2>2. \A l \in 1 .. (lm - 1) : n.calls[l] = m.calls[l]
    BY <1>0, <1>2, ReturnEffect
  <2>3. k =< ln + 1
    OBVIOUS
  <2>4. k \in 1 .. (lm + 1)
    OBVIOUS
  <2>5. k =< lm /\ k # lm + 1
    <3> HIDE DEF ln, lm
    <3> QED BY <1>0, <2>1, <2>3, <2>4
  <2>6. FrameOf(m, k) = [fid |-> m.calls[k].fid, fp |-> m.calls[k].fp]
    BY <2>5 DEF FrameOf
  <2> HIDE DEF n
  <2>7. CASE k = lm
    <3>1. k = ln + 1
      <4> HIDE DEF ln, lm
      <4> QED BY <1>0, <2>1, <2>7
    <3>2. FrameOf(n, k) = [fid |-> n.fid, fp |-> n.fp]
      BY <3>1 DEF FrameOf
    <3> QED BY <2>1, <2>6, <2>7, <3>2 DEF n
  <2>8. CASE k # lm
    <3>1. k # ln + 1 /\ k \in 1 .. (lm - 1)
      <4> HIDE DEF ln, lm
      <4> QED BY <1>0, <2>1, <2>4, <2>5, <2>8
    <3>2. FrameOf(n, k) = [fid |-> n.calls[k].fid, fp |-> n.calls[k].fp]
      BY <3>1 DEF FrameOf
    <3>3. n.calls[k] = m.calls[k]
      BY <2>2, <3>1
    <3> QED BY <2>6, <3>2, <3>3 DEF n
  <2> QED BY <2>7, <2>8
<1>3. CASE op \notin {"enter", "ret", "tail"} \/ (op = "ret" /\ m.calls = <<>>)
           \/ (op = "enter" /\ Cached(m, Code[m.pc].fun, Operands(m, Code[m.pc].args)))
  <2>1. n.calls = m.calls /\ n.fid = m.fid /\ n.fp = m.fp
    BY <1>3, FramesStay
  <2> HIDE DEF n
  <2>2. FrameOf(n, k) = FrameOf(m, k)
    BY <2>1 DEF FrameOf
  <2> QED BY <2>2 DEF n
<1> QED BY <1>1, <1>2, <1>3

\* The sizes of any frame.
LEMMA FrameFits ==
    ASSUME NEW m, MachineInv(m), NEW k \in 1 .. (Len(m.calls) + 1)
    PROVE  LET g == FrameOf(m, k)
           IN  /\ g.fid \in Function /\ g.fp \in Nat /\ NumInputs[g.fid] \in Nat
               /\ g.fp + NumInputs[g.fid] =< Len(m.stack)
               /\ Code[m.pc].op # "tail" => g.fp + NumInputs[g.fid] =< Fixed(m)
<1> DEFINE g == FrameOf(m, k)
           fp == m.fp
           gf == g.fp
           ni == NumInputs[g.fid]
           w == Width[g.fid]
           ls == Len(m.stack)
<1> SUFFICES /\ g.fid \in Function /\ gf \in Nat /\ ni \in Nat
             /\ gf + ni =< ls /\ (Code[m.pc].op # "tail" => gf + ni =< Fixed(m))
  OBVIOUS
<1>1. CASE k = Len(m.calls) + 1
  <2>1. g = [fid |-> m.fid, fp |-> m.fp]
    BY <1>1 DEF FrameOf
  <2>2. g.fid = m.fid /\ g.fp = m.fp
    BY <2>1
  <2>3. /\ m.fid \in Function /\ m.fp \in Nat /\ NumInputs[m.fid] \in Nat /\ NumOutputs[m.fid] \in Nat
        /\ Width[m.fid] \in Nat
        /\ NumInputs[m.fid] + NumOutputs[m.fid] =< Width[m.fid]
        /\ m.fp + Width[m.fid] =< ls /\ ls \in Nat
    BY FrameSizes
  <2>4. m.fp + NumInputs[m.fid] =< ls
    <3> DEFINE a == NumInputs[m.fid]
               b == NumOutputs[m.fid]
               c == Width[m.fid]
    <3>1. a \in Nat /\ b \in Nat /\ c \in Nat /\ fp \in Nat /\ a + b =< c /\ fp + c =< ls /\ ls \in Nat
      BY <2>3
    <3> HIDE DEF a, b, c, fp, ls
    <3>2. fp + a =< ls
      BY <3>1
    <3> QED BY <3>2 DEF fp, a
  <2>5. Code[m.pc].op # "tail" => Fixed(m) = m.fp + NumInputs[m.fid]
    BY DEF Fixed
  <2>6. m.fp + NumInputs[m.fid] =< m.fp + NumInputs[m.fid]
    BY <2>3
  <2> HIDE DEF g
  <2> QED BY <2>2, <2>3, <2>4, <2>5, <2>6
<1>2. CASE k # Len(m.calls) + 1
  <2>1. k \in 1 .. Len(m.calls)
    <3>1. Len(m.calls) \in Nat
      BY FrameSizes
    <3> QED BY <1>2, <3>1
  <2>2. g.fid \in Function /\ gf \in Nat /\ gf + w =< fp
    BY <2>1, FramesBelow
  <2>3. w \in Nat /\ ni \in Nat /\ NumOutputs[g.fid] \in Nat /\ ni + NumOutputs[g.fid] =< w
    <3> HIDE DEF g
    <3> QED BY <2>2, EntryInBody
  <2>4. fp \in Nat /\ ls \in Nat /\ Fixed(m) \in Nat /\ fp =< Fixed(m) /\ Fixed(m) =< ls
    BY FixedCells, FrameSizes
  <2> DEFINE no == NumOutputs[g.fid]
             fx == Fixed(m)
  <2>5. gf \in Nat /\ gf + w =< fp /\ w \in Nat /\ ni \in Nat /\ no \in Nat /\ ni + no =< w
        /\ fp \in Nat /\ ls \in Nat /\ fx \in Nat /\ fp =< fx /\ fx =< ls
    BY <2>2, <2>3, <2>4
  <2> HIDE DEF gf, w, ni, no, fp, ls, fx
  <2>6. gf + ni =< ls /\ gf + ni =< fx
    BY <2>5
  <2> QED BY <2>2, <2>5, <2>6 DEF fx
<1> QED BY <1>1, <1>2

\* The arguments of the k-th function on the call stack.
Args(m, k) == Slice(m, FrameOf(m, k).fp, NumInputs[FrameOf(m, k).fid])

\* They stay too.
LEMMA ArgsKept ==
    ASSUME NEW m, WellBehaved(m), Code[m.pc].op # "tail",
           NEW k \in 1 .. (Len(m.calls) + 1), k =< Len(Dispatch(m).calls) + 1
    PROVE  Args(Dispatch(m), k) = Args(m, k)
<1> DEFINE n == Dispatch(m)
           g == FrameOf(m, k)
           gf == g.fp
           ni == NumInputs[g.fid]
           s == Slice(m, gf, ni)
           t == Slice(n, gf, ni)
<1>1. MachineInv(m) /\ MachineInv(n) /\ IsSeq(m.stack) /\ IsSeq(n.stack) /\ Len(n.calls) \in Nat
  BY StaysWellBehaved, CallsKept DEF WellBehaved, MachineInv
<1>2. FrameOf(n, k) = g
  BY FramesKept
<1>3. /\ gf \in Nat /\ ni \in Nat /\ gf + ni =< Len(m.stack) /\ gf + ni =< Fixed(m)
      /\ Fixed(m) \in Nat
  BY <1>1, FrameFits, FixedCells
<1>4. gf + ni =< Len(n.stack)
  <2>1. k \in 1 .. (Len(n.calls) + 1)
    <3> DEFINE ln == Len(n.calls)
    <3>1. ln \in Nat /\ k =< ln + 1 /\ k \in Nat /\ 1 =< k
      <4>1. k =< ln + 1
        OBVIOUS
      <4>2. Len(m.calls) \in Nat
        BY <1>1, FrameSizes
      <4> HIDE DEF n
      <4> QED BY <1>1, <4>1, <4>2
    <3> HIDE DEF ln
    <3>2. k \in 1 .. (ln + 1)
      BY <3>1
    <3> QED BY <3>2 DEF ln
  <2> HIDE DEF n, g
  <2>2. FrameOf(n, k).fp + NumInputs[FrameOf(n, k).fid] =< Len(n.stack)
    BY <1>1, <2>1, FrameFits
  <2> QED BY <1>2, <2>2
<1>5. \A j \in 1 .. ni : n.stack[gf + j] = m.stack[gf + j]
  <2> TAKE j \in 1 .. ni
  <2>1. gf + j \in 1 .. Fixed(m)
    <3> DEFINE fx == Fixed(m)
    <3>1. fx \in Nat /\ gf + ni =< fx /\ gf \in Nat /\ ni \in Nat
      BY <1>3
    <3> HIDE DEF gf, ni, fx
    <3>2. gf + j \in 1 .. fx
      BY <3>1
    <3> QED BY <3>2 DEF gf, fx
  <2> QED BY <2>1, CellsKept
<1> HIDE DEF n, g, gf, ni
<1>6. IsSeq(s) /\ Len(s) = ni /\ (\A j \in 1 .. ni : s[j] = m.stack[gf + j])
  BY <1>1, <1>3, SliceOf
<1>7. IsSeq(t) /\ Len(t) = ni /\ (\A j \in 1 .. ni : t[j] = n.stack[gf + j])
  BY <1>1, <1>3, <1>4, SliceOf
<1> HIDE DEF s, t
<1>8. s = t
  <2>1. \A j \in 1 .. Len(s) : s[j] = t[j]
    BY <1>5, <1>6, <1>7
  <2> QED BY <1>6, <1>7, <2>1, SameSeq
<1> QED BY <1>2, <1>8 DEF Args, s, t, n, g, gf, ni

-----------------------------------------------------------------------------
\* Calls of functions that return and declare no effect: the k-th call and those
\* made from it.
Live(m, k) ==
    \A l \in (k + 1) .. (Len(m.calls) + 1) : FrameOf(m, l).fid \in Effectless \ NoReturn

\* Wherever the k-th call is made, with at least the output w, its execution
\* comes to what m is doing for it, and leaves rows in seen.
InProgress(m, k, w, seen) ==
    LET g == FrameOf(m, k + 1)
    IN  \A a : Entered(a, g.fid, Args(m, k + 1), m.mem.rom, w) =>
           \E t : Reaches(a, t) /\ Follows(m, a, t, g.fp, k) /\ AddedRows(a, t, seen)

\* The executing function of a call that is live.
LEMMA LiveTop ==
    ASSUME NEW m, MachineInv(m), NEW k \in 1 .. Len(m.calls), Live(m, k)
    PROVE  m.fid \in Effectless /\ m.fid \notin NoReturn /\ m.fid # ShardFun
<1> DEFINE l == Len(m.calls)
           c == m.calls[l]
<1>1. l \in Nat /\ l >= 1 /\ IsSeq(m.calls)
  <2>1. l \in Nat /\ k \in 1 .. l
    BY FrameSizes
  <2> HIDE DEF l
  <2>2. l \in Nat /\ l >= 1
    BY <2>1
  <2> QED BY <2>2 DEF MachineInv, l
<1>2. FrameOf(m, l + 1) = [fid |-> m.fid, fp |-> m.fp]
  BY DEF FrameOf
<1>3. m.fid \in Effectless \ NoReturn
  <2>1. l + 1 \in (k + 1) .. (l + 1)
    <3>1. k \in 1 .. l
      OBVIOUS
    <3> HIDE DEF l
    <3> QED BY <1>1, <3>1
  <2> QED BY <1>2, <2>1 DEF Live
<1>4. IsCall(m, l)
  <2>1. l \in 1 .. l
    <3> HIDE DEF l
    <3> QED BY <1>1
  <2> QED BY <2>1 DEF MachineInv
<1>5. c.fid \in Function /\ c.pc - 1 \in Body(c.fid) /\ Code[c.pc - 1].op = "enter"
      /\ m.fid \in NoReturn \cup {Code[c.pc - 1].fun}
  BY <1>2, <1>4 DEF IsCall
<1>6. c.pc - 1 \in DOMAIN Code
  BY <1>5 DEF Body
<1>7. m.fid # ShardFun
  BY <1>3, <1>5, <1>6, EntryAssumption
<1> QED BY <1>3, <1>7

\* A call that is made later has more output.
LEMMA EnteredEarlier ==
    ASSUME NEW a, NEW f, NEW args, NEW rom, NEW w, NEW v, IsSeq(w), IsSeq(v), Extends(w, v),
           Entered(a, f, args, rom, v)
    PROVE  Entered(a, f, args, rom, w)
<1>1. IsSeq(a.mem.wom) /\ Extends(v, a.mem.wom)
  BY DEF Entered, RefInv, Typed, MemTyped
<1>2. Extends(w, a.mem.wom)
  BY <1>1, ExtendsFurther
<1> QED BY <1>2 DEF Entered

\* Rows are among more rows.
LEMMA AddedToMore ==
    ASSUME NEW a, NEW t, NEW seen, NEW more, seen \subseteq more, AddedRows(a, t, seen)
    PROVE  AddedRows(a, t, more)
BY DEF AddedRows

\* What replays goes on to do so.
LEMMA ReplaysLater ==
    ASSUME NEW f, NEW args, NEW rets, NEW rom, NEW w, NEW v, IsSeq(w), IsSeq(v), Extends(w, v),
           NEW seen, NEW more, seen \subseteq more, Replays(f, args, rets, rom, w, seen)
    PROVE  Replays(f, args, rets, rom, v, more)
<1>1. ASSUME NEW a, Entered(a, f, args, rom, v)
      PROVE  \E u : Reaches(a, u) /\ Returned(a, u, f, args, rets) /\ AddedRows(a, u, more)
  <2>1. Entered(a, f, args, rom, w)
    BY <1>1, EnteredEarlier
  <2>2. PICK u : Reaches(a, u) /\ Returned(a, u, f, args, rets) /\ AddedRows(a, u, seen)
    BY <2>1 DEF Replays
  <2>3. AddedRows(a, u, more)
    BY <2>2, AddedToMore
  <2> QED BY <2>2, <2>3
<1> QED BY <1>1 DEF Replays

\* A call stays in progress if the output grows and rows are added.
LEMMA InProgressLater ==
    ASSUME NEW m, NEW k, NEW w, NEW v, IsSeq(w), IsSeq(v), Extends(w, v),
           NEW seen, NEW more, seen \subseteq more, InProgress(m, k, w, seen)
    PROVE  InProgress(m, k, v, more)
<1> DEFINE g == FrameOf(m, k + 1)
           f == g.fid
           args == Args(m, k + 1)
           rom == m.mem.rom
<1>0. \A a : Entered(a, f, args, rom, w) =>
         \E t : Reaches(a, t) /\ Follows(m, a, t, g.fp, k) /\ AddedRows(a, t, seen)
  BY DEF InProgress
<1> HIDE DEF g, f, args, rom
<1>1. ASSUME NEW a, Entered(a, f, args, rom, v)
      PROVE  \E t : Reaches(a, t) /\ Follows(m, a, t, g.fp, k) /\ AddedRows(a, t, more)
  <2>1. Entered(a, f, args, rom, w)
    BY <1>1, EnteredEarlier
  <2>2. PICK t : Reaches(a, t) /\ Follows(m, a, t, g.fp, k) /\ AddedRows(a, t, seen)
    BY <1>0, <2>1
  <2>3. AddedRows(a, t, more)
    BY <2>2, AddedToMore
  <2> QED BY <2>2, <2>3
<1> QED BY <1>1 DEF InProgress, g, f, args, rom

\* What is written to the output memory is in it.
Wrote2Wom(m, v) ==
    Code[m.pc].op = "wrwom" =>
       LET c == Register(m, Code[m.pc].address) + 1
       IN  c \in Nat \ {0} /\ c =< Len(v) /\ v[c] = Register(m, Code[m.pc].source)

\* The row of the bytecode, if it is one of a function without effects.
RowIn(m, more) ==
    m.fid \in Effectless /\ m.pc \in TracePoints => RowOf(m, Code[m.pc].op) \in more

\* A step of a call in progress.
LEMMA ProgressStep ==
    ASSUME EntryIsPlain, NEW m, WellBehaved(m), m.status = "running", Dispatch(m).status = "running",
           Dispatch(m).mem.rom = m.mem.rom, Code[m.pc].op # "tail",
           NEW k \in 1 .. Len(m.calls), Live(m, k), k =< Len(Dispatch(m).calls),
           Code[m.pc].op = "enter" => ~Cached(m, Code[m.pc].fun, Operands(m, Code[m.pc].args)),
           NEW v, IsSeq(v), Wrote2Wom(m, v), NEW seen, NEW more, seen \subseteq more, RowIn(m, more),
           InProgress(m, k, v, seen)
    PROVE  InProgress(Dispatch(m), k, v, more)
<1> DEFINE n == Dispatch(m)
           g == FrameOf(m, k + 1)
           args == Args(m, k + 1)
           rom == m.mem.rom
           lm == Len(m.calls)
           ln == Len(n.calls)
           i == Code[m.pc]
           row == RowOf(m, i.op)
<1>0. MachineInv(m) /\ m.fid \in Effectless /\ m.fid # ShardFun
  BY LiveTop DEF WellBehaved
<1>1. lm \in Nat /\ ln \in Nat /\ k \in Nat /\ k + 1 \in 1 .. (lm + 1) /\ k + 1 =< ln + 1
      /\ (i.op = "ret" => lm > k)
  <2>1. lm \in Nat /\ ln \in Nat /\ k \in 1 .. lm /\ k =< ln
    BY <1>0, FrameSizes, CallsKept
  <2>2. i.op = "ret" => ln = lm - 1
    <3>1. m.calls # <<>>
      <4>1. m.calls = <<>> => lm = 0
        OBVIOUS
      <4> HIDE DEF lm
      <4> QED BY <2>1, <4>1
    <3> QED BY <1>0, <3>1, ReturnEffect
  <2> HIDE DEF lm, ln
  <2> QED BY <2>1, <2>2
<1>2. FrameOf(n, k + 1) = g /\ Args(n, k + 1) = args
  BY <1>1, FramesKept, ArgsKept
<1>3. g.fp \in Nat
  BY <1>0, <1>1, FrameFits
<1>4. \A a : Entered(a, g.fid, args, rom, v) =>
         \E t : Reaches(a, t) /\ Follows(m, a, t, g.fp, k) /\ AddedRows(a, t, seen)
  BY DEF InProgress
<1> HIDE DEF n, g, args, lm, ln
<1>5. ASSUME NEW a, Entered(a, g.fid, args, rom, v)
      PROVE  \E u : Reaches(a, u) /\ Follows(n, a, u, g.fp, k) /\ AddedRows(a, u, more)
  <2>1. PICK t : Reaches(a, t) /\ Follows(m, a, t, g.fp, k) /\ AddedRows(a, t, seen)
    BY <1>4, <1>5
  <2>2. RefInv(a) /\ a.mem.rom = rom /\ Extends(v, a.mem.wom)
    BY <1>5 DEF Entered
  <2>3. t.mem = a.mem /\ RefInv(t) /\ IsSeq(t.rows)
    BY <2>1 DEF Follows, Undisturbed, RefInv
  <2> DEFINE u == RefStep(t)
  <2>4. i.op = "wrwom" =>
          LET c == Register(m, i.address) + 1
          IN  /\ c \in Nat \ {0} /\ c =< Len(t.mem.wom)
              /\ t.mem.wom[c] = Register(m, i.source)
    <3> SUFFICES ASSUME i.op = "wrwom"
                 PROVE  LET c == Register(m, i.address) + 1
                        IN  /\ c \in Nat \ {0} /\ c =< Len(t.mem.wom)
                            /\ t.mem.wom[c] = Register(m, i.source)
      OBVIOUS
    <3> DEFINE c == Register(m, i.address) + 1
               lv == Len(v)
               lt == Len(t.mem.wom)
    <3>1. c \in Nat \ {0} /\ c =< lv /\ v[c] = Register(m, i.source)
      BY DEF Wrote2Wom
    <3>2. lv \in Nat /\ lt \in Nat
      <4>1. IsSeq(t.mem.wom)
        BY <2>3 DEF RefInv, Typed, MemTyped
      <4> QED BY <4>1, FunctionOfSeq
    <3>3. lv =< lt /\ \A j \in 1 .. lv : t.mem.wom[j] = v[j]
      BY <2>2, <2>3 DEF Extends
    <3> HIDE DEF c, lv, lt
    <3>4. c =< lt /\ c \in 1 .. lv
      BY <3>1, <3>2, <3>3
    <3> QED BY <3>1, <3>3, <3>4 DEF c, lt
  <2>5. /\ Reaches(t, u) /\ Follows(n, a, u, g.fp, k)
        /\ u.rows = IF m.pc \in TracePoints THEN Append(t.rows, row) ELSE t.rows
    <3>1. t.mem.rom = m.mem.rom
      BY <2>2, <2>3
    <3>2. i.op = "ret" => Len(m.calls) > k
      BY <1>1 DEF lm
    <3> QED BY <1>0, <1>1, <1>3, <2>1, <2>2, <2>4, <3>1, <3>2, AsideStep DEF n
  <2>6. AddedRows(a, u, more)
    <3> HIDE DEF u, i, row
    <3>1. CASE m.pc \in TracePoints
      <4>1. row \in more /\ row.fid \in Effectless
        BY <1>0, <3>1 DEF RowIn, row, RowOf, i
      <4>2. u.rows = Append(t.rows, row)
        BY <2>5, <3>1
      <4> QED BY <2>1, <2>3, <4>1, <4>2, RowAdded
    <3>2. CASE m.pc \notin TracePoints
      <4>1. u.rows = t.rows
        BY <2>5, <3>2
      <4>2. AddedRows(a, u, seen)
        BY <2>1, <4>1 DEF AddedRows
      <4> QED BY <4>2, AddedToMore
    <3> QED BY <3>1, <3>2
  <2>7. Reaches(a, u)
    <3> HIDE DEF u
    <3> QED BY <2>1, <2>5, ReachesFurther
  <2> HIDE DEF u
  <2> QED BY <2>5, <2>6, <2>7
<1>6. InProgress(n, k, v, more)
  <2>1. n.mem.rom = rom
    BY DEF n
  <2> HIDE DEF rom
  <2> QED BY <1>2, <1>5, <2>1 DEF InProgress
<1> QED BY <1>6 DEF n

-----------------------------------------------------------------------------
\* An answer to a call in progress.
LEMMA ProgressAnswer ==
    ASSUME EntryIsPlain, NEW m, WellBehaved(m), m.status = "running", Dispatch(m).mem.rom = m.mem.rom,
           NEW k \in 1 .. Len(m.calls), Live(m, k), Code[m.pc].op = "enter",
           Cached(m, Code[m.pc].fun, Operands(m, Code[m.pc].args)), NEW v, NEW seen,
           Replays(Code[m.pc].fun, Operands(m, Code[m.pc].args),
                   m.cache[<<Code[m.pc].fun, Operands(m, Code[m.pc].args)>>], m.mem.rom, v, seen),
           InProgress(m, k, v, seen)
    PROVE  InProgress(Dispatch(m), k, v, seen)
<1> DEFINE n == Dispatch(m)
           g == FrameOf(m, k + 1)
           args == Args(m, k + 1)
           rom == m.mem.rom
           lm == Len(m.calls)
           f == Code[m.pc].fun
           regs == Code[m.pc].args
<1>0. MachineInv(m) /\ m.fid # ShardFun
  BY LiveTop DEF WellBehaved
<1>1. n.calls = m.calls /\ n.fid = m.fid /\ n.fp = m.fp
  BY FramesStay
<1>2. lm \in Nat /\ k \in Nat /\ k + 1 \in 1 .. (lm + 1) /\ k + 1 =< lm + 1
  <2>1. lm \in Nat /\ k \in 1 .. lm
    BY <1>0, FrameSizes
  <2> HIDE DEF lm
  <2> QED BY <2>1
<1>3. FrameOf(n, k + 1) = g /\ Args(n, k + 1) = args
  BY <1>1, <1>2, FramesKept, ArgsKept
<1>4. g.fp \in Nat
  BY <1>0, <1>2, FrameFits
<1>5. \A a : Entered(a, g.fid, args, rom, v) =>
         \E t : Reaches(a, t) /\ Follows(m, a, t, g.fp, k) /\ AddedRows(a, t, seen)
  BY DEF InProgress
<1> HIDE DEF n, g, args, lm
<1>6. ASSUME NEW a, Entered(a, g.fid, args, rom, v)
      PROVE  \E u : Reaches(a, u) /\ Follows(n, a, u, g.fp, k) /\ AddedRows(a, u, seen)
  <2>1. PICK t : Reaches(a, t) /\ Follows(m, a, t, g.fp, k) /\ AddedRows(a, t, seen)
    BY <1>5, <1>6
  <2>2. RefInv(a) /\ a.mem.rom = rom /\ Extends(v, a.mem.wom)
    BY <1>6 DEF Entered
  <2>3. /\ RefInv(t) /\ t.status = "running" /\ t.mem = a.mem /\ t.log = a.log /\ t.count = a.count
        /\ Alike(m, t, g.fp, a.fp, k, Len(a.calls))
    BY <2>1 DEF Follows, Undisturbed
  <2>4. a.fp \in Nat /\ Len(a.calls) \in Nat /\ WellBehaved(t) /\ MachineInv(t)
    <3>1. MachineInv(a)
      BY <2>2 DEF RefInv, Typed, WellBehaved
    <3> QED BY <2>3, <3>1, FrameSizes DEF RefInv, Typed, WellBehaved
  <2>5. PICK u : Resumed(t, u, seen) /\ Alike(n, u, g.fp, a.fp, k, Len(a.calls))
    <3>1. Replays(f, Operands(m, regs), m.cache[<<f, Operands(m, regs)>>], t.mem.rom, v, seen)
      BY <2>2, <2>3
    <3>2. Extends(v, t.mem.wom)
      BY <2>2, <2>3
    <3> QED BY <1>2, <1>4, <2>3, <2>4, <3>1, <3>2, AnswerAlike DEF n
  <2>6. u.count = t.count
    <3>1. t.pc # EntryPoint
      <4>1. t.fid = m.fid
        BY <2>3 DEF Alike, SamePlace
      <4> QED BY <1>0, <2>4, <4>1, EntryPointOf
    <3>2. RefStep(t).count = t.count
      BY <2>3, <3>1, RefStepFields
    <3> QED BY <2>5, <3>2 DEF Resumed
  <2>7. \A c \in 1 .. a.fp : u.stack[c] = a.stack[c]
    <3>1. a.fp =< Len(t.stack)
      <4> DEFINE fa == a.fp
                 ft == t.fp
                 fm == m.fp
                 fg == g.fp
                 lt == Len(t.stack)
                 wt == Width[t.fid]
      <4>1. fa \in Nat /\ ft \in Nat /\ fm \in Nat /\ fg \in Nat /\ lt \in Nat /\ wt \in Nat
            /\ ft + wt =< lt
        BY <1>0, <1>4, <2>4, FrameSizes
      <4>2. fg =< fm /\ ft + fg = fm + fa
        BY <2>3 DEF Alike, SamePlace
      <4> HIDE DEF fa, ft, fm, fg, lt, wt
      <4>3. fa =< lt
        BY <4>1, <4>2
      <4> QED BY <4>3 DEF fa, lt
    <3>2. Len(t.stack) \in Nat
      BY <2>4, FrameSizes
    <3>3. \A c \in 1 .. Len(t.stack) : u.stack[c] = t.stack[c]
      BY <2>5 DEF Resumed
    <3>4. \A c \in 1 .. a.fp : t.stack[c] = a.stack[c]
      BY <2>1 DEF Follows, Undisturbed
    <3>5. \A c \in 1 .. a.fp : c \in 1 .. Len(t.stack)
      <4> DEFINE lt == Len(t.stack)
                 fa == a.fp
      <4>1. lt \in Nat /\ fa \in Nat /\ fa =< lt
        BY <2>4, <3>1, <3>2
      <4> HIDE DEF lt, fa
      <4>2. \A c \in 1 .. fa : c \in 1 .. lt
        BY <4>1
      <4> QED BY <4>2 DEF lt, fa
    <3> QED BY <3>3, <3>4, <3>5
  <2>8. \A l \in 1 .. Len(a.calls) : u.calls[l] = a.calls[l]
    BY <2>1, <2>5 DEF Follows, Resumed
  <2>9. Undisturbed(a, u)
    BY <2>3, <2>5, <2>6, <2>7 DEF Undisturbed, Resumed
  <2>10. Follows(n, a, u, g.fp, k)
    BY <2>5, <2>8, <2>9 DEF Follows
  <2>11. Reaches(a, u) /\ AddedRows(a, u, seen)
    <3>1. Reaches(t, u) /\ AddedRows(t, u, seen)
      BY <2>5 DEF Resumed
    <3> QED BY <2>1, <3>1, ReachesFurther, RowsAdded
  <2> QED BY <2>10, <2>11
<1>7. InProgress(n, k, v, seen)
  <2>1. n.mem.rom = rom
    BY DEF n
  <2> HIDE DEF rom
  <2> QED BY <1>3, <1>6, <2>1 DEF InProgress
<1> QED BY <1>7 DEF n

\* A call that has just been made.
LEMMA ProgressStarts ==
    ASSUME NEW m, WellBehaved(m), Code[m.pc].op = "enter",
           ~Cached(m, Code[m.pc].fun, Operands(m, Code[m.pc].args)), NEW v, NEW seen
    PROVE  InProgress(Dispatch(m), Len(m.calls) + 1, v, seen)
<1> DEFINE n == Dispatch(m)
           f == Code[m.pc].fun
           ops == Operands(m, Code[m.pc].args)
           lm == Len(m.calls)
           ls == Len(m.stack)
           g == FrameOf(n, lm + 2)
           args == Args(n, lm + 2)
           ni == NumInputs[f]
           w == Width[f]
           c == [fid |-> m.fid, fp |-> m.fp, pc |-> m.pc + 1]
<1>0. MachineInv(m) /\ IsSeq(m.calls) /\ IsSeq(m.stack) /\ lm \in Nat /\ ls \in Nat
  BY FrameSizes DEF WellBehaved, MachineInv
<1>1. /\ n.fid = f /\ n.fp = ls /\ n.pc = Entry[f] /\ n.stack = m.stack \o NewFrame(f, ops)
      /\ n.calls = Append(m.calls, c) /\ ~Returning(n) /\ WellBehaved(n)
  BY <1>0, EnterEffect
<1>2. f \in Function /\ IsSeq(ops) /\ Len(ops) = ni
  BY <1>0, CallOf
<1>3. w \in Nat /\ ni \in Nat /\ NumOutputs[f] \in Nat /\ ni + NumOutputs[f] =< w
  <2> HIDE DEF f
  <2> QED BY <1>2, EntryInBody
<1>4. OnTop(m.stack \o NewFrame(f, ops), m.stack, f, ops)
  BY <1>0, <1>2, Stacked
<1> HIDE DEF n, f, ops, c
<1>5. Len(n.calls) = lm + 1
  BY <1>0, <1>1, Appended
<1>6. g = [fid |-> f, fp |-> ls]
  <2>1. lm + 2 = Len(n.calls) + 1
    <3> DEFINE ln == Len(n.calls)
    <3> HIDE DEF lm, ln
    <3>1. ln = lm + 1
      BY <1>5 DEF ln
    <3> QED BY <1>0, <3>1 DEF ln
  <2> QED BY <1>1, <2>1 DEF FrameOf
<1>7. g.fid = f /\ g.fp = ls
  BY <1>6
<1>8. /\ IsSeq(n.stack) /\ Len(n.stack) = ls + w
      /\ \A j \in 1 .. w : n.stack[ls + j] = NewFrame(f, ops)[j]
      /\ \A j \in 1 .. ni : NewFrame(f, ops)[j] = ops[j]
  BY <1>1, <1>4 DEF OnTop
<1>9. args = ops
  <2> DEFINE s == Slice(n, ls, ni)
  <2>1. ls + ni =< Len(n.stack)
    <3> DEFINE no == NumOutputs[f]
               ln == Len(n.stack)
    <3>1. no \in Nat /\ ni + no =< w /\ ni \in Nat /\ w \in Nat /\ ls \in Nat /\ ln = ls + w
      BY <1>0, <1>3, <1>8
    <3> HIDE DEF no, ln, ni, w, ls
    <3>2. ls + ni =< ln
      BY <3>1
    <3> QED BY <3>2 DEF ln
  <2>2. IsSeq(s) /\ Len(s) = ni /\ \A j \in 1 .. ni : s[j] = n.stack[ls + j]
    <3>1. IsSeq(n.stack) /\ ls \in Nat /\ ni \in Nat
      BY <1>0, <1>3, <1>8
    <3> HIDE DEF ls, ni
    <3> QED BY <2>1, <3>1, SliceOf
  <2>3. args = s
    BY <1>7 DEF Args
  <2>4. \A j \in 1 .. ni : s[j] = ops[j]
    <3> TAKE j \in 1 .. ni
    <3>1. j \in 1 .. w
      <4> DEFINE no == NumOutputs[f]
      <4>1. no \in Nat /\ ni + no =< w /\ ni \in Nat /\ w \in Nat
        BY <1>3
      <4> HIDE DEF no, ni, w
      <4> QED BY <4>1
    <3> QED BY <1>8, <2>2, <3>1
  <2> HIDE DEF s, args
  <2>5. \A j \in 1 .. Len(s) : s[j] = ops[j]
    BY <2>2, <2>4
  <2>6. s = ops
    BY <1>2, <2>2, <2>5, SameSeq
  <2> QED BY <2>3, <2>6
<1> HIDE DEF g, args
<1>10. ASSUME NEW a, Entered(a, f, ops, n.mem.rom, v)
       PROVE  Reaches(a, a) /\ Follows(n, a, a, ls, lm + 1) /\ AddedRows(a, a, seen)
  <2>1. /\ RefInv(a) /\ a.status = "running" /\ a.fid = f /\ a.pc = Entry[f]
        /\ \A j \in 1 .. w : a.stack[a.fp + j] = NewFrame(f, ops)[j]
    BY <1>10 DEF Entered
  <2>2. a.fp \in Nat /\ Len(a.calls) \in Nat
    <3>1. MachineInv(a)
      BY <2>1 DEF RefInv, Typed, WellBehaved
    <3> QED BY <3>1, FrameSizes
  <2>3. SamePlace(n, a, ls, a.fp)
    <3> DEFINE fa == a.fp
    <3>1. ls =< ls /\ fa + ls = ls + fa
      <4> HIDE DEF ls, fa
      <4>1. ls \in Nat /\ fa \in Nat
        BY <1>0, <2>2 DEF fa, ls
      <4> QED BY <4>1
    <3> QED BY <1>1, <2>1, <3>1 DEF SamePlace
  <2>4. SameCalls(n, a, ls, a.fp, lm + 1, Len(a.calls))
    <3> DEFINE la == Len(a.calls)
               ln == Len(n.calls)
    <3>1. ln = lm + 1 /\ lm \in Nat /\ la \in Nat
      BY <1>0, <1>5, <2>2
    <3> HIDE DEF la, ln, lm
    <3>2. lm + 1 =< ln /\ la + (lm + 1) = ln + la /\ 1 .. (ln - (lm + 1)) = {}
      BY <3>1
    <3> QED BY <3>2 DEF SameCalls, la, ln
  <2>5. SameCells(n, a, ls, a.fp)
    <3>1. Extent(n) - ls = w
      <4>1. Extent(n) = n.fp + Width[n.fid] + 0
        BY <1>1 DEF Extent
      <4>2. Extent(n) = ls + w + 0
        BY <1>1, <4>1
      <4> HIDE DEF ls, w
      <4>3. ls \in Nat /\ w \in Nat
        BY <1>0, <1>3 DEF ls, w
      <4> QED BY <4>2, <4>3
    <3>2. Agree(n.stack, a.stack, ls, a.fp, w)
      BY <1>8, <2>1 DEF Agree
    <3> QED BY <3>1, <3>2 DEF SameCells
  <2>6. Alike(n, a, ls, a.fp, lm + 1, Len(a.calls))
    BY <2>3, <2>4, <2>5 DEF Alike
  <2>7. Undisturbed(a, a)
    BY <2>1 DEF Undisturbed
  <2> QED BY <2>6, <2>7, ReachesItself, NoneAdded DEF Follows
<1>11. InProgress(n, lm + 1, v, seen)
  <2>1. (lm + 1) + 1 = lm + 2
    <3> HIDE DEF lm
    <3> QED BY <1>0
  <2>2. FrameOf(n, (lm + 1) + 1) = g /\ Args(n, (lm + 1) + 1) = args
    BY <2>1 DEF g, args
  <2> HIDE DEF lm, ls
  <2> QED BY <1>7, <1>9, <1>10, <2>2 DEF InProgress
<1> QED BY <1>11 DEF n

-----------------------------------------------------------------------------
\* A call that is live has been so before.
LEMMA LiveBefore ==
    ASSUME NEW m, WellBehaved(m), Dispatch(m).status = "running",
           NEW k \in 1 .. Len(m.calls), k =< Len(Dispatch(m).calls), Live(Dispatch(m), k)
    PROVE  Live(m, k) /\ Code[m.pc].op # "tail"
<1> DEFINE n == Dispatch(m)
           lm == Len(m.calls)
           ln == Len(n.calls)
           op == Code[m.pc].op
<1>0. MachineInv(m) /\ WellBehaved(n) /\ MachineInv(n) /\ lm \in Nat /\ ln \in Nat /\ k \in 1 .. ln
  <2>1. MachineInv(m) /\ WellBehaved(n) /\ MachineInv(n)
    BY StaysWellBehaved DEF WellBehaved
  <2>2. lm \in Nat /\ ln \in Nat /\ k \in 1 .. lm /\ k =< ln
    BY <2>1, FrameSizes
  <2> HIDE DEF lm, ln, n
  <2>3. k \in 1 .. ln
    BY <2>2
  <2> QED BY <2>1, <2>2, <2>3
<1>1. n.fid \in Effectless /\ n.fid \notin NoReturn
  <2> HIDE DEF n
  <2>1. Live(n, k)
    BY DEF n
  <2> QED BY <1>0, <2>1, LiveTop DEF ln
<1>2. op # "tail"
  <2>1. op = "tail" => n.fid \in NoReturn
    BY <1>0, TailEffect
  <2> QED BY <1>1, <2>1
<1>3. op = "ret" => /\ m.calls # <<>> /\ m.fid \in Effectless \ NoReturn
                    /\ ln = lm - 1
  <2> SUFFICES ASSUME op = "ret" PROVE m.calls # <<>> /\ m.fid \in Effectless \ NoReturn /\ ln = lm - 1
    OBVIOUS
  <2>1. m.calls # <<>>
    <3>1. m.calls = <<>> => n.status = "done"
      BY <1>0, EndEffect
    <3> QED BY <3>1
  <2>2. Returning(n) /\ Code[n.pc - 1].fun = m.fid /\ m.fid \notin NoReturn /\ ln = lm - 1
    BY <1>0, <2>1, ReturnEffect
  <2> HIDE DEF n
  <2>3. n.pc - 1 \in Body(n.fid) /\ Code[n.pc - 1].op = "enter" /\ n.fid \in Function
    BY <1>0, <2>2 DEF WellBehaved, MachineInv
  <2>4. Code[n.pc - 1].fun \in Effectless
    BY <1>1, <2>3, OperandsOf
  <2> QED BY <2>1, <2>2, <2>4
<1>4. op # "ret" => lm =< ln
  <2>1. ln = lm \/ ln = lm + 1 \/ (op = "ret" /\ m.calls # <<>> /\ ln = lm - 1)
    BY CallsKept
  <2> HIDE DEF lm, ln
  <2> QED BY <1>0, <2>1
<1>5. ASSUME NEW l \in (k + 1) .. (lm + 1) PROVE FrameOf(m, l).fid \in Effectless \ NoReturn
  <2>1. k \in Nat /\ 1 =< k /\ k =< ln /\ l \in Nat /\ k + 1 =< l /\ l =< lm + 1
    <3>1. k \in 1 .. ln /\ l \in (k + 1) .. (lm + 1)
      BY <1>0
    <3> HIDE DEF lm, ln
    <3> QED BY <1>0, <3>1
  <2>2. CASE l =< ln + 1
    <3>1. l \in 1 .. (lm + 1) /\ l \in (k + 1) .. (ln + 1)
      <4> HIDE DEF lm, ln
      <4> QED BY <1>0, <2>1, <2>2
    <3>2. FrameOf(n, l) = FrameOf(m, l)
      BY <1>2, <2>2, <3>1, FramesKept
    <3>3. FrameOf(n, l).fid \in Effectless \ NoReturn
      <4> HIDE DEF n
      <4>1. Live(n, k)
        BY DEF n
      <4> QED BY <3>1, <4>1 DEF Live
    <3> QED BY <3>2, <3>3
  <2>3. CASE ~(l =< ln + 1)
    <3>1. op = "ret" /\ l = lm + 1
      <4> HIDE DEF lm, ln
      <4> QED BY <1>0, <1>3, <1>4, <2>1, <2>3
    <3>2. FrameOf(m, l).fid = m.fid
      BY <3>1 DEF FrameOf
    <3> QED BY <1>3, <3>1, <3>2
  <2> QED BY <2>2, <2>3
<1> QED BY <1>2, <1>5 DEF Live

\* What is remembered can be executed again, and so can what is being executed.
Memo(m, w, seen) ==
    \A key \in DOMAIN m.cache : Replays(key[1], key[2], m.cache[key], m.mem.rom, w, seen)

ReplayInv(m, w, seen) ==
    /\ Memo(m, w, seen)
    /\ \A k \in 1 .. Len(m.calls) : Live(m, k) => InProgress(m, k, w, seen)

\* A call that returns has been executed.
LEMMA ReplayReturned ==
    ASSUME EntryIsPlain, NEW m, WellBehaved(m), m.status = "running", Code[m.pc].op = "ret", m.calls # <<>>,
           m.fid \in Effectless, NEW v, NEW seen, NEW more, seen \subseteq more, RowIn(m, more),
           InProgress(m, Len(m.calls), v, seen)
    PROVE  Replays(m.fid, Slice(m, m.fp, NumInputs[m.fid]),
                   Slice(m, m.fp + NumInputs[m.fid], NumOutputs[m.fid]), m.mem.rom, v, more)
<1> DEFINE f == m.fid
           args == Slice(m, m.fp, NumInputs[m.fid])
           rets == Slice(m, m.fp + NumInputs[m.fid], NumOutputs[m.fid])
           lm == Len(m.calls)
           rom == m.mem.rom
           row == RowOf(m, Code[m.pc].op)
<1>1. FrameOf(m, lm + 1) = [fid |-> m.fid, fp |-> m.fp]
  BY DEF FrameOf
<1>2. FrameOf(m, lm + 1).fid = f /\ FrameOf(m, lm + 1).fp = m.fp /\ Args(m, lm + 1) = args
  BY <1>1 DEF Args
<1>3. \A a : Entered(a, f, args, rom, v) =>
         \E t : Reaches(a, t) /\ Follows(m, a, t, m.fp, lm) /\ AddedRows(a, t, seen)
  <2> HIDE DEF args
  <2> QED BY <1>2 DEF InProgress
<1>4. ASSUME NEW a, Entered(a, f, args, rom, v)
      PROVE  \E u : Reaches(a, u) /\ Returned(a, u, f, args, rets) /\ AddedRows(a, u, more)
  <2>1. PICK t : Reaches(a, t) /\ Follows(m, a, t, m.fp, lm) /\ AddedRows(a, t, seen)
    <3> HIDE DEF f, args, rom, lm
    <3> QED BY <1>3, <1>4
  <2>2. RefInv(a) /\ a.calls # <<>>
    BY <1>4 DEF Entered
  <2> DEFINE u == RefStep(t)
  <2>3. /\ Reaches(t, u) /\ Returned(a, u, f, args, rets)
        /\ u.rows = IF m.pc \in TracePoints THEN Append(t.rows, row) ELSE t.rows
    BY <2>1, <2>2, CallReplayed
  <2>4. IsSeq(t.rows)
    BY <2>1 DEF Follows, Undisturbed, RefInv
  <2> HIDE DEF f, args, rets, lm, u, row
  <2>5. AddedRows(a, u, more)
    <3>1. CASE m.pc \in TracePoints
      <4>1. row \in more /\ row.fid \in Effectless
        BY <3>1 DEF RowIn, row, RowOf
      <4>2. u.rows = Append(t.rows, row)
        BY <2>3, <3>1
      <4> QED BY <2>1, <2>4, <4>1, <4>2, RowAdded
    <3>2. CASE m.pc \notin TracePoints
      <4>1. u.rows = t.rows
        BY <2>3, <3>2
      <4>2. AddedRows(a, u, seen)
        BY <2>1, <4>1 DEF AddedRows
      <4> QED BY <4>2, AddedToMore
    <3> QED BY <3>1, <3>2
  <2>6. Reaches(a, u)
    BY <2>1, <2>3, ReachesFurther
  <2> QED BY <2>3, <2>5, <2>6
<1> HIDE DEF f, args, rets, rom
<1>5. Replays(f, args, rets, rom, v, more)
  BY <1>4 DEF Replays
<1> QED BY <1>5 DEF f, args, rets, rom

\* The cache of a machine after a step.
LEMMA MemoStep ==
    ASSUME EntryIsPlain, NEW m, WellBehaved(m), m.status = "running", Dispatch(m).status = "running",
           Dispatch(m).mem.rom = m.mem.rom, NEW w, NEW v, IsSeq(w), IsSeq(v), Extends(w, v),
           NEW seen, NEW more, seen \subseteq more, RowIn(m, more), ReplayInv(m, w, seen)
    PROVE  Memo(Dispatch(m), v, more)
<1> DEFINE n == Dispatch(m)
           rom == m.mem.rom
           ni == NumInputs[m.fid]
           args == Slice(m, m.fp, ni)
           rets == Slice(m, m.fp + ni, NumOutputs[m.fid])
           k0 == <<m.fid, args>>
<1>0. MachineInv(m)
  BY DEF WellBehaved
<1>1. \A key \in DOMAIN m.cache : Replays(key[1], key[2], m.cache[key], rom, v, more)
  <2> TAKE key \in DOMAIN m.cache
  <2>1. Replays(key[1], key[2], m.cache[key], rom, w, seen)
    BY DEF ReplayInv, Memo
  <2> QED BY <2>1, ReplaysLater
<1>2. ASSUME NEW key \in DOMAIN n.cache PROVE Replays(key[1], key[2], n.cache[key], rom, v, more)
  <2>1. CASE key \in DOMAIN m.cache /\ n.cache[key] = m.cache[key]
    <3> HIDE DEF n
    <3> QED BY <1>1, <2>1
  <2>2. CASE Code[m.pc].op = "ret" /\ ~(key \in DOMAIN m.cache /\ n.cache[key] = m.cache[key])
    <3>1. m.calls # <<>>
      <4>1. m.calls = <<>> => n.status = "done"
        BY <1>0, <2>2, EndEffect
      <4> QED BY <4>1
    <3>2. n.cache = Remembered(m) /\ m.fid \notin NoReturn
      BY <1>0, <2>2, <3>1, ReturnEffect
    <3> HIDE DEF n
    <3>3. m.fid \in Cacheable /\ key = k0 /\ n.cache[key] = rets
      <4>1. n.cache = IF m.tracing /\ m.fid \in Cacheable
                      THEN [k \in DOMAIN m.cache \cup {k0} |-> IF k = k0 THEN rets ELSE m.cache[k]]
                      ELSE m.cache
        BY <3>2 DEF Remembered
      <4> HIDE DEF k0, rets
      <4>2. m.tracing /\ m.fid \in Cacheable
        BY <2>2, <4>1
      <4>3. n.cache = [k \in DOMAIN m.cache \cup {k0} |-> IF k = k0 THEN rets ELSE m.cache[k]]
        BY <4>1, <4>2
      <4>4. key = k0
        BY <2>2, <4>3
      <4>5. n.cache[key] = rets
        BY <4>3, <4>4
      <4> QED BY <4>2, <4>4, <4>5
    <3>4. m.fid \in Effectless
      BY <3>3, ProgramAssumption
    <3>5. InProgress(m, Len(m.calls), w, seen)
      <4> DEFINE lm == Len(m.calls)
      <4>1. lm \in 1 .. lm
        <5>1. lm \in Nat /\ lm # 0
          <6>1. IsSeq(m.calls)
            BY <1>0 DEF MachineInv
          <6> QED BY <3>1, <6>1, FunctionOfSeq
        <5> HIDE DEF lm
        <5> QED BY <5>1
      <4>2. FrameOf(m, lm + 1).fid = m.fid
        BY DEF FrameOf
      <4>3. Live(m, lm)
        <5>1. \A l \in (lm + 1) .. (lm + 1) : l = lm + 1
          <6>1. lm \in Nat
            BY <4>1
          <6> HIDE DEF lm
          <6> QED BY <6>1
        <5> QED BY <3>2, <3>4, <4>2, <5>1 DEF Live
      <4> QED BY <4>1, <4>3 DEF ReplayInv
    <3>6. Replays(m.fid, args, rets, rom, w, more)
      BY <2>2, <3>1, <3>4, <3>5, ReplayReturned
    <3>7. Replays(m.fid, args, rets, rom, v, more)
      <4> HIDE DEF args, rets, rom
      <4> QED BY <3>6, ReplaysLater
    <3>8. key[1] = m.fid /\ key[2] = args
      BY <3>3
    <3> QED BY <3>3, <3>7, <3>8
  <2>3. (key \in DOMAIN m.cache /\ n.cache[key] = m.cache[key]) \/ Code[m.pc].op = "ret"
    BY <1>0, DispatchStep
  <2> QED BY <2>1, <2>2, <2>3
<1>3. n.mem.rom = rom
  OBVIOUS
<1> HIDE DEF n, rom
<1>4. Memo(n, v, more)
  BY <1>2, <1>3 DEF Memo
<1> QED BY <1>4 DEF n

\* The calls of a machine after a step.
LEMMA ReplayStep ==
    ASSUME EntryIsPlain, NEW m, WellBehaved(m), m.status = "running", Dispatch(m).status = "running",
           Dispatch(m).mem.rom = m.mem.rom, NEW w, NEW v, IsSeq(w), IsSeq(v), Extends(w, v),
           Wrote2Wom(m, v), NEW seen, NEW more, seen \subseteq more, RowIn(m, more),
           ReplayInv(m, w, seen)
    PROVE  ReplayInv(Dispatch(m), v, more)
<1> DEFINE n == Dispatch(m)
           rom == m.mem.rom
           lm == Len(m.calls)
           ln == Len(n.calls)
           op == Code[m.pc].op
           f == Code[m.pc].fun
           ops == Operands(m, Code[m.pc].args)
<1>0. MachineInv(m) /\ lm \in Nat /\ ln \in Nat
  <2>1. MachineInv(m)
    BY DEF WellBehaved
  <2> QED BY <2>1, FrameSizes, CallsKept
<1>1. Memo(n, v, more)
  BY MemoStep
<1>2. ASSUME NEW k \in 1 .. ln, Live(n, k) PROVE InProgress(n, k, v, more)
  <2>1. CASE k \in 1 .. lm
    <3>1. k =< ln
      <4>1. k \in 1 .. ln
        OBVIOUS
      <4> HIDE DEF ln
      <4> QED BY <1>0, <4>1
    <3>2. Live(m, k) /\ op # "tail"
      BY <1>2, <2>1, <3>1, LiveBefore
    <3>3. InProgress(m, k, w, seen)
      BY <2>1, <3>2 DEF ReplayInv
    <3>4. InProgress(m, k, v, seen) /\ InProgress(m, k, v, more)
      <4>1. seen \subseteq seen
        OBVIOUS
      <4> QED BY <3>3, <4>1, InProgressLater
    <3>5. CASE op = "enter" /\ Cached(m, f, ops)
      <4>1. <<f, ops>> \in DOMAIN m.cache
        BY <3>5 DEF Cached
      <4>2. Replays(f, ops, m.cache[<<f, ops>>], rom, w, seen)
        <5> DEFINE key == <<f, ops>>
        <5>1. key[1] = f /\ key[2] = ops
          OBVIOUS
        <5>2. Replays(key[1], key[2], m.cache[key], rom, w, seen)
          BY <4>1 DEF ReplayInv, Memo
        <5> QED BY <5>1, <5>2
      <4>3. Replays(f, ops, m.cache[<<f, ops>>], rom, v, more)
        <5> HIDE DEF f, ops, rom
        <5> QED BY <4>2, ReplaysLater
      <4> QED BY <2>1, <3>2, <3>4, <3>5, <4>3, ProgressAnswer
    <3>6. CASE ~(op = "enter" /\ Cached(m, f, ops))
      BY <2>1, <3>1, <3>2, <3>4, <3>6, ProgressStep
    <3> QED BY <3>5, <3>6
  <2>2. CASE ~(k \in 1 .. lm)
    <3>1. k = lm + 1 /\ ln = lm + 1
      <4>1. ln = lm \/ ln = lm + 1 \/ ln = lm - 1
        BY CallsKept
      <4>2. k \in 1 .. ln
        OBVIOUS
      <4> HIDE DEF lm, ln
      <4> QED BY <1>0, <2>2, <4>1, <4>2
    <3>2. op = "enter" /\ ~Cached(m, f, ops)
      <4>1. CASE op = "tail"
        <5>1. Changes(m, n, {"stack", "fid", "pc"})
          BY <1>0, <4>1, TailEffect
        <5>2. n.calls = m.calls
          BY <1>0, <5>1 DEF Changes, MachineFields, MachineInv
        <5> HIDE DEF n
        <5>3. ln = lm
          BY <5>2
        <5> HIDE DEF lm, ln
        <5> QED BY <1>0, <3>1, <5>3
      <4>2. CASE op = "ret" /\ m.calls # <<>>
        <5>1. ln = lm - 1
          BY <1>0, <4>2, ReturnEffect
        <5> HIDE DEF lm, ln
        <5> QED BY <1>0, <3>1, <5>1
      <4>3. CASE op \notin {"enter", "ret", "tail"} \/ (op = "ret" /\ m.calls = <<>>)
                 \/ (op = "enter" /\ Cached(m, f, ops))
        <5>1. n.calls = m.calls
          BY <4>3, FramesStay
        <5> HIDE DEF n
        <5>3. ln = lm
          BY <5>1
        <5> HIDE DEF lm, ln
        <5> QED BY <1>0, <3>1, <5>3
      <4> QED BY <4>1, <4>2, <4>3
    <3>3. InProgress(n, lm + 1, v, more)
      BY <3>2, ProgressStarts
    <3> QED BY <3>1, <3>3
  <2> QED BY <2>1, <2>2
<1> HIDE DEF n
<1>3. ReplayInv(n, v, more)
  BY <1>1, <1>2 DEF ReplayInv
<1> QED BY <1>3 DEF n

-----------------------------------------------------------------------------
\* A machine beside the reference execution.

\* An execution ends in one state.
LEMMA EndsAt ==
    ASSUME NEW s, NEW t, NEW d, Reaches(s, t), Reaches(s, d), d.status # "running"
    PROVE  Reaches(t, d) /\ (t.status # "running" => t = d)
<1>1. ASSUME NEW x, NEW y, Reaches(x, y), x.status # "running" PROVE x = y
  BY <1>1, FirstStep
<1>2. Reaches(t, d) \/ Reaches(d, t)
  BY EitherReaches
<1>3. CASE Reaches(d, t)
  <2>1. d = t
    BY <1>1, <1>3
  <2> QED BY <2>1, ReachesItself
<1>4. CASE Reaches(t, d)
  BY <1>1, <1>4
<1> QED BY <1>2, <1>3, <1>4

\* What becomes of a machine that runs.
LEMMA StatusAfter ==
    ASSUME NEW m, WellBehaved(m), m.status = "running"
    PROVE  Dispatch(m).status \in {"running", "done", "failed", "panicked"}
<1> DEFINE n == Dispatch(m)
           op == Code[m.pc].op
<1>0. MachineInv(m) /\ MachineFields \subseteq DOMAIN m /\ op \in Opcodes
  BY BytecodeOf DEF WellBehaved, MachineInv
<1>1. CASE op = "add"
  <2>1. n.status = m.status \/ n.status = "failed"
    BY <1>0, <1>1, AddEffect
  <2> QED BY <2>1
<1>2. CASE op = "rdrom"
  <2>1. n.status = m.status \/ n.status = "panicked"
    BY <1>0, <1>2, ReadRomEffect
  <2> QED BY <2>1
<1>3. CASE op \in {"jmp", "done", "fail"}
  <2>1. Changes(m, n, {"pc"}) \/ n.status \in {"done", "failed"}
    BY <1>0, <1>3, ControlEffect
  <2> HIDE DEF n
  <2>2. Changes(m, n, {"pc"}) => n.status = m.status
    BY <1>0 DEF Changes, MachineFields
  <2> QED BY <2>1, <2>2 DEF n
<1>4. CASE op = "wrwom"
  <2>1. n.status = "failed" \/ Changes(m, n, {"pc", "mem"})
    BY <1>0, <1>4, WriteWomEffect
  <2> HIDE DEF n
  <2>2. Changes(m, n, {"pc", "mem"}) => n.status = m.status
    BY <1>0 DEF Changes, MachineFields
  <2> QED BY <2>1, <2>2 DEF n
<1>5. CASE op = "skipif"
  <2>1. Changes(m, n, {"pc"})
    BY <1>0, <1>5, SkipIfEffect
  <2> HIDE DEF n
  <2>2. n.status = m.status
    BY <1>0, <2>1 DEF Changes, MachineFields
  <2> QED BY <2>2 DEF n
<1>6. CASE op = "rdram"
  <2>1. Changes(m, n, {"stack", "pc", "mem", "log"})
    BY <1>0, <1>6, ReadRamEffect
  <2> HIDE DEF n
  <2>2. n.status = m.status
    BY <1>0, <2>1 DEF Changes, MachineFields
  <2> QED BY <2>2 DEF n
<1>7. CASE op = "wrram"
  <2>1. Changes(m, n, {"pc", "mem", "log"})
    BY <1>0, <1>7, WriteRamEffect
  <2> HIDE DEF n
  <2>2. n.status = m.status
    BY <1>0, <2>1 DEF Changes, MachineFields
  <2> QED BY <2>2 DEF n
<1>8. CASE op = "enter" /\ ~Cached(m, Code[m.pc].fun, Operands(m, Code[m.pc].args))
  <2>1. Changes(m, n, {"stack", "calls", "fid", "fp", "pc"})
    BY <1>0, <1>8, EnterEffect
  <2> HIDE DEF n
  <2>2. n.status = m.status
    BY <1>0, <2>1 DEF Changes, MachineFields
  <2> QED BY <2>2 DEF n
<1>9. CASE op = "enter" /\ Cached(m, Code[m.pc].fun, Operands(m, Code[m.pc].args))
  <2>1. Changes(m, n, {"stack", "pc", "rp", "rw"})
    BY <1>0, <1>9, CachedEffect
  <2> HIDE DEF n
  <2>2. n.status = m.status
    BY <1>0, <2>1 DEF Changes, MachineFields
  <2> QED BY <2>2 DEF n
<1>10. CASE op = "tail"
  <2>1. Changes(m, n, {"stack", "fid", "pc"})
    BY <1>0, <1>10, TailEffect
  <2> HIDE DEF n
  <2>2. n.status = m.status
    BY <1>0, <2>1 DEF Changes, MachineFields
  <2> QED BY <2>2 DEF n
<1>11. CASE op = "ret"
  <2>1. Changes(m, n, {"calls", "cache", "fid", "fp", "pc", "rp", "rw"}) \/ n.status = "done"
    BY <1>0, <1>11, ReturnEffect, EndEffect
  <2> HIDE DEF n
  <2>2. Changes(m, n, {"calls", "cache", "fid", "fp", "pc", "rp", "rw"}) => n.status = m.status
    BY <1>0 DEF Changes, MachineFields
  <2> QED BY <2>1, <2>2 DEF n
<1>12. CASE op = "leave"
  <2>1. Changes(m, n, {"stack", "pc"})
    BY <1>0, <1>12, LeaveEffect
  <2> HIDE DEF n
  <2>2. n.status = m.status
    BY <1>0, <2>1 DEF Changes, MachineFields
  <2> QED BY <2>2 DEF n
<1> HIDE DEF n
<1> QED BY <1>0, <1>1, <1>2, <1>3, <1>4, <1>5, <1>6, <1>7, <1>8, <1>9, <1>10, <1>11, <1>12
        DEF Opcodes

\* The memories of a machine but for the output.
MemLike(p, q) ==
    /\ DOMAIN p = {"rom", "wom", "ram", "clock"} /\ p = [x \in DOMAIN p |-> p[x]]
    /\ p.rom = q.rom /\ p.ram = q.ram /\ p.clock = q.clock

\* The output, which has been replicated from the end of the execution if D is
\* that.
Outputs(m, t, D) ==
    IF D.status = "done" THEN Reaches(t, D) /\ m.mem.wom = D.mem.wom
                         ELSE m.mem.wom = t.mem.wom

\* The function at the bottom, if the reference execution has called it.
Bottom(m, a) == a.calls # <<>> => FrameOf(m, 1).fid \in NoReturn \cup {ShardFun}

\* Machine m has done since it started at a what the reference execution has up
\* to t.
Beside(m, a, t, D) ==
    /\ RefInv(a) /\ RefInv(t) /\ Reaches(a, t) /\ WellBehaved(m)
    /\ t.status = IF m.status = "stopped" THEN "running" ELSE m.status
    /\ Alike(m, t, 0, a.fp, 0, Len(a.calls)) /\ Bottom(m, a)
    /\ MemLike(m.mem, t.mem) /\ Outputs(m, t, D)
    /\ IsSeq(m.log) /\ t.log = a.log \o m.log

\* What it starts from.
LEMMA BesideBase ==
    ASSUME NEW m, NEW a, NEW t, NEW D, Beside(m, a, t, D)
    PROVE  /\ 0 \in Nat /\ a.fp \in Nat /\ Len(a.calls) \in Nat /\ Len(m.calls) \in Nat
           /\ WellBehaved(t) /\ MachineInv(t) /\ MachineInv(m) /\ DOMAIN t.cache = {}
           /\ Len(t.calls) = Len(m.calls) + Len(a.calls)
           /\ t.pc = m.pc /\ t.fid = m.fid /\ t.fp = m.fp + a.fp
<1>1. MachineInv(a) /\ WellBehaved(t) /\ MachineInv(t) /\ MachineInv(m) /\ DOMAIN t.cache = {}
  BY DEF Beside, RefInv, Typed, WellBehaved
<1>2. /\ a.fp \in Nat /\ Len(a.calls) \in Nat /\ Len(m.calls) \in Nat /\ Len(t.calls) \in Nat
      /\ m.fp \in Nat /\ t.fp \in Nat
  BY <1>1, FrameSizes
<1>3. /\ Len(t.calls) + 0 = Len(m.calls) + Len(a.calls) /\ t.fp + 0 = m.fp + a.fp
      /\ t.pc = m.pc /\ t.fid = m.fid
  BY DEF Beside, Alike, SameCalls, SamePlace
<1>4. Len(t.calls) = Len(m.calls) + Len(a.calls)
  <2> DEFINE lt == Len(t.calls)
             lm == Len(m.calls)
             la == Len(a.calls)
  <2>1. lt \in Nat /\ lm \in Nat /\ la \in Nat /\ lt + 0 = lm + la
    BY <1>2, <1>3
  <2> HIDE DEF lt, lm, la
  <2>2. lt = lm + la
    BY <2>1
  <2> QED BY <2>2 DEF lt, lm, la
<1>5. t.fp = m.fp + a.fp
  <2>1. t.fp \in Nat /\ t.fp + 0 = m.fp + a.fp
    BY <1>2, <1>3
  <2> QED BY <2>1
<1> QED BY <1>1, <1>2, <1>3, <1>4, <1>5

\* The bottom stays.
LEMMA BottomStep ==
    ASSUME NEW m, NEW a, WellBehaved(m), Bottom(m, a)
    PROVE  Bottom(Dispatch(m), a)
<1> DEFINE n == Dispatch(m)
           lm == Len(m.calls)
           ln == Len(n.calls)
<1>0. MachineInv(m) /\ MachineFields \subseteq DOMAIN m /\ lm \in Nat /\ ln \in Nat
  BY FrameSizes, CallsKept DEF WellBehaved, MachineInv
<1>1. CASE Code[m.pc].op # "tail"
  <2>1. 1 \in 1 .. (lm + 1) /\ 1 =< ln + 1
    <3> HIDE DEF lm, ln
    <3> QED BY <1>0
  <2>2. FrameOf(n, 1) = FrameOf(m, 1)
    BY <1>1, <2>1, FramesKept
  <2> HIDE DEF n
  <2> QED BY <2>2 DEF Bottom, n
<1>2. CASE Code[m.pc].op = "tail"
  <2>1. Changes(m, n, {"stack", "fid", "pc"}) /\ n.fid \in NoReturn
    BY <1>0, <1>2, TailEffect
  <2> HIDE DEF n
  <2>2. n.calls = m.calls
    BY <1>0, <2>1 DEF Changes, MachineFields
  <2>3. CASE 1 = lm + 1
    <3>1. FrameOf(n, 1) = [fid |-> n.fid, fp |-> n.fp]
      BY <2>2, <2>3 DEF FrameOf
    <3> QED BY <2>1, <3>1 DEF Bottom, n
  <2>4. CASE 1 # lm + 1
    <3>1. FrameOf(n, 1) = FrameOf(m, 1)
      BY <2>2, <2>4 DEF FrameOf
    <3> QED BY <3>1 DEF Bottom, n
  <2> QED BY <2>3, <2>4
<1> QED BY <1>1, <1>2

\* A machine beside an execution that has been called does not return from where
\* it started.
LEMMA ReturnsAbove ==
    ASSUME EntryIsPlain, NEW m, NEW a, NEW t, NEW D, Beside(m, a, t, D), Code[m.pc].op = "ret"
    PROVE  Len(m.calls) > 0 \/ (m.calls = <<>> /\ t.calls = <<>>)
<1>1. /\ MachineInv(m) /\ MachineInv(t) /\ Len(a.calls) \in Nat
      /\ Len(t.calls) = Len(m.calls) + Len(a.calls) /\ Bottom(m, a)
  <2>1. Bottom(m, a)
    BY DEF Beside
  <2> QED BY <2>1, BesideBase
<1>2. ASSUME NEW s, IsSeq(s) PROVE Len(s) \in Nat /\ (Len(s) = 0 <=> s = <<>>)
  BY <1>2, FunctionOfSeq
<1>3. IsSeq(m.calls) /\ IsSeq(t.calls)
  BY <1>1 DEF MachineInv
<1>4. CASE m.calls = <<>>
  <2>1. FrameOf(m, 1).fid = m.fid
    BY <1>4 DEF FrameOf
  <2>2. m.fid \notin NoReturn /\ m.fid # ShardFun
    <3>1. m.fid \in Function /\ m.pc \in Body(m.fid)
      BY <1>1 DEF MachineInv
    <3> QED BY <1>1, <3>1, BytecodeOf, EntryPointOf
  <2>3. a.calls = <<>>
    BY <1>1, <2>1, <2>2 DEF Bottom
  <2>4. Len(t.calls) = 0
    BY <1>1, <1>4, <2>3
  <2> QED BY <1>2, <1>3, <1>4, <2>4
<1>5. CASE m.calls # <<>>
  BY <1>2, <1>3, <1>5
<1> QED BY <1>4, <1>5

-----------------------------------------------------------------------------
\* The registers of a machine are words, if it is beside the execution.
LEMMA BesideWord ==
    ASSUME NEW m, NEW a, NEW t, NEW D, Beside(m, a, t, D), NEW r \in Uses(m.pc)
    PROVE  Register(m, r) \in Word
<1>1. Alike(m, t, 0, a.fp, 0, Len(a.calls)) /\ WellBehaved(m)
  BY DEF Beside
<1>2. 0 \in Nat /\ a.fp \in Nat /\ Len(a.calls) \in Nat /\ WellBehaved(t) /\ MachineInv(t)
  BY BesideBase
<1>3. Register(t, r) = Register(m, r)
  BY <1>1, <1>2, SameUses
<1>4. t.pc = m.pc /\ Words(t.stack)
  <2>1. t.pc = m.pc
    BY BesideBase
  <2> QED BY <2>1 DEF Beside, RefInv, Typed
<1>5. Register(t, r) \in Word
  BY <1>2, <1>4, UsedWords
<1> QED BY <1>3, <1>5

\* What is written to the output of the reference execution is in the output
\* that has been replicated.
LEMMA OutputWritten ==
    ASSUME EntryIsPlain, NEW m, NEW a, NEW t, NEW D, Beside(m, a, t, D), m.status = "running",
           Code[m.pc].op = "wrwom"
    PROVE  LET c == Register(m, Code[m.pc].address) + 1
               v == Register(m, Code[m.pc].source)
           IN  /\ Collides(t.mem.wom, c, v) <=> Collides(m.mem.wom, c, v)
               /\ ~Collides(t.mem.wom, c, v) /\ D.status = "done" =>
                     WomAfter(m.mem.wom, c, v) = m.mem.wom
               /\ ~Collides(t.mem.wom, c, v) => Wrote2Wom(m, WomAfter(t.mem.wom, c, v))
<1> DEFINE i == Code[m.pc]
           c == Register(m, i.address) + 1
           v == Register(m, i.source)
           wt == t.mem.wom
           wm == m.mem.wom
           u == RefStep(t)
<1> SUFFICES /\ Collides(wt, c, v) <=> Collides(wm, c, v)
             /\ ~Collides(wt, c, v) /\ D.status = "done" => WomAfter(wm, c, v) = wm
             /\ ~Collides(wt, c, v) => Wrote2Wom(m, WomAfter(wt, c, v))
  OBVIOUS
<1>1. c \in Nat \ {0}
  <2>1. i.address \in Uses(m.pc)
    BY DEF Uses
  <2>2. Register(m, i.address) \in Word
    BY <2>1, BesideWord
  <2>3. Register(m, i.address) \in Nat
    BY <2>2, WordNumbers
  <2> QED BY <2>3
<1>2. RefInv(t) /\ t.status = "running" /\ IsSeq(wt) /\ WellBehaved(m)
      /\ Alike(m, t, 0, a.fp, 0, Len(a.calls)) /\ Outputs(m, t, D)
  BY DEF Beside, RefInv, Typed, MemTyped
<1>3. ~Collides(wt, c, v) => /\ IsSeq(WomAfter(wt, c, v)) /\ Extends(wt, WomAfter(wt, c, v))
                             /\ c =< Len(WomAfter(wt, c, v)) /\ WomAfter(wt, c, v)[c] = v
  <2> HIDE DEF wt, c, v
  <2> QED BY <1>1, <1>2, WomWritten
<1>4. ~Collides(wt, c, v) => Wrote2Wom(m, WomAfter(wt, c, v))
  BY <1>1, <1>3 DEF Wrote2Wom
<1>5. CASE D.status # "done"
  <2>1. wm = wt
    BY <1>2, <1>5 DEF Outputs
  <2> HIDE DEF wm, wt, c, v, i
  <2> QED BY <1>4, <1>5, <2>1
<1>6. CASE D.status = "done"
  <2>1. Reaches(t, D) /\ wm = D.mem.wom
    BY <1>2, <1>6 DEF Outputs
  <2>2. Reaches(u, D)
    <3>1. t # D
      BY <1>2, <1>6
    <3> QED BY <2>1, <3>1, FirstStep
  <2>3. u.status # "failed"
    <3> HIDE DEF u
    <3>1. u = D \/ u.status = "running"
      BY <2>2, FirstStep
    <3> QED BY <1>6, <3>1
  <2>4. /\ u.mem = IF Collides(wt, c, v) THEN t.mem
                   ELSE [t.mem EXCEPT !.wom = WomAfter(wt, c, v)]
        /\ Collides(wt, c, v) => u.status = "failed"
    <3>1. 0 \in Nat /\ a.fp \in Nat /\ Len(a.calls) \in Nat
      BY BesideBase
    <3> QED BY <1>2, <3>1, StepMemory
  <2>5. ~Collides(wt, c, v)
    BY <2>3, <2>4
  <2>6. u.mem.wom = WomAfter(wt, c, v)
    <3>1. DOMAIN t.mem = {"rom", "wom", "ram", "clock"}
      BY <1>2 DEF RefInv, Typed, MemTyped
    <3>2. u.mem = [t.mem EXCEPT !.wom = WomAfter(wt, c, v)]
      BY <2>4, <2>5
    <3> DEFINE after == WomAfter(wt, c, v)
               mem == t.mem
    <3> HIDE DEF u, after, mem
    <3>3. u.mem = [mem EXCEPT !.wom = after] /\ "wom" \in DOMAIN mem
      BY <3>1, <3>2 DEF after, mem
    <3>4. u.mem.wom = after
      BY <3>3
    <3> QED BY <3>4 DEF after
  <2>7. RefInv(u)
    BY <1>2, RefStepLater DEF Later
  <2>8. Extends(u.mem.wom, D.mem.wom) /\ IsSeq(D.mem.wom)
    <3> HIDE DEF u
    <3> QED BY <2>2, <2>7, ReachesLater DEF Later, RefInv, Typed, MemTyped
  <2>9. IsSeq(wm) /\ c =< Len(wm) /\ wm[c] = v
    <3> DEFINE x == WomAfter(wt, c, v)
               lx == Len(x)
               lm == Len(wm)
    <3>1. IsSeq(x) /\ c =< lx /\ x[c] = v /\ Extends(x, wm) /\ IsSeq(wm)
      <4> HIDE DEF u, wm, c, v, wt
      <4> QED BY <1>3, <2>1, <2>5, <2>6, <2>8
    <3>2. lx \in Nat /\ lm \in Nat /\ lx =< lm /\ \A j \in 1 .. lx : wm[j] = x[j]
      BY <3>1, FunctionOfSeq DEF Extends
    <3> HIDE DEF x, lx, lm, wm, c, v, wt
    <3>3. c \in 1 .. lx /\ c =< lm
      BY <1>1, <3>1, <3>2
    <3> QED BY <3>1, <3>2, <3>3 DEF lm
  <2>10. ~Collides(wm, c, v) /\ WomAfter(wm, c, v) = wm
    <3> HIDE DEF wm, c, v
    <3> QED BY <1>1, <2>9, WrittenAgain
  <2> HIDE DEF wm, wt, c, v, i, u
  <2> QED BY <1>4, <2>5, <2>10
<1> QED BY <1>5, <1>6

\* A machine beside the reference execution takes the same step, unless it is
\* answered.
LEMMA BesideComparable ==
    ASSUME EntryIsPlain, NEW m, NEW a, NEW t, NEW D, Beside(m, a, t, D), m.status = "running",
           Code[m.pc].op = "enter" => ~Cached(m, Code[m.pc].fun, Operands(m, Code[m.pc].args))
    PROVE  Comparable(m, t, 0)
<1>1. t.status = "running" /\ MemLike(m.mem, t.mem) /\ DOMAIN t.cache = {}
  <2>1. DOMAIN t.cache = {}
    BY BesideBase
  <2> QED BY <2>1 DEF Beside
<1>2. SameMemory(m, t)
  <2>1. t.mem.rom = m.mem.rom /\ t.mem.ram = m.mem.ram
    BY <1>1 DEF MemLike
  <2>2. Code[m.pc].op = "wrwom" =>
           LET c == Register(m, Code[m.pc].address) + 1
               v == Register(m, Code[m.pc].source)
           IN  Collides(t.mem.wom, c, v) <=> Collides(m.mem.wom, c, v)
    BY OutputWritten
  <2> QED BY <2>1, <2>2 DEF SameMemory
<1>3. Code[m.pc].op = "ret" => Len(m.calls) > 0 \/ (m.calls = <<>> /\ t.calls = <<>>)
  BY ReturnsAbove
<1>4. Code[m.pc].op = "enter" =>
          LET f == Code[m.pc].fun
              args == Operands(m, Code[m.pc].args)
          IN  ~Cached(m, f, args) /\ ~Cached(t, f, args)
  BY <1>1 DEF Cached
<1> QED BY <1>1, <1>2, <1>3, <1>4 DEF Comparable

-----------------------------------------------------------------------------
\* The same access of memories that are the same.
LEMMA AccessedAlike ==
    ASSUME NEW m, NEW t, NEW n, NEW u, NEW a, NEW value, NEW isWrite, NEW log,
           MemLike(m.mem, t.mem), DOMAIN t.mem = {"rom", "wom", "ram", "clock"},
           Accessed(m, n, a, value, isWrite), Accessed(t, u, a, value, isWrite),
           IsSeq(m.log), IsSeq(log), t.log = log \o m.log
    PROVE  /\ MemLike(n.mem, u.mem) /\ n.mem.wom = m.mem.wom /\ u.mem.wom = t.mem.wom
           /\ IsSeq(n.log) /\ u.log = log \o n.log
<1> DEFINE p == m.mem
           q == t.mem
           now == [value |-> value, stamp |-> p.clock + 1]
           e == [address |-> a, before |-> p.ram[a], after |-> now, isWrite |-> isWrite]
           k == p.clock + 1
           r == [p.ram EXCEPT ![a] = now]
<1>1. /\ DOMAIN p = {"rom", "wom", "ram", "clock"} /\ p.rom = q.rom /\ p.ram = q.ram
      /\ p.clock = q.clock /\ DOMAIN q = DOMAIN p
  BY DEF MemLike
<1>2. n.mem = [p EXCEPT !.clock = k, !.ram[a] = now] /\ n.log = Append(m.log, e)
  BY DEF Accessed
<1>3. u.mem = [q EXCEPT !.clock = k, !.ram[a] = now] /\ u.log = Append(t.log, e)
  BY <1>1 DEF Accessed
<1> HIDE DEF p, q, now, e, k
<1>4. n.mem.rom = p.rom /\ n.mem.wom = p.wom /\ n.mem.clock = k /\ n.mem.ram = r
      /\ DOMAIN n.mem = DOMAIN p /\ n.mem = [x \in DOMAIN n.mem |-> n.mem[x]]
  BY <1>1, <1>2
<1>5. u.mem.rom = q.rom /\ u.mem.wom = q.wom /\ u.mem.clock = k /\ u.mem.ram = r
  BY <1>1, <1>3
<1>6. MemLike(n.mem, u.mem)
  BY <1>1, <1>4, <1>5 DEF MemLike
<1>7. IsSeq(n.log) /\ u.log = log \o n.log
  BY <1>2, <1>3, Appended, AppendedBehind
<1> QED BY <1>4, <1>5, <1>6, <1>7 DEF p, q

\* The memories of a machine that takes a step, and those of the reference
\* execution.
LEMMA BesideMemory ==
    ASSUME EntryIsPlain, NEW m, NEW a, NEW t, NEW D, Beside(m, a, t, D), m.status = "running"
    PROVE  LET n == Dispatch(m)
               u == RefStep(t)
           IN  /\ MemLike(n.mem, u.mem) /\ Outputs(n, u, D)
               /\ IsSeq(n.log) /\ u.log = a.log \o n.log
               /\ u.status = n.status /\ n.status = "running" => Wrote2Wom(m, u.mem.wom)
<1> DEFINE n == Dispatch(m)
           u == RefStep(t)
           i == Code[m.pc]
           c == Register(m, i.address) + 1
           v == Register(m, i.source)
<1> SUFFICES /\ MemLike(n.mem, u.mem) /\ Outputs(n, u, D)
             /\ IsSeq(n.log) /\ u.log = a.log \o n.log
             /\ u.status = n.status /\ n.status = "running" => Wrote2Wom(m, u.mem.wom)
  OBVIOUS
<1>1. /\ RefInv(t) /\ t.status = "running" /\ WellBehaved(m) /\ MemLike(m.mem, t.mem)
      /\ IsSeq(m.log) /\ t.log = a.log \o m.log /\ Outputs(m, t, D)
      /\ Alike(m, t, 0, a.fp, 0, Len(a.calls)) /\ IsSeq(a.log)
      /\ DOMAIN t.mem = {"rom", "wom", "ram", "clock"}
  BY DEF Beside, RefInv, Typed, MemTyped
<1>2. 0 \in Nat /\ a.fp \in Nat /\ Len(a.calls) \in Nat
  BY BesideBase
<1>3. D.status = "done" => Reaches(t, D) /\ Reaches(u, D) /\ m.mem.wom = D.mem.wom
  <2>1. D.status = "done" => Reaches(t, D) /\ m.mem.wom = D.mem.wom
    BY <1>1 DEF Outputs
  <2>2. D.status = "done" => t # D
    BY <1>1
  <2> QED BY <2>1, <2>2, FirstStep
<1>4. D.status # "done" => m.mem.wom = t.mem.wom
  BY <1>1 DEF Outputs
<1>5. /\ i.op \notin {"wrwom", "rdram", "wrram"} => n.mem = m.mem /\ n.log = m.log
      /\ i.op = "wrwom" =>
            /\ n.log = m.log
            /\ n.mem = IF Collides(m.mem.wom, c, v) THEN m.mem
                       ELSE [m.mem EXCEPT !.wom = WomAfter(m.mem.wom, c, v)]
      /\ i.op \in {"rdram", "wrram"} =>
            Accessed(m, n, Register(m, i.address), Accessing(m), i.op = "wrram")
  BY <1>1, MemoryEffect
<1>6. /\ i.op \notin {"wrwom", "rdram", "wrram"} => u.mem = t.mem /\ u.log = t.log
      /\ i.op = "wrwom" =>
            /\ u.log = t.log
            /\ u.mem = IF Collides(t.mem.wom, c, v) THEN t.mem
                       ELSE [t.mem EXCEPT !.wom = WomAfter(t.mem.wom, c, v)]
            /\ Collides(t.mem.wom, c, v) => u.status = "failed"
      /\ i.op \in {"rdram", "wrram"} =>
            Accessed(t, u, Register(m, i.address), Accessing(m), i.op = "wrram")
  <2>1. t.mem.ram = m.mem.ram
    BY <1>1 DEF MemLike
  <2> QED BY <1>1, <1>2, <2>1, StepMemory
<1>7. CASE i.op \notin {"wrwom", "rdram", "wrram"}
  <2>1. n.mem = m.mem /\ n.log = m.log /\ u.mem = t.mem /\ u.log = t.log
    BY <1>5, <1>6, <1>7
  <2>2. Wrote2Wom(m, u.mem.wom)
    BY <1>7 DEF Wrote2Wom
  <2> HIDE DEF n, u
  <2>3. Outputs(n, u, D)
    BY <1>3, <1>4, <2>1 DEF Outputs
  <2>4. MemLike(n.mem, u.mem) /\ IsSeq(n.log) /\ u.log = a.log \o n.log
    BY <1>1, <2>1
  <2> QED BY <2>2, <2>3, <2>4
<1>8. CASE i.op \in {"rdram", "wrram"}
  <2>1. Wrote2Wom(m, u.mem.wom)
    BY <1>8 DEF Wrote2Wom
  <2> DEFINE at == Register(m, i.address)
             value == Accessing(m)
             isWrite == i.op = "wrram"
  <2>2. Accessed(m, n, at, value, isWrite) /\ Accessed(t, u, at, value, isWrite)
    BY <1>5, <1>6, <1>8
  <2> HIDE DEF n, u, at, value, isWrite
  <2>3. /\ MemLike(n.mem, u.mem) /\ n.mem.wom = m.mem.wom /\ u.mem.wom = t.mem.wom
        /\ IsSeq(n.log) /\ u.log = a.log \o n.log
    <3> DEFINE log == a.log
    <3>1. /\ MemLike(m.mem, t.mem) /\ DOMAIN t.mem = {"rom", "wom", "ram", "clock"}
          /\ IsSeq(m.log) /\ IsSeq(log) /\ t.log = log \o m.log
      BY <1>1
    <3> HIDE DEF log
    <3>2. /\ MemLike(n.mem, u.mem) /\ n.mem.wom = m.mem.wom /\ u.mem.wom = t.mem.wom
          /\ IsSeq(n.log) /\ u.log = log \o n.log
      BY <2>2, <3>1, AccessedAlike
    <3> QED BY <3>2 DEF log
  <2>4. Outputs(n, u, D)
    BY <1>3, <1>4, <2>3 DEF Outputs
  <2> QED BY <2>1, <2>3, <2>4
<1>9. CASE i.op = "wrwom"
  <2> DEFINE wm == m.mem.wom
             wt == t.mem.wom
             am == WomAfter(wm, c, v)
             at == WomAfter(wt, c, v)
  <2>1. /\ Collides(wt, c, v) <=> Collides(wm, c, v)
        /\ ~Collides(wt, c, v) /\ D.status = "done" => am = wm
        /\ ~Collides(wt, c, v) => Wrote2Wom(m, at)
    BY <1>9, OutputWritten
  <2>2. n.log = m.log /\ n.mem = IF Collides(wm, c, v) THEN m.mem ELSE [m.mem EXCEPT !.wom = am]
    BY <1>5, <1>9
  <2>3. u.log = t.log /\ u.mem = IF Collides(wt, c, v) THEN t.mem ELSE [t.mem EXCEPT !.wom = at]
    BY <1>6, <1>9
  <2>4. Collides(wt, c, v) => u.status = "failed"
    BY <1>6, <1>9
  <2>5. DOMAIN m.mem = {"rom", "wom", "ram", "clock"} /\ m.mem.rom = t.mem.rom
        /\ m.mem.ram = t.mem.ram /\ m.mem.clock = t.mem.clock
    BY <1>1 DEF MemLike
  <2> DEFINE hit == Collides(wt, c, v)
  <2>6. wm = m.mem.wom /\ wt = t.mem.wom
    OBVIOUS
  <2>7. /\ (Collides(wm, c, v) <=> hit) /\ (~hit /\ D.status = "done" => am = wm)
        /\ (~hit => Wrote2Wom(m, at)) /\ (hit => u.status = "failed")
        /\ D.status # "done" => am = at
    <3>1. D.status # "done" => wm = wt
      BY <1>4
    <3> HIDE DEF wm, wt, c, v, u
    <3> QED BY <2>1, <2>4, <3>1
  <2>8. n.mem = IF hit THEN m.mem ELSE [m.mem EXCEPT !.wom = am]
    BY <2>2, <2>7
  <2>9. u.mem = IF hit THEN t.mem ELSE [t.mem EXCEPT !.wom = at]
    BY <2>3
  <2> HIDE DEF n, u, hit, am, at, wm, wt
  <2>10. CASE hit
    <3>1. n.mem = m.mem /\ u.mem = t.mem
      BY <2>8, <2>9, <2>10
    <3>2. Outputs(n, u, D)
      BY <1>3, <1>4, <3>1 DEF Outputs
    <3>3. ~(u.status = n.status /\ n.status = "running")
      BY <2>7, <2>10
    <3> QED BY <1>1, <2>2, <2>3, <3>1, <3>2, <3>3
  <2>11. CASE ~hit
    <3> DEFINE p == m.mem
               q == t.mem
    <3>1. n.mem = [p EXCEPT !.wom = am] /\ u.mem = [q EXCEPT !.wom = at]
      BY <2>8, <2>9, <2>11
    <3>2. DOMAIN p = {"rom", "wom", "ram", "clock"} /\ DOMAIN q = DOMAIN p
          /\ p.rom = q.rom /\ p.ram = q.ram /\ p.clock = q.clock
      BY <1>1, <2>5
    <3> HIDE DEF p, q
    <3>3. n.mem.wom = am /\ n.mem.rom = p.rom /\ n.mem.ram = p.ram /\ n.mem.clock = p.clock
          /\ DOMAIN n.mem = DOMAIN p /\ n.mem = [x \in DOMAIN n.mem |-> n.mem[x]]
      BY <3>1, <3>2
    <3>4. u.mem.wom = at /\ u.mem.rom = q.rom /\ u.mem.ram = q.ram /\ u.mem.clock = q.clock
      BY <3>1, <3>2
    <3>5. MemLike(n.mem, u.mem)
      BY <3>2, <3>3, <3>4 DEF MemLike
    <3>6. Outputs(n, u, D)
      <4>1. D.status = "done" => n.mem.wom = D.mem.wom
        BY <1>3, <2>6, <2>7, <2>11, <3>3
      <4>2. D.status # "done" => n.mem.wom = u.mem.wom
        BY <2>7, <3>3, <3>4
      <4> QED BY <1>3, <4>1, <4>2 DEF Outputs
    <3>7. Wrote2Wom(m, u.mem.wom)
      BY <2>7, <2>11, <3>4
    <3> QED BY <1>1, <2>2, <2>3, <3>5, <3>6, <3>7
  <2> QED BY <2>10, <2>11
<1> QED BY <1>7, <1>8, <1>9

-----------------------------------------------------------------------------
\* A breakpoint handler does not move a machine.
LEMMA BesideHandled ==
    ASSUME NEW m, NEW a, NEW t, NEW D, Beside(m, a, t, D), NEW n, Handled(m, n),
           n.status = m.status \/ (m.status = "running" /\ n.status = "stopped")
    PROVE  Beside(n, a, t, D)
<1>1. MachineFields \subseteq DOMAIN m /\ WellBehaved(m)
  BY DEF Beside, WellBehaved, MachineInv
<1>2. /\ n.fid = m.fid /\ n.pc = m.pc /\ n.fp = m.fp /\ n.stack = m.stack /\ n.calls = m.calls
      /\ n.mem = m.mem /\ n.log = m.log
  BY <1>1, HandledFields
<1>3. WellBehaved(n)
  BY <1>1, HandledBehaved
<1>4. Alike(m, t, 0, a.fp, 0, Len(a.calls))
  BY DEF Beside
<1>5. Alike(n, t, 0, a.fp, 0, Len(a.calls))
  BY <1>2, <1>4, StaysAlike
<1>6. Bottom(n, a)
  <2>1. FrameOf(n, 1) = FrameOf(m, 1)
    BY <1>2 DEF FrameOf
  <2>2. Bottom(m, a)
    BY DEF Beside
  <2> QED BY <2>1, <2>2 DEF Bottom
<1>7. t.status = IF n.status = "stopped" THEN "running" ELSE n.status
  BY DEF Beside
<1>8. Outputs(n, t, D)
  BY <1>2 DEF Beside, Outputs
<1>9. RefInv(a) /\ RefInv(t) /\ Reaches(a, t) /\ MemLike(n.mem, t.mem)
      /\ IsSeq(n.log) /\ t.log = a.log \o n.log
  BY <1>2 DEF Beside
<1> QED BY <1>3, <1>5, <1>6, <1>7, <1>8, <1>9 DEF Beside

\* The step of the machine is one of the reference execution, or it is an answer
\* that this finds out.
StepTaken(m, t, u, seen) ==
    /\ Reaches(t, u) /\ u.count = RefStep(t).count
    /\ Dispatch(m).status = "running" => Wrote2Wom(m, u.mem.wom)
    /\ \/ u.rows = RowsAfter(t.rows, m, Dispatch(m))
       \/ Code[m.pc].op = "enter" /\ AddedRows(t, u, seen)

\* A machine beside the reference execution stays beside it.
LEMMA BesideStep ==
    ASSUME EntryIsPlain, NEW m, NEW a, NEW t, NEW D, Beside(m, a, t, D), m.status = "running",
           NEW seen, Memo(m, t.mem.wom, seen)
    PROVE  \E u : Beside(Dispatch(m), a, u, D) /\ StepTaken(m, t, u, seen)
<1> DEFINE n == Dispatch(m)
           op == Code[m.pc].op
           f == Code[m.pc].fun
           ops == Operands(m, Code[m.pc].args)
           la == Len(a.calls)
<1>1. /\ RefInv(a) /\ RefInv(t) /\ Reaches(a, t) /\ WellBehaved(m) /\ t.status = "running"
      /\ Alike(m, t, 0, a.fp, 0, la) /\ MemLike(m.mem, t.mem)
  BY DEF Beside
<1>2. 0 \in Nat /\ a.fp \in Nat /\ la \in Nat /\ MachineInv(m)
  BY BesideBase
<1>3. WellBehaved(n) /\ Bottom(n, a)
  <2>1. Bottom(m, a)
    BY DEF Beside
  <2> QED BY <1>1, <2>1, StaysWellBehaved, BottomStep
<1>4. n.status # "stopped"
  BY <1>1, StatusAfter
<1>5. CASE op = "enter" /\ Cached(m, f, ops)
  <2>1. Changes(m, n, {"stack", "pc", "rp", "rw"})
    BY <1>2, <1>5, CachedEffect
  <2>2. n.mem = m.mem /\ n.log = m.log /\ n.status = "running"
    <3>1. MachineFields \subseteq DOMAIN m
      BY <1>2 DEF MachineInv
    <3> HIDE DEF n
    <3> QED BY <2>1, <3>1 DEF Changes, MachineFields
  <2>3. <<f, ops>> \in DOMAIN m.cache
    BY <1>5 DEF Cached
  <2>4. Replays(f, ops, m.cache[<<f, ops>>], t.mem.rom, t.mem.wom, seen)
    <3> DEFINE key == <<f, ops>>
    <3>1. key[1] = f /\ key[2] = ops
      OBVIOUS
    <3>2. Replays(key[1], key[2], m.cache[key], m.mem.rom, t.mem.wom, seen)
      BY <2>3 DEF Memo
    <3>3. m.mem.rom = t.mem.rom
      BY <1>1 DEF MemLike
    <3> QED BY <3>1, <3>2, <3>3
  <2>5. Extends(t.mem.wom, t.mem.wom)
    <3>1. IsSeq(t.mem.wom)
      BY <1>1 DEF RefInv, Typed, MemTyped
    <3> QED BY <3>1, ExtendsItself
  <2>6. PICK u : Resumed(t, u, seen) /\ Alike(n, u, 0, a.fp, 0, la)
    BY <1>1, <1>2, <1>5, <2>4, <2>5, AnswerAlike
  <2> HIDE DEF n
  <2>7. /\ Reaches(t, u) /\ RefInv(u) /\ u.status = "running" /\ u.mem = t.mem /\ u.log = t.log
        /\ u.count = RefStep(t).count /\ AddedRows(t, u, seen)
    BY <2>6 DEF Resumed
  <2>8. Reaches(a, u)
    BY <1>1, <2>7, ReachesFurther
  <2>9. Outputs(n, u, D)
    <3>1. Outputs(m, t, D)
      BY DEF Beside
    <3>2. CASE D.status = "done"
      <4>1. Reaches(t, D) /\ m.mem.wom = D.mem.wom
        BY <3>1, <3>2 DEF Outputs
      <4>2. Reaches(u, D)
        BY <2>7, <3>2, <4>1, EndsAt
      <4> QED BY <2>2, <3>2, <4>1, <4>2 DEF Outputs
    <3>3. CASE D.status # "done"
      BY <2>2, <2>7, <3>1, <3>3 DEF Outputs
    <3> QED BY <3>2, <3>3
  <2>10. Beside(n, a, u, D)
    <3>1. IsSeq(n.log) /\ u.log = a.log \o n.log /\ MemLike(n.mem, u.mem)
      BY <2>2, <2>7 DEF Beside
    <3> HIDE DEF la
    <3>2. Alike(n, u, 0, a.fp, 0, Len(a.calls))
      BY <2>6 DEF la
    <3> QED BY <1>1, <1>3, <2>2, <2>7, <2>8, <2>9, <3>1, <3>2 DEF Beside
  <2>11. StepTaken(m, t, u, seen)
    <3>1. Wrote2Wom(m, u.mem.wom)
      BY <1>5 DEF Wrote2Wom
    <3> QED BY <1>5, <2>7, <3>1 DEF StepTaken
  <2> QED BY <2>10, <2>11 DEF n
<1>6. CASE ~(op = "enter" /\ Cached(m, f, ops))
  <2> DEFINE u == RefStep(t)
  <2>1. Comparable(m, t, 0)
    BY <1>6, BesideComparable
  <2>2. m.status # "failed"
    OBVIOUS
  <2>3. /\ Alike(n, u, 0, a.fp, 0, la) /\ u.status = n.status
        /\ u.rows = RowsAfter(t.rows, m, n)
    BY <1>1, <1>2, <2>1, <2>2, StepAlike
  <2>4. /\ MemLike(n.mem, u.mem) /\ Outputs(n, u, D)
        /\ IsSeq(n.log) /\ u.log = a.log \o n.log
        /\ u.status = n.status /\ n.status = "running" => Wrote2Wom(m, u.mem.wom)
    BY BesideMemory
  <2>5. RefInv(u) /\ Reaches(t, u)
    BY <1>1, RefStepLater, ReachesNext DEF Later
  <2>6. Reaches(a, u)
    <3> HIDE DEF u
    <3> QED BY <1>1, <2>5, ReachesFurther
  <2>7. StepTaken(m, t, u, seen)
    BY <2>3, <2>4, <2>5 DEF StepTaken
  <2> HIDE DEF n, u
  <2>8. Beside(n, a, u, D)
    BY <1>1, <1>3, <1>4, <2>3, <2>4, <2>5, <2>6 DEF Beside
  <2> QED BY <2>7, <2>8 DEF n
<1> QED BY <1>5, <1>6

-----------------------------------------------------------------------------
\* A tracing machine beside the reference execution.

\* The rows of the reference execution are those it had and those of the machine.
RowsBeside(m, a, t) ==
    /\ StepsOf(t.rows) = StepsOf(a.rows) \o StepsOf(m.rows)
    /\ Range(t.rows) = Range(a.rows) \cup Range(m.rows)

Traces(m, a, t, D) ==
    /\ Beside(m, a, t, D) /\ IsSeq(m.rows)
    /\ m.status # "failed" => RowsBeside(m, a, t)
    /\ m.status = "running" => ReplayInv(m, t.mem.wom, Range(m.rows))

\* What a tracing machine does at a breakpoint and after it: s has a row more
\* than m, and e is what comes of it.
Recorded(m, s) ==
    /\ Handled(m, s) /\ s.status = "running"
    /\ s.rows = IF m.pc \in TracePoints THEN Append(m.rows, RowOf(m, Code[m.pc].op)) ELSE m.rows

Finished(s, e) ==
    /\ Handled(Dispatch(s), e) /\ e.status = Dispatch(s).status /\ IsSeq(e.rows)
    /\ e.status # "failed" => e.rows = s.rows

\* The same row is recorded.
LEMMA RowsRecorded ==
    ASSUME NEW m, NEW a, NEW t, NEW s, NEW u, NEW row, IsSeq(m.rows), IsSeq(t.rows), IsSeq(a.rows),
           RowsBeside(m, a, t), s.rows = Append(m.rows, row), u.rows = Append(t.rows, row)
    PROVE  RowsBeside(s, a, u)
<1> DEFINE ra == StepsOf(a.rows)
           rm == StepsOf(m.rows)
           rt == StepsOf(t.rows)
<1>1. IsSeq(ra) /\ IsSeq(rm) /\ rt = ra \o rm
  BY StepsAppended DEF RowsBeside
<1>2. StepsOf(s.rows) = Kept(rm, row) /\ StepsOf(u.rows) = Kept(rt, row)
  BY StepsAppended
<1> HIDE DEF ra, rm, rt
<1>3. Kept(rt, row) = ra \o Kept(rm, row)
  <2>1. CASE row.fid \in Effectless
    BY <1>1, <2>1 DEF Kept
  <2>2. CASE row.fid \notin Effectless
    <3>1. Append(ra \o rm, row) = ra \o Append(rm, row)
      BY <1>1, AppendedBehind
    <3> QED BY <1>1, <2>2, <3>1 DEF Kept
  <2> QED BY <2>1, <2>2
<1>4. StepsOf(u.rows) = ra \o StepsOf(s.rows)
  BY <1>2, <1>3
<1>5. Range(u.rows) = Range(a.rows) \cup Range(s.rows)
  <2>1. Range(s.rows) = Range(m.rows) \cup {row} /\ Range(u.rows) = Range(t.rows) \cup {row}
    BY RangeAppended
  <2>2. Range(t.rows) = Range(a.rows) \cup Range(m.rows)
    BY DEF RowsBeside
  <2> HIDE DEF Range
  <2> QED BY <2>1, <2>2
<1> QED BY <1>4, <1>5 DEF RowsBeside, ra

\* Rows that the machine has already.
LEMMA RowsRepeated ==
    ASSUME NEW m, NEW a, NEW t, NEW u, RowsBeside(m, a, t), AddedRows(t, u, Range(m.rows))
    PROVE  RowsBeside(m, a, u)
<1>1. StepsOf(u.rows) = StepsOf(a.rows) \o StepsOf(m.rows)
  BY DEF RowsBeside, AddedRows
<1>2. Range(u.rows) = Range(a.rows) \cup Range(m.rows)
  <2>1. /\ Range(t.rows) \subseteq Range(u.rows)
        /\ Range(u.rows) \subseteq Range(t.rows) \cup Range(m.rows)
        /\ Range(t.rows) = Range(a.rows) \cup Range(m.rows)
    BY DEF RowsBeside, AddedRows
  <2> HIDE DEF Range
  <2> QED BY <2>1
<1> QED BY <1>1, <1>2 DEF RowsBeside

\* Where a machine is and what it holds decide what it can replay.
LEMMA ReplaySame ==
    ASSUME NEW m, NEW s, NEW w, NEW seen, ReplayInv(m, w, seen),
           s.fid = m.fid, s.pc = m.pc, s.fp = m.fp, s.stack = m.stack, s.calls = m.calls,
           s.cache = m.cache, s.mem = m.mem
    PROVE  ReplayInv(s, w, seen)
<1>1. Memo(s, w, seen)
  BY DEF ReplayInv, Memo
<1>2. ASSUME NEW k \in 1 .. Len(s.calls), Live(s, k) PROVE InProgress(s, k, w, seen)
  <2>1. \A l : FrameOf(s, l) = FrameOf(m, l)
    BY DEF FrameOf
  <2>2. \A l : Args(s, l) = Args(m, l)
    BY <2>1 DEF Args, Slice
  <2>3. Live(m, k) /\ k \in 1 .. Len(m.calls)
    BY <1>2, <2>1 DEF Live
  <2>4. InProgress(m, k, w, seen)
    BY <2>3 DEF ReplayInv
  <2>5. ASSUME NEW b, NEW x, NEW bm, Follows(m, b, x, bm, k) PROVE Follows(s, b, x, bm, k)
    <3>1. Alike(m, x, bm, b.fp, k, Len(b.calls))
      BY <2>5 DEF Follows
    <3>2. Alike(s, x, bm, b.fp, k, Len(b.calls))
      BY <3>1, StaysAlike
    <3> QED BY <2>5, <3>2 DEF Follows
  <2> DEFINE g == FrameOf(m, k + 1)
             args == Args(m, k + 1)
             rom == m.mem.rom
  <2>6. FrameOf(s, k + 1) = g /\ Args(s, k + 1) = args /\ s.mem.rom = rom
    BY <2>1, <2>2
  <2>7. \A b : Entered(b, g.fid, args, rom, w) =>
           \E x : Reaches(b, x) /\ Follows(m, b, x, g.fp, k) /\ AddedRows(b, x, seen)
    BY <2>4 DEF InProgress
  <2> HIDE DEF g, args, rom
  <2>8. \A b : Entered(b, g.fid, args, rom, w) =>
           \E x : Reaches(b, x) /\ Follows(s, b, x, g.fp, k) /\ AddedRows(b, x, seen)
    BY <2>5, <2>7
  <2> QED BY <2>6, <2>8 DEF InProgress
<1> QED BY <1>1, <1>2 DEF ReplayInv

\* A tracing machine goes on as one.
LEMMA TraceStep ==
    ASSUME EntryIsPlain, NEW m, NEW a, NEW t, NEW D, Traces(m, a, t, D), m.status = "running",
           NEW s, NEW e, Recorded(m, s), Finished(s, e)
    PROVE  \E u : Traces(e, a, u, D) /\ u.count = RefStep(t).count
<1> DEFINE n == Dispatch(s)
           op == Code[m.pc].op
           row == RowOf(m, op)
           seen == Range(m.rows)
           more == Range(s.rows)
           w == t.mem.wom
<1>1. /\ Beside(m, a, t, D) /\ IsSeq(m.rows) /\ RowsBeside(m, a, t) /\ ReplayInv(m, w, seen)
      /\ Handled(m, s) /\ s.status = "running"
  BY DEF Traces, Recorded
<1>2. MachineFields \subseteq DOMAIN m /\ IsSeq(t.rows) /\ IsSeq(a.rows) /\ RefInv(t)
  BY <1>1 DEF Beside, WellBehaved, MachineInv, RefInv
<1>3. /\ s.fid = m.fid /\ s.pc = m.pc /\ s.fp = m.fp /\ s.stack = m.stack /\ s.calls = m.calls
      /\ s.cache = m.cache /\ s.mem = m.mem
  BY <1>1, <1>2, HandledFields
<1>4. Beside(s, a, t, D)
  BY <1>1, BesideHandled
<1>5. RowOf(s, op) = row
  BY <1>3 DEF RowOf, Frame
<1>7. seen \subseteq more /\ (m.pc \in TracePoints => row \in more) /\ IsSeq(s.rows)
  <2>1. CASE m.pc \in TracePoints
    <3>1. s.rows = Append(m.rows, row)
      BY <2>1 DEF Recorded
    <3> HIDE DEF row
    <3> QED BY <1>1, <3>1, RangeAppended, Appended
  <2>2. CASE m.pc \notin TracePoints
    <3>1. s.rows = m.rows
      BY <2>2 DEF Recorded
    <3> QED BY <1>1, <2>2, <3>1
  <2> QED BY <2>1, <2>2
<1>8. ReplayInv(s, w, seen)
  BY <1>1, <1>3, ReplaySame
<1>9. PICK u : Beside(n, a, u, D) /\ StepTaken(s, t, u, seen)
  <2>1. Memo(s, w, seen)
    BY <1>8 DEF ReplayInv
  <2> QED BY <1>1, <1>4, <2>1, BesideStep
<1>10. Handled(n, e) /\ e.status = n.status /\ IsSeq(e.rows)
       /\ (e.status # "failed" => e.rows = s.rows)
  BY DEF Finished
<1>11. Beside(e, a, u, D)
  BY <1>9, <1>10, BesideHandled
<1>12. u.count = RefStep(t).count /\ Reaches(t, u) /\ (n.status = "running" => Wrote2Wom(s, u.mem.wom))
  BY <1>9 DEF StepTaken
<1>13. ASSUME e.status # "failed" PROVE RowsBeside(e, a, u)
  <2>1. e.rows = s.rows /\ n.status # "failed"
    BY <1>10, <1>13
  <2>2. CASE u.rows = RowsAfter(t.rows, s, n)
    <3>1. u.rows = IF m.pc \in TracePoints THEN Append(t.rows, row) ELSE t.rows
      <4> HIDE DEF n, row
      <4> QED BY <1>3, <1>5, <2>1, <2>2 DEF RowsAfter
    <3> HIDE DEF n, row
    <3>2. CASE m.pc \in TracePoints
      <4>1. s.rows = Append(m.rows, row) /\ u.rows = Append(t.rows, row)
        BY <3>1, <3>2 DEF Recorded, row
      <4>2. RowsBeside(s, a, u)
        BY <1>1, <1>2, <4>1, RowsRecorded
      <4> QED BY <2>1, <4>2 DEF RowsBeside
    <3>3. CASE m.pc \notin TracePoints
      <4>1. s.rows = m.rows /\ u.rows = t.rows
        BY <3>1, <3>3 DEF Recorded
      <4> QED BY <1>1, <2>1, <4>1 DEF RowsBeside
    <3> QED BY <3>2, <3>3
  <2>3. CASE Code[s.pc].op = "enter" /\ AddedRows(t, u, seen)
    <3>1. m.pc \notin TracePoints
      BY <1>3, <2>3 DEF TracePoints, VectorTerminals
    <3>2. s.rows = m.rows
      BY <3>1 DEF Recorded
    <3>3. RowsBeside(m, a, u)
      BY <1>1, <2>3, RowsRepeated
    <3> QED BY <2>1, <3>2, <3>3 DEF RowsBeside
  <2> QED BY <1>9, <2>2, <2>3 DEF StepTaken
<1>14. ASSUME e.status = "running" PROVE ReplayInv(e, u.mem.wom, Range(e.rows))
  <2>1. n.status = "running" /\ e.rows = s.rows
    BY <1>10, <1>14
  <2>2. WellBehaved(s) /\ MemLike(s.mem, t.mem)
    BY <1>4 DEF Beside
  <2>3. RefInv(u) /\ IsSeq(w) /\ IsSeq(u.mem.wom) /\ Extends(w, u.mem.wom) /\ u.mem.rom = t.mem.rom
    <3>1. Later(t, u)
      BY <1>2, <1>12, ReachesLater
    <3>2. RefInv(u) /\ Extends(w, u.mem.wom) /\ u.mem.rom = t.mem.rom
      BY <3>1 DEF Later
    <3>3. IsSeq(w)
      BY <1>2 DEF RefInv, Typed, MemTyped
    <3>4. IsSeq(u.mem.wom)
      BY <3>2 DEF RefInv, Typed, MemTyped
    <3> QED BY <3>2, <3>3, <3>4
  <2>4. n.mem.rom = s.mem.rom
    <3>1. MemLike(n.mem, u.mem)
      BY <1>9 DEF Beside
    <3> HIDE DEF n
    <3> QED BY <2>2, <2>3, <3>1 DEF MemLike
  <2>5. RowIn(s, more)
    BY <1>3, <1>5, <1>7 DEF RowIn
  <2>6. ReplayInv(n, u.mem.wom, more)
    <3> DEFINE v == u.mem.wom
    <3>1. IsSeq(w) /\ IsSeq(v) /\ Extends(w, v) /\ Wrote2Wom(s, v)
      BY <1>12, <2>1, <2>3
    <3> HIDE DEF v, w, seen, more
    <3>2. ReplayInv(Dispatch(s), v, more)
      BY <1>1, <1>7, <1>8, <2>1, <2>2, <2>4, <2>5, <3>1, ReplayStep
    <3> QED BY <3>2 DEF v
  <2>7. /\ e.fid = n.fid /\ e.pc = n.pc /\ e.fp = n.fp /\ e.stack = n.stack /\ e.calls = n.calls
        /\ e.cache = n.cache /\ e.mem = n.mem
    <3>1. MachineFields \subseteq DOMAIN n
      BY <1>9 DEF Beside, WellBehaved, MachineInv
    <3> HIDE DEF n
    <3> QED BY <1>10, <3>1, HandledFields
  <2> QED BY <2>1, <2>6, <2>7, ReplaySame
<1> QED BY <1>7, <1>10, <1>11, <1>12, <1>13, <1>14 DEF Traces

-----------------------------------------------------------------------------
\* The handlers of tracing machines, and what they do besides recording.
LEMMA TracerHandler ==
    ASSUME NEW m, MachineFields \subseteq DOMAIN m, m.breakpointer \in {"record", "shard"},
           m.breakpointer = "shard" => "count" \in DOMAIN m, NEW opcode
    PROVE  LET n == Handle(m, opcode)
               entry == m.breakpointer = "shard" /\ m.pc = EntryPoint
           IN  /\ Handled(m, n)
               /\ ~entry => /\ n.rows = Append(m.rows, RowOf(m, opcode)) /\ n.status = m.status
                            /\ "count" \in DOMAIN m => n.count = m.count
               /\ entry => /\ n.rows = m.rows
                           /\ n.status = IF m.count - 1 = 0 THEN "stopped" ELSE m.status
                           /\ n.count = IF m.count - 1 = 0 THEN steps ELSE m.count - 1
<1> DEFINE n == Handle(m, opcode)
           r == RecordRow(m, opcode)
           row == RowOf(m, opcode)
<1>1. /\ Handled(m, r) /\ r.rows = Append(m.rows, row) /\ r.status = m.status
      /\ "count" \in DOMAIN m => r.count = m.count
  <2>1. r = [m EXCEPT !.rows = Append(m.rows, row)]
    BY DEF RecordRow, RowOf
  <2> HIDE DEF r, row
  <2>2. {"rows", "status"} \subseteq DOMAIN m
    BY DEF MachineFields
  <2> QED BY <2>1, <2>2 DEF Handled
<1>2. CASE ~(m.breakpointer = "shard" /\ m.pc = EntryPoint)
  <2>1. n = r
    BY <1>2 DEF Handle, ShardTracer
  <2> HIDE DEF n, r
  <2> QED BY <1>1, <1>2, <2>1 DEF n
<1>3. CASE m.breakpointer = "shard" /\ m.pc = EntryPoint
  <2> DEFINE y == [m EXCEPT !.count = IF m.count - 1 = 0 THEN steps ELSE m.count - 1]
  <2>1. n = IF m.count - 1 = 0 THEN [y EXCEPT !.status = "stopped"] ELSE y
    BY <1>3 DEF Handle, ShardTracer, Tick, Fires
  <2>2. {"rows", "status", "count"} \subseteq DOMAIN m
    BY <1>3 DEF MachineFields
  <2> DEFINE c == IF m.count - 1 = 0 THEN steps ELSE m.count - 1
             fires == m.count - 1 = 0
  <2>3. y = [m EXCEPT !.count = c] /\ n = IF fires THEN [y EXCEPT !.status = "stopped"] ELSE y
    BY <2>1
  <2>4. c = IF fires THEN steps ELSE m.count - 1
    OBVIOUS
  <2> HIDE DEF n, y, c, fires
  <2>5. Handled(m, y) /\ y.rows = m.rows /\ y.status = m.status /\ y.count = c
    BY <2>2, <2>3 DEF Handled
  <2>6. Handled(m, n) /\ n.rows = m.rows /\ n.count = c
        /\ n.status = IF fires THEN "stopped" ELSE m.status
    BY <2>2, <2>3, <2>5 DEF Handled
  <2> QED BY <1>3, <2>4, <2>6 DEF n, fires
<1> QED BY <1>2, <1>3

\* The state before the bytecode is executed.
AtBreak(m) == IF m.pc \in Breakpoints(m) THEN Handle(m, Code[m.pc].op) ELSE m

\* Executing is what the breakpoint does, the bytecode, and what finishes it.
LEMMA ExecuteAs ==
    ASSUME NEW m, m.status = "running"
    PROVE  LET s == AtBreak(m)
               n == Dispatch(s)
           IN  Execute(m) = IF s.status # "running" THEN s
                            ELSE IF n.status = "failed"
                                 THEN [Handle(n, "none") EXCEPT !.status = "failed"] ELSE n
BY DEF Execute, AtBreak

\* The row at which a machine failed is its last.
FailedRow(m) ==
    m.status = "failed" =>
        /\ ~Returning(m)
        /\ ~(m.breakpointer = "shard" /\ m.pc = EntryPoint) =>
              m.rows # <<>> /\ m.rows[Len(m.rows)] = RowOf(m, "none")

\* A tracing machine executes a bytecode, if it does not stop at a breakpoint.
LEMMA TracerFinishes ==
    ASSUME EntryIsPlain, NEW m, WellBehaved(m), m.status = "running", IsSeq(m.rows),
           m.breakpointer \in {"record", "shard"},
           m.breakpointer = "shard" => "count" \in DOMAIN m, AtBreak(m).status = "running"
    PROVE  LET s == AtBreak(m)
               e == Execute(m)
           IN  /\ Recorded(m, s) /\ Finished(s, e) /\ FailedRow(e)
               /\ e.breakpointer = m.breakpointer /\ DOMAIN e = DOMAIN m
               /\ "count" \in DOMAIN m /\ e.status # "failed" => e.count = s.count
<1> DEFINE s == AtBreak(m)
           n == Dispatch(s)
           h == Handle(n, "none")
           x == [h EXCEPT !.status = "failed"]
           e == Execute(m)
           op == Code[m.pc].op
<1> SUFFICES /\ Recorded(m, s) /\ Finished(s, e) /\ FailedRow(e)
             /\ e.breakpointer = m.breakpointer /\ DOMAIN e = DOMAIN m
             /\ "count" \in DOMAIN m /\ e.status # "failed" => e.count = s.count
  OBVIOUS
<1>1. MachineFields \subseteq DOMAIN m
  BY DEF WellBehaved, MachineInv
<1>2. m.pc \in Breakpoints(m) <=> m.pc \in TracePoints \/ (m.breakpointer = "shard" /\ m.pc = EntryPoint)
  BY DEF Breakpoints
<1>3. EntryPoint \notin TracePoints
  BY DEF EntryIsPlain, TracePoints
<1>4. Handled(m, s) /\ s.rows = IF m.pc \in TracePoints THEN Append(m.rows, RowOf(m, op)) ELSE m.rows
  <2>1. CASE m.pc \notin Breakpoints(m)
    <3>1. s = m
      BY <2>1 DEF AtBreak
    <3> HIDE DEF s
    <3>2. Handled(m, m)
      BY DEF Handled
    <3> QED BY <1>2, <2>1, <3>1, <3>2
  <2>2. CASE m.pc \in Breakpoints(m)
    <3>1. s = Handle(m, op)
      BY <2>2 DEF AtBreak
    <3> HIDE DEF s, op
    <3>2. /\ Handled(m, s)
          /\ ~(m.breakpointer = "shard" /\ m.pc = EntryPoint) => s.rows = Append(m.rows, RowOf(m, op))
          /\ (m.breakpointer = "shard" /\ m.pc = EntryPoint) => s.rows = m.rows
      BY <1>1, <3>1, TracerHandler
    <3> QED BY <1>2, <1>3, <2>2, <3>2
  <2> QED BY <2>1, <2>2
<1>5. Recorded(m, s)
  BY <1>4 DEF Recorded
<1> HIDE DEF s
<1>6. /\ MachineFields \subseteq DOMAIN s /\ DOMAIN s = DOMAIN m /\ s.breakpointer = m.breakpointer
      /\ WellBehaved(s) /\ IsSeq(s.rows)
  <2>1. DOMAIN s = DOMAIN m /\ s.breakpointer = m.breakpointer
    BY <1>1, <1>4, HandledFields
  <2>2. WellBehaved(s)
    BY <1>4, HandledBehaved
  <2>3. IsSeq(s.rows)
    BY <1>4, Appended
  <2> QED BY <1>1, <2>1, <2>2, <2>3
<1>7. /\ DOMAIN n = DOMAIN s /\ n.rows = s.rows /\ n.breakpointer = s.breakpointer
      /\ "count" \in DOMAIN s => n.count = s.count
  BY <1>6, RestKept
<1>8. e = IF n.status = "failed" THEN x ELSE n
  BY ExecuteAs DEF s
<1>9. n.status = "failed" => ~Returning(n)
  <2>1. s.status # "failed"
    BY DEF s
  <2>2. n.status = "failed" => Code[s.pc].op \in Plain
    BY <1>6, <2>1, FailsInPlace
  <2> QED BY <1>6, <2>2, PlainPlace DEF WellBehaved
<1> HIDE DEF n, e
<1>10. CASE n.status # "failed"
  <2>1. e = n
    BY <1>8, <1>10
  <2>2. Handled(n, n)
    BY DEF Handled
  <2>3. Finished(s, e)
    BY <1>6, <1>7, <2>1, <2>2 DEF Finished, n
  <2>4. FailedRow(e)
    BY <1>10, <2>1 DEF FailedRow
  <2> QED BY <1>5, <1>6, <1>7, <2>1, <2>3, <2>4
<1>11. CASE n.status = "failed"
  <2>1. e = x
    BY <1>8, <1>11
  <2>2. /\ Handled(n, h)
        /\ ~(n.breakpointer = "shard" /\ n.pc = EntryPoint) => h.rows = Append(n.rows, RowOf(n, "none"))
        /\ (n.breakpointer = "shard" /\ n.pc = EntryPoint) => h.rows = n.rows
    BY <1>6, <1>7, TracerHandler
  <2> HIDE DEF h, x
  <2>3. x = [h EXCEPT !.status = "failed"]
    BY DEF x
  <2>4. {"rows", "status"} \subseteq DOMAIN h /\ DOMAIN h = DOMAIN n
    <3>1. DOMAIN h = DOMAIN n
      BY <2>2 DEF Handled
    <3> QED BY <1>6, <1>7, <3>1 DEF MachineFields
  <2>5. x.status = "failed" /\ x.rows = h.rows /\ Handled(n, x)
    <3>1. DOMAIN x = DOMAIN h /\ x.status = "failed" /\ x.rows = h.rows
      BY <2>3, <2>4
    <3>2. \A y \in DOMAIN h \ {"status"} : x[y] = h[y]
      BY <2>3, <2>4
    <3> QED BY <2>2, <2>4, <3>1, <3>2 DEF Handled
  <2>6. MachineFields \subseteq DOMAIN n
    BY <1>6, <1>7
  <2>7. /\ x.fid = n.fid /\ x.pc = n.pc /\ x.fp = n.fp /\ x.stack = n.stack
        /\ x.breakpointer = n.breakpointer /\ DOMAIN x = DOMAIN n
    BY <2>5, <2>6, HandledFields
  <2>8. IsSeq(x.rows)
    <3> DEFINE row == RowOf(n, "none")
    <3>1. h.rows = n.rows \/ h.rows = Append(n.rows, row)
      BY <2>2
    <3> HIDE DEF row
    <3>2. IsSeq(n.rows)
      BY <1>6, <1>7
    <3>3. IsSeq(Append(n.rows, row))
      BY <3>2, Appended
    <3> QED BY <2>5, <3>1, <3>2, <3>3
  <2>9. Finished(s, x)
    BY <1>11, <2>5, <2>8 DEF Finished, n
  <2>10. FailedRow(x)
    <3>1. ~Returning(x)
      BY <1>9, <1>11, <2>7 DEF Returning
    <3>2. RowOf(x, "none") = RowOf(n, "none")
      BY <2>7 DEF RowOf, Frame
    <3>3. ASSUME ~(x.breakpointer = "shard" /\ x.pc = EntryPoint)
          PROVE  x.rows # <<>> /\ x.rows[Len(x.rows)] = RowOf(x, "none")
      <4> DEFINE row == RowOf(n, "none")
      <4>1. x.rows = Append(n.rows, row)
        BY <2>2, <2>5, <2>7, <3>3
      <4> HIDE DEF row
      <4>2. IsSeq(n.rows)
        BY <1>6, <1>7
      <4>3. x.rows # <<>> /\ x.rows[Len(x.rows)] = row
        BY <4>1, <4>2, FrontOfAppended
      <4> QED BY <3>2, <4>3 DEF row
    <3> QED BY <3>1, <3>3 DEF FailedRow
  <2> QED BY <1>5, <1>6, <1>7, <2>1, <2>5, <2>7, <2>9, <2>10
<1> QED BY <1>10, <1>11

-----------------------------------------------------------------------------
\* A row is that of a tail call of the shard function with these arguments.
CameFrom(row, args) ==
    /\ row.terminal /\ Code[row.pc].op = "tail" /\ Code[row.pc].fun = ShardFun
    /\ [k \in 1 .. Len(Code[row.pc].args) |-> row.frame[Code[row.pc].args[k] + 1]] = args

\* The operands of a call are in the frame that is recorded of it.
LEMMA RecordedOperands ==
    ASSUME NEW m, MachineInv(m), Code[m.pc].op = "tail",
           NEW args, IsSeq(args), Len(args) = NumInputs[Code[m.pc].fun],
           \A k \in 1 .. Len(args) : args[k] = Operands(m, Code[m.pc].args)[k]
    PROVE  [k \in 1 .. Len(Code[m.pc].args) |-> Frame(m)[Code[m.pc].args[k] + 1]] = args
<1> DEFINE regs == Code[m.pc].args
           f == Code[m.pc].fun
           cells == [k \in 1 .. Len(regs) |-> Frame(m)[regs[k] + 1]]
           w == Width[m.fid]
           ops == Operands(m, regs)
<1>1. /\ Len(regs) = NumInputs[f] /\ NumInputs[f] \in Nat
      /\ \A k \in 1 .. Len(regs) : ops[k] = Register(m, regs[k])
      /\ \A k \in 1 .. Len(regs) : regs[k] \in 0 .. (w - 1)
  BY CallOf
<1>2. /\ m.fp \in Nat /\ w \in Nat /\ IsSeq(m.stack) /\ Len(m.stack) = m.fp + w
  BY FrameSizes DEF MachineInv
<1>3. \A r \in 0 .. (w - 1) : Frame(m)[r + 1] = Register(m, r)
  <2> HIDE DEF w
  <2> DEFINE fp == m.fp
             s == m.stack
             fr == SubSeq(s, fp + 1, fp + w)
  <2>1. Frame(m) = fr
    BY <1>2 DEF Frame
  <2>2. IsSeq(s) /\ fp \in Nat /\ fp + w \in Nat /\ fp =< fp + w /\ fp + w =< Len(s)
    BY <1>2
  <2>3. \A r \in 0 .. (w - 1) : Register(m, r) = s[fp + r + 1]
    BY DEF Register
  <2> HIDE DEF fp, s, fr
  <2>4. \A i \in 1 .. ((fp + w) - fp) : SubSeq(s, fp + 1, fp + w)[i] = s[fp + i]
    BY <2>2, Part
  <2>5. fp \in Nat /\ w \in Nat
    BY <1>2 DEF fp
  <2>6. ASSUME NEW r \in 0 .. (w - 1) PROVE fr[r + 1] = s[fp + r + 1]
    <3> DEFINE i == r + 1
    <3>1. i \in 1 .. ((fp + w) - fp) /\ fp + i = fp + r + 1
      BY <2>5
    <3>2. SubSeq(s, fp + 1, fp + w)[i] = s[fp + i]
      <4> HIDE DEF i
      <4> QED BY <2>4, <3>1
    <3>3. fr[i] = s[fp + i]
      BY <3>2 DEF fr
    <3> QED BY <3>1, <3>3
  <2> QED BY <2>1, <2>3, <2>6
<1>4. \A k \in 1 .. Len(regs) : cells[k] = args[k]
  <2> HIDE DEF w, ops
  <2>1. ASSUME NEW k \in 1 .. Len(regs) PROVE cells[k] = args[k]
    <3>1. cells[k] = Frame(m)[regs[k] + 1]
      OBVIOUS
    <3>2. Frame(m)[regs[k] + 1] = Register(m, regs[k])
      BY <1>1, <1>3
    <3>3. args[k] = ops[k]
      BY <1>1 DEF ops
    <3> QED BY <1>1, <3>1, <3>2, <3>3
  <2> QED BY <2>1
<1>5. cells = [k \in 1 .. Len(regs) |-> cells[k]]
  OBVIOUS
<1> HIDE DEF cells
<1>6. IsSeq(cells) /\ Len(cells) = Len(regs)
  BY <1>1, <1>5, SeqOfFunction
<1>7. cells = args
  BY <1>1, <1>4, <1>6, SameSeq
<1> QED BY <1>7 DEF cells

\* A tracing machine that has arrived at the entry of the shard function has
\* recorded the tail call by which it did.
LEMMA Arrives ==
    ASSUME EntryIsPlain, NEW m, NEW s, NEW e, WellBehaved(m), IsSeq(m.rows), Recorded(m, s), Finished(s, e),
           e.status = "running", e.pc = EntryPoint
    PROVE  e.rows # <<>> /\ CameFrom(e.rows[Len(e.rows)], Slice(e, e.fp, NumInputs[e.fid]))
<1> DEFINE n == Dispatch(s)
           args == Slice(e, e.fp, NumInputs[e.fid])
           row == RowOf(m, "tail")
           f == Code[s.pc].fun
           ni == NumInputs[f]
           ops == Operands(s, Code[s.pc].args)
<1>1. WellBehaved(s) /\ Handled(m, s) /\ s.status = "running"
  BY HandledBehaved DEF Recorded
<1>2. MachineInv(m) /\ MachineInv(s)
  BY <1>1 DEF WellBehaved
<1>3. /\ s.fid = m.fid /\ s.pc = m.pc /\ s.fp = m.fp /\ s.stack = m.stack
  BY <1>1, <1>2, HandledFields DEF MachineInv
<1>4. WellBehaved(n)
  BY <1>1, StaysWellBehaved
<1>5. e.fid = n.fid /\ e.pc = n.pc /\ e.fp = n.fp /\ e.stack = n.stack /\ e.status = n.status
  <2>1. MachineFields \subseteq DOMAIN n
    BY <1>4 DEF WellBehaved, MachineInv
  <2> HIDE DEF n
  <2>2. Handled(n, e) /\ e.status = n.status
    BY DEF Finished, n
  <2> QED BY <2>1, <2>2, HandledFields
<1>6. Code[s.pc].op = "tail" /\ f = ShardFun
  <2>1. Dispatch(s).status = "running" /\ Dispatch(s).pc = EntryPoint
    BY <1>5
  <2> QED BY <1>1, <2>1, ArrivesByTail
<1>7. /\ n.fid = f /\ n.fp = s.fp
      /\ \A j \in 1 .. ni : n.stack[n.fp + j] = ops[j]
  <2>1. n.fid = f
    BY <1>2, <1>6, TailEffect
  <2>2. n.fp = s.fp /\ \A j \in 1 .. NumInputs[n.fid] : n.stack[n.fp + j] = ops[j]
    BY <1>2, <1>6, TailFrame
  <2> QED BY <2>1, <2>2
<1>8. IsSeq(args) /\ Len(args) = ni /\ \A k \in 1 .. ni : args[k] = ops[k]
  <2>1. /\ n.fp \in Nat /\ NumInputs[n.fid] \in Nat /\ IsSeq(n.stack)
        /\ n.fp + NumInputs[n.fid] =< Len(n.stack)
    <3>1. MachineInv(n) /\ IsSeq(n.stack)
      BY <1>4 DEF WellBehaved, MachineInv
    <3>2. /\ n.fp \in Nat /\ NumInputs[n.fid] \in Nat /\ Width[n.fid] \in Nat
          /\ NumOutputs[n.fid] \in Nat /\ NumInputs[n.fid] + NumOutputs[n.fid] =< Width[n.fid]
          /\ n.fp + Width[n.fid] =< Len(n.stack) /\ Len(n.stack) \in Nat
      BY <3>1, FrameSizes
    <3> DEFINE a == n.fp
               b == NumInputs[n.fid]
               c == Width[n.fid]
               d == NumOutputs[n.fid]
               l == Len(n.stack)
    <3>3. a \in Nat /\ b \in Nat /\ c \in Nat /\ d \in Nat /\ l \in Nat /\ b + d =< c /\ a + c =< l
      BY <3>2
    <3> HIDE DEF a, b, c, d, l
    <3>4. a + b =< l
      BY <3>3
    <3> QED BY <3>1, <3>2, <3>4 DEF a, b, l
  <2> HIDE DEF n, ops, ni
  <2>2. args = Slice(n, n.fp, NumInputs[n.fid])
    BY <1>5 DEF Slice
  <2>3. /\ IsSeq(args) /\ Len(args) = NumInputs[n.fid]
        /\ \A k \in 1 .. NumInputs[n.fid] : args[k] = n.stack[n.fp + k]
    <3> HIDE DEF args
    <3> QED BY <2>1, <2>2, SliceOf
  <2>4. NumInputs[n.fid] = ni
    BY <1>7 DEF ni
  <2> HIDE DEF args
  <2> QED BY <1>7, <2>3, <2>4
<1>9. CameFrom(row, args)
  <2>1. ops = Operands(m, Code[m.pc].args) /\ f = Code[m.pc].fun /\ Code[m.pc].op = "tail"
    BY <1>3, <1>6 DEF Operands, Register
  <2> HIDE DEF args, ops
  <2>2. [k \in 1 .. Len(Code[m.pc].args) |-> Frame(m)[Code[m.pc].args[k] + 1]] = args
    <3>1. IsSeq(args) /\ Len(args) = NumInputs[Code[m.pc].fun]
      BY <1>8, <2>1
    <3>2. \A k \in 1 .. Len(args) : args[k] = Operands(m, Code[m.pc].args)[k]
      BY <1>8, <2>1
    <3> HIDE DEF f, ni
    <3> QED BY <1>2, <2>1, <3>1, <3>2, RecordedOperands
  <2>3. row.terminal /\ row.pc = m.pc /\ row.frame = Frame(m)
    BY DEF RowOf, FrameTerminals
  <2> QED BY <1>6, <2>1, <2>2, <2>3 DEF CameFrom
<1>10. e.rows = Append(m.rows, row)
  <2>1. m.pc \in TracePoints /\ Code[m.pc].op = "tail"
    <3>1. m.pc \in DOMAIN Code
      BY <1>2 DEF MachineInv, Body
    <3> QED BY <1>3, <1>6, <3>1 DEF TracePoints, VectorTerminals
  <2> QED BY <2>1 DEF Recorded, Finished
<1> HIDE DEF row, args
<1>11. e.rows # <<>> /\ e.rows[Len(e.rows)] = row
  BY <1>10, FrontOfAppended
<1> QED BY <1>9, <1>11 DEF args

-----------------------------------------------------------------------------
\* A shard beside the reference execution, from a on.
\* It counts the entries of the shard function that are left to it.
Counted(m, a, t, start) ==
    /\ m.status = "running" => m.count \in Nat \ {0} /\ m.count + t.count = start + a.count
    /\ m.status = "stopped" => t.pc = EntryPoint /\ t.count + 1 = start + a.count
    /\ t.count + 1 =< start + a.count

\* It has arrived at the entry by a tail call, unless it starts there.
Arrived(m, a, t) ==
    m.pc = EntryPoint /\ m.status \in {"running", "stopped"} =>
        \/ m.rows = <<>> /\ t = a
        \/ m.rows # <<>> /\ CameFrom(m.rows[Len(m.rows)], Slice(m, m.fp, NumInputs[m.fid]))

ShardTrack(m, a, t, D, start) ==
    /\ Traces(m, a, t, D) /\ m.breakpointer = "shard" /\ "count" \in DOMAIN m
    /\ FailedRow(m) /\ Arrived(m, a, t) /\ Counted(m, a, t, start)

\* What the breakpoint does to the counter of a shard.
LEMMA BreakCounts ==
    ASSUME NEW m, WellBehaved(m), m.status = "running", m.breakpointer = "shard",
           "count" \in DOMAIN m
    PROVE  LET s == AtBreak(m)
               stops == m.pc = EntryPoint /\ m.count - 1 = 0
           IN  /\ stops => Handled(m, s) /\ s.status = "stopped" /\ s.rows = m.rows
               /\ ~stops => /\ s.status = "running"
                            /\ s.count = IF m.pc = EntryPoint THEN m.count - 1 ELSE m.count
<1> DEFINE s == AtBreak(m)
           op == Code[m.pc].op
           entry == m.pc = EntryPoint
           fires == m.count - 1 = 0
<1>1. MachineFields \subseteq DOMAIN m
  BY DEF WellBehaved, MachineInv
<1>2. entry => m.pc \in Breakpoints(m)
  BY DEF Breakpoints
<1>3. CASE m.pc \notin Breakpoints(m)
  <2>1. s = m /\ ~entry
    BY <1>2, <1>3 DEF AtBreak
  <2> QED BY <2>1
<1>4. CASE m.pc \in Breakpoints(m)
  <2>1. s = Handle(m, op)
    BY <1>4 DEF AtBreak
  <2> HIDE DEF s, op
  <2>2. /\ Handled(m, s)
        /\ ~(m.breakpointer = "shard" /\ m.pc = EntryPoint) =>
              s.status = m.status /\ ("count" \in DOMAIN m => s.count = m.count)
        /\ m.breakpointer = "shard" /\ m.pc = EntryPoint =>
              /\ s.rows = m.rows
              /\ s.status = IF m.count - 1 = 0 THEN "stopped" ELSE m.status
              /\ s.count = IF m.count - 1 = 0 THEN steps ELSE m.count - 1
    BY <1>1, <2>1, TracerHandler
  <2> HIDE DEF fires
  <2>3. ~entry => s.status = "running" /\ s.count = m.count
    BY <2>2
  <2>4. entry => /\ s.rows = m.rows /\ s.status = (IF fires THEN "stopped" ELSE "running")
                 /\ s.count = IF fires THEN steps ELSE m.count - 1
    BY <2>2 DEF fires
  <2> HIDE DEF entry
  <2>5. entry /\ fires => Handled(m, s) /\ s.status = "stopped" /\ s.rows = m.rows
    BY <2>2, <2>4
  <2>6. ~(entry /\ fires) =>
           s.status = "running" /\ s.count = IF entry THEN m.count - 1 ELSE m.count
    BY <2>3, <2>4
  <2> QED BY <2>5, <2>6 DEF s, entry, fires
<1> QED BY <1>3, <1>4

\* A shard stops where the next entry that it counts would be executed.
LEMMA ShardStops ==
    ASSUME NEW m, NEW a, NEW t, NEW D, NEW start, ShardTrack(m, a, t, D, start),
           m.status = "running", start + a.count \in Nat,
           m.pc = EntryPoint, m.count - 1 = 0
    PROVE  ShardTrack(Execute(m), a, t, D, start)
<1> DEFINE s == AtBreak(m)
           e == Execute(m)
<1>1. /\ Traces(m, a, t, D) /\ m.breakpointer = "shard" /\ "count" \in DOMAIN m
      /\ Arrived(m, a, t) /\ Counted(m, a, t, start)
  BY DEF ShardTrack
<1>2. Beside(m, a, t, D) /\ IsSeq(m.rows) /\ RowsBeside(m, a, t)
  BY <1>1 DEF Traces
<1>3. WellBehaved(m) /\ RefInv(t)
  BY <1>2 DEF Beside
<1>4. Handled(m, s) /\ s.status = "stopped" /\ s.rows = m.rows
  BY <1>1, <1>3, BreakCounts
<1>5. e = s
  BY <1>4, ExecuteAs
<1> HIDE DEF s, e
<1>6. /\ s.fid = m.fid /\ s.pc = m.pc /\ s.fp = m.fp /\ s.stack = m.stack
      /\ s.breakpointer = m.breakpointer /\ DOMAIN s = DOMAIN m
  <2>1. MachineFields \subseteq DOMAIN m
    BY <1>3 DEF WellBehaved, MachineInv
  <2> QED BY <1>4, <2>1, HandledFields
<1>7. Traces(s, a, t, D)
  <2>1. Beside(s, a, t, D)
    BY <1>2, <1>4, BesideHandled
  <2>2. RowsBeside(s, a, t)
    BY <1>2, <1>4 DEF RowsBeside
  <2> QED BY <1>2, <1>4, <2>1, <2>2 DEF Traces
<1>8. FailedRow(s)
  BY <1>4 DEF FailedRow
<1>9. Arrived(s, a, t)
  <2>1. Slice(s, s.fp, NumInputs[s.fid]) = Slice(m, m.fp, NumInputs[m.fid])
    BY <1>6 DEF Slice
  <2> QED BY <1>1, <1>4, <1>6, <2>1 DEF Arrived
<1>10. Counted(s, a, t, start)
  <2>1. t.pc = m.pc
    BY <1>2, BesideBase
  <2>2. m.count \in Nat \ {0} /\ m.count + t.count = start + a.count
        /\ t.count + 1 =< start + a.count
    BY <1>1 DEF Counted
  <2>3. t.count \in Nat
    BY <1>3 DEF RefInv
  <2> DEFINE c == m.count
             d == t.count
             b == start + a.count
  <2>4. c \in Nat /\ d \in Nat /\ c - 1 = 0 /\ c + d = b
    BY <2>2, <2>3
  <2> HIDE DEF c, d, b
  <2>5. d + 1 = b
    BY <2>4
  <2> QED BY <1>4, <2>1, <2>2, <2>5 DEF Counted, d, b
<1>11. ShardTrack(s, a, t, D, start)
  BY <1>1, <1>6, <1>7, <1>8, <1>9, <1>10 DEF ShardTrack
<1> QED BY <1>5, <1>11 DEF e

\* A step that is not the stop is one of the reference execution.
LEMMA ShardGoesOn ==
    ASSUME EntryIsPlain, NEW m, NEW a, NEW t, NEW D, NEW start, ShardTrack(m, a, t, D, start),
           m.status = "running", start + a.count \in Nat,
           ~(m.pc = EntryPoint /\ m.count - 1 = 0)
    PROVE  \E u : ShardTrack(Execute(m), a, u, D, start)
<1> DEFINE s == AtBreak(m)
           e == Execute(m)
<1>1. /\ Traces(m, a, t, D) /\ m.breakpointer = "shard" /\ "count" \in DOMAIN m
      /\ Counted(m, a, t, start)
  BY DEF ShardTrack
<1>2. Beside(m, a, t, D) /\ IsSeq(m.rows)
  BY <1>1 DEF Traces
<1>3. WellBehaved(m) /\ RefInv(t)
  BY <1>2 DEF Beside
<1>4. s.status = "running" /\ s.count = IF m.pc = EntryPoint THEN m.count - 1 ELSE m.count
  BY <1>1, <1>3, BreakCounts
<1>5. /\ Recorded(m, s) /\ Finished(s, e) /\ FailedRow(e)
      /\ e.breakpointer = m.breakpointer /\ DOMAIN e = DOMAIN m
      /\ e.status # "failed" => e.count = s.count
  BY <1>1, <1>2, <1>3, <1>4, TracerFinishes
<1> HIDE DEF s, e
<1>6. PICK u : Traces(e, a, u, D) /\ u.count = RefStep(t).count
  BY <1>1, <1>5, TraceStep
<1>7. u.count = IF m.pc = EntryPoint THEN t.count + 1 ELSE t.count
  <2>1. t.pc = m.pc
    BY <1>2, BesideBase
  <2>2. RefStep(t).count = IF t.pc = EntryPoint THEN t.count + 1 ELSE t.count
    BY <1>3, RefStepFields
  <2> QED BY <1>6, <2>1, <2>2
<1>8. Arrived(e, a, u)
  <2>1. e.status # "stopped"
    <3>1. WellBehaved(s)
      BY <1>3, <1>5, HandledBehaved DEF Recorded
    <3>2. Dispatch(s).status \in {"running", "done", "failed", "panicked"}
      BY <1>4, <3>1, StatusAfter
    <3> QED BY <1>5, <3>2 DEF Finished
  <2>2. e.status = "running" /\ e.pc = EntryPoint =>
           e.rows # <<>> /\ CameFrom(e.rows[Len(e.rows)], Slice(e, e.fp, NumInputs[e.fid]))
    BY <1>2, <1>3, <1>5, Arrives
  <2> QED BY <2>1, <2>2 DEF Arrived
<1>9. Counted(e, a, u, start)
  <2>1. e.status # "stopped"
    <3>1. WellBehaved(s)
      BY <1>3, <1>5, HandledBehaved DEF Recorded
    <3>2. Dispatch(s).status \in {"running", "done", "failed", "panicked"}
      BY <1>4, <3>1, StatusAfter
    <3> QED BY <1>5, <3>2 DEF Finished
  <2> DEFINE c == m.count
             d == t.count
             b == start + a.count
             at == m.pc = EntryPoint
             c2 == s.count
             d2 == u.count
  <2>2. c \in Nat \ {0} /\ c + d = b /\ d + 1 =< b
    BY <1>1 DEF Counted
  <2>3. d \in Nat /\ b \in Nat
    BY <1>3 DEF RefInv
  <2>4. c2 = (IF at THEN c - 1 ELSE c) /\ d2 = (IF at THEN d + 1 ELSE d) /\ ~(at /\ c - 1 = 0)
    BY <1>4, <1>7
  <2> HIDE DEF c, d, b, at, c2, d2
  <2>5. c2 \in Nat \ {0} /\ c2 + d2 = b /\ d2 + 1 =< b
    BY <2>2, <2>3, <2>4
  <2>6. e.status = "running" => e.count = c2
    BY <1>5 DEF c2
  <2> QED BY <2>1, <2>5, <2>6 DEF Counted, d2, b
<1>10. ShardTrack(e, a, u, D, start)
  BY <1>1, <1>5, <1>6, <1>8, <1>9 DEF ShardTrack
<1> QED BY <1>10 DEF e

\* A shard goes on beside the reference execution.
LEMMA ShardStep ==
    ASSUME EntryIsPlain, NEW m, NEW a, NEW t, NEW D, NEW start, ShardTrack(m, a, t, D, start),
           m.status = "running", start + a.count \in Nat
    PROVE  \E u : ShardTrack(Execute(m), a, u, D, start)
BY ShardStops, ShardGoesOn

-----------------------------------------------------------------------------
\* What machines start from.
\* The rest of a machine that has not executed anything.
HasFresh(m, stack, mem, tracing) ==
    /\ m.status = "running" /\ m.log = <<>> /\ m.mem = mem /\ m.stack = stack
    /\ m.tracing = tracing

\* A machine that has been reset.
LEMMA ResetHas ==
    ASSUME NEW f \in Function, NEW tracing, NEW stack, NEW mem,
           NEW m, m = With([Reset(f, tracing) EXCEPT !.stack = stack], mem)
    PROVE  HasFresh(m, stack, mem, tracing)
<1> DEFINE r == [Reset(f, tracing) EXCEPT !.stack = stack]
<1>1. r = [fid |-> f, pc |-> Entry[f], fp |-> 0, rp |-> 0, rw |-> 0,
           stack |-> stack, calls |-> <<>>, cache |-> NoCache,
           tracing |-> tracing, status |-> "running", breakpointer |-> "none"]
  BY DEF Reset
<1>2. DOMAIN r = MachineFields \ {"mem", "log", "rows"}
  BY <1>1 DEF MachineFields
<1>3. \A x \in MachineFields : m[x] = IF x = "mem" THEN mem
                                      ELSE IF x \in {"log", "rows"} THEN <<>> ELSE r[x]
  BY <1>2 DEF With, MachineFields
<1> HIDE DEF r
<1>4. m.mem = mem /\ m.log = <<>>
  BY <1>3 DEF MachineFields
<1>5. m.status = r.status /\ m.stack = r.stack /\ m.tracing = r.tracing
  BY <1>3 DEF MachineFields
<1>6. r.status = "running" /\ r.stack = stack /\ r.tracing = tracing
  BY <1>1
<1> QED BY <1>4, <1>5, <1>6 DEF HasFresh

\* A machine that has booted.
LEMMA BootHas ==
    ASSUME NEW f \in Function, NEW contents, NEW tracing
    PROVE  HasFresh(Boot(f, contents, tracing), Zeroes(Width[f]),
                    Memories(contents, <<>>, ZeroRam, 0), tracing)
<1> DEFINE z == Zeroes(Width[f])
           mem == Memories(contents, <<>>, ZeroRam, 0)
           b == Boot(f, contents, tracing)
<1>1. [Reset(f, tracing) EXCEPT !.stack = z] = Reset(f, tracing)
  BY DEF Reset
<1>2. b = With([Reset(f, tracing) EXCEPT !.stack = z], mem)
  BY <1>1 DEF Boot
<1> HIDE DEF z, mem, b
<1>3. HasFresh(b, z, mem, tracing)
  BY <1>2, ResetHas
<1> QED BY <1>3 DEF z, mem, b

\* A machine that has been restored.
LEMMA RestoreHas ==
    ASSUME NEW cp, cp.fid \in Function, NEW tracing
    PROVE  HasFresh(Restore(cp, tracing), NewFrame(cp.fid, cp.args), cp.mem, tracing)
<1> DEFINE stack == NewFrame(cp.fid, cp.args)
           r == Restore(cp, tracing)
<1>1. r = With([Reset(cp.fid, tracing) EXCEPT !.stack = stack], cp.mem)
  BY DEF Restore
<1> HIDE DEF stack, r
<1>2. HasFresh(r, stack, cp.mem, tracing)
  BY <1>1, ResetHas
<1> QED BY <1>2 DEF stack, r

\* The reference execution has just entered a function: at the start, or by a
\* tail call of the shard function.
Entering(a) ==
    /\ RefInv(a) /\ a.status = "running" /\ a.pc = Entry[a.fid] /\ FreshFrame(a)
    /\ a.calls = <<>> \/ a.fid = ShardFun

\* A fresh machine with the same frame and the same memories is beside it.
LEMMA StartsBeside ==
    ASSUME NEW m, NEW a, NEW D, Entering(a), IsFresh(m, a.fid), m.status = "running",
           m.log = <<>>, \A j \in 1 .. Width[a.fid] : m.stack[j] = a.stack[a.fp + j],
           MemLike(m.mem, a.mem), Outputs(m, a, D)
    PROVE  Beside(m, a, a, D)
<1>1. RefInv(a) /\ a.status = "running" /\ a.pc = Entry[a.fid]
  BY DEF Entering
<1>2. WellBehaved(a) /\ IsSeq(a.log)
  BY <1>1 DEF RefInv, Typed
<1>3. a.fid \in Function /\ a.fp \in Nat /\ Width[a.fid] \in Nat /\ Len(a.calls) \in Nat
  BY <1>2, FrameSizes DEF WellBehaved
<1>4. /\ m.fid = a.fid /\ m.pc = Entry[a.fid] /\ m.fp = 0 /\ m.calls = <<>>
  BY DEF IsFresh
<1>5. WellBehaved(m) /\ ~Returning(m)
  BY <1>3, FreshMachine DEF WellBehaved
<1>6. Alike(m, a, 0, a.fp, 0, Len(a.calls))
  <2>1. SamePlace(m, a, 0, a.fp)
    BY <1>1, <1>3, <1>4 DEF SamePlace
  <2>2. SameCalls(m, a, 0, a.fp, 0, Len(a.calls))
    <3> DEFINE l == Len(a.calls)
    <3>1. Len(m.calls) = 0
      BY <1>4
    <3>2. l \in Nat
      BY <1>3
    <3> HIDE DEF l
    <3>3. 0 =< Len(m.calls) /\ l + 0 = Len(m.calls) + l /\ 1 .. (Len(m.calls) - 0) = {}
      BY <3>1, <3>2
    <3> QED BY <3>3 DEF SameCalls, l
  <2>3. SameCells(m, a, 0, a.fp)
    <3> DEFINE w == Width[a.fid]
    <3>1. Extent(m) = 0 + w + 0
      BY <1>4, <1>5 DEF Extent
    <3>2. w \in Nat /\ \A j \in 1 .. w : m.stack[j] = a.stack[a.fp + j]
      BY <1>3
    <3> HIDE DEF w
    <3>3. Extent(m) - 0 = w
      BY <3>1, <3>2
    <3>4. \A j \in 1 .. w : 0 + j = j
      BY <3>2
    <3>5. Agree(m.stack, a.stack, 0, a.fp, w)
      BY <3>2, <3>4 DEF Agree
    <3> QED BY <3>3, <3>5 DEF SameCells
  <2> QED BY <2>1, <2>2, <2>3 DEF Alike
<1>7. Bottom(m, a)
  <2>1. FrameOf(m, 1).fid = m.fid
    BY <1>4 DEF FrameOf
  <2> QED BY <1>4, <2>1 DEF Bottom, Entering
<1>8. IsSeq(m.log) /\ a.log = a.log \o m.log
  <2>1. IsSeq(m.log) /\ Len(m.log) = 0
    BY NoElements
  <2> DEFINE s == a.log
             e == m.log
  <2> HIDE DEF s, e
  <2>2. IsSeq(s) /\ IsSeq(e) /\ Len(e) = 0
    BY <1>2, <2>1 DEF s, e
  <2>3. IsSeq(s \o e) /\ Len(s \o e) = Len(s) + Len(e) /\ \A i \in 1 .. Len(s) : (s \o e)[i] = s[i]
    BY <2>2, Concatenated
  <2>4. Len(s) \in Nat
    BY <2>2, FunctionOfSeq
  <2>5. Len(s \o e) = Len(s)
    BY <2>2, <2>3, <2>4
  <2>6. s \o e = s
    BY <2>2, <2>3, <2>5, SameSeq
  <2> QED BY <2>1, <2>6 DEF s, e
<1>9. a.status = IF m.status = "stopped" THEN "running" ELSE m.status
  BY <1>1
<1> QED BY <1>1, <1>5, <1>6, <1>7, <1>8, <1>9, ReachesItself DEF Beside

\* It has no rows of its own, and remembers nothing.
LEMMA StartsTracing ==
    ASSUME NEW m, NEW a, NEW D, Beside(m, a, a, D), IsFresh(m, a.fid), m.status = "running"
    PROVE  Traces(m, a, a, D)
<1>1. m.rows = <<>> /\ m.calls = <<>> /\ DOMAIN m.cache = {}
  BY DEF IsFresh, NoCache
<1>2. IsSeq(m.rows) /\ Range(m.rows) = {}
  BY <1>1, NoElements DEF Range
<1>3. IsSeq(a.rows)
  BY DEF Beside, RefInv
<1>4. RowsBeside(m, a, a)
  <2> DEFINE s == StepsOf(a.rows)
             e == StepsOf(m.rows)
  <2>1. IsSeq(s)
    BY <1>3, StepsAppended
  <2>2. IsSeq(e) /\ Len(e) = 0
    BY <1>1, NoSteps, NoElements
  <2> HIDE DEF s, e
  <2>3. IsSeq(s \o e) /\ Len(s \o e) = Len(s) + Len(e) /\ \A i \in 1 .. Len(s) : (s \o e)[i] = s[i]
    BY <2>1, <2>2, Concatenated
  <2>4. Len(s) \in Nat
    BY <2>1, FunctionOfSeq
  <2>5. Len(s \o e) = Len(s)
    BY <2>2, <2>3, <2>4
  <2>6. s \o e = s
    BY <2>1, <2>3, <2>5, SameSeq
  <2> QED BY <1>2, <2>6 DEF RowsBeside, s, e
<1>5. ReplayInv(m, a.mem.wom, Range(m.rows))
  <2>1. Memo(m, a.mem.wom, Range(m.rows))
    BY <1>1 DEF Memo
  <2>2. Len(m.calls) = 0 /\ 1 .. 0 = {}
    BY <1>1
  <2> QED BY <2>1, <2>2 DEF ReplayInv
<1> QED BY <1>2, <1>4, <1>5 DEF Traces

-----------------------------------------------------------------------------
\* Where the reference execution begins.
Begin(in) == Counting(Boot(Main, in, FALSE), 0)

\* The memories that a machine boots with.
BootMem(in) == Memories(in, <<>>, ZeroRam, 0)

\* Registers are zero at first.
LEMMA ZeroCells ==
    ASSUME NEW n \in Nat
    PROVE  /\ Words(Zeroes(n)) /\ \A j \in 1 .. n : Zeroes(n)[j] = 0
<1> DEFINE z == Zeroes(n)
<1>1. \A j \in 1 .. n : z[j] = 0
  BY DEF Zeroes
<1>2. z = [i \in 1 .. n |-> z[i]]
  BY DEF Zeroes
<1> HIDE DEF z
<1>3. Len(z) = n
  BY <1>2, SeqOfFunction
<1>4. Words(z)
  BY <1>1, <1>3, WordNumbers DEF Words
<1> QED BY <1>1, <1>4 DEF z

\* So are the memories.
LEMMA BootMemTyped ==
    ASSUME NEW in \in Inputs
    PROVE  MemTyped(BootMem(in)) /\ BootMem(in).wom = <<>>
<1> DEFINE mem == BootMem(in)
<1>1. mem = [rom |-> in, wom |-> <<>>, ram |-> ZeroRam, clock |-> 0]
  BY DEF BootMem, Memories
<1>2. DOMAIN mem = {"rom", "wom", "ram", "clock"} /\ mem = [x \in DOMAIN mem |-> mem[x]]
  BY <1>1
<1>3. \A i \in DOMAIN mem.rom : mem.rom[i] \in Word
  <2>1. in \in Seq(Word)
    BY ShardAssumption
  <2>2. \A i \in DOMAIN in : in[i] \in Word
    <3> HIDE DEF mem
    <3> QED BY <2>1
  <2> QED BY <1>1, <2>2
<1>4. IsSeq(mem.wom)
  BY <1>1, NoElements
<1>5. DOMAIN mem.ram = Address /\ \A a \in Address : mem.ram[a].value \in Word
  BY <1>1, WordNumbers DEF ZeroRam
<1>6. mem.wom = <<>>
  BY <1>1
<1> HIDE DEF mem
<1>7. MemTyped(mem)
  BY <1>2, <1>3, <1>4, <1>5 DEF MemTyped
<1> QED BY <1>6, <1>7 DEF mem

\* The reference execution begins at the entry of the program.
LEMMA BeginFields ==
    ASSUME NEW in \in Inputs
    PROVE  LET b == Begin(in)
           IN  /\ IsFresh(b, Main) /\ HasFresh(b, Zeroes(Width[Main]), BootMem(in), FALSE)
               /\ "count" \in DOMAIN b /\ b.count = 0 /\ Main \in Function
<1> DEFINE m == Boot(Main, in, FALSE)
           b == Begin(in)
<1>1. Main \in Function
  BY ShardAssumption
<1>2. IsFresh(m, Main) /\ DOMAIN m = MachineFields
  BY <1>1, Booted
<1>3. HasFresh(m, Zeroes(Width[Main]), BootMem(in), FALSE)
  BY <1>1, BootHas DEF BootMem
<1>4. b = [x \in DOMAIN m \cup {"count"} |-> IF x = "count" THEN 0 ELSE m[x]]
  BY DEF Begin, Counting
<1> HIDE DEF m, b
<1>5. DOMAIN b = MachineFields \cup {"count"} /\ b.count = 0
  BY <1>2, <1>4
<1>6. \A x \in MachineFields : b[x] = m[x]
  BY <1>2, <1>4 DEF MachineFields
<1>7. IsFresh(b, Main)
  <2>1. DOMAIN m \subseteq DOMAIN b
    BY <1>2, <1>5
  <2> QED BY <1>2, <1>6, <2>1, Prepared
<1>8. HasFresh(b, Zeroes(Width[Main]), BootMem(in), FALSE)
  <2>1. /\ b.status = m.status /\ b.log = m.log /\ b.mem = m.mem /\ b.stack = m.stack
        /\ b.tracing = m.tracing
    BY <1>6 DEF MachineFields
  <2> QED BY <1>3, <2>1 DEF HasFresh
<1> QED BY <1>1, <1>5, <1>7, <1>8 DEF b

\* It enters the main function with registers of zero.
LEMMA BeginEnters ==
    ASSUME NEW in \in Inputs
    PROVE  LET b == Begin(in)
           IN  /\ Entering(b) /\ b.calls = <<>> /\ b.rows = <<>> /\ b.log = <<>> /\ b.count = 0
               /\ b.fid = Main /\ b.fp = 0 /\ b.mem = BootMem(in)
               /\ \A j \in 1 .. Width[Main] : b.stack[j] = 0
<1> DEFINE b == Begin(in)
           z == Zeroes(Width[Main])
<1>1. /\ IsFresh(b, Main) /\ HasFresh(b, z, BootMem(in), FALSE)
      /\ "count" \in DOMAIN b /\ b.count = 0 /\ Main \in Function
  BY BeginFields
<1>2. Width[Main] \in Nat
  BY <1>1, EntryInBody
<1>3. Words(z) /\ \A j \in 1 .. Width[Main] : z[j] = 0
  BY <1>2, ZeroCells
<1> HIDE DEF b, z
<1>4. /\ b.fid = Main /\ b.pc = Entry[Main] /\ b.fp = 0 /\ b.calls = <<>> /\ b.rows = <<>>
      /\ DOMAIN b.cache = {} /\ b.stack = z /\ b.mem = BootMem(in) /\ b.log = <<>>
      /\ b.tracing = FALSE /\ b.status = "running"
  BY <1>1 DEF IsFresh, HasFresh, NoCache
<1>5. WellBehaved(b)
  <2>1. MachineInv(b) /\ ~Returning(b)
    BY <1>1, FreshMachine
  <2> QED BY <2>1 DEF WellBehaved
<1>6. Typed(b)
  <2>1. MemTyped(b.mem)
    BY <1>4, BootMemTyped
  <2>2. IsSeq(b.log) /\ Words(b.stack)
    BY <1>3, <1>4, NoElements
  <2> QED BY <1>4, <1>5, <2>1, <2>2 DEF Typed
<1>7. FreshFrame(b)
  <2> DEFINE w == Width[Main]
             ni == NumInputs[Main]
  <2>1. w \in Nat /\ ni \in Nat
    BY <1>1, EntryInBody
  <2>2. \A j \in (ni + 1) .. w : j \in 1 .. w /\ 0 + j = j
    <3> HIDE DEF w, ni
    <3> QED BY <2>1
  <2>3. \A j \in 1 .. w : z[j] = 0
    BY <1>3
  <2>4. \A j \in (ni + 1) .. w : z[0 + j] = 0
    <3> HIDE DEF w, ni
    <3> QED BY <2>2, <2>3
  <2> QED BY <1>4, <2>4 DEF FreshFrame
<1>8. RefInv(b)
  <2>1. IsSeq(b.rows)
    BY <1>4, NoElements
  <2> QED BY <1>1, <1>6, <1>7, <2>1 DEF RefInv
<1>9. Entering(b)
  BY <1>4, <1>7, <1>8 DEF Entering
<1>10. \A j \in 1 .. Width[Main] : b.stack[j] = 0
  BY <1>3, <1>4
<1> QED BY <1>1, <1>4, <1>9, <1>10 DEF b

\* A machine that boots the program is beside it.
LEMMA BootsBeside ==
    ASSUME NEW in \in Inputs, NEW m, IsFresh(m, Main), NEW tracing,
           HasFresh(m, Zeroes(Width[Main]), BootMem(in), tracing)
    PROVE  LET b == Begin(in) IN Beside(m, b, b, b) /\ m.status = "running"
<1> DEFINE b == Begin(in)
<1>1. /\ Entering(b) /\ b.fid = Main /\ b.fp = 0 /\ b.mem = BootMem(in)
      /\ \A j \in 1 .. Width[Main] : b.stack[j] = 0
  BY BeginEnters
<1>2. Width[Main] \in Nat
  <2>1. Main \in Function
    BY ShardAssumption
  <2> QED BY <2>1, EntryInBody
<1> HIDE DEF b
<1>3. m.status = "running" /\ m.log = <<>> /\ m.mem = b.mem /\ m.stack = Zeroes(Width[Main])
  BY <1>1 DEF HasFresh
<1>4. \A j \in 1 .. Width[b.fid] : m.stack[j] = b.stack[b.fp + j]
  <2> DEFINE w == Width[Main]
             z == Zeroes(w)
  <2>1. \A j \in 1 .. w : z[j] = 0
    BY <1>2, ZeroCells
  <2>2. \A j \in 1 .. w : 0 + j = j
    OBVIOUS
  <2> HIDE DEF z
  <2>3. m.stack = z
    BY <1>3 DEF z
  <2> HIDE DEF w
  <2>4. \A j \in 1 .. w : b.stack[j] = 0
    BY <1>1 DEF w
  <2>5. \A j \in 1 .. w : m.stack[j] = b.stack[0 + j]
    BY <2>1, <2>2, <2>3, <2>4
  <2> QED BY <1>1, <2>5 DEF w
<1>5. MemLike(m.mem, b.mem)
  <2>1. MemTyped(BootMem(in))
    BY BootMemTyped
  <2> QED BY <1>1, <1>3, <2>1 DEF MemLike, MemTyped
<1>6. Outputs(m, b, b)
  BY <1>1, <1>3 DEF Outputs, Entering
<1>7. Beside(m, b, b, b)
  BY <1>1, <1>3, <1>4, <1>5, <1>6, StartsBeside
<1> QED BY <1>3, <1>7 DEF b

-----------------------------------------------------------------------------
\* A checkpoint of the reference execution.
PointOf(cp, a) ==
    cp.fid = a.fid /\ cp.args = Slice(a, a.fp, NumInputs[a.fid]) /\ cp.mem = a.mem

\* The parameters of machines that are alike are the same.
LEMMA SameParameters ==
    ASSUME NEW m, NEW t, WellBehaved(m), WellBehaved(t),
           NEW bm \in Nat, NEW bs \in Nat, NEW cm \in Nat, NEW cs \in Nat,
           Alike(m, t, bm, bs, cm, cs)
    PROVE  Slice(m, m.fp, NumInputs[m.fid]) = Slice(t, t.fp, NumInputs[t.fid])
<1> DEFINE ni == NumInputs[m.fid]
           w == Width[m.fid]
           sm == Slice(m, m.fp, ni)
           st == Slice(t, t.fp, ni)
<1>1. t.fid = m.fid
  BY DEF Alike, SamePlace
<1>2. MachineInv(m) /\ MachineInv(t)
  BY DEF WellBehaved
<1>3. /\ ni \in Nat /\ w \in Nat /\ ni =< w /\ m.fp \in Nat /\ IsSeq(m.stack)
      /\ m.fp + ni =< Len(m.stack)
  <2> DEFINE no == NumOutputs[m.fid]
             fp == m.fp
             l == Len(m.stack)
  <2>1. ni \in Nat /\ no \in Nat /\ w \in Nat /\ fp \in Nat /\ l \in Nat /\ ni + no =< w /\ fp + w =< l
    BY <1>2, FrameSizes
  <2>2. IsSeq(m.stack)
    BY <1>2 DEF MachineInv
  <2> HIDE DEF ni, no, w, fp, l
  <2>3. ni =< w /\ fp + ni =< l
    BY <2>1
  <2> QED BY <2>1, <2>2, <2>3 DEF fp, l
<1>4. t.fp \in Nat /\ IsSeq(t.stack) /\ t.fp + ni =< Len(t.stack)
  <2> DEFINE no == NumOutputs[m.fid]
             fp == t.fp
             l == Len(t.stack)
  <2>1. ni \in Nat /\ no \in Nat /\ w \in Nat /\ fp \in Nat /\ l \in Nat /\ ni + no =< w /\ fp + w =< l
    BY <1>1, <1>2, FrameSizes
  <2>2. IsSeq(t.stack)
    BY <1>2 DEF MachineInv
  <2> HIDE DEF ni, no, w, fp, l
  <2>3. fp + ni =< l
    BY <2>1
  <2> QED BY <2>1, <2>2, <2>3 DEF fp, l
<1>5. /\ IsSeq(sm) /\ Len(sm) = ni /\ \A i \in 1 .. ni : sm[i] = m.stack[m.fp + i]
  <2> HIDE DEF ni
  <2>1. ni \in Nat /\ m.fp \in Nat /\ IsSeq(m.stack) /\ m.fp + ni =< Len(m.stack)
    BY <1>3
  <2> QED BY <2>1, SliceOf
<1>6. /\ IsSeq(st) /\ Len(st) = ni /\ \A i \in 1 .. ni : st[i] = t.stack[t.fp + i]
  <2> HIDE DEF ni
  <2>1. ni \in Nat /\ t.fp \in Nat /\ IsSeq(t.stack) /\ t.fp + ni =< Len(t.stack)
    BY <1>3, <1>4
  <2> QED BY <2>1, SliceOf
<1>7. ASSUME NEW i \in 1 .. ni PROVE sm[i] = st[i]
  <2> DEFINE r == i - 1
             fm == m.fp
             ft == t.fp
  <2> HIDE DEF ni, w
  <2>1. r \in 0 .. (w - 1) /\ fm + r + 1 = fm + i /\ ft + r + 1 = ft + i
    <3>1. fm \in Nat /\ ft \in Nat
      BY <1>3, <1>4
    <3> HIDE DEF fm, ft
    <3> QED BY <1>3, <3>1
  <2> HIDE DEF r
  <2>2. Register(t, r) = Register(m, r)
    BY <2>1, SameRegister DEF w
  <2>3. t.stack[ft + r + 1] = m.stack[fm + r + 1]
    BY <2>2 DEF Register
  <2>4. t.stack[ft + i] = m.stack[fm + i]
    BY <2>1, <2>3
  <2> QED BY <1>5, <1>6, <2>4
<1> HIDE DEF sm, st, ni
<1>8. sm = st
  BY <1>5, <1>6, <1>7, SameSeq
<1> QED BY <1>1, <1>8 DEF sm, st, ni

\* What the fast machine checkpoints is the state of the reference execution.
LEMMA CheckPointOf ==
    ASSUME NEW m, NEW a, NEW t, NEW D, Beside(m, a, t, D), D.status = "running"
    PROVE  PointOf(CheckPoint(m), t)
<1> DEFINE cp == CheckPoint(m)
<1>1. cp.fid = m.fid /\ cp.args = Slice(m, m.fp, NumInputs[m.fid]) /\ cp.mem = m.mem
  BY DEF CheckPoint
<1>2. t.fid = m.fid
  BY BesideBase
<1>3. Slice(m, m.fp, NumInputs[m.fid]) = Slice(t, t.fp, NumInputs[t.fid])
  <2>1. /\ 0 \in Nat /\ a.fp \in Nat /\ Len(a.calls) \in Nat /\ WellBehaved(t)
    BY BesideBase
  <2>2. WellBehaved(m) /\ Alike(m, t, 0, a.fp, 0, Len(a.calls))
    BY DEF Beside
  <2> QED BY <2>1, <2>2, SameParameters
<1>4. m.mem = t.mem
  <2>1. MemLike(m.mem, t.mem) /\ m.mem.wom = t.mem.wom
    BY DEF Beside, Outputs
  <2>2. MemTyped(t.mem)
    BY DEF Beside, RefInv, Typed
  <2> DEFINE p == m.mem
             q == t.mem
             F == {"rom", "wom", "ram", "clock"}
  <2> HIDE DEF p, q
  <2>3. p = [x \in DOMAIN p |-> p[x]] /\ DOMAIN p = F
    BY <2>1 DEF MemLike, p
  <2>4. q = [x \in DOMAIN q |-> q[x]] /\ DOMAIN q = F
    BY <2>2 DEF MemTyped, q
  <2>5. p.rom = q.rom /\ p.wom = q.wom /\ p.ram = q.ram /\ p.clock = q.clock
    BY <2>1 DEF MemLike, p, q
  <2>6. \A x \in F : p[x] = q[x]
    BY <2>5
  <2>7. p = q
    BY <2>3, <2>4, <2>6
  <2> QED BY <2>7 DEF p, q
<1> HIDE DEF cp
<1> QED BY <1>1, <1>2, <1>3, <1>4 DEF PointOf, cp

\* The i-th shard, restored at a checkpoint with the final output, if any.
Shard(cp, start) == Counting([Restore(cp, TRUE) EXCEPT !.breakpointer = "shard"], start)

\* Is it to be restored there?
Restorable(cp, a, D) ==
    /\ IsPoint(cp) /\ cp.fid = a.fid /\ cp.args = Slice(a, a.fp, NumInputs[a.fid])
    /\ cp.mem = IF D.status = "done" THEN [a.mem EXCEPT !.wom = D.mem.wom] ELSE a.mem

\* What a restored shard has.
LEMMA ShardFields ==
    ASSUME NEW cp, IsPoint(cp), NEW start
    PROVE  LET m == Shard(cp, start)
           IN  /\ IsFresh(m, cp.fid) /\ HasFresh(m, NewFrame(cp.fid, cp.args), cp.mem, TRUE)
               /\ "count" \in DOMAIN m /\ m.count = start /\ m.breakpointer = "shard"
<1> DEFINE r == Restore(cp, TRUE)
           c == [r EXCEPT !.breakpointer = "shard"]
           m == Shard(cp, start)
<1>0. cp.fid \in Function
  BY DEF IsPoint
<1>1. IsFresh(r, cp.fid) /\ DOMAIN r = MachineFields
  BY Restored
<1>2. HasFresh(r, NewFrame(cp.fid, cp.args), cp.mem, TRUE)
  BY <1>0, RestoreHas
<1>3. m = [x \in DOMAIN c \cup {"count"} |-> IF x = "count" THEN start ELSE c[x]]
  BY DEF Shard, Counting
<1> HIDE DEF r, m
<1>4. DOMAIN c = MachineFields /\ c.breakpointer = "shard"
      /\ \A x \in MachineFields \ {"breakpointer"} : c[x] = r[x]
  BY <1>1 DEF MachineFields
<1> HIDE DEF c
<1>5. DOMAIN m = MachineFields \cup {"count"} /\ m.count = start
  BY <1>3, <1>4
<1>6. \A x \in MachineFields : m[x] = c[x]
  BY <1>3, <1>4 DEF MachineFields
<1>7. m.breakpointer = "shard" /\ \A x \in MachineFields \ {"breakpointer"} : m[x] = r[x]
  BY <1>4, <1>6 DEF MachineFields
<1>8. IsFresh(m, cp.fid)
  <2>1. DOMAIN r \subseteq DOMAIN m
    BY <1>1, <1>5
  <2> QED BY <1>1, <1>7, <2>1, Prepared
<1>9. HasFresh(m, NewFrame(cp.fid, cp.args), cp.mem, TRUE)
  <2>1. /\ m.status = r.status /\ m.log = r.log /\ m.mem = r.mem /\ m.stack = r.stack
        /\ m.tracing = r.tracing
    BY <1>7 DEF MachineFields
  <2> QED BY <1>2, <2>1 DEF HasFresh
<1> QED BY <1>5, <1>7, <1>8, <1>9 DEF m

\* A shard starts beside the reference execution at its checkpoint.
LEMMA ShardBegins ==
    ASSUME NEW a, NEW D, Entering(a), Reaches(a, D), NEW cp, Restorable(cp, a, D),
           NEW start \in Nat \ {0}
    PROVE  ShardTrack(Shard(cp, start), a, a, D, start)
<1> DEFINE m == Shard(cp, start)
           frame == NewFrame(cp.fid, cp.args)
           ni == NumInputs[a.fid]
           w == Width[a.fid]
           s == a.stack
           fp == a.fp
<1>1. /\ IsPoint(cp) /\ cp.fid = a.fid /\ cp.args = Slice(a, fp, ni)
      /\ cp.mem = IF D.status = "done" THEN [a.mem EXCEPT !.wom = D.mem.wom] ELSE a.mem
  BY DEF Restorable
<1>2. /\ IsFresh(m, cp.fid) /\ HasFresh(m, frame, cp.mem, TRUE)
      /\ "count" \in DOMAIN m /\ m.count = start /\ m.breakpointer = "shard"
  BY <1>1, ShardFields
<1>3. RefInv(a) /\ a.status = "running" /\ FreshFrame(a)
  BY DEF Entering
<1>4. MachineInv(a) /\ MemTyped(a.mem) /\ a.count \in Nat
  BY <1>3 DEF RefInv, Typed, WellBehaved
<1> HIDE DEF m
<1>5. /\ m.status = "running" /\ m.log = <<>> /\ m.mem = cp.mem /\ m.stack = frame
      /\ m.rows = <<>> /\ m.pc = Entry[a.fid]
  BY <1>1, <1>2 DEF HasFresh, IsFresh
<1>6. \A j \in 1 .. w : m.stack[j] = s[fp + j]
  <2>1. /\ a.fid \in Function /\ fp \in Nat /\ ni \in Nat /\ w \in Nat /\ IsSeq(s) /\ fp + ni =< Len(s)
    <3> DEFINE no == NumOutputs[a.fid]
               l == Len(s)
    <3>1. a.fid \in Function /\ ni \in Nat /\ no \in Nat /\ w \in Nat /\ fp \in Nat /\ l \in Nat
          /\ ni + no =< w /\ fp + w =< l
      BY <1>4, FrameSizes
    <3>2. IsSeq(s)
      BY <1>4 DEF MachineInv
    <3> HIDE DEF ni, no, w, fp, l
    <3>3. fp + ni =< l
      BY <3>1
    <3> QED BY <3>1, <3>2, <3>3 DEF l
  <2>2. /\ IsSeq(cp.args) /\ Len(cp.args) = ni /\ \A i \in 1 .. ni : cp.args[i] = s[fp + i]
    <3>1. IsSeq(a.stack) /\ fp \in Nat /\ ni \in Nat /\ fp + ni =< Len(a.stack)
      BY <2>1
    <3> HIDE DEF fp, ni
    <3> DEFINE sl == Slice(a, fp, ni)
    <3>2. IsSeq(sl) /\ Len(sl) = ni /\ \A i \in 1 .. ni : sl[i] = a.stack[fp + i]
      BY <3>1, SliceOf
    <3> HIDE DEF sl
    <3>3. cp.args = sl
      BY <1>1 DEF sl
    <3> QED BY <3>2, <3>3
  <2>3. /\ \A j \in 1 .. NumInputs[cp.fid] : frame[j] = cp.args[j]
        /\ \A j \in (NumInputs[cp.fid] + 1) .. Width[cp.fid] : frame[j] = 0
    BY <1>1, <2>1, <2>2, RecordCells
  <2>4. /\ \A j \in 1 .. ni : frame[j] = cp.args[j]
        /\ \A j \in (ni + 1) .. w : frame[j] = 0
    BY <1>1, <2>3
  <2>5. \A j \in (ni + 1) .. w : s[fp + j] = 0
    BY <1>3 DEF FreshFrame
  <2> HIDE DEF frame, ni, w, fp, s
  <2>6. ASSUME NEW j \in 1 .. w PROVE frame[j] = s[fp + j]
    <3>1. j \in 1 .. ni \/ j \in (ni + 1) .. w
      BY <2>1
    <3> QED BY <2>2, <2>4, <2>5, <3>1
  <2> QED BY <1>5, <2>6
<1>7. MemLike(m.mem, a.mem) /\ Outputs(m, a, D)
  <2> DEFINE p == m.mem
             q == a.mem
  <2>1. p = IF D.status = "done" THEN [q EXCEPT !.wom = D.mem.wom] ELSE q
    BY <1>1, <1>5
  <2>2. DOMAIN q = {"rom", "wom", "ram", "clock"} /\ q = [x \in DOMAIN q |-> q[x]]
    BY <1>4 DEF MemTyped
  <2> HIDE DEF p, q
  <2>3. MemLike(p, q)
    BY <2>1, <2>2 DEF MemLike
  <2>4. p.wom = IF D.status = "done" THEN D.mem.wom ELSE q.wom
    BY <2>1, <2>2
  <2>5. Outputs(m, a, D)
    BY <2>4 DEF Outputs, p, q
  <2> QED BY <2>3, <2>5 DEF p, q
<1>8. Beside(m, a, a, D)
  BY <1>1, <1>2, <1>5, <1>6, <1>7, StartsBeside
<1>9. Traces(m, a, a, D)
  BY <1>1, <1>2, <1>5, <1>8, StartsTracing
<1>10. FailedRow(m)
  BY <1>5 DEF FailedRow
<1>11. Arrived(m, a, a)
  BY <1>5 DEF Arrived
<1>12. Counted(m, a, a, start)
  <2> DEFINE c == a.count
  <2>1. c \in Nat
    BY <1>4
  <2> HIDE DEF c
  <2>2. c + 1 =< start + c
    BY <2>1
  <2> QED BY <1>2, <1>5, <2>2 DEF Counted, c
<1>13. ShardTrack(m, a, a, D, start)
  BY <1>2, <1>9, <1>10, <1>11, <1>12 DEF ShardTrack
<1> QED BY <1>13 DEF m

-----------------------------------------------------------------------------
\* The checkpoints of the fast machine.
\* What a checkpoint of the counter does.
LEMMA CheckpointerDoes ==
    ASSUME NEW m, MachineFields \subseteq DOMAIN m, m.breakpointer = "checkpoint",
           {"count", "points"} \subseteq DOMAIN m, NEW opcode
    PROVE  LET n == Handle(m, opcode)
               fires == m.count - 1 = 0
           IN  /\ Handled(m, n) /\ n.status = m.status
               /\ n.count = (IF fires THEN steps ELSE m.count - 1)
               /\ n.points = (IF fires THEN Append(m.points, CheckPoint(m)) ELSE m.points)
<1> DEFINE n == Handle(m, opcode)
           fires == m.count - 1 = 0
           c == IF fires THEN steps ELSE m.count - 1
           y == [m EXCEPT !.count = c]
           more == Append(m.points, CheckPoint(m))
<1>1. n = IF fires THEN [y EXCEPT !.points = more] ELSE y
  BY DEF Handle, Checkpointer, Tick, Fires
<1>2. {"count", "points", "status"} \subseteq DOMAIN m
  BY DEF MachineFields
<1> HIDE DEF n, fires, c, more
<1>3. /\ Handled(m, y) /\ DOMAIN y = DOMAIN m /\ y.status = m.status /\ y.count = c
      /\ y.points = m.points
  BY <1>2 DEF Handled
<1>4. y = [m EXCEPT !.count = c]
  OBVIOUS
<1> HIDE DEF y
<1>5. Handled(m, n) /\ n.status = m.status /\ n.count = c
      /\ n.points = IF fires THEN more ELSE m.points
  BY <1>1, <1>2, <1>3 DEF Handled
<1> QED BY <1>5 DEF n, fires, c, more

\* The fast machine before the bytecode is executed.
LEMMA FastBreak ==
    ASSUME NEW m, WellBehaved(m), m.status = "running", m.breakpointer = "checkpoint",
           {"count", "points"} \subseteq DOMAIN m
    PROVE  LET s == AtBreak(m)
               at == m.pc = EntryPoint
               fires == m.count - 1 = 0
           IN  /\ Handled(m, s) /\ s.status = "running"
               /\ s.count = (IF at THEN IF fires THEN steps ELSE m.count - 1 ELSE m.count)
               /\ s.points = (IF at /\ fires THEN Append(m.points, CheckPoint(m)) ELSE m.points)
<1> DEFINE s == AtBreak(m)
           at == m.pc = EntryPoint
           fires == m.count - 1 = 0
           op == Code[m.pc].op
           more == Append(m.points, CheckPoint(m))
<1>1. MachineFields \subseteq DOMAIN m
  BY DEF WellBehaved, MachineInv
<1>2. m.pc \in Breakpoints(m) <=> at
  BY DEF Breakpoints
<1>3. CASE ~at
  <2>1. s = m
    BY <1>2, <1>3 DEF AtBreak
  <2>2. Handled(m, m)
    BY DEF Handled
  <2> HIDE DEF s, fires, more
  <2> QED BY <1>3, <2>1, <2>2 DEF s
<1>4. CASE at
  <2>1. s = Handle(m, op)
    BY <1>2, <1>4 DEF AtBreak
  <2> HIDE DEF s, op
  <2>2. /\ Handled(m, s) /\ s.status = m.status
        /\ s.count = (IF fires THEN steps ELSE m.count - 1)
        /\ s.points = (IF fires THEN more ELSE m.points)
    BY <1>1, <2>1, CheckpointerDoes
  <2> HIDE DEF fires, more
  <2>3. /\ s.count = (IF at THEN IF fires THEN steps ELSE m.count - 1 ELSE m.count)
        /\ s.points = (IF at /\ fires THEN more ELSE m.points)
    BY <1>4, <2>2
  <2> QED BY <2>2, <2>3 DEF s, fires, more
<1> QED BY <1>3, <1>4

\* The fast machine executes a bytecode.
LEMMA FastFinishes ==
    ASSUME NEW m, WellBehaved(m), m.status = "running", m.breakpointer = "checkpoint",
           {"count", "points"} \subseteq DOMAIN m, IsSeq(m.points)
    PROVE  LET s == AtBreak(m)
               e == Execute(m)
           IN  /\ Handled(Dispatch(s), e) /\ e.status = Dispatch(s).status
               /\ e.breakpointer = m.breakpointer /\ DOMAIN e = DOMAIN m
               /\ e.status # "failed" => e.count = s.count /\ e.points = s.points
               /\ e.status = "failed" =>
                     e.points = s.points \/ \E cp : e.points = Append(s.points, cp)
<1> DEFINE s == AtBreak(m)
           n == Dispatch(s)
           h == Handle(n, "none")
           x == [h EXCEPT !.status = "failed"]
           e == Execute(m)
<1>1. MachineFields \subseteq DOMAIN m
  BY DEF WellBehaved, MachineInv
<1>2. Handled(m, s) /\ s.status = "running"
  BY FastBreak
<1>3. e = IF n.status = "failed" THEN x ELSE n
  BY <1>2, ExecuteAs
<1> HIDE DEF s
<1>4. /\ DOMAIN s = DOMAIN m /\ s.breakpointer = m.breakpointer /\ WellBehaved(s)
  BY <1>1, <1>2, HandledFields, HandledBehaved
<1>5. /\ DOMAIN n = DOMAIN s /\ n.breakpointer = s.breakpointer
      /\ "count" \in DOMAIN s => n.count = s.count
      /\ "points" \in DOMAIN s => n.points = s.points
  BY <1>4, RestKept
<1>6. n.count = s.count /\ n.points = s.points
  BY <1>4, <1>5
<1> HIDE DEF n, e
<1>7. CASE n.status # "failed"
  <2>1. e = n
    BY <1>3, <1>7
  <2>2. Handled(n, n)
    BY DEF Handled
  <2> QED BY <1>4, <1>5, <1>6, <1>7, <2>1, <2>2 DEF n, s, e
<1>8. CASE n.status = "failed"
  <2>1. e = x
    BY <1>3, <1>8
  <2>2. MachineFields \subseteq DOMAIN n /\ n.breakpointer = "checkpoint"
        /\ {"count", "points"} \subseteq DOMAIN n
    BY <1>1, <1>4, <1>5
  <2> DEFINE fires == n.count - 1 = 0
             more == Append(n.points, CheckPoint(n))
  <2>3. Handled(n, h) /\ h.points = IF fires THEN more ELSE n.points
    BY <2>2, CheckpointerDoes
  <2> HIDE DEF fires, h, x
  <2>4. DOMAIN h = DOMAIN n
    BY <2>3 DEF Handled
  <2>5. x = [h EXCEPT !.status = "failed"]
    BY DEF x
  <2>6. DOMAIN x = DOMAIN h /\ x.status = "failed"
        /\ \A y \in DOMAIN h \ {"status"} : x[y] = h[y]
    <3>1. "status" \in DOMAIN h
      BY <2>2, <2>4 DEF MachineFields
    <3> QED BY <2>5, <3>1
  <2>7. Handled(n, x)
    BY <2>3, <2>4, <2>6 DEF Handled
  <2>8. x.points = h.points
    BY <2>2, <2>4, <2>6
  <2>9. x.points = s.points \/ \E cp : x.points = Append(s.points, cp)
    <3>1. x.points = n.points \/ x.points = Append(n.points, CheckPoint(n))
      BY <2>3, <2>8
    <3> QED BY <1>6, <3>1
  <2>10. x.breakpointer = n.breakpointer
    BY <2>2, <2>7, HandledFields
  <2> QED BY <1>4, <1>5, <1>8, <2>1, <2>4, <2>6, <2>7, <2>9, <2>10 DEF n, s, e
<1> QED BY <1>7, <1>8

-----------------------------------------------------------------------------
\* The entries that a shard of n counts before it stops.
Quota(i, n) == IF i = 1 THEN n ELSE n + 1

\* The first N checkpoints cut the reference execution at the states a.
Cut(points, a, N, n) ==
    /\ \A i \in 1 .. N : Entering(a[i]) /\ PointOf(points[i], a[i])
    /\ \A i \in 2 .. N : a[i].pc = EntryPoint
    /\ \A i \in 1 .. (N - 1) : /\ Reaches(a[i], a[i + 1])
                               /\ a[i + 1].count + 1 = Quota(i, n) + a[i].count

\* The counter of the fast machine, which has executed up to t since it was cut
\* at a.
Ticking(m, a, t, q) ==
    /\ m.status = "running" => m.count \in Nat \ {0} /\ m.count + t.count = q + a.count
    /\ t.count + 1 =< q + a.count

\* All of a lead to t.
Leads(a, N, t) == \A i \in 1 .. N : Reaches(a[i], t)

FastTrack(m, b, a, N, t, n) ==
    /\ Beside(m, b, t, b) /\ b.status = "running" /\ Typed(m)
    /\ m.breakpointer = "checkpoint" /\ {"count", "points"} \subseteq DOMAIN m
    /\ IsSeq(m.points) /\ N \in 1 .. Len(m.points)
    /\ N = Len(m.points) \/ (m.status = "failed" /\ N + 1 = Len(m.points))
    /\ m.status # "stopped"
    /\ a[1] = b /\ Cut(m.points, a, N, n) /\ Leads(a, N, t)
    /\ Ticking(m, a[N], t, Quota(N, n))

\* Can the execution be cut at t, where cp has been taken?
CanCut(points, a, N, t, cp, n) ==
    /\ IsSeq(points) /\ N = Len(points) /\ Cut(points, a, N, n) /\ N \in Nat \ {0}
    /\ Entering(t) /\ PointOf(cp, t) /\ t.pc = EntryPoint
    /\ Reaches(a[N], t) /\ t.count + 1 = Quota(N, n) + a[N].count

\* A cut has been made.
LEMMA CutMore ==
    ASSUME NEW points, NEW a, NEW N, NEW t, NEW cp, NEW n, CanCut(points, a, N, t, cp, n)
    PROVE  \E c : /\ Cut(Append(points, cp), c, N + 1, n)
                  /\ (\A i \in 1 .. N : c[i] = a[i]) /\ c[N + 1] = t
<1> DEFINE more == Append(points, cp)
           c == [i \in 1 .. (N + 1) |-> IF i = N + 1 THEN t ELSE a[i]]
<1>0. /\ IsSeq(points) /\ N = Len(points) /\ Cut(points, a, N, n) /\ N \in Nat \ {0}
      /\ Entering(t) /\ PointOf(cp, t) /\ t.pc = EntryPoint
      /\ Reaches(a[N], t) /\ t.count + 1 = Quota(N, n) + a[N].count
  BY DEF CanCut
<1>1. /\ IsSeq(more) /\ Len(more) = N + 1 /\ more[N + 1] = cp
      /\ \A i \in 1 .. N : more[i] = points[i]
  BY <1>0, Appended
<1>2. \A i \in 1 .. N : c[i] = a[i]
  BY <1>0
<1>3. c[N + 1] = t
  BY <1>0
<1> HIDE DEF more, c
<1>4. \A i \in 1 .. (N + 1) : Entering(c[i]) /\ PointOf(more[i], c[i])
  <2>1. \A i \in 1 .. N : Entering(a[i]) /\ PointOf(points[i], a[i])
    BY <1>0 DEF Cut
  <2>2. ASSUME NEW i \in 1 .. (N + 1) PROVE Entering(c[i]) /\ PointOf(more[i], c[i])
    <3>1. CASE i = N + 1
      BY <1>0, <1>1, <1>3, <3>1
    <3>2. CASE i # N + 1
      <4>1. i \in 1 .. N
        BY <1>0, <3>2
      <4>2. more[i] = points[i] /\ c[i] = a[i]
        BY <1>1, <1>2, <4>1
      <4> QED BY <2>1, <4>1, <4>2
    <3> QED BY <3>1, <3>2
  <2> QED BY <2>2
<1>5. \A i \in 2 .. (N + 1) : c[i].pc = EntryPoint
  <2>1. \A i \in 2 .. N : a[i].pc = EntryPoint
    BY <1>0 DEF Cut
  <2>2. ASSUME NEW i \in 2 .. (N + 1) PROVE c[i].pc = EntryPoint
    <3>1. CASE i = N + 1
      BY <1>0, <1>3, <3>1
    <3>2. CASE i # N + 1
      <4>1. i \in 2 .. N /\ i \in 1 .. N
        BY <1>0, <3>2
      <4> QED BY <1>2, <2>1, <4>1
    <3> QED BY <3>1, <3>2
  <2> QED BY <2>2
<1>6. \A i \in 1 .. ((N + 1) - 1) : /\ Reaches(c[i], c[i + 1])
                                    /\ c[i + 1].count + 1 = Quota(i, n) + c[i].count
  <2>1. \A i \in 1 .. (N - 1) : /\ Reaches(a[i], a[i + 1])
                                /\ a[i + 1].count + 1 = Quota(i, n) + a[i].count
    BY <1>0 DEF Cut
  <2>2. ASSUME NEW i \in 1 .. ((N + 1) - 1)
        PROVE  Reaches(c[i], c[i + 1]) /\ c[i + 1].count + 1 = Quota(i, n) + c[i].count
    <3>1. i \in 1 .. N
      BY <1>0
    <3>2. CASE i = N
      <4>1. c[i] = a[N] /\ c[i + 1] = t
        BY <1>2, <1>3, <3>1, <3>2
      <4> QED BY <1>0, <3>2, <4>1
    <3>3. CASE i # N
      <4>1. i \in 1 .. (N - 1) /\ i + 1 \in 1 .. N
        BY <1>0, <3>1, <3>3
      <4>2. c[i] = a[i] /\ c[i + 1] = a[i + 1]
        BY <1>2, <3>1, <4>1
      <4> QED BY <2>1, <4>1, <4>2
    <3> QED BY <3>2, <3>3
  <2> QED BY <2>2
<1>7. Cut(more, c, N + 1, n)
  BY <1>4, <1>5, <1>6 DEF Cut
<1>8. /\ Cut(Append(points, cp), c, N + 1, n)
      /\ (\A i \in 1 .. N : c[i] = a[i]) /\ c[N + 1] = t
  BY <1>2, <1>3, <1>7 DEF more
<1> QED BY <1>8, Zenon

\* A cut stays if checkpoints are added.
LEMMA CutStays ==
    ASSUME NEW points, NEW more, NEW a, NEW N, NEW n, Cut(points, a, N, n),
           \A i \in 1 .. N : more[i] = points[i]
    PROVE  Cut(more, a, N, n)
BY DEF Cut

\* The fast machine takes a step of the reference execution.
LEMMA FastMoves ==
    ASSUME EntryIsPlain, NEW m, NEW b, NEW t, Beside(m, b, t, b), Typed(m), m.status = "running",
           NEW s, Handled(m, s), s.status = "running",
           NEW e, Handled(Dispatch(s), e), e.status = Dispatch(s).status
    PROVE  \E u : /\ Beside(e, b, u, b) /\ Typed(e) /\ Reaches(t, u) /\ u.count = RefStep(t).count
                  /\ e.status \in {"running", "done", "failed", "panicked"}
<1>1. Beside(s, b, t, b)
  BY BesideHandled
<1>2. Typed(s)
  BY HandledTyped
<1>3. Memo(s, t.mem.wom, {})
  BY <1>2 DEF Memo, Typed
<1>4. PICK u : Beside(Dispatch(s), b, u, b) /\ StepTaken(s, t, u, {})
  BY <1>1, <1>3, BesideStep
<1>5. Reaches(t, u) /\ u.count = RefStep(t).count
  BY <1>4 DEF StepTaken
<1>6. Beside(e, b, u, b)
  BY <1>4, BesideHandled
<1>7. Typed(Dispatch(s))
  BY <1>2, TypedStep
<1>8. Typed(e)
  BY <1>7, HandledTyped
<1>9. e.status \in {"running", "done", "failed", "panicked"}
  <2>1. WellBehaved(s)
    BY <1>2 DEF Typed
  <2> QED BY <2>1, StatusAfter
<1>10. /\ Beside(e, b, u, b) /\ Typed(e) /\ Reaches(t, u) /\ u.count = RefStep(t).count
       /\ e.status \in {"running", "done", "failed", "panicked"}
  BY <1>5, <1>6, <1>8, <1>9
<1> QED BY <1>10, Zenon

-----------------------------------------------------------------------------
\* The checkpoints at a breakpoint of the fast machine, and what its counter
\* will be after it.
CutBefore(points, count, a, N, t, n) ==
    /\ IsSeq(points) /\ N \in Nat \ {0} /\ N = Len(points)
    /\ Cut(points, a, N, n) /\ Leads(a, N, t)
    /\ count \in Nat \ {0} /\ count + RefStep(t).count = Quota(N, n) + a[N].count

\* The reference execution enters the shard function.
LEMMA EntersShard ==
    ASSUME EntryIsPlain, NEW t, RefInv(t), t.status = "running", t.pc = EntryPoint
    PROVE  Entering(t)
<1>1. MachineInv(t)
  BY DEF RefInv, Typed, WellBehaved
<1>2. t.fid = ShardFun
  BY <1>1, EntryPointOf
<1>3. t.pc = Entry[t.fid]
  BY <1>2 DEF EntryPoint
<1>4. FreshFrame(t)
  BY DEF RefInv
<1> QED BY <1>2, <1>3, <1>4 DEF Entering

\* The breakpoint of the fast machine cuts the execution if the counter fires.
LEMMA FastCuts ==
    ASSUME EntryIsPlain, NEW m, NEW b, NEW a, NEW N, NEW t, FastTrack(m, b, a, N, t, steps),
           m.status = "running", steps \in Nat \ {0}
    PROVE  \E c, M : c[1] = b /\ CutBefore(AtBreak(m).points, AtBreak(m).count, c, M, t, steps)
<1> DEFINE s == AtBreak(m)
           n == steps
           at == m.pc = EntryPoint
           fires == m.count - 1 = 0
           q == Quota(N, n)
           ac == a[N].count
           d == t.count
           d2 == RefStep(t).count
           mc == m.count
           sc == s.count
<1>1. /\ Beside(m, b, t, b) /\ b.status = "running" /\ Typed(m)
      /\ m.breakpointer = "checkpoint" /\ {"count", "points"} \subseteq DOMAIN m
      /\ IsSeq(m.points) /\ N \in 1 .. Len(m.points)
      /\ N = Len(m.points) /\ a[1] = b /\ Cut(m.points, a, N, n) /\ Leads(a, N, t)
      /\ Ticking(m, a[N], t, q)
  BY DEF FastTrack
<1>2. WellBehaved(m) /\ RefInv(t) /\ t.status = "running"
  BY <1>1 DEF Beside
<1>3. /\ sc = (IF at THEN IF fires THEN steps ELSE m.count - 1 ELSE m.count)
      /\ s.points = (IF at /\ fires THEN Append(m.points, CheckPoint(m)) ELSE m.points)
  BY <1>1, <1>2, FastBreak
<1>4. t.pc = m.pc
  BY <1>1, BesideBase
<1>5. d2 = IF at THEN d + 1 ELSE d
  <2>1. d2 = IF t.pc = EntryPoint THEN t.count + 1 ELSE t.count
    BY <1>2, RefStepFields
  <2> QED BY <1>4, <2>1
<1>6. mc \in Nat \ {0} /\ mc + d = q + ac /\ d \in Nat
  BY <1>1, <1>2 DEF Ticking, RefInv
<1>7. N \in Nat \ {0} /\ Len(m.points) \in Nat
  <2> DEFINE l == Len(m.points)
  <2>1. l \in Nat /\ N \in 1 .. l
    BY <1>1, FunctionOfSeq
  <2> HIDE DEF l
  <2>2. N \in Nat \ {0}
    BY <2>1
  <2> QED BY <2>1, <2>2 DEF l
<1> HIDE DEF s
<1>8. CASE ~(at /\ fires)
  <2>1. s.points = m.points
    BY <1>3, <1>8
  <2>2. sc \in Nat \ {0} /\ sc + d2 = q + ac
    <3>1. sc = (IF at THEN mc - 1 ELSE mc) /\ ~(at /\ mc - 1 = 0)
      BY <1>3, <1>8
    <3>2. d2 = IF at THEN d + 1 ELSE d
      BY <1>5
    <3>3. mc \in Nat \ {0} /\ mc + d = q + ac /\ d \in Nat
      BY <1>6
    <3> HIDE DEF at, fires, mc, sc, d, d2
    <3> QED BY <3>1, <3>2, <3>3
  <2>3. IsSeq(s.points) /\ N = Len(s.points) /\ Cut(s.points, a, N, n)
    BY <1>1, <2>1
  <2>4. CutBefore(s.points, s.count, a, N, t, n)
    BY <1>1, <1>7, <2>2, <2>3 DEF CutBefore
  <2>5. a[1] = b
    BY <1>1
  <2> QED BY <2>4, <2>5, Zenon DEF s
<1>9. CASE at /\ fires
  <2> DEFINE cp == CheckPoint(m)
             more == Append(m.points, cp)
  <2>1. s.points = more /\ sc = n
    BY <1>3, <1>9
  <2>2. Entering(t) /\ t.pc = EntryPoint
    BY <1>2, <1>4, <1>9, EntersShard
  <2>3. PointOf(cp, t)
    BY <1>1, CheckPointOf
  <2>4. d + 1 = q + ac
    <3>1. mc \in Nat /\ mc + d = q + ac /\ d \in Nat /\ mc - 1 = 0
      BY <1>6, <1>9
    <3> HIDE DEF mc, d
    <3> QED BY <3>1
  <2>5. CanCut(m.points, a, N, t, cp, n)
    <3>1. Reaches(a[N], t)
      BY <1>1, <1>7 DEF Leads
    <3> HIDE DEF cp
    <3> QED BY <1>1, <1>7, <2>2, <2>3, <2>4, <3>1 DEF CanCut
  <2> HIDE DEF cp
  <2>11. PICK c : /\ Cut(more, c, N + 1, n)
                 /\ (\A i \in 1 .. N : c[i] = a[i]) /\ c[N + 1] = t
    BY <2>5, CutMore
  <2>12. IsSeq(more) /\ Len(more) = N + 1
    BY <1>1, Appended
  <2> HIDE DEF more
  <2>6. N + 1 \in Nat \ {0}
    BY <1>7
  <2>7. sc \in Nat \ {0} /\ sc + d2 = Quota(N + 1, n) + c[N + 1].count
    <3>1. Quota(N + 1, n) = n + 1
      BY <1>7 DEF Quota
    <3>2. c[N + 1].count = d
      BY <2>11
    <3>3. d2 = d + 1
      BY <1>5, <1>9
    <3>4. d \in Nat /\ n \in Nat \ {0} /\ sc = n
      BY <1>6, <2>1
    <3> HIDE DEF d, d2, n, sc
    <3>5. sc \in Nat \ {0} /\ sc + d2 = (n + 1) + d
      BY <3>3, <3>4
    <3> QED BY <3>1, <3>2, <3>5
  <2>8. Leads(c, N + 1, t)
    <3>1. ASSUME NEW i \in 1 .. (N + 1) PROVE Reaches(c[i], t)
      <4>1. CASE i = N + 1
        BY <2>11, <4>1, ReachesItself
      <4>2. CASE i # N + 1
        <5>1. i \in 1 .. N
          BY <1>7, <4>2
        <5>2. Reaches(a[i], t)
          BY <1>1, <5>1 DEF Leads
        <5>3. c[i] = a[i]
          BY <2>11, <5>1
        <5> QED BY <5>2, <5>3
      <4> QED BY <4>1, <4>2
    <3> QED BY <3>1 DEF Leads
  <2>9. CutBefore(s.points, s.count, c, N + 1, t, n)
    BY <2>1, <2>6, <2>7, <2>8, <2>11, <2>12 DEF CutBefore
  <2>10. c[1] = b
    BY <1>1, <1>7, <2>11
  <2> QED BY <2>9, <2>10, Zenon DEF s
<1> QED BY <1>8, <1>9

\* The fast machine goes on beside the reference execution.
LEMMA FastStep ==
    ASSUME EntryIsPlain, NEW m, NEW b, NEW a, NEW N, NEW t, FastTrack(m, b, a, N, t, steps),
           m.status = "running", steps \in Nat \ {0}
    PROVE  \E c, M, u : FastTrack(Execute(m), b, c, M, u, steps)
<1> DEFINE s == AtBreak(m)
           e == Execute(m)
           n == steps
<1>1. /\ Beside(m, b, t, b) /\ b.status = "running" /\ Typed(m)
      /\ m.breakpointer = "checkpoint" /\ {"count", "points"} \subseteq DOMAIN m
      /\ IsSeq(m.points)
  BY DEF FastTrack
<1>2. WellBehaved(m)
  BY <1>1 DEF Beside
<1>3. Handled(m, s) /\ s.status = "running"
  BY <1>1, <1>2, FastBreak
<1>4. /\ Handled(Dispatch(s), e) /\ e.status = Dispatch(s).status
      /\ e.breakpointer = m.breakpointer /\ DOMAIN e = DOMAIN m
      /\ e.status # "failed" => e.count = s.count /\ e.points = s.points
      /\ e.status = "failed" => e.points = s.points \/ \E cp : e.points = Append(s.points, cp)
  BY <1>1, <1>2, FastFinishes
<1>5. PICK c, M : c[1] = b /\ CutBefore(s.points, s.count, c, M, t, n)
  BY FastCuts
<1> HIDE DEF s, e
<1>6. PICK u : /\ Beside(e, b, u, b) /\ Typed(e) /\ Reaches(t, u) /\ u.count = RefStep(t).count
               /\ e.status \in {"running", "done", "failed", "panicked"}
  BY <1>1, <1>3, <1>4, FastMoves
<1>7. /\ IsSeq(s.points) /\ M \in Nat \ {0} /\ M = Len(s.points)
      /\ Cut(s.points, c, M, n) /\ Leads(c, M, t)
      /\ s.count \in Nat \ {0} /\ s.count + u.count = Quota(M, n) + c[M].count
  BY <1>5, <1>6 DEF CutBefore
<1>8. Leads(c, M, u)
  BY <1>6, <1>7, ReachesFurther DEF Leads
<1>9. Ticking(e, c[M], u, Quota(M, n))
  <2> DEFINE sc == s.count
             uc == u.count
             z == Quota(M, n) + c[M].count
  <2>1. sc \in Nat \ {0} /\ sc + uc = z
    BY <1>7
  <2>2. uc \in Nat
    BY <1>6 DEF Beside, RefInv
  <2>3. e.status = "running" => e.count = sc
    BY <1>4
  <2> HIDE DEF sc, uc, z
  <2>4. uc + 1 =< z
    BY <2>1, <2>2
  <2> QED BY <2>1, <2>3, <2>4 DEF Ticking, uc, z
<1>10. /\ IsSeq(e.points) /\ M \in 1 .. Len(e.points) /\ Cut(e.points, c, M, n)
       /\ M = Len(e.points) \/ (e.status = "failed" /\ M + 1 = Len(e.points))
  <2>1. CASE e.points = s.points
    BY <1>7, <2>1
  <2>2. CASE e.points # s.points
    <3>1. e.status = "failed" /\ \E cp : e.points = Append(s.points, cp)
      BY <1>4, <2>2
    <3>2. PICK cp : e.points = Append(s.points, cp)
      BY <3>1
    <3>3. /\ IsSeq(e.points) /\ Len(e.points) = M + 1
          /\ \A i \in 1 .. M : e.points[i] = s.points[i]
      BY <1>7, <3>2, Appended
    <3>4. Cut(e.points, c, M, n)
      BY <1>7, <3>3, CutStays
    <3>5. M \in 1 .. Len(e.points)
      BY <1>7, <3>3
    <3> QED BY <3>1, <3>3, <3>4, <3>5
  <2> QED BY <2>1, <2>2
<1>11. FastTrack(e, b, c, M, u, n)
  BY <1>1, <1>4, <1>5, <1>6, <1>8, <1>9, <1>10 DEF FastTrack
<1> QED BY <1>11, Zenon DEF e

-----------------------------------------------------------------------------
\* The unsharded machine beside the reference execution.
WholeTrack(m, b, t) ==
    /\ Traces(m, b, t, b) /\ b.status = "running" /\ FailedRow(m)
    /\ m.breakpointer = "record" /\ m.status # "stopped"

\* It goes on beside it.
LEMMA WholeStep ==
    ASSUME EntryIsPlain, NEW m, NEW b, NEW t, WholeTrack(m, b, t), m.status = "running"
    PROVE  \E u : WholeTrack(Execute(m), b, u)
<1> DEFINE s == AtBreak(m)
           e == Execute(m)
           op == Code[m.pc].op
<1>1. Traces(m, b, t, b) /\ b.status = "running" /\ m.breakpointer = "record"
  BY DEF WholeTrack
<1>2. WellBehaved(m) /\ IsSeq(m.rows)
  BY <1>1 DEF Traces, Beside
<1>3. s.status = "running"
  <2>1. MachineFields \subseteq DOMAIN m
    BY <1>2 DEF WellBehaved, MachineInv
  <2>2. CASE m.pc \notin Breakpoints(m)
    BY <2>2 DEF AtBreak
  <2>3. CASE m.pc \in Breakpoints(m)
    <3>1. s = Handle(m, op)
      BY <2>3 DEF AtBreak
    <3> HIDE DEF s, op
    <3>2. ~(m.breakpointer = "shard" /\ m.pc = EntryPoint) => s.status = m.status
      BY <1>1, <2>1, <3>1, TracerHandler
    <3> QED BY <1>1, <3>2
  <2> QED BY <2>2, <2>3
<1>4. /\ Recorded(m, s) /\ Finished(s, e) /\ FailedRow(e)
      /\ e.breakpointer = m.breakpointer
  BY <1>1, <1>2, <1>3, TracerFinishes
<1> HIDE DEF s, e
<1>5. PICK u : Traces(e, b, u, b)
  BY <1>1, <1>4, TraceStep
<1>6. e.status # "stopped"
  <2>1. WellBehaved(s)
    BY <1>2, <1>4, HandledBehaved DEF Recorded
  <2>2. Dispatch(s).status \in {"running", "done", "failed", "panicked"}
    BY <1>3, <2>1, StatusAfter
  <2> QED BY <1>4, <2>2 DEF Finished
<1>7. WholeTrack(e, b, u)
  BY <1>1, <1>4, <1>5, <1>6 DEF WholeTrack
<1> QED BY <1>7, Zenon DEF e

\* It starts there.
LEMMA WholeStarts ==
    ASSUME NEW in \in Inputs
    PROVE  WholeTrack([Boot(Main, in, TRUE) EXCEPT !.breakpointer = "record"], Begin(in), Begin(in))
<1> DEFINE r == Boot(Main, in, TRUE)
           m == [r EXCEPT !.breakpointer = "record"]
           b == Begin(in)
           z == Zeroes(Width[Main])
<1>1. Main \in Function
  BY ShardAssumption
<1>2. IsFresh(r, Main) /\ DOMAIN r = MachineFields
  BY <1>1, Booted
<1>3. HasFresh(r, z, BootMem(in), TRUE)
  BY <1>1, BootHas DEF BootMem
<1> HIDE DEF r
<1>4. DOMAIN m = DOMAIN r /\ m.breakpointer = "record"
      /\ \A x \in MachineFields \ {"breakpointer"} : m[x] = r[x]
  BY <1>2 DEF MachineFields
<1> HIDE DEF m
<1>5. IsFresh(m, Main)
  <2>1. DOMAIN r \subseteq DOMAIN m
    BY <1>4
  <2> QED BY <1>2, <1>4, <2>1, Prepared
<1>6. HasFresh(m, z, BootMem(in), TRUE)
  <2>1. /\ m.status = r.status /\ m.log = r.log /\ m.mem = r.mem /\ m.stack = r.stack
        /\ m.tracing = r.tracing
    BY <1>4 DEF MachineFields
  <2> QED BY <1>3, <2>1 DEF HasFresh
<1>7. Beside(m, b, b, b) /\ m.status = "running"
  BY <1>5, <1>6, BootsBeside
<1>8. b.fid = Main /\ b.status = "running"
  BY BeginEnters DEF Entering
<1> HIDE DEF b
<1>9. Traces(m, b, b, b)
  BY <1>5, <1>7, <1>8, StartsTracing
<1>10. WholeTrack(m, b, b)
  BY <1>4, <1>7, <1>8, <1>9 DEF WholeTrack, FailedRow
<1> QED BY <1>10 DEF m, r, b

\* So does the fast machine, and takes the first checkpoint.
FastBoots(in, n) ==
    LET booted == Counting([Boot(Main, in, FALSE) EXCEPT !.breakpointer = "checkpoint"], n)
    IN  [x \in DOMAIN booted \cup {"points"} |->
            IF x = "points" THEN <<CheckPoint(booted)>> ELSE booted[x]]

\* What the fast machine starts with.
LEMMA FastFields ==
    ASSUME NEW in \in Inputs, NEW n
    PROVE  LET m == FastBoots(in, n)
           IN  /\ IsFresh(m, Main) /\ HasFresh(m, Zeroes(Width[Main]), BootMem(in), FALSE)
               /\ {"count", "points"} \subseteq DOMAIN m /\ m.count = n
               /\ m.breakpointer = "checkpoint"
               /\ \E cp : m.points = <<cp>> /\ cp = CheckPoint(m)
<1> DEFINE r == Boot(Main, in, FALSE)
           c == [r EXCEPT !.breakpointer = "checkpoint"]
           d == Counting(c, n)
           cp == CheckPoint(d)
           m == FastBoots(in, n)
           z == Zeroes(Width[Main])
<1>1. Main \in Function
  BY ShardAssumption
<1>2. IsFresh(r, Main) /\ DOMAIN r = MachineFields
  BY <1>1, Booted
<1>3. HasFresh(r, z, BootMem(in), FALSE)
  BY <1>1, BootHas DEF BootMem
<1>4. m = [x \in DOMAIN d \cup {"points"} |-> IF x = "points" THEN <<cp>> ELSE d[x]]
  BY DEF FastBoots
<1> HIDE DEF r, m
<1>5. DOMAIN c = DOMAIN r /\ c.breakpointer = "checkpoint"
      /\ \A x \in MachineFields \ {"breakpointer"} : c[x] = r[x]
  BY <1>2 DEF MachineFields
<1> HIDE DEF c
<1>6. DOMAIN d = DOMAIN c \cup {"count"} /\ d.count = n /\ \A x \in DOMAIN c \ {"count"} : d[x] = c[x]
  BY DEF Counting
<1> HIDE DEF d
<1>7. cp = [fid |-> d.fid, args |-> Slice(d, d.fp, NumInputs[d.fid]), mem |-> d.mem]
  BY DEF CheckPoint
<1>8. DOMAIN m = DOMAIN d \cup {"points"} /\ m.points = <<cp>>
      /\ \A x \in DOMAIN d \ {"points"} : m[x] = d[x]
  <2> HIDE DEF cp
  <2> QED BY <1>4
<1>9. /\ DOMAIN d = MachineFields \cup {"count"}
      /\ "points" \notin MachineFields \cup {"count"} /\ "count" \notin MachineFields
  BY <1>2, <1>5, <1>6 DEF MachineFields
<1>10. /\ \A x \in MachineFields : m[x] = c[x] /\ m[x] = d[x]
       /\ m.count = n
  BY <1>2, <1>5, <1>6, <1>8, <1>9
<1>11. m.breakpointer = "checkpoint" /\ \A x \in MachineFields \ {"breakpointer"} : m[x] = r[x]
  BY <1>5, <1>10 DEF MachineFields
<1>12. IsFresh(m, Main)
  <2>1. DOMAIN r \subseteq DOMAIN m
    BY <1>2, <1>8, <1>9
  <2> QED BY <1>2, <1>11, <2>1, Prepared
<1>13. HasFresh(m, z, BootMem(in), FALSE)
  <2>1. /\ m.status = r.status /\ m.log = r.log /\ m.mem = r.mem /\ m.stack = r.stack
        /\ m.tracing = r.tracing
    BY <1>11 DEF MachineFields
  <2> QED BY <1>3, <2>1 DEF HasFresh
<1>14. cp = CheckPoint(m)
  <2>1. m.fid = d.fid /\ m.fp = d.fp /\ m.stack = d.stack /\ m.mem = d.mem
    BY <1>10 DEF MachineFields
  <2> QED BY <1>7, <2>1 DEF CheckPoint, Slice
<1>15. {"count", "points"} \subseteq DOMAIN m
  BY <1>8, <1>9
<1> HIDE DEF cp
<1>16. \E p : m.points = <<p>> /\ p = CheckPoint(m)
  BY <1>8, <1>14
<1> QED BY <1>10, <1>11, <1>12, <1>13, <1>15, <1>16 DEF m

\* Its first checkpoint cuts the execution where it begins.
LEMMA FastStarts ==
    ASSUME NEW in \in Inputs, NEW n \in Nat \ {0}
    PROVE  \E a, N, t : FastTrack(FastBoots(in, n), Begin(in), a, N, t, n)
<1> DEFINE m == FastBoots(in, n)
           b == Begin(in)
           a == [i \in {1} |-> b]
           z == Zeroes(Width[Main])
<1>1. /\ IsFresh(m, Main) /\ HasFresh(m, z, BootMem(in), FALSE)
      /\ {"count", "points"} \subseteq DOMAIN m /\ m.count = n
      /\ m.breakpointer = "checkpoint"
      /\ \E cp : m.points = <<cp>> /\ cp = CheckPoint(m)
  BY FastFields
<1> HIDE DEF m
<1>2. Beside(m, b, b, b) /\ m.status = "running"
  BY <1>1, BootsBeside
<1>3. /\ Entering(b) /\ b.count = 0
  BY BeginEnters
<1>4. Main \in Function /\ Width[Main] \in Nat
  <2>1. Main \in Function
    BY ShardAssumption
  <2> QED BY <2>1, EntryInBody
<1>5. Typed(m)
  <2>1. WellBehaved(m)
    BY <1>1, <1>4, FreshMachine DEF WellBehaved
  <2>2. DOMAIN m.cache = {} /\ m.tracing = FALSE /\ m.log = <<>> /\ m.mem = BootMem(in) /\ m.stack = z
    BY <1>1 DEF IsFresh, HasFresh, NoCache
  <2>3. Words(z)
    BY <1>4, ZeroCells
  <2>4. MemTyped(BootMem(in))
    BY BootMemTyped
  <2> HIDE DEF z
  <2>5. IsSeq(m.log)
    BY <2>2, NoElements
  <2> QED BY <2>1, <2>2, <2>3, <2>4, <2>5 DEF Typed
<1> HIDE DEF b
<1>6. PICK cp : m.points = <<cp>> /\ cp = CheckPoint(m)
  BY <1>1
<1>7. PointOf(cp, b)
  <2>1. b.status = "running"
    BY <1>3 DEF Entering
  <2> QED BY <1>2, <1>6, <2>1, CheckPointOf
<1>8. IsSeq(m.points) /\ Len(m.points) = 1 /\ m.points[1] = cp
  <2> DEFINE s == <<cp>>
  <2>1. s = [i \in 1 .. 1 |-> s[i]] /\ s[1] = cp
    OBVIOUS
  <2>2. 1 \in Nat
    OBVIOUS
  <2> HIDE DEF s
  <2>3. IsSeq(s) /\ Len(s) = 1
    BY <2>1, <2>2, SeqOfFunction, Zenon
  <2> QED BY <1>6, <2>1, <2>3 DEF s
<1>9. a[1] = b
  OBVIOUS
<1> HIDE DEF a
<1>10. Cut(m.points, a, 1, n)
  <2>1. 1 .. 1 = {1} /\ 2 .. 1 = {} /\ 1 .. (1 - 1) = {}
    OBVIOUS
  <2> QED BY <1>3, <1>7, <1>8, <1>9, <2>1 DEF Cut
<1>11. Leads(a, 1, b)
  <2>1. 1 .. 1 = {1}
    OBVIOUS
  <2> QED BY <1>9, <2>1, ReachesItself DEF Leads
<1>12. Ticking(m, a[1], b, Quota(1, n))
  <2>1. Quota(1, n) = n
    BY DEF Quota
  <2>2. b.count = 0 /\ a[1].count = 0 /\ m.count = n
    BY <1>1, <1>3, <1>9
  <2>3. n + 0 = n /\ 0 + 1 =< n
    OBVIOUS
  <2> QED BY <2>1, <2>2, <2>3 DEF Ticking
<1>13. FastTrack(m, b, a, 1, b, n)
  <2>1. 1 \in 1 .. Len(m.points) /\ 1 = Len(m.points)
    BY <1>8
  <2>2. b.status = "running"
    BY <1>3 DEF Entering
  <2> QED BY <1>1, <1>2, <1>5, <1>8, <1>9, <1>10, <1>11, <1>12, <2>1, <2>2 DEF FastTrack
<1> QED BY <1>13, Zenon DEF m, b

-----------------------------------------------------------------------------
\* The machines beside the reference execution.
Tracked(m, a, T, q) == \E t : ShardTrack(m, a, t, T, q)

\* The shards are, but for that of a checkpoint which a failure has left.
ShardsTrack(ss, a, N, T, n) ==
    \A i \in DOMAIN ss : ss[i] = Untraced \/ i = N + 1 \/ Tracked(ss[i], a[i], T, Quota(i, n))

\* The fast machine and its checkpoints are, up to where they end.
Sharded(m, ss, b, n) ==
    \E a, N, t : FastTrack(m, b, a, N, t, n) /\ ShardsTrack(ss, a, N, t, n)

Followed(m, b) == \E t : WholeTrack(m, b, t)

ReplayTrack ==
    /\ input \in Inputs /\ steps \in Nat \ {0}
    /\ Followed(whole, Begin(input)) /\ Sharded(fast, shards, Begin(input), steps)
    /\ fast.status # "running" => whole.status # "running"
    /\ shards # <<>> => /\ fast.status \in {"done", "failed"}
                        /\ DOMAIN shards = 1 .. Len(fast.points)

\* All machines start beside the execution.
LEMMA TrackInit == Init => ReplayTrack
<1> SUFFICES ASSUME Init PROVE ReplayTrack
  OBVIOUS
<1> DEFINE b == Begin(input)
<1>1. input \in Inputs /\ steps \in Nat \ {0}
  BY ShardAssumption DEF Init
<1>2. Followed(whole, b)
  <2>1. whole = [Boot(Main, input, TRUE) EXCEPT !.breakpointer = "record"]
    BY DEF Init
  <2>2. WholeTrack(whole, b, b)
    BY <1>1, <2>1, WholeStarts
  <2> QED BY <2>2 DEF Followed
<1>3. fast = FastBoots(input, steps)
  BY DEF Init, FastBoots
<1>4. shards = <<>> /\ DOMAIN shards = {}
  BY DEF Init
<1>5. Sharded(fast, shards, b, steps)
  <2> HIDE DEF b
  <2>1. \E a, N, t : FastTrack(fast, b, a, N, t, steps)
    BY <1>1, <1>3, FastStarts DEF b
  <2>2. PICK a, N, t : FastTrack(fast, b, a, N, t, steps)
    BY <2>1
  <2>3. ShardsTrack(shards, a, N, t, steps)
    BY <1>4 DEF ShardsTrack
  <2>4. FastTrack(fast, b, a, N, t, steps) /\ ShardsTrack(shards, a, N, t, steps)
    BY <2>2, <2>3
  <2> QED BY <2>4, Zenon DEF Sharded
<1>6. fast.status = "running"
  <2>1. HasFresh(fast, Zeroes(Width[Main]), BootMem(input), FALSE)
    BY <1>1, <1>3, FastFields
  <2> QED BY <2>1 DEF HasFresh
<1> QED BY <1>1, <1>2, <1>4, <1>5, <1>6 DEF ReplayTrack

\* The status of a reference execution that the fast machine is beside.
LEMMA FastEnd ==
    ASSUME NEW m, NEW b, NEW a, NEW N, NEW t, NEW n, FastTrack(m, b, a, N, t, n)
    PROVE  /\ t.status = m.status /\ t.mem.wom = m.mem.wom /\ RefInv(t)
           /\ N \in 1 .. Len(m.points) /\ N \in Nat \ {0} /\ Len(m.points) \in {N, N + 1}
           /\ Len(m.points) \in Nat /\ DOMAIN m.points = 1 .. Len(m.points)
           /\ \A i \in 1 .. N : /\ Entering(a[i]) /\ PointOf(m.points[i], a[i])
                                /\ Reaches(a[i], t) /\ a[i].count \in Nat
<1>1. /\ Beside(m, b, t, b) /\ b.status = "running" /\ m.status # "stopped"
      /\ IsSeq(m.points) /\ N \in 1 .. Len(m.points)
      /\ N = Len(m.points) \/ N + 1 = Len(m.points)
      /\ Cut(m.points, a, N, n) /\ Leads(a, N, t)
  BY DEF FastTrack
<1>2. t.status = m.status /\ RefInv(t)
  BY <1>1 DEF Beside
<1>3. t.mem.wom = m.mem.wom
  BY <1>1 DEF Beside, Outputs
<1>4. Len(m.points) \in Nat /\ DOMAIN m.points = 1 .. Len(m.points)
  BY <1>1, FunctionOfSeq
<1> DEFINE l == Len(m.points)
<1>5. N \in Nat \ {0} /\ l \in {N, N + 1}
  <2>1. l \in Nat /\ N \in 1 .. l /\ (N = l \/ N + 1 = l)
    BY <1>1, <1>4
  <2> HIDE DEF l
  <2> QED BY <2>1
<1>6. ASSUME NEW i \in 1 .. N
      PROVE  /\ Entering(a[i]) /\ PointOf(m.points[i], a[i])
             /\ Reaches(a[i], t) /\ a[i].count \in Nat
  <2>1. Entering(a[i]) /\ PointOf(m.points[i], a[i]) /\ Reaches(a[i], t)
    BY <1>1 DEF Cut, Leads
  <2> QED BY <2>1 DEF Entering, RefInv
<1> QED BY <1>1, <1>2, <1>3, <1>4, <1>5, <1>6

\* A shard is restored beside the reference execution.
LEMMA TrackStart ==
    ASSUME ReplayTrack, ShardingInv, NEW i \in DOMAIN shards, StartShard(i)
    PROVE  ReplayTrack'
<1> DEFINE b == Begin(input)
           cp == WithOutputs(fast.points[i])
           q == Quota(i, steps)
           m == Shard(cp, q)
<1>1. /\ input \in Inputs /\ steps \in Nat \ {0}
      /\ Followed(whole, b) /\ Sharded(fast, shards, b, steps)
      /\ fast.status # "running" => whole.status # "running"
      /\ shards # <<>> => /\ fast.status \in {"done", "failed"}
                          /\ DOMAIN shards = 1 .. Len(fast.points)
  BY DEF ReplayTrack
<1>2. shards' = [shards EXCEPT ![i] = m] /\ UNCHANGED <<input, steps, whole, fast>>
  BY DEF StartShard, Shard, Quota
<1>3. IsPoint(fast.points[i])
  BY DEF ShardingInv, PointsInv
<1>4. IsPoint(cp) /\ cp.fid = fast.points[i].fid /\ cp.args = fast.points[i].args
  <2>1. /\ DOMAIN cp = DOMAIN fast.points[i] /\ cp.fid = fast.points[i].fid
        /\ cp.args = fast.points[i].args
    BY <1>3 DEF WithOutputs, IsPoint
  <2> QED BY <1>3, <2>1 DEF IsPoint
<1>5. cp.mem = IF fast.status = "done" THEN [fast.points[i].mem EXCEPT !.wom = fast.mem.wom]
               ELSE fast.points[i].mem
  BY <1>3 DEF WithOutputs, IsPoint
<1>6. shards # <<>> /\ DOMAIN shards = 1 .. Len(fast.points)
  <2>1. DOMAIN shards # {}
    OBVIOUS
  <2>2. shards # <<>>
    BY <2>1
  <2> QED BY <1>1, <2>2
<1> HIDE DEF b, m
<1>7. PICK a, N, t : FastTrack(fast, b, a, N, t, steps) /\ ShardsTrack(shards, a, N, t, steps)
  BY <1>1 DEF Sharded
<1>8. ShardsTrack(shards', a, N, t, steps)
  <2>1. ASSUME i # N + 1 PROVE Tracked(m, a[i], t, q)
    <3>1. /\ t.status = fast.status /\ t.mem.wom = fast.mem.wom
          /\ N \in Nat \ {0} /\ Len(fast.points) \in {N, N + 1}
          /\ \A j \in 1 .. N : /\ Entering(a[j]) /\ PointOf(fast.points[j], a[j])
                               /\ Reaches(a[j], t) /\ a[j].count \in Nat
      BY <1>7, FastEnd
    <3>2. i \in 1 .. N
      <4> DEFINE l == Len(fast.points)
      <4>1. i \in 1 .. l /\ l \in {N, N + 1} /\ N \in Nat
        BY <1>6, <3>1
      <4> HIDE DEF l
      <4> QED BY <2>1, <4>1
    <3>3. Entering(a[i]) /\ PointOf(fast.points[i], a[i]) /\ Reaches(a[i], t)
      BY <3>1, <3>2
    <3> HIDE DEF cp, q
    <3>4. Restorable(cp, a[i], t)
      BY <1>4, <1>5, <3>1, <3>3 DEF Restorable, PointOf
    <3>5. q \in Nat \ {0}
      BY <1>1 DEF Quota, q
    <3>6. ShardTrack(m, a[i], a[i], t, q)
      BY <3>3, <3>4, <3>5, ShardBegins DEF m
    <3> QED BY <3>6, Zenon DEF Tracked
  <2> HIDE DEF cp
  <2>2. \A j \in DOMAIN shards : shards[j] = Untraced \/ j = N + 1
                                 \/ Tracked(shards[j], a[j], t, Quota(j, steps))
    BY <1>7 DEF ShardsTrack
  <2>3. DOMAIN shards' = DOMAIN shards /\ shards'[i] = m
        /\ \A j \in DOMAIN shards : j # i => shards'[j] = shards[j]
    BY <1>2
  <2>4. ASSUME NEW j \in DOMAIN shards'
        PROVE  shards'[j] = Untraced \/ j = N + 1 \/ Tracked(shards'[j], a[j], t, Quota(j, steps))
    <3>1. CASE j = i
      BY <2>1, <2>3, <3>1
    <3>2. CASE j # i
      BY <2>2, <2>3, <3>2
    <3> QED BY <3>1, <3>2
  <2> QED BY <2>4 DEF ShardsTrack
<1>9. Sharded(fast, shards', b, steps)
  <2>1. FastTrack(fast, b, a, N, t, steps) /\ ShardsTrack(shards', a, N, t, steps)
    BY <1>7, <1>8
  <2> QED BY <2>1, Zenon DEF Sharded
<1>10. DOMAIN shards' = DOMAIN shards
  BY <1>2
<1>11. Sharded(fast', shards', Begin(input'), steps') /\ Followed(whole', Begin(input'))
  BY <1>1, <1>2, <1>9 DEF b
<1> QED BY <1>1, <1>2, <1>6, <1>10, <1>11 DEF ReplayTrack

-----------------------------------------------------------------------------
\* A shard goes on beside the reference execution.
LEMMA TrackShard ==
    ASSUME EntryIsPlain, ReplayTrack, NEW i \in DOMAIN shards, TraceShard(i)
    PROVE  ReplayTrack'
<1> DEFINE b == Begin(input)
           q == Quota(i, steps)
           m == Execute(shards[i])
<1>1. /\ input \in Inputs /\ steps \in Nat \ {0}
      /\ Followed(whole, b) /\ Sharded(fast, shards, b, steps)
      /\ fast.status # "running" => whole.status # "running"
      /\ shards # <<>> => /\ fast.status \in {"done", "failed"}
                          /\ DOMAIN shards = 1 .. Len(fast.points)
  BY DEF ReplayTrack
<1>2. /\ shards[i].status = "running"
      /\ shards' = [shards EXCEPT ![i] = m] /\ UNCHANGED <<input, steps, whole, fast>>
  BY DEF TraceShard
<1>3. shards[i] # Untraced
  BY <1>2 DEF Untraced
<1>6. shards # <<>> /\ DOMAIN shards = 1 .. Len(fast.points)
  <2>1. DOMAIN shards # {}
    OBVIOUS
  <2>2. shards # <<>>
    BY <2>1
  <2> QED BY <1>1, <2>2
<1> HIDE DEF b, m
<1>7. PICK a, N, t : FastTrack(fast, b, a, N, t, steps) /\ ShardsTrack(shards, a, N, t, steps)
  BY <1>1 DEF Sharded
<1>8. ShardsTrack(shards', a, N, t, steps)
  <2>0. \A j \in DOMAIN shards : shards[j] = Untraced \/ j = N + 1
                                 \/ Tracked(shards[j], a[j], t, Quota(j, steps))
    BY <1>7 DEF ShardsTrack
  <2>1. ASSUME i # N + 1 PROVE Tracked(m, a[i], t, q)
    <3>1. /\ N \in Nat \ {0} /\ Len(fast.points) \in {N, N + 1}
          /\ \A j \in 1 .. N : a[j].count \in Nat
      BY <1>7, FastEnd
    <3>2. i \in 1 .. N
      <4> DEFINE l == Len(fast.points)
      <4>1. i \in 1 .. l /\ l \in {N, N + 1} /\ N \in Nat
        BY <1>6, <3>1
      <4> HIDE DEF l
      <4> QED BY <2>1, <4>1
    <3>3. q + a[i].count \in Nat
      <4>1. q \in Nat
        BY <1>1 DEF Quota
      <4>2. a[i].count \in Nat
        BY <3>1, <3>2
      <4> DEFINE c == a[i].count
      <4> HIDE DEF q, c
      <4>3. q + c \in Nat
        BY <4>1, <4>2 DEF c
      <4> QED BY <4>3 DEF c
    <3>4. Tracked(shards[i], a[i], t, q)
      BY <1>3, <2>0, <2>1
    <3> HIDE DEF q
    <3>5. PICK u : ShardTrack(shards[i], a[i], u, t, q)
      BY <3>4 DEF Tracked
    <3>6. \E v : ShardTrack(m, a[i], v, t, q)
      BY <1>2, <3>3, <3>5, ShardStep DEF m
    <3> QED BY <3>6, Zenon DEF Tracked
  <2>3. DOMAIN shards' = DOMAIN shards /\ shards'[i] = m
        /\ \A j \in DOMAIN shards : j # i => shards'[j] = shards[j]
    BY <1>2
  <2>4. ASSUME NEW j \in DOMAIN shards'
        PROVE  shards'[j] = Untraced \/ j = N + 1 \/ Tracked(shards'[j], a[j], t, Quota(j, steps))
    <3>1. CASE j = i
      BY <2>1, <2>3, <3>1
    <3>2. CASE j # i
      BY <2>0, <2>3, <3>2
    <3> QED BY <3>1, <3>2
  <2> QED BY <2>4 DEF ShardsTrack
<1>9. Sharded(fast, shards', b, steps)
  <2>1. FastTrack(fast, b, a, N, t, steps) /\ ShardsTrack(shards', a, N, t, steps)
    BY <1>7, <1>8
  <2> QED BY <2>1, Zenon DEF Sharded
<1>10. DOMAIN shards' = DOMAIN shards
  BY <1>2
<1>11. Sharded(fast', shards', Begin(input'), steps') /\ Followed(whole', Begin(input'))
  BY <1>1, <1>2, <1>9 DEF b
<1> QED BY <1>1, <1>2, <1>6, <1>10, <1>11 DEF ReplayTrack

\* The unsharded machine does.
LEMMA TrackWhole ==
    ASSUME EntryIsPlain, ReplayTrack, TraceWhole
    PROVE  ReplayTrack'
<1> DEFINE b == Begin(input)
           m == Execute(whole)
<1>1. /\ input \in Inputs /\ steps \in Nat \ {0}
      /\ Followed(whole, b) /\ Sharded(fast, shards, b, steps)
      /\ fast.status # "running" => whole.status # "running"
      /\ shards # <<>> => /\ fast.status \in {"done", "failed"}
                          /\ DOMAIN shards = 1 .. Len(fast.points)
  BY DEF ReplayTrack
<1>2. /\ whole.status = "running" /\ whole' = m /\ UNCHANGED <<input, steps, fast, shards>>
  BY DEF TraceWhole
<1> HIDE DEF b, m
<1>3. PICK t : WholeTrack(whole, b, t)
  BY <1>1 DEF Followed
<1>4. \E u : WholeTrack(m, b, u)
  BY <1>2, <1>3, WholeStep DEF m
<1>5. Followed(m, b)
  BY <1>4, Zenon DEF Followed
<1>6. Followed(whole', Begin(input')) /\ Sharded(fast', shards', Begin(input'), steps')
  BY <1>1, <1>2, <1>5 DEF b
<1>7. fast'.status = "running"
  BY <1>1, <1>2
<1> QED BY <1>1, <1>2, <1>6, <1>7 DEF ReplayTrack

\* The fast machine does.
LEMMA TrackFast ==
    ASSUME EntryIsPlain, ReplayTrack, RunFast
    PROVE  ReplayTrack'
<1> DEFINE b == Begin(input)
           m == Execute(fast)
<1>1. /\ input \in Inputs /\ steps \in Nat \ {0}
      /\ Followed(whole, b) /\ Sharded(fast, shards, b, steps)
      /\ shards # <<>> => fast.status \in {"done", "failed"}
  BY DEF ReplayTrack
<1>2. /\ whole.status # "running" /\ fast.status = "running" /\ fast' = m
      /\ UNCHANGED <<input, steps, whole, shards>>
  BY DEF RunFast
<1>3. shards = <<>> /\ DOMAIN shards = {}
  BY <1>1, <1>2
<1> HIDE DEF b, m
<1>4. PICK a, N, t : FastTrack(fast, b, a, N, t, steps)
  BY <1>1 DEF Sharded
<1>5. \E c, M, u : FastTrack(m, b, c, M, u, steps)
  BY <1>1, <1>2, <1>4, FastStep DEF m
<1>6. PICK c, M, u : FastTrack(m, b, c, M, u, steps)
  BY <1>5
<1>7. FastTrack(m, b, c, M, u, steps) /\ ShardsTrack(shards, c, M, u, steps)
  BY <1>3, <1>6 DEF ShardsTrack
<1>8. Sharded(m, shards, b, steps)
  BY <1>7, Zenon DEF Sharded
<1>9. Followed(whole', Begin(input')) /\ Sharded(fast', shards', Begin(input'), steps')
  BY <1>1, <1>2, <1>8 DEF b
<1> QED BY <1>1, <1>2, <1>3, <1>9 DEF ReplayTrack

\* There is a future per checkpoint.
LEMMA TrackFutures ==
    ASSUME ReplayTrack, TraceCheckPoints
    PROVE  ReplayTrack'
<1> DEFINE b == Begin(input)
           l == Len(fast.points)
<1>1. /\ input \in Inputs /\ steps \in Nat \ {0}
      /\ Followed(whole, b) /\ Sharded(fast, shards, b, steps)
      /\ fast.status # "running" => whole.status # "running"
  BY DEF ReplayTrack
<1>2. /\ fast.status \in {"done", "failed"} /\ shards' = [i \in 1 .. l |-> Untraced]
      /\ UNCHANGED <<input, steps, whole, fast>>
  BY DEF TraceCheckPoints
<1>3. DOMAIN shards' = 1 .. l /\ \A i \in DOMAIN shards' : shards'[i] = Untraced
  BY <1>2
<1> HIDE DEF b
<1>4. PICK a, N, t : FastTrack(fast, b, a, N, t, steps)
  BY <1>1 DEF Sharded
<1>5. FastTrack(fast, b, a, N, t, steps) /\ ShardsTrack(shards', a, N, t, steps)
  BY <1>3, <1>4 DEF ShardsTrack
<1>6. Sharded(fast, shards', b, steps)
  BY <1>5, Zenon DEF Sharded
<1>7. Followed(whole', Begin(input')) /\ Sharded(fast', shards', Begin(input'), steps')
  BY <1>1, <1>2, <1>6 DEF b
<1> QED BY <1>1, <1>2, <1>3, <1>7 DEF ReplayTrack

\* All machines, the fast one and the tracing ones of the whole and of the
\* shards, are beside one and the same execution, that of a machine which
\* neither traces nor remembers, if the entry of the shard function ends no
\* vector and heads no loop.
THEOREM ReplayTracked == ASSUME EntryIsPlain PROVE Spec => []ReplayTrack
<1>1. Init => ReplayTrack
  BY TrackInit
<1>2. ReplayTrack /\ ShardingInv /\ [Next]_vars => ReplayTrack'
  <2> SUFFICES ASSUME ReplayTrack, ShardingInv, [Next]_vars PROVE ReplayTrack'
    OBVIOUS
  <2>1. CASE TraceWhole
    BY <2>1, TrackWhole
  <2>2. CASE RunFast
    BY <2>2, TrackFast
  <2>3. CASE TraceCheckPoints
    BY <2>3, TrackFutures
  <2>4. ASSUME NEW i \in DOMAIN shards, StartShard(i) PROVE ReplayTrack'
    BY <2>4, TrackStart
  <2>5. ASSUME NEW i \in DOMAIN shards, TraceShard(i) PROVE ReplayTrack'
    BY <2>5, TrackShard
  <2>6. CASE UNCHANGED vars
    BY <2>6 DEF vars, ReplayTrack
  <2> QED BY <2>1, <2>2, <2>3, <2>4, <2>5, <2>6 DEF Next
<1> QED BY <1>1, <1>2, ShardingInvariant, PTL DEF Spec

-----------------------------------------------------------------------------
\* Where shards end.
\* An execution passes the entry of the shard function once at each count.
LEMMA SameEntry ==
    ASSUME EntryIsPlain, NEW s, NEW t, NEW u, Reaches(s, t), Reaches(s, u), RefInv(t), RefInv(u),
           t.pc = EntryPoint, u.pc = EntryPoint, t.count = u.count
    PROVE  t = u
<1>1. t.count \in Nat /\ ~(t.count + 1 =< t.count)
  BY DEF RefInv
<1>2. CASE Reaches(t, u)
  <2>1. t # u => t.count + 1 =< u.count
    BY <1>2, CountedPast
  <2> QED BY <1>1, <2>1
<1>3. CASE Reaches(u, t)
  <2>1. u # t => u.count + 1 =< t.count
    BY <1>3, CountedPast
  <2> QED BY <1>1, <2>1
<1> QED BY <1>2, <1>3, EitherReaches

\* A shard that has ended without stopping is where the execution ends.
LEMMA EndsThere ==
    ASSUME NEW m, NEW a, NEW t, NEW T, NEW q, ShardTrack(m, a, t, T, q), Reaches(a, T),
           T.status # "running", m.status \notin {"running", "stopped"}
    PROVE  t = T
<1>1. Reaches(a, t) /\ t.status = m.status
  BY DEF ShardTrack, Traces, Beside
<1> QED BY <1>1, EndsAt

\* The last shard does not stop.
LEMMA LastGoesOn ==
    ASSUME EntryIsPlain, NEW m, NEW a, NEW t, NEW T, NEW q, ShardTrack(m, a, t, T, q), Reaches(a, T),
           T.status # "running", T.count + 1 =< q + a.count, RefInv(T), q + a.count \in Nat
    PROVE  m.status # "stopped"
<1> SUFFICES ASSUME m.status = "stopped" PROVE FALSE
  OBVIOUS
<1>1. Reaches(a, t) /\ t.status = "running" /\ RefInv(t)
  BY DEF ShardTrack, Traces, Beside
<1>2. t.pc = EntryPoint /\ t.count + 1 = q + a.count
  BY DEF ShardTrack, Counted
<1>3. Reaches(t, T)
  BY <1>1, EndsAt
<1>4. t.count + 1 =< T.count
  BY <1>1, <1>2, <1>3, CountedPast
<1> DEFINE c == T.count
           d == t.count
           z == q + a.count
<1>5. c \in Nat /\ d \in Nat /\ c + 1 =< z /\ d + 1 = z /\ d + 1 =< c
  BY <1>1, <1>2, <1>4 DEF RefInv
<1> HIDE DEF c, d, z
<1> QED BY <1>5

\* A shard that has ended and is not the last has stopped, at the next cut.
LEMMA StopsAtNext ==
    ASSUME EntryIsPlain, NEW m, NEW a, NEW t, NEW T, NEW q, ShardTrack(m, a, t, T, q), Reaches(a, T),
           T.status # "running", RefInv(T), q + a.count \in Nat,
           NEW c, Reaches(a, c), Reaches(c, T), RefInv(c), c.status = "running",
           c.pc = EntryPoint, c.count + 1 = q + a.count, m.status # "running"
    PROVE  m.status = "stopped" /\ t = c
<1>1. Reaches(a, t) /\ RefInv(t)
  BY DEF ShardTrack, Traces, Beside
<1>2. m.status = "stopped"
  <2> SUFFICES ASSUME m.status # "stopped" PROVE FALSE
    OBVIOUS
  <2>1. t = T
    BY EndsThere
  <2>2. t.count + 1 =< q + a.count
    BY DEF ShardTrack, Counted
  <2>3. c.count + 1 =< T.count
    BY CountedPast
  <2> DEFINE d == T.count
             e == c.count
             z == q + a.count
  <2>4. d \in Nat /\ e \in Nat /\ d + 1 =< z /\ e + 1 = z /\ e + 1 =< d
    BY <2>1, <2>2, <2>3 DEF RefInv
  <2> HIDE DEF d, e, z
  <2> QED BY <2>4
<1>3. t.pc = EntryPoint /\ t.count + 1 = q + a.count
  BY <1>2 DEF ShardTrack, Counted
<1>4. t.count = c.count
  <2> DEFINE d == t.count
             e == c.count
  <2>1. d \in Nat /\ e \in Nat /\ d + 1 = e + 1
    BY <1>1, <1>3 DEF RefInv
  <2> HIDE DEF d, e
  <2>2. d = e
    BY <2>1
  <2> QED BY <2>2 DEF d, e
<1>5. t = c
  BY <1>1, <1>3, <1>4, SameEntry
<1> QED BY <1>2, <1>5

\* The reference execution, its cuts, and where it ends.
Ended(b, a, N, T) ==
    /\ FastTrack(fast, b, a, N, T, steps) /\ ShardsTrack(shards, a, N, T, steps)
    /\ \E t : WholeTrack(whole, b, t)
    /\ b = Begin(input) /\ input \in Inputs /\ steps \in Nat \ {0}
    /\ fast.status \in {"done", "failed"} /\ whole.status # "running"
    /\ DOMAIN shards = 1 .. Len(fast.points) 

\* Once there are shards there is such an execution.
LEMMA HasEnded ==
    ASSUME ReplayTrack, shards # <<>>
    PROVE  \E b, a, N, T : Ended(b, a, N, T)
<1> DEFINE b == Begin(input)
<1>1. /\ input \in Inputs /\ steps \in Nat \ {0}
      /\ Followed(whole, b) /\ Sharded(fast, shards, b, steps)
      /\ fast.status # "running" => whole.status # "running"
      /\ fast.status \in {"done", "failed"} /\ DOMAIN shards = 1 .. Len(fast.points)
  BY DEF ReplayTrack
<1>2. b = Begin(input)
  OBVIOUS
<1> HIDE DEF b
<1>3. PICK a, N, T : FastTrack(fast, b, a, N, T, steps) /\ ShardsTrack(shards, a, N, T, steps)
  BY <1>1 DEF Sharded
<1>4. Ended(b, a, N, T)
  BY <1>1, <1>2, <1>3 DEF Ended, Followed
<1> QED BY <1>4, Zenon

\* The unsharded machine is where the execution ends.
LEMMA WholeEnds ==
    ASSUME NEW b, NEW a, NEW N, NEW T, Ended(b, a, N, T)
    PROVE  /\ WholeTrack(whole, b, T) /\ whole.status = fast.status /\ T.status = fast.status
           /\ T.status # "running" /\ RefInv(T)
<1>1. FastTrack(fast, b, a, N, T, steps) /\ fast.status \in {"done", "failed"}
  BY DEF Ended
<1>2. PICK t : WholeTrack(whole, b, t)
  BY DEF Ended
<1>3. Reaches(b, T) /\ T.status = fast.status /\ RefInv(T)
  BY <1>1, FastEnd DEF FastTrack, Beside
<1>4. Reaches(b, t) /\ t.status = whole.status /\ whole.status # "running"
  BY <1>2 DEF WholeTrack, Traces, Beside, Ended
<1>5. t = T
  BY <1>1, <1>3, <1>4, EndsAt
<1> QED BY <1>1, <1>2, <1>3, <1>4, <1>5

-----------------------------------------------------------------------------
\* Where one shard ends and the next begins.
\* The cuts of an execution that has ended.
LEMMA CutsOf ==
    ASSUME NEW b, NEW a, NEW N, NEW T, Ended(b, a, N, T), NEW i \in 1 .. N
    PROVE  /\ Entering(a[i]) /\ PointOf(fast.points[i], a[i]) /\ Reaches(a[i], T)
           /\ a[i].count \in Nat /\ Quota(i, steps) \in Nat /\ Quota(i, steps) + a[i].count \in Nat
           /\ i # 1 => a[i].pc = EntryPoint
           /\ i # N => /\ i + 1 \in 1 .. N /\ Reaches(a[i], a[i + 1])
                       /\ a[i + 1].count + 1 = Quota(i, steps) + a[i].count
<1>1. FastTrack(fast, b, a, N, T, steps) /\ steps \in Nat \ {0}
  BY DEF Ended
<1>2. Cut(fast.points, a, N, steps)
  BY <1>1 DEF FastTrack
<1>3. Reaches(a[i], T) /\ a[i].count \in Nat /\ N \in Nat \ {0}
  BY <1>1, FastEnd
<1>4. Quota(i, steps) \in Nat
  BY <1>1 DEF Quota
<1>5. Quota(i, steps) + a[i].count \in Nat
  BY <1>3, <1>4
<1>6. Entering(a[i]) /\ PointOf(fast.points[i], a[i])
  BY <1>2 DEF Cut
<1>7. i # 1 => a[i].pc = EntryPoint
  <2>1. i # 1 => i \in 2 .. N
    BY <1>3
  <2> QED BY <1>2, <2>1 DEF Cut
<1>8. i # N => i + 1 \in 1 .. N /\ i \in 1 .. (N - 1)
  BY <1>3
<1>9. i # N => Reaches(a[i], a[i + 1]) /\ a[i + 1].count + 1 = Quota(i, steps) + a[i].count
  BY <1>2, <1>8 DEF Cut
<1> QED BY <1>3, <1>4, <1>5, <1>6, <1>7, <1>8, <1>9

\* A shard that has been started, beside the execution.
LEMMA ShardOf ==
    ASSUME NEW b, NEW a, NEW N, NEW T, Ended(b, a, N, T), NEW i \in 1 .. N,
           i \in DOMAIN shards, shards[i] # Untraced
    PROVE  Tracked(shards[i], a[i], T, Quota(i, steps))
<1>1. ShardsTrack(shards, a, N, T, steps) /\ FastTrack(fast, b, a, N, T, steps)
  BY DEF Ended
<1>2. N \in Nat /\ i # N + 1
  BY <1>1, FastEnd
<1> QED BY <1>1, <1>2 DEF ShardsTrack

\* A shard that is not the last stops where the next begins, and goes on as long
\* as it has not; the last goes on to the end.
LEMMA ShardLeads ==
    ASSUME EntryIsPlain, NEW b, NEW a, NEW N, NEW T, Ended(b, a, N, T), NEW i \in 1 .. N,
           NEW t, ShardTrack(shards[i], a[i], t, T, Quota(i, steps)), shards[i].status # "running"
    PROVE  /\ i = N => shards[i].status # "stopped" /\ t = T
           /\ i # N => shards[i].status = "stopped" /\ t = a[i + 1]
<1> DEFINE q == Quota(i, steps)
           m == shards[i]
<1>1. T.status # "running" /\ RefInv(T)
  BY WholeEnds
<1>2. Reaches(a[i], T) /\ q + a[i].count \in Nat
  BY CutsOf
<1>3. CASE i = N
  <2>1. T.count + 1 =< q + a[i].count
    BY <1>3 DEF Ended, FastTrack, Ticking
  <2>2. ShardTrack(m, a[i], t, T, q)
    OBVIOUS
  <2> HIDE DEF q, m
  <2>3. m.status # "stopped"
    BY <1>1, <1>2, <2>1, <2>2, LastGoesOn
  <2>4. m.status # "running"
    BY DEF m
  <2>5. t = T
    BY <1>1, <1>2, <2>2, <2>3, <2>4, EndsThere
  <2> QED BY <1>3, <2>3, <2>5 DEF m
<1>4. CASE i # N
  <2> DEFINE c == a[i + 1]
  <2>1. i + 1 \in 1 .. N /\ Reaches(a[i], c) /\ c.count + 1 = q + a[i].count
    BY <1>4, CutsOf
  <2>2. Entering(c) /\ Reaches(c, T) /\ i + 1 # 1
    BY <2>1, CutsOf
  <2>3. c.pc = EntryPoint
    BY <2>1, <2>2, CutsOf
  <2>4. RefInv(c) /\ c.status = "running"
    BY <2>2 DEF Entering
  <2>5. ShardTrack(m, a[i], t, T, q) /\ m.status # "running"
    OBVIOUS
  <2> HIDE DEF q, m, c
  <2>6. m.status = "stopped" /\ t = c
    BY <1>1, <1>2, <2>1, <2>2, <2>3, <2>4, <2>5, StopsAtNext
  <2> QED BY <1>4, <2>6 DEF m, c
<1> QED BY <1>3, <1>4

\* Where a shard has stopped its trace and the next checkpoint fit together.
LEMMA StoppedLinks ==
    ASSUME EntryIsPlain, NEW b, NEW a, NEW N, NEW T, Ended(b, a, N, T), NEW i \in 1 .. N,
           i \in DOMAIN shards, shards[i].status = "stopped"
    PROVE  LinksUp(i)
<1> DEFINE q == Quota(i, steps)
           m == shards[i]
           cp == fast.points[i + 1]
<1>1. PICK t : ShardTrack(m, a[i], t, T, q)
  <2>1. m # Untraced
    BY DEF Untraced
  <2> QED BY <2>1, ShardOf DEF Tracked
<1>2. i # N /\ t = a[i + 1]
  <2>1. ShardTrack(shards[i], a[i], t, T, Quota(i, steps)) /\ shards[i].status # "running"
    BY <1>1
  <2>2. /\ i = N => shards[i].status # "stopped" /\ t = T
        /\ i # N => shards[i].status = "stopped" /\ t = a[i + 1]
    <3> HIDE DEF q, m, cp
    <3> QED BY <2>1, ShardLeads, Z3
  <2> QED BY <2>2
<1>3. i + 1 \in 1 .. N /\ t.count + 1 = q + a[i].count
  BY <1>2, CutsOf
<1>4. PointOf(cp, t) /\ Entering(t)
  BY <1>2, <1>3, CutsOf
<1>5. Beside(m, a[i], t, T) /\ Arrived(m, a[i], t) /\ m.status = "stopped"
  BY <1>1 DEF ShardTrack, Traces
<1>6. i < Len(fast.points)
  <2>1. FastTrack(fast, b, a, N, T, steps)
    BY DEF Ended
  <2>2. N \in Nat /\ Len(fast.points) \in Nat /\ N =< Len(fast.points)
    BY <2>1, FastEnd
  <2> DEFINE k == Len(fast.points)
  <2> HIDE DEF k
  <2>3. i + 1 =< N /\ i \in Nat
    BY <1>3
  <2>4. N \in Nat /\ k \in Nat /\ N =< k
    BY <2>2 DEF k
  <2>5. i < k
    BY <2>3, <2>4
  <2> QED BY <2>5 DEF k
<1>7. /\ t.pc = EntryPoint /\ m.pc = EntryPoint
  <2>1. t.pc = EntryPoint
    BY <1>1 DEF ShardTrack, Counted
  <2>2. t.pc = m.pc
    <3> HIDE DEF m
    <3> QED BY <1>5, BesideBase
  <2> QED BY <2>1, <2>2
<1>8. cp.fid = ShardFun
  <2>1. MachineInv(t)
    BY <1>5, BesideBase
  <2>2. t.fid = ShardFun
    BY <1>7, <2>1, EntryPointOf
  <2> QED BY <1>4, <2>2 DEF PointOf
<1>9. cp.args = Slice(m, m.fp, NumInputs[m.fid])
  <2>1. /\ WellBehaved(m) /\ WellBehaved(t) /\ 0 \in Nat /\ a[i].fp \in Nat /\ Len(a[i].calls) \in Nat
        /\ Alike(m, t, 0, a[i].fp, 0, Len(a[i].calls))
    BY <1>5, BesideBase DEF Beside
  <2>2. Slice(m, m.fp, NumInputs[m.fid]) = Slice(t, t.fp, NumInputs[t.fid])
    BY <2>1, SameParameters
  <2> QED BY <1>4, <2>2 DEF PointOf
<1>10. m.mem.ram = cp.mem.ram /\ m.mem.clock = cp.mem.clock
  BY <1>4, <1>5 DEF PointOf, Beside, MemLike
<1>11. CASE m.rows = <<>> /\ t = a[i]
  <2>1. i = 1
    <3> SUFFICES ASSUME i # 1 PROVE FALSE
      OBVIOUS
    <3>1. q = steps + 1 /\ steps \in Nat \ {0}
      BY DEF Quota, Ended
    <3>2. a[i].count \in Nat
      BY CutsOf
    <3> DEFINE k == a[i].count
    <3>3. k + 1 = (steps + 1) + k
      BY <1>3, <1>11, <3>1
    <3> HIDE DEF k
    <3> QED BY <3>1, <3>2, <3>3 DEF k
  <2>2. a[1] = b /\ b = Begin(input) /\ input \in Inputs
    BY DEF Ended, FastTrack
  <2>3. b.fid = Main
    BY <2>2, BeginEnters
  <2>4. cp.fid = Main
    BY <1>4, <1>11, <2>1, <2>2, <2>3 DEF PointOf
  <2>5. Main = ShardFun
    BY <1>8, <2>4
  <2> QED BY <1>6, <1>8, <1>10, <1>11, <2>1, <2>5 DEF LinksUp
<1>12. CASE m.rows # <<>> /\ CameFrom(m.rows[Len(m.rows)], Slice(m, m.fp, NumInputs[m.fid]))
  <2>1. CameFrom(m.rows[Len(m.rows)], cp.args)
    BY <1>9, <1>12
  <2> QED BY <1>6, <1>8, <1>10, <2>1 DEF LinksUp, CameFrom
<1> QED BY <1>5, <1>7, <1>11, <1>12 DEF Arrived

\* So it is with every shard, but for that of a checkpoint left by a failure.
LEMMA AllLink ==
    ASSUME EntryIsPlain, NEW b, NEW a, NEW N, NEW T, Ended(b, a, N, T), NEW i \in DOMAIN shards,
           shards[i].status = "stopped", i < Len(fast.points) \/ fast.status = "done"
    PROVE  LinksUp(i)
<1>1. FastTrack(fast, b, a, N, T, steps) /\ DOMAIN shards = 1 .. Len(fast.points)
  BY DEF Ended
<1>2. N \in Nat \ {0} /\ Len(fast.points) \in Nat
  BY <1>1, FastEnd
<1>3. N = Len(fast.points) \/ (fast.status = "failed" /\ N + 1 = Len(fast.points))
  BY <1>1 DEF FastTrack
<1>4. i \in 1 .. N
  <2> DEFINE k == Len(fast.points)
  <2>1. i \in 1 .. k /\ (N = k \/ (N + 1 = k /\ i < k)) /\ k \in Nat
    BY <1>1, <1>2, <1>3
  <2> HIDE DEF k
  <2> QED BY <1>2, <2>1
<1> QED BY <1>4, StoppedLinks

\* After an execution that has ended well every shard has its whole output, and
\* none fails.
LEMMA OutputsOfShards ==
    ASSUME NEW b, NEW a, NEW N, NEW T, Ended(b, a, N, T), fast.status = "done",
           NEW i \in DOMAIN shards, shards[i] # Untraced
    PROVE  shards[i].mem.wom = whole.mem.wom /\ shards[i].status # "failed"
<1>1. FastTrack(fast, b, a, N, T, steps) /\ DOMAIN shards = 1 .. Len(fast.points)
  BY DEF Ended
<1>2. N = Len(fast.points)
  BY <1>1 DEF FastTrack
<1>3. i \in 1 .. N
  BY <1>1, <1>2
<1>4. PICK t : ShardTrack(shards[i], a[i], t, T, Quota(i, steps))
  BY <1>3, ShardOf DEF Tracked
<1>5. T.status = "done" /\ WholeTrack(whole, b, T)
  BY WholeEnds
<1>6. shards[i].mem.wom = T.mem.wom
  BY <1>4, <1>5 DEF ShardTrack, Traces, Beside, Outputs
<1>7. whole.mem.wom = T.mem.wom
  BY <1>5 DEF WholeTrack, Traces, Beside, Outputs
<1>8. shards[i].status # "failed"
  <2> SUFFICES ASSUME shards[i].status = "failed" PROVE FALSE
    OBVIOUS
  <2>1. Reaches(a[i], T)
    BY <1>3, CutsOf
  <2>2. t = T
    BY <1>4, <1>5, <2>1, EndsThere
  <2>3. t.status = "failed"
    BY <1>4 DEF ShardTrack, Traces, Beside
  <2> QED BY <1>5, <2>2, <2>3
<1> QED BY <1>6, <1>7, <1>8

-----------------------------------------------------------------------------
\* Shards one after the other.
\* Nothing, and a sequence after it.
LEMMA AfterNothing ==
    ASSUME NEW t, IsSeq(t)
    PROVE  <<>> \o t = t
<1> DEFINE u == <<>> \o t
           n == Len(t)
<1>1. IsSeq(u) /\ Len(u) = Len(<<>>) + n /\ \A i \in 1 .. n : u[Len(<<>>) + i] = t[i]
  BY NoElements, Concatenated
<1>2. n \in Nat /\ Len(<<>>) = 0
  BY FunctionOfSeq, NoElements
<1>3. IsSeq(u) /\ Len(u) = n /\ \A i \in 1 .. n : u[i] = t[i]
  <2> HIDE DEF u, n
  <2> QED BY <1>1, <1>2
<1> HIDE DEF u
<1>4. u = t
  BY <1>3, SameSeq
<1> QED BY <1>4 DEF u

\* In g sequences are put one after the other.
Grown(g, s, n) ==
    g[0] = <<>> /\ \A i \in 1 .. n : IsSeq(s[i]) /\ g[i] = g[i - 1] \o s[i]

\* What comes of it is the sequence of them all.
LEMMA Flattened ==
    ASSUME NEW n \in Nat \ {0}, NEW s, s = [i \in 1 .. n |-> s[i]], NEW g, Grown(g, s, n)
    PROVE  FlattenSeq(s) = g[n]
<1> DEFINE Flat(f) == f = [i \in 1 .. n |-> IF i = 1 THEN s[i] ELSE f[i - 1] \o s[i]]
           w == [i \in 1 .. n |-> g[i]]
           rest == CHOOSE f : Flat(f)
<1>1. Len(s) = n /\ Len(s) # 0
  BY SeqOfFunction
<1>2. FlattenSeq(s) = rest[n]
  BY <1>1 DEF FlattenSeq
<1>3. g[1] = s[1]
  <2>1. 1 \in 1 .. n /\ 1 - 1 = 0
    OBVIOUS
  <2>2. IsSeq(s[1]) /\ g[1] = g[0] \o s[1] /\ g[0] = <<>>
    BY <2>1 DEF Grown
  <2> QED BY <2>2, AfterNothing
<1>4. ASSUME NEW i \in 1 .. n, i # 1 PROVE g[i] = w[i - 1] \o s[i]
  <2>1. i - 1 \in 1 .. n
    BY <1>4
  <2> QED BY <2>1 DEF Grown
<1>5. Flat(w)
  <2>1. ASSUME NEW i \in 1 .. n PROVE g[i] = IF i = 1 THEN s[i] ELSE w[i - 1] \o s[i]
    BY <1>3, <1>4
  <2> HIDE DEF w
  <2>2. w = [i \in 1 .. n |-> g[i]]
    BY DEF w
  <2> QED BY <2>1, <2>2
<1>6. Flat(rest)
  <2> HIDE DEF Flat
  <2> QED BY <1>5
<1> HIDE DEF rest
<1>7. ASSUME NEW i \in 1 .. n PROVE rest[i] = IF i = 1 THEN s[i] ELSE rest[i - 1] \o s[i]
  BY <1>6
<1> HIDE DEF w, Flat
<1> DEFINE Same == {i \in 0 .. n : i = 0 \/ rest[i] = g[i]}
<1>8. ASSUME NEW i \in 1 .. n, i - 1 \in Same PROVE i \in Same
  <2>1. CASE i = 1
    <3>1. rest[i] = s[i]
      BY <1>7, <2>1
    <3>2. rest[i] = g[i]
      BY <1>3, <2>1, <3>1
    <3> QED BY <3>2
  <2>2. CASE i # 1
    <3>1. i - 1 # 0
      BY <2>2
    <3>2. rest[i - 1] = g[i - 1]
      BY <1>8, <3>1
    <3>3. rest[i] = rest[i - 1] \o s[i]
      BY <1>7, <2>2
    <3>4. g[i] = g[i - 1] \o s[i]
      BY DEF Grown
    <3>5. rest[i] = g[i]
      BY <3>2, <3>3, <3>4, Zenon
    <3> QED BY <3>5
  <2> QED BY <2>1, <2>2
<1>9. 0 \in Same
  OBVIOUS
<1>10. 0 .. n \subseteq Same
  <2> HIDE DEF Same
  <2> QED BY <1>8, <1>9, UpTo
<1>11. rest[n] = g[n]
  BY <1>10
<1> QED BY <1>2, <1>11

\* Sets that grow by one after the other are the union of them.
LEMMA United ==
    ASSUME NEW n \in Nat, NEW e, NEW r, r[0] = {}, \A i \in 1 .. n : r[i] = r[i - 1] \cup e[i]
    PROVE  UNION {e[i] : i \in 1 .. n} = r[n]
<1> DEFINE Same == {i \in 0 .. n : r[i] = UNION {e[j] : j \in 1 .. i}}
<1>1. 0 \in Same
  OBVIOUS
<1>2. ASSUME NEW i \in 1 .. n, i - 1 \in Same PROVE i \in Same
  <2>1. r[i] = r[i - 1] \cup e[i] /\ r[i - 1] = UNION {e[j] : j \in 1 .. (i - 1)}
    BY <1>2
  <2>2. 1 .. i = (1 .. (i - 1)) \cup {i}
    OBVIOUS
  <2>3. UNION {e[j] : j \in 1 .. i} = (UNION {e[j] : j \in 1 .. (i - 1)}) \cup e[i]
    <3> DEFINE I == 1 .. i
               J == 1 .. (i - 1)
    <3>1. I = J \cup {i}
      BY <2>2
    <3> HIDE DEF I, J
    <3>2. UNION {e[j] : j \in I} = (UNION {e[j] : j \in J}) \cup e[i]
      BY <3>1
    <3> QED BY <3>2 DEF I, J
  <2>4. r[i] = UNION {e[j] : j \in 1 .. i}
    BY <2>1, <2>3, Zenon
  <2> QED BY <2>4
<1>3. 0 .. n \subseteq Same
  <2> HIDE DEF Same
  <2> QED BY <1>1, <1>2, UpTo
<1> QED BY <1>3

-----------------------------------------------------------------------------
\* The shards together.
\* From a to t the reference execution does what m has recorded.
Segment(m, a, t) ==
    RowsBeside(m, a, t) /\ IsSeq(m.rows) /\ IsSeq(m.log) /\ t.log = a.log \o m.log

\* The shards are segments of the execution that follow one another.
LEMMA Segments ==
    ASSUME EntryIsPlain, NEW b, NEW a, NEW N, NEW T, Ended(b, a, N, T), fast.status = "done", AllTraced
    PROVE  \E p : /\ p[0] = b /\ p[N] = T /\ N \in Nat \ {0} /\ DOMAIN shards = 1 .. N
                  /\ \A i \in 1 .. N : Segment(shards[i], p[i - 1], p[i])
<1>1. FastTrack(fast, b, a, N, T, steps) /\ DOMAIN shards = 1 .. Len(fast.points)
  BY DEF Ended
<1>2. N = Len(fast.points) /\ a[1] = b
  BY <1>1 DEF FastTrack
<1>3. N \in Nat \ {0} /\ DOMAIN shards = 1 .. N
  BY <1>1, <1>2, FastEnd
<1> DEFINE p == [i \in 0 .. N |-> IF i = N THEN T ELSE a[i + 1]]
<1>4. p[0] = b /\ p[N] = T
  <2>1. 0 \in 0 .. N /\ N \in 0 .. N /\ N # 0 /\ 0 + 1 = 1
    BY <1>3
  <2> QED BY <1>2, <2>1
<1>5. ASSUME NEW i \in 1 .. N PROVE p[i - 1] = a[i] /\ p[i] = IF i = N THEN T ELSE a[i + 1]
  <2>1. i - 1 \in 0 .. N /\ i \in 0 .. N /\ i - 1 # N /\ (i - 1) + 1 = i
    BY <1>3
  <2> QED BY <2>1
<1> HIDE DEF p
<1>6. ASSUME NEW i \in 1 .. N PROVE Segment(shards[i], p[i - 1], p[i])
  <2>1. i \in DOMAIN shards /\ shards[i].status \notin {"untraced", "running"}
    BY <1>3 DEF AllTraced
  <2>2. shards[i] # Untraced
    BY <2>1 DEF Untraced
  <2>3. PICK t : ShardTrack(shards[i], a[i], t, T, Quota(i, steps))
    BY <2>1, <2>2, ShardOf DEF Tracked
  <2>4. t = p[i] /\ a[i] = p[i - 1]
    <3>1. /\ i = N => shards[i].status # "stopped" /\ t = T
          /\ i # N => shards[i].status = "stopped" /\ t = a[i + 1]
      <4>1. shards[i].status # "running"
        BY <2>1
      <4> QED BY <2>3, <4>1, ShardLeads, Z3
    <3>2. t = IF i = N THEN T ELSE a[i + 1]
      BY <3>1
    <3> QED BY <1>5, <3>2, Zenon
  <2>5. shards[i].status # "failed"
    BY <2>1, <2>2, OutputsOfShards
  <2>6. Segment(shards[i], a[i], t)
    BY <2>3, <2>5 DEF ShardTrack, Traces, Beside, Segment
  <2> QED BY <2>4, <2>6
<1> QED BY <1>3, <1>4, <1>6, Zenon

\* The unsharded trace is one segment.
LEMMA WholeSegment ==
    ASSUME NEW b, NEW a, NEW N, NEW T, Ended(b, a, N, T), fast.status = "done"
    PROVE  /\ b.rows = <<>> /\ b.log = <<>>
           /\ StepsOf(T.rows) = StepsOf(whole.rows) /\ T.log = whole.log
           /\ Range(T.rows) = Range(whole.rows)
<1>1. WholeTrack(whole, b, T) /\ whole.status = "done"
  BY WholeEnds
<1>2. Segment(whole, b, T)
  BY <1>1 DEF WholeTrack, Traces, Beside, Segment
<1>3. b.rows = <<>> /\ b.log = <<>>
  <2>1. b = Begin(input) /\ input \in Inputs
    BY DEF Ended
  <2> QED BY <2>1, BeginEnters
<1>4. StepsOf(whole.rows) = StepsOf(T.rows)
  <2>1. StepsOf(T.rows) = StepsOf(b.rows) \o StepsOf(whole.rows)
    BY <1>2 DEF Segment, RowsBeside
  <2>2. IsSeq(StepsOf(whole.rows))
    BY <1>2, StepsAppended DEF Segment
  <2>3. StepsOf(b.rows) = <<>>
    BY <1>3, NoSteps
  <2> QED BY <2>1, <2>2, <2>3, AfterNothing
<1>5. T.log = whole.log
  <2>1. T.log = <<>> \o whole.log /\ IsSeq(whole.log)
    BY <1>2, <1>3 DEF Segment
  <2> QED BY <2>1, AfterNothing
<1>6. Range(T.rows) = Range(whole.rows)
  <2>1. Range(T.rows) = Range(b.rows) \cup Range(whole.rows)
    BY <1>2 DEF Segment, RowsBeside
  <2>2. DOMAIN <<>> = {}
    BY NoElements, FunctionOfSeq
  <2>3. Range(b.rows) = {}
    BY <1>3, <2>2 DEF Range
  <2> QED BY <2>1, <2>3
<1> QED BY <1>3, <1>4, <1>5, <1>6

\* The shards put one after the other are the unsharded trace.
LEMMA ShardsJoin ==
    ASSUME EntryIsPlain, NEW b, NEW a, NEW N, NEW T, Ended(b, a, N, T), fast.status = "done", AllTraced
    PROVE  /\ Joined(StepRows) = StepRows(whole)
           /\ Joined(LogOf) = whole.log
           /\ UNION {AllRows(shards[i]) : i \in DOMAIN shards} = AllRows(whole)
<1>1. PICK p : /\ p[0] = b /\ p[N] = T /\ N \in Nat \ {0} /\ DOMAIN shards = 1 .. N
               /\ \A i \in 1 .. N : Segment(shards[i], p[i - 1], p[i])
  BY Segments
<1>2. /\ b.rows = <<>> /\ b.log = <<>>
      /\ StepsOf(T.rows) = StepsOf(whole.rows) /\ T.log = whole.log
      /\ Range(T.rows) = Range(whole.rows)
  BY WholeSegment
<1>3. N \in Nat /\ 0 \in 0 .. N /\ N \in 0 .. N /\ \A i \in 1 .. N : i \in 0 .. N /\ i - 1 \in 0 .. N
  BY <1>1
<1>4. Joined(StepRows) = StepRows(whole)
  <2> DEFINE s == [i \in 1 .. N |-> StepRows(shards[i])]
             g == [i \in 0 .. N |-> StepsOf(p[i].rows)]
  <2>1. Joined(StepRows) = FlattenSeq(s)
    BY <1>1 DEF Joined
  <2>2. g[0] = <<>>
    BY <1>1, <1>2, <1>3, NoSteps
  <2>3. g[N] = StepRows(whole)
    BY <1>1, <1>2, <1>3, StepRowsOf
  <2>4. ASSUME NEW i \in 1 .. N PROVE IsSeq(s[i]) /\ g[i] = g[i - 1] \o s[i]
    <3>1. Segment(shards[i], p[i - 1], p[i])
      BY <1>1
    <3>2. s[i] = StepsOf(shards[i].rows)
      BY StepRowsOf
    <3>3. IsSeq(s[i])
      BY <3>1, <3>2, StepsAppended DEF Segment
    <3>4. StepsOf(p[i].rows) = StepsOf(p[i - 1].rows) \o StepsOf(shards[i].rows)
      BY <3>1 DEF Segment, RowsBeside
    <3>5. g[i] = StepsOf(p[i].rows) /\ g[i - 1] = StepsOf(p[i - 1].rows)
      BY <1>3
    <3> QED BY <3>2, <3>3, <3>4, <3>5, Zenon
  <2>5. s = [i \in 1 .. N |-> s[i]]
    OBVIOUS
  <2> HIDE DEF s, g
  <2>6. Grown(g, s, N)
    BY <2>2, <2>4 DEF Grown
  <2> QED BY <1>1, <2>1, <2>3, <2>5, <2>6, Flattened
<1>5. Joined(LogOf) = whole.log
  <2> DEFINE s == [i \in 1 .. N |-> LogOf(shards[i])]
             g == [i \in 0 .. N |-> p[i].log]
  <2>1. Joined(LogOf) = FlattenSeq(s)
    BY <1>1 DEF Joined
  <2>2. g[0] = <<>> /\ g[N] = whole.log
    BY <1>1, <1>2, <1>3
  <2>3. ASSUME NEW i \in 1 .. N PROVE IsSeq(s[i]) /\ g[i] = g[i - 1] \o s[i]
    <3>1. IsSeq(shards[i].log) /\ p[i].log = p[i - 1].log \o shards[i].log
      BY <1>1 DEF Segment
    <3>2. g[i] = p[i].log /\ g[i - 1] = p[i - 1].log
      BY <1>3
    <3>3. s[i] = shards[i].log
      BY DEF LogOf
    <3> QED BY <3>1, <3>2, <3>3
  <2>4. s = [i \in 1 .. N |-> s[i]]
    OBVIOUS
  <2> HIDE DEF s, g
  <2>5. Grown(g, s, N)
    BY <2>2, <2>3 DEF Grown
  <2> QED BY <1>1, <2>1, <2>2, <2>4, <2>5, Flattened
<1>6. UNION {AllRows(shards[i]) : i \in DOMAIN shards} = AllRows(whole)
  <2> DEFINE e == [i \in 1 .. N |-> AllRows(shards[i])]
             r == [i \in 0 .. N |-> Range(p[i].rows)]
  <2>1. \A m : AllRows(m) = Range(m.rows)
    BY DEF AllRows, Range
  <2>2. r[N] = AllRows(whole)
    BY <1>1, <1>2, <1>3, <2>1
  <2>3. r[0] = {}
    <3>1. DOMAIN <<>> = {}
      BY NoElements, FunctionOfSeq
    <3>2. Range(b.rows) = {}
      BY <1>2, <3>1 DEF Range
    <3> QED BY <1>1, <1>3, <3>2
  <2>4. ASSUME NEW i \in 1 .. N PROVE r[i] = r[i - 1] \cup e[i]
    <3>1. Range(p[i].rows) = Range(p[i - 1].rows) \cup Range(shards[i].rows)
      BY <1>1 DEF Segment, RowsBeside
    <3>2. r[i] = Range(p[i].rows) /\ r[i - 1] = Range(p[i - 1].rows)
      BY <1>3
    <3>3. e[i] = Range(shards[i].rows)
      BY <2>1
    <3> QED BY <3>1, <3>2, <3>3
  <2>5. UNION {AllRows(shards[i]) : i \in DOMAIN shards} = UNION {e[i] : i \in 1 .. N}
    BY <1>1
  <2> HIDE DEF e, r
  <2>6. UNION {e[i] : i \in 1 .. N} = r[N]
    BY <1>3, <2>3, <2>4, United
  <2> QED BY <2>2, <2>5, <2>6
<1> QED BY <1>4, <1>5, <1>6

-----------------------------------------------------------------------------
\* Where a machine has failed the execution has.
LEMMA FailedBeside ==
    ASSUME NEW m, NEW a, NEW t, NEW D, Beside(m, a, t, D), ~Returning(m)
    PROVE  RowOf(m, "none") = RowOf(t, "none")
<1>1. /\ WellBehaved(m) /\ WellBehaved(t) /\ 0 \in Nat /\ a.fp \in Nat /\ Len(a.calls) \in Nat
      /\ Alike(m, t, 0, a.fp, 0, Len(a.calls))
  BY BesideBase DEF Beside
<1> QED BY <1>1, SameRow

\* After an execution that has failed, but for one that failed at the entry of
\* the shard function, the last shard has failed at the same row.
LEMMA LastFails ==
    ASSUME EntryIsPlain, NEW b, NEW a, NEW N, NEW T, Ended(b, a, N, T), AllTraced,
           fast.status = "failed", fast.pc # EntryPoint
    PROVE  \E i \in DOMAIN shards :
               /\ shards[i].status = "failed" /\ shards[i].rows # <<>>
               /\ shards[i].rows[Len(shards[i].rows)] = whole.rows[Len(whole.rows)]
<1>1. FastTrack(fast, b, a, N, T, steps) /\ DOMAIN shards = 1 .. Len(fast.points)
  BY DEF Ended
<1>2. N \in Nat \ {0} /\ N \in 1 .. Len(fast.points)
  BY <1>1, FastEnd
<1>3. N \in DOMAIN shards /\ N \in 1 .. N
  <2>1. N \in 1 .. N
    BY <1>2
  <2> QED BY <1>1, <1>2, <2>1
<1> DEFINE m == shards[N]
<1>4. m.status \notin {"untraced", "running"}
  BY <1>3 DEF AllTraced
<1>5. m # Untraced
  BY <1>4 DEF Untraced
<1>6. PICK t : ShardTrack(m, a[N], t, T, Quota(N, steps))
  BY <1>3, <1>5, ShardOf DEF Tracked
<1>7. m.status # "stopped" /\ t = T
  BY <1>3, <1>4, <1>6, ShardLeads, Z3
<1>8. Beside(m, a[N], T, T) /\ FailedRow(m)
  BY <1>6, <1>7 DEF ShardTrack, Traces
<1>9. T.status = "failed" /\ whole.status = "failed" /\ WholeTrack(whole, b, T)
  BY WholeEnds
<1>10. Beside(whole, b, T, b) /\ FailedRow(whole) /\ whole.breakpointer = "record"
  BY <1>9 DEF WholeTrack, Traces
<1>11. Beside(fast, b, T, b)
  BY <1>1 DEF FastTrack
<1> HIDE DEF m
<1>12. m.status = "failed"
  BY <1>7, <1>8, <1>9 DEF Beside
<1>13. m.pc # EntryPoint
  <2>1. T.pc = fast.pc
    BY <1>11, BesideBase
  <2>2. T.pc = m.pc
    BY <1>8, BesideBase
  <2> QED BY <2>1, <2>2
<1>14. ~Returning(m) /\ m.rows # <<>> /\ m.rows[Len(m.rows)] = RowOf(m, "none")
  BY <1>8, <1>12, <1>13 DEF FailedRow
<1>15. ~Returning(whole) /\ whole.rows[Len(whole.rows)] = RowOf(whole, "none")
  BY <1>9, <1>10 DEF FailedRow
<1>16. RowOf(m, "none") = RowOf(T, "none")
  BY <1>8, <1>14, FailedBeside
<1>17. RowOf(whole, "none") = RowOf(T, "none")
  BY <1>10, <1>15, FailedBeside
<1>18. m.rows[Len(m.rows)] = whole.rows[Len(whole.rows)]
  BY <1>14, <1>15, <1>16, <1>17
<1> QED BY <1>3, <1>12, <1>14, <1>18 DEF m

\* The machines of the fast trace, of the shards and of the unsharded trace are
\* beside one execution: so the shards replay it.
LEMMA TrackedReplays ==
    ASSUME EntryIsPlain, ReplayTrack, ShardingInv
    PROVE  ShardsReplayExecution /\ FailureIsTraced
<1>1. CASE shards = <<>>
  <2>1. DOMAIN shards = {}
    BY <1>1, NoElements, FunctionOfSeq
  <2>2. ~AllTraced
    BY <1>1 DEF AllTraced
  <2> QED BY <2>1, <2>2 DEF ShardsReplayExecution, FailureIsTraced
<1>2. CASE shards # <<>>
  <2>1. PICK b, a, N, T : Ended(b, a, N, T)
    BY <1>2, HasEnded
  <2>2. ASSUME NEW i \in DOMAIN shards, shards[i].status = "stopped",
               i < Len(fast.points) \/ fast.status = "done"
        PROVE  LinksUp(i)
    BY <2>1, <2>2, AllLink
  <2>3. ASSUME fast.status = "done", NEW i \in DOMAIN shards, shards[i] # Untraced
        PROVE  shards[i].mem.wom = whole.mem.wom /\ shards[i].status # "failed"
    BY <2>1, <2>3, OutputsOfShards
  <2>4. ASSUME AllTraced, fast.status = "done"
        PROVE  /\ Joined(StepRows) = StepRows(whole)
               /\ Joined(LogOf) = whole.log
               /\ UNION {AllRows(shards[i]) : i \in DOMAIN shards} = AllRows(whole)
    BY <2>1, <2>4, ShardsJoin
  <2>5. ShardsReplayExecution
    BY <2>2, <2>3, <2>4 DEF ShardsReplayExecution
  <2>6. FailureIsTraced
    <3> SUFFICES ASSUME AllTraced, fast.status = "failed", fast.pc # EntryPoint
                 PROVE  \E i \in DOMAIN shards :
                           /\ shards[i].status = "failed" /\ shards[i].rows # <<>>
                           /\ shards[i].rows[Len(shards[i].rows)] = whole.rows[Len(whole.rows)]
      BY DEF FailureIsTraced
    <3> QED BY <2>1, LastFails
  <2> QED BY <2>5, <2>6
<1> QED BY <1>1, <1>2

\* The shards together are the execution: their rows and their accesses, put one
\* after the other, are those of the unsharded trace, each begins where the one
\* before it has stopped and carries the whole output, and none fails on it.
\* This is so where the entry of the shard function ends no vector and heads no
\* loop: at any other entry the handler drops a row, or counts a turn.
THEOREM ShardsReplay == ASSUME EntryIsPlain PROVE Spec => []ShardsReplayExecution
<1>1. ReplayTrack /\ ShardingInv => ShardsReplayExecution
  BY TrackedReplays
<1> QED BY <1>1, ReplayTracked, ShardingInvariant, PTL

\* Sharding never turns a failure into an acceptable trace: the row at which the
\* unsharded trace fails is the last of a shard that fails too.  Again the entry
\* of the shard function ends no vector and heads no loop.
THEOREM FailuresAreTraced == ASSUME EntryIsPlain PROVE Spec => []FailureIsTraced
<1>1. ReplayTrack /\ ShardingInv => FailureIsTraced
  BY TrackedReplays
<1> QED BY <1>1, ReplayTracked, ShardingInvariant, PTL
=============================================================================
