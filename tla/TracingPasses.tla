--------------------------- MODULE TracingPasses ---------------------------
(***************************************************************************)
(* The passes that rewrite a vectorised function for tracing (zkc/vm/      *)
(* transform.go): conditional skips are factored through bits, switches    *)
(* become one-hot dispatches and registers that never interfere share a    *)
(* column.  (Threading timestamps, which comes first, is in Timestamps;    *)
(* the passes that split wide registers or lower operators have nothing to *)
(* do on the functions modelled here.)                                     *)
(*                                                                         *)
(* A function is a record of the largest value and the kind ("in", "out"   *)
(* or "var") of each register, inputs first and outputs next, and of its   *)
(* vectors.                                                                *)
(***************************************************************************)
EXTENDS Vectors

Function(max, kinds, vectors) == [max |-> max, kinds |-> kinds, vectors |-> vectors]

\* The function with n fresh bits and one more vector.
Extended(fn, n, codes) ==
    Function(fn.max \o [k \in 1..n |-> 1], fn.kinds \o [k \in 1..n |-> "var"],
             Append(fn.vectors, codes))

\* A vector after each of its codes is replaced by a packet; old offset i moves
\* to Start(packets, i).
Start(packets, i) ==
    1 + FoldLeft(LAMBDA n, p : n + Len(p), 0, SubSeq(packets, 1, i - 1))

Reskip(c, f(_)) ==
    CASE c.op \in {"skip", "skip_if"}       -> [c EXCEPT !.skip = f(@)]
      [] c.op \in {"switch", "dispatch"}    ->
            [c EXCEPT !.cases = [k \in DOMAIN @ |-> [@[k] EXCEPT !.skip = f(@)]]]
      [] OTHER                              -> c

\* Vector.Map: only the skips that leave their packet are adjusted.
MapVector(packets) ==
    LET Remap(i, k) ==
            LET rest == Len(packets[i]) - k
            IN  Reskip(packets[i][k],
                       LAMBDA n : IF n <= rest THEN n
                                  ELSE Start(packets, i + n + 1)
                                         - (Start(packets, i) + k - 1) - 1)
    IN  FlattenSeq([i \in DOMAIN packets |->
                       [k \in DOMAIN packets[i] |-> Remap(i, k)]])

PassOver(fn, pass(_, _)) ==
    FoldLeft(pass, Function(fn.max, fn.kinds, <<>>), fn.vectors)
-----------------------------------------------------------------------------
(* FactorSkipConditions (factor_skip_conditions.go).                       *)

GeneratesInverse(c, max) == \E r \in Uses(c) : max[r] > 1

IsLoadConst(c) == c.op = "set" /\ c.source = None
IsMove(c) == c.op = "set" /\ c.source # None /\ c.constant = 0

\* skip_if (cond) 2; z = a; skip 1; z = b   where z is a bit
BodyContainsOnlyBitEquality(codes, i, max) ==
    /\ codes[i].skip = 2 /\ i + 3 <= Len(codes)
    /\ codes[i + 2] = Skip(1)
    /\ \/ IsLoadConst(codes[i + 1]) /\ IsLoadConst(codes[i + 3])
       \/ IsMove(codes[i + 1]) /\ IsMove(codes[i + 3])
    /\ codes[i + 1].target = codes[i + 3].target
    /\ max[codes[i + 1].target] = 1

BranchEnds(codes) == \A i \in DOMAIN codes : codes[i].op \in {"skip", "fail", "ret"}

BodyIsBranchEnd(codes, i) ==
    LET taken == i + codes[i].skip + 1
        body  == SubSeq(codes, i + 1, taken - 1)
    IN  /\ body # <<>>
        /\ BranchEnds(body)
        /\ \/ Fail \in Range(body)
           \/ BranchEnds(SubSeq(codes, taken, Len(codes)))

Factorable(codes, i, max) ==
    /\ codes[i].op = "skip_if"
    /\ GeneratesInverse(codes[i], max)
    /\ ~BodyContainsOnlyBitEquality(codes, i, max)
    /\ ~BodyIsBranchEnd(codes, i)

\* Faulty FactorSkipIf: the bit is tested for the wrong value.
FactorSkipIfNot(c, b) ==
    <<[c EXCEPT !.skip = 2], LoadConst(b, 0), Skip(1), LoadConst(b, 1),
      SkipIfConst(TRUE, b, 0, c.skip)>>

FactorSkipIf(c, b) ==
    <<[c EXCEPT !.skip = 2], LoadConst(b, 0), Skip(1), LoadConst(b, 1),
      SkipIfConst(FALSE, b, 0, c.skip)>>

FactorVector(fn, codes) ==
    LET Factored(n) == {i \in 1..n : Factorable(codes, i, fn.max)}
        Bit(i)      == Len(fn.max) + Cardinality(Factored(i))
        Packet(i)   == IF i \in Factored(i) THEN FactorSkipIf(codes[i], Bit(i))
                       ELSE <<codes[i]>>
    IN  Extended(fn, Cardinality(Factored(Len(codes))),
                 MapVector([i \in DOMAIN codes |-> Packet(i)]))

FactorSkipConditions(fn) == PassOver(fn, FactorVector)
-----------------------------------------------------------------------------
(* LowerSwitch (lower_switch.go).                                          *)

\* A bit for each case, in a diamond of its own, and one for the default, the
\* complement of the others.
LowerSwitchCode(c, bit) ==
    LET n     == Len(c.cases)
        bits  == [k \in 1..n |-> bit + k]
        one   == bit + n + 1
        default == bit + n + 2
        Diamond(k) == <<SkipIfConst(TRUE, c.source, c.cases[k].value, 2),
                        LoadConst(bits[k], 0), Skip(1), LoadConst(bits[k], 1)>>
    IN  IF n = 0 THEN <<>>
        ELSE FlattenSeq([k \in 1..n |-> Diamond(k)]) \o
             <<LoadConst(one, 1), Sub(default, <<one>> \o bits),
               DispatchOn([k \in 1..n |-> [bit |-> bits[k], skip |-> c.cases[k].skip]],
                          default)>>

LowerSwitchVector(fn, codes) ==
    LET Switches(n) == {i \in 1..n : codes[i].op = "switch" /\ codes[i].cases # <<>>}
        Bits(n)     == FoldLeft(LAMBDA b, i : b + (IF i \in Switches(n)
                                                   THEN Len(codes[i].cases) + 2 ELSE 0),
                                0, [i \in 1..n |-> i])
        Packet(i)   == IF codes[i].op = "switch"
                       THEN LowerSwitchCode(codes[i], Len(fn.max) + Bits(i - 1))
                       ELSE <<codes[i]>>
        packets     == [i \in DOMAIN codes |-> Packet(i)]
        \* Every skip of the old vector is relocated; those of a switch are
        \* now in the last code of its packet.
        Relocate(i, k) ==
            IF codes[i].op = "switch" /\ k < Len(packets[i]) THEN packets[i][k]
            ELSE Reskip(packets[i][k],
                        LAMBDA n : Start(packets, i + n + 1)
                                     - (Start(packets, i) + k - 1) - 1)
    IN  Extended(fn, Bits(Len(codes)),
                 FlattenSeq([i \in DOMAIN codes |->
                                [k \in DOMAIN packets[i] |-> Relocate(i, k)]]))

LowerSwitches(fn) == PassOver(fn, LowerSwitchVector)
-----------------------------------------------------------------------------
(* AllocateRegisters (register_allocation.go).                             *)

Registers(fn) == DOMAIN fn.max
Points(fn) == UNION {{<<v, i>> : i \in DOMAIN fn.vectors[v]} : v \in DOMAIN fn.vectors}
CodeAt(fn, p) == fn.vectors[p[1]][p[2]]

\* The points control may reach from a point, jumps included; a call that
\* never returns counts as one that does.
NextPoints(fn, p) ==
    LET c == CodeAt(fn, p)
    IN  CASE c.op = "jmp"  -> {<<c.target, 1>>}
          [] c.op = "call" -> {<<p[1], p[2] + 1>>} \cap Points(fn)
          [] OTHER         -> {<<p[1], i>> : i \in Range(Successors(p[2], c))}

PropagateLiveness(fn, live, p) ==
    LET c   == CodeAt(fn, p)
        out == IF c.op = "ret" THEN {r \in Registers(fn) : fn.kinds[r] = "out"}
               ELSE UNION {live[q] : q \in NextPoints(fn, p)}
    IN  (out \ Definitions(c)) \cup Uses(c)

\* The registers live before each bytecode: the least fixed point.
RECURSIVE LiveVariables(_, _)
LiveVariables(fn, live) ==
    LET next == [p \in DOMAIN live |-> live[p] \cup PropagateLiveness(fn, live, p)]
    IN  IF next = live THEN live ELSE LiveVariables(fn, next)

StructuralInterference(fn, r, s) ==
    \/ fn.kinds[r] = "in"
    \/ fn.kinds[r] = "out" /\ fn.kinds[s] = "out"
    \/ fn.max[r] # fn.max[s]

DispatchRegisters(fn) ==
    UNION {Uses(CodeAt(fn, p)) : p \in {q \in Points(fn) : CodeAt(fn, q).op = "dispatch"}}

\* Faulty DefinitionalInterference: liveness alone decides.
NoDefinitionalInterference(fn) == {}

\* A register written where another may have been written in the vector.
DefinitionalInterference(fn) ==
    LET writes == [v \in DOMAIN fn.vectors |-> WriteMap(fn.vectors[v])]
    IN  UNION {{{d, y} : d \in Definitions(CodeAt(fn, p)), y \in writes[p[1]][p[2]].maybe}
                  : p \in Points(fn)}

\* What a bytecode writes counts as live before it.
LivenessInterference(fn) ==
    LET live == LiveVariables(fn, [p \in Points(fn) |-> {}])
        At(p) == live[p] \cup Definitions(CodeAt(fn, p))
    IN  UNION {{{r, s} : r, s \in At(p)} : p \in Points(fn)}

InterferenceGraph(fn) ==
    LET pairs == DefinitionalInterference(fn) \cup LivenessInterference(fn)
    IN  [r \in Registers(fn) |->
            {s \in Registers(fn) \ {r} :
                \/ {r, s} \in pairs
                \/ {r, s} \cap DispatchRegisters(fn) # {}
                \/ StructuralInterference(fn, IF r < s THEN r ELSE s,
                                              IF r < s THEN s ELSE r)}]

Coalesce(alloc, g1, g2) ==
    [roots |-> [alloc.roots EXCEPT ![g2] = g1],
     edges |-> [n \in DOMAIN alloc.edges |->
                    CASE n = g1 -> alloc.edges[g1] \cup alloc.edges[g2]
                      [] n = g2 -> {}
                      [] n \in alloc.edges[g2] \ {g1} ->
                            (alloc.edges[n] \ {g2}) \cup {g1}
                      [] OTHER  -> alloc.edges[n]]]

\* Each register in turn joins the lowest group it does not interfere with.
DetermineAllocation(fn) ==
    LET Place(alloc, u) ==
            LET free == {v \in 1..(u - 1) : alloc.roots[v] = v /\ u \notin alloc.edges[v]}
            IN  IF free = {} THEN alloc
                ELSE Coalesce(alloc, CHOOSE v \in free : \A w \in free : v <= w, u)
    IN  FoldLeft(Place, [roots |-> [r \in Registers(fn) |-> r],
                         edges |-> InterferenceGraph(fn)],
                 [r \in Registers(fn) |-> r]).roots

SubstituteRegisters(c, to) ==
    CASE c.op = "set"      -> [c EXCEPT !.target = to[@],
                                        !.source = IF @ = None THEN None ELSE to[@]]
      [] c.op = "sub"      -> [c EXCEPT !.target = to[@],
                                        !.sources = [k \in DOMAIN @ |-> to[@[k]]]]
      [] c.op = "skip_if"  -> [c EXCEPT !.left = to[@],
                                        !.right = IF c.const THEN @ ELSE to[@]]
      [] c.op = "switch"   -> [c EXCEPT !.source = to[@]]
      [] c.op = "dispatch" -> [c EXCEPT !.default = to[@],
                                        !.cases = [k \in DOMAIN @ |->
                                            [@[k] EXCEPT !.bit = to[@]]]]
      [] c.op = "access"   -> [c EXCEPT !.stamp = IF @ = None THEN None ELSE to[@]]
      [] c.op = "call"     -> [c EXCEPT !.args = [k \in DOMAIN @ |-> to[@[k]]],
                                        !.rets = [k \in DOMAIN @ |-> to[@[k]]]]
      [] OTHER             -> c

AllocateRegisters(fn) ==
    LET roots == DetermineAllocation(fn)
        kept  == SelectSeq([r \in Registers(fn) |-> r], LAMBDA r : roots[r] = r)
        to    == [r \in Registers(fn) |->
                    CHOOSE k \in DOMAIN kept : kept[k] = roots[r]]
        Renamed(codes) == [i \in DOMAIN codes |-> SubstituteRegisters(codes[i], to)]
    IN  Function([k \in DOMAIN kept |-> fn.max[kept[k]]],
                 [k \in DOMAIN kept |-> fn.kinds[kept[k]]],
                 [v \in DOMAIN fn.vectors |-> Renamed(fn.vectors[v])])
=============================================================================
