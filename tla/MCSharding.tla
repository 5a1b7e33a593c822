----------------------------- MODULE MCSharding -----------------------------
(***************************************************************************)
(* Sharding a program that tabulates a function at the points of its input *)
(* (see testdata/zkc/util/sharding_05.zkc), with that function recursive   *)
(* and memoised, and a read-write memory:                                  *)
(*                                                                         *)
(*   main()       { step!(0, in[0]) }                                      *)
(*   step(i, n)   { if i == n { done }                                     *)
(*                  x = in[i + 1]; y = g(x)                                *)
(*                  out[x] = y; ram[x] = y; z = ram[i]                     *)
(*                  if z == 3 { fail }                                     *)
(*                  step!(i + 1, n) }                                      *)
(*   g(x) -> y    { if x == 2 { 1 } else { g(x + 1) + 1 } }                *)
(*                                                                         *)
(* Executions fail in each of the ways a machine has: registers hold two   *)
(* bits, so that g(3) overflows; out of order writes to the output collide *)
(* with the zeroes that fill its gaps; and there is an explicit fail.      *)
(***************************************************************************)
EXTENDS Sharding, TLC

MCCode ==
     \* main: r0 = 0, r1 = n
     0 :> [op |-> "rdrom", target |-> 1, address |-> 0]
  @@ 1 :> [op |-> "tail", fun |-> "step", args |-> <<0, 1>>]
     \* step: r0 = i, r1 = n, r2 = x, r3 = y, r4 = i + 1, r5 = z
  @@ 2 :> [op |-> "skipif", left |-> 0, right |-> 1, goto |-> 13]
  @@ 3 :> [op |-> "add", target |-> 4, source |-> 0, const |-> 1]
  @@ 4 :> [op |-> "rdrom", target |-> 2, address |-> 4]
  @@ 5 :> [op |-> "enter", fun |-> "g", args |-> <<2>>]
  @@ 6 :> [op |-> "leave", rets |-> <<3>>]
  @@ 7 :> [op |-> "wrwom", address |-> 2, source |-> 3]
  @@ 8 :> [op |-> "wrram", address |-> 2, source |-> 3]
  @@ 9 :> [op |-> "rdram", address |-> 0, target |-> 5]
  @@ 10 :> [op |-> "skipif", left |-> 5, const |-> 3, goto |-> 12]
  @@ 11 :> [op |-> "tail", fun |-> "step", args |-> <<4, 1>>]
  @@ 12 :> [op |-> "fail"]
  @@ 13 :> [op |-> "done"]
     \* g: r0 = x, r1 = y, r2 = x + 1
  @@ 14 :> [op |-> "skipif", left |-> 0, const |-> 2, goto |-> 20]
  @@ 15 :> [op |-> "add", target |-> 2, source |-> 0, const |-> 1]
  @@ 16 :> [op |-> "enter", fun |-> "g", args |-> <<2>>]
  @@ 17 :> [op |-> "leave", rets |-> <<1>>]
  @@ 18 :> [op |-> "add", target |-> 1, source |-> 1, const |-> 1]
  @@ 19 :> [op |-> "jmp", goto |-> 21]
  @@ 20 :> [op |-> "add", target |-> 1, source |-> 1, const |-> 1]
  @@ 21 :> [op |-> "ret"]

MCFunction == {"main", "step", "g"}
MCEntry == [main |-> 0, step |-> 2, g |-> 14]
MCWidth == [main |-> 2, step |-> 6, g |-> 3]
MCNumInputs == [main |-> 0, step |-> 2, g |-> 1]
MCNumOutputs == [main |-> 0, step |-> 0, g |-> 1]
MCCacheable == {"g"}
MCAddress == 0 .. 3

\* Up to three elements; 3 only in inputs of two, to fail at each of them; and
\* two inputs that end too early.
MCInputs ==
    {<<0>>, <<1>>, <<2, 0>>} \cup {<<1, d>> : d \in 0 .. 3} \cup {<<2, d, e>> : d \in 0 .. 3, e \in 0 .. 3}
    \cup {<<3, d, e, f>> : d \in 0 .. 2, e \in 0 .. 2, f \in 0 .. 2}
MCShardSteps == {1, 2, 4}
MCMeaning == [g |-> [args \in {<<x>> : x \in 0 .. 2} |-> <<3 - args[1]>>]]
=============================================================================
