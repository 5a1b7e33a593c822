---------------------------- MODULE MCLazyCheck ----------------------------
(***************************************************************************)
(* LazyCheck on traces of up to four shards and two processors.  A shard  *)
(* sends a message, receives it twice, or carries none but fails a local   *)
(* constraint after the machine failed; or its future produces no shard;   *)
(* or the bus panics on it.                                                *)
(***************************************************************************)
EXTENDS LazyCheck

MCMessage == {"m", "k"}

Quiet ==
    [produced |-> TRUE, errors |-> <<>>, fails |-> FALSE, panics |-> FALSE,
     sends |-> [m \in MCMessage |-> 0], receives |-> [m \in MCMessage |-> 0]]

MCItem ==
    {[Quiet EXCEPT !.sends["m"] = 1],
     [Quiet EXCEPT !.receives["m"] = 2, !.sends["k"] = 1],
     [Quiet EXCEPT !.fails = TRUE, !.errors = <<"failure">>],
     [Quiet EXCEPT !.produced = FALSE, !.errors = <<"error", "error">>],
     [Quiet EXCEPT !.panics = TRUE]}

\* The mapper of LazyTrace.Apply returns the errors of the future.
MCMapper(item) == item.errors
MCUnset == <<"unset">>
=============================================================================
