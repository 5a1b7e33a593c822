-------------------------- MODULE MCMemoryHandover --------------------------
(***************************************************************************)
(* MemoryHandover with rows of a u8 and a u24: two cells on the fast       *)
(* machine, three on the tracing machine, where the u24 is a u8 and a u16. *)
(* A page of four cells is two rows on the former; on the latter rows      *)
(* straddle its pages.                                                     *)
(***************************************************************************)
EXTENDS MemoryHandover

MCRow == {0, 1, 2}
MCByte == {0, 1}
MCFastEnds == <<1, 4>>
MCTraceEnds == <<1, 2, 4>>
=============================================================================
