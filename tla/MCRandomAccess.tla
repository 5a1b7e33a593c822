--------------------------- MODULE MCRandomAccess ---------------------------
(***************************************************************************)
(* A read-write memory of two rows of two lanes holding bits, its table    *)
(* and the memory it implements.  Stamps have three bits, in a limb of two *)
(* over one of a single bit: stamps up to three are read and written with  *)
(* and without a carry between the limbs.                                  *)
(*                                                                         *)
(* A paged memory has rows of two lanes as well, on pages of three cells:  *)
(* row 0 has a page for both its lanes, row 1 lies on that page and the    *)
(* next, and row 2 on the next alone.                                      *)
(***************************************************************************)
EXTENDS RamTable, PagedRandomAccess

MCRow == {0, 2}       \* row 1 is only ever expanded over
MCPagedRow == {0, 1, 2}
MCValue == {0, 1}
MCTsWidths == <<2, 1>>
=============================================================================
