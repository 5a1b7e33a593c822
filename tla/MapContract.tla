----------------------------- MODULE MapContract -----------------------------
(***************************************************************************)
(* What array.ParallelMap promises its caller: every item is mapped once,  *)
(* in some order, and the results are returned when all of them are there, *)
(* each at the index of its item.  WorkerPool implements it.               *)
(***************************************************************************)
EXTENDS Naturals, Sequences

CONSTANTS Mapper(_),  \* the function mapped
          Unset       \* an element of the results not yet assigned

VARIABLES given,      \* the items
          mapped,     \* the results
          finished    \* has the caller been given them?

mapVars == <<given, mapped, finished>>

MapInit == mapped = [i \in DOMAIN given |-> Unset] /\ finished = FALSE

MapOne(i) ==
    /\ ~finished /\ mapped[i] = Unset
    /\ mapped' = [mapped EXCEPT ![i] = Mapper(given[i])]
    /\ UNCHANGED <<given, finished>>

Finish ==
    /\ ~finished /\ \A i \in DOMAIN given : mapped[i] # Unset
    /\ finished' = TRUE
    /\ UNCHANGED <<given, mapped>>

MapNext == Finish \/ \E i \in DOMAIN given : MapOne(i)

MapSafe == MapInit /\ [][MapNext]_mapVars

Map == MapSafe /\ WF_mapVars(MapNext)
=============================================================================
