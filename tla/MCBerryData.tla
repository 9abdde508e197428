----------------------------- MODULE MCBerryData -----------------------------
(***************************************************************************)
(* Maps, lists, vectors and the memory below them for TLC: a behaviour     *)
(* runs one of these parts.                                                *)
(*                                                                         *)
(* In a table of 4 slots three keys share the main slot 0, and their chain *)
(* grows into the main slot 3 of the fourth, which then displaces a node;  *)
(* in tables of 2 and 3 slots they fall differently.  Pools have 2 lines   *)
(* of 16 and 1 line of 32 bytes, and the heap takes 4 units.               *)
(***************************************************************************)
EXTENDS BerryMap, BerryMem, BerryList, TLC

CONSTANTS k1, k2, k3, k4, v1, v2

MCKey == {k1, k2, k3, k4}
MCHash == k1 :> 0 @@ k2 :> 4 @@ k3 :> 7 @@ k4 :> 12
MCSlots == 16 :> 2 @@ 32 :> 1
MCLiterals == {<<>>, <<v1>>, <<v1, NIL, v2>>}

VARIABLE part

MCInit == Init /\ MemInit /\ ListInit /\ part \in {"map", "memory", "list", "vector"}
MCNext ==
  \/ part = "map" /\ Next /\ UNCHANGED <<memVars, listVars, part>>
  \/ part = "memory" /\ MemNext /\ UNCHANGED <<vars, listVars, part>>
  \/ part = "list" /\ ListNext /\ UNCHANGED <<vars, memVars, part>>
  \/ part = "vector" /\ VectorNext /\ UNCHANGED <<vars, memVars, part>>
MCSpec == MCInit /\ [][MCNext]_<<vars, memVars, listVars, part>>

\* The last call and its result decide nothing.
MCView == <<size, slots, lastfree, count, iter, seen, steady, memVars, list, walked, moved, vec, part>>
Symmetry == Permutations({v1, v2}) \cup Permutations(Object)
=============================================================================
