----------------------------- MODULE AbstractMap -----------------------------
(***************************************************************************)
(* What a map of Berry promises, whatever its hash table does: a finite    *)
(* function from keys to values, and the answers of be_map_find,           *)
(* be_map_insert and be_map_remove.                                        *)
(***************************************************************************)
CONSTANTS Key, Val, NONE

VARIABLES
  map,  \* the function
  ret   \* what the last operation has returned

Init == map = << >> /\ ret = NONE

Find(k) ==
  /\ ret' = IF k \in DOMAIN map THEN map[k] ELSE NONE
  /\ UNCHANGED map

Insert(k, v) ==
  /\ map' = [j \in DOMAIN map \cup {k} |-> IF j = k THEN v ELSE map[j]]
  /\ ret' = v

Remove(k) ==
  /\ map' = [j \in DOMAIN map \ {k} |-> map[j]]
  /\ ret' = (k \in DOMAIN map)

Next ==
  \E k \in Key : Find(k) \/ Remove(k) \/ \E v \in Val : Insert(k, v)

Spec == Init /\ [][Next]_<<map, ret>>
=============================================================================
