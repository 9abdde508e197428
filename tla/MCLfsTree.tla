------------------------------ MODULE MCLfsTree ------------------------------
(***************************************************************************)
(* The driver for TLC; a behaviour runs one of its parts: a small file     *)
(* system whose power may go, or one directory with a stream and an open   *)
(* file in it.                                                             *)
(***************************************************************************)
EXTENDS LfsTree, LfsDir

VARIABLE part

MCInit ==
    /\ Init /\ DirInit /\ part \in {"tree", "directory"}
    /\ part = "tree" => chain = CHOOSE c \in MountedDirs(head) : TRUE
MCNext ==
    \/ part = "tree" /\ Next /\ UNCHANGED <<dirVars, part>>
    \/ part = "directory" /\ DirNext /\ UNCHANGED <<vars, part>>
MCSpec == MCInit /\ [][MCNext]_<<vars, dirVars, part>>
==============================================================================
