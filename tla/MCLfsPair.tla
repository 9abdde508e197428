------------------------------ MODULE MCLfsPair ------------------------------
(***************************************************************************)
(* Metadata pairs for TLC; a behaviour runs one of two parts.  One is the  *)
(* life of a pair, the superblock's or an ordinary one, with blocks to     *)
(* relocate to and commits that are only told apart; the other is what     *)
(* the commits of two directories say, with blocks that do not fail.       *)
(***************************************************************************)
EXTENDS LfsPair, LfsTags

CONSTANTS b0, b1, b2
VARIABLE part

Perms == Permutations(Blocks)

\* One start of the part that does not run is enough.
MCInit ==
    /\ Init /\ TagInit /\ part \in {"pair", "tags"}
    /\ part = "pair" => logs[1] = <<>>
    /\ part = "tags" => ~isSuper /\ media[home[1]].log = <<0>> /\ media[home[2]].log = <<>>
MCNext ==
    \/ part = "pair" /\ Next /\ UNCHANGED <<tagVars, part>>
    \/ part = "tags" /\ TagNext /\ UNCHANGED <<vars, part>>
    \/ part = "tags" /\ commits = MaxCommits /\ UNCHANGED <<vars, tagVars, part>>     \* the bound
MCSpec == MCInit /\ [][MCNext]_<<vars, tagVars, part>>
==============================================================================
