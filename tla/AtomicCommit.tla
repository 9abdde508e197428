---------------------------- MODULE AtomicCommit ----------------------------
(***************************************************************************)
(* What a metadata pair promises the layers above it: commits that happen  *)
(* entirely or not at all.  A commit takes effect at most once, between    *)
(* the request and the reply; one that is acknowledged has taken effect;   *)
(* one that fails, or that a power loss cuts off, may have.  A directory   *)
(* is the number of commits that led to it, modulo Versions.               *)
(***************************************************************************)
EXTENDS Naturals

CONSTANT Versions

VARIABLES
    content,    \* what a fetch of the pair finds
    base,       \* what it found when the commit in progress began
    busy,       \* a commit is in progress
    reply       \* how the last one ended

Init ==
    /\ content \in 0 .. Versions - 1
    /\ base = content
    /\ busy = FALSE
    /\ reply = "done"

Begin ==
    /\ ~busy
    /\ busy' = TRUE /\ base' = content
    /\ UNCHANGED <<content, reply>>

Changed == (base + 1) % Versions

\* A power loss now would find the commit.
Effect ==
    /\ busy
    /\ content' = Changed
    /\ UNCHANGED <<base, busy, reply>>

Acknowledge ==
    /\ busy
    /\ content' = Changed
    /\ busy' = FALSE /\ reply' = "done" /\ base' = content'

\* An error or a power loss.
Abort ==
    /\ busy
    /\ content' \in {content, Changed}
    /\ busy' = FALSE /\ reply' = "failed" /\ base' = content'

Next == Begin \/ Effect \/ Acknowledge \/ Abort

Spec == Init /\ [][Next]_<<content, base, busy, reply>>
=============================================================================
