----------------------------- MODULE AbstractFile -----------------------------
(***************************************************************************)
(* What littlefs promises of files: an open file is a sequence of words    *)
(* with a position; nothing of it is on the flash before it is synced or   *)
(* closed, and then all of it is (README.md:112).                          *)
(***************************************************************************)
EXTENDS Integers, Sequences, SequencesExt

CONSTANTS
    Files, Modes, Lengths, Marks,
    Words,
    Closed      \* the text of a file that is not open, or whose last call has failed

VARIABLES
    saved,      \* what a mount would read, for each file
    text,       \* what is read through the open file
    pos,        \* its position
    append,     \* opened with LFS_O_APPEND
    got,        \* what the last read has returned
    word        \* the word that the next write writes

vars == <<saved, text, pos, append, got, word>>

Longer(a, b) == IF a > b THEN a ELSE b
Shorter(a, b) == IF a < b THEN a ELSE b
Sized(t, n) == [i \in 1 .. n |-> IF i <= Len(t) THEN t[i] ELSE 0]
Written(t, p, ws) ==
    [i \in 1 .. Longer(Len(t), p + Len(ws)) |->
        IF i \in p + 1 .. p + Len(ws) THEN ws[i - p] ELSE IF i <= Len(t) THEN t[i] ELSE 0]

Open(f) ==
    /\ UNCHANGED <<got, saved>>
    /\ pos' = [pos EXCEPT ![f] = 0]
    /\ text[f] = Closed
    /\ \E mode \in Modes :
          /\ append' = [append EXCEPT ![f] = mode = "append"]
          /\ text' = [text EXCEPT ![f] = IF mode = "trunc" THEN <<>> ELSE saved[f]]

Write(f) ==
    /\ UNCHANGED <<append, got, saved>>
    /\ \E n \in Lengths :
          LET at == IF append[f] THEN Longer(pos[f], Len(text[f])) ELSE pos[f]
          IN  /\ pos' = [pos EXCEPT ![f] = at + n]
              /\ text' = [text EXCEPT ![f] = Written(@, at, [i \in 1 .. n |-> word])]

Read(f) ==
    /\ UNCHANGED <<append, saved, text>>
    /\ \E n \in Lengths : got' = SubSeq(text[f], pos[f] + 1, Shorter(pos[f] + n, Len(text[f])))
    /\ pos' = [pos EXCEPT ![f] = @ + Len(got')]

Seek(f) ==
    /\ \E p \in Marks : pos' = [pos EXCEPT ![f] = p]
    /\ UNCHANGED <<append, got, saved, text>>

Truncate(f) ==
    /\ UNCHANGED <<append, got, pos, saved>>
    /\ \E n \in Marks : text' = [text EXCEPT ![f] = Sized(@, n)]

Sync(f) ==
    /\ UNCHANGED <<append, got, pos, text>>
    /\ saved' = [saved EXCEPT ![f] = text[f]]

Leave(S) ==
    /\ UNCHANGED got
    /\ pos' = [f \in Files |-> IF f \in S THEN 0 ELSE pos[f]]
    /\ append' = [f \in Files |-> f \notin S /\ append[f]]
    /\ text' = [f \in Files |-> IF f \in S THEN Closed ELSE text[f]]

Close(f) == Leave({f}) /\ saved' = [saved EXCEPT ![f] = text[f]]

\* A call fails (or is one on a file that had failed before), or power is lost: the flash keeps what it had.
Fail(f) == Leave({f}) /\ UNCHANGED saved
PowerLoss == Leave(Files) /\ UNCHANGED saved

Next ==
    /\ \/ \E f \in Files :
             \/ Open(f) \/ Fail(f)
             \/ /\ text[f] # Closed
                /\ \/ Write(f) \/ Read(f) \/ Seek(f) \/ Truncate(f)
                   \/ Sync(f) \/ Close(f)
       \/ PowerLoss
    /\ word' \in Words

Init ==
    /\ saved \in [Files -> Seq(Words)]
    /\ text = [f \in Files |-> Closed]
    /\ pos = [f \in Files |-> 0] /\ append = [f \in Files |-> FALSE]
    /\ got = <<>> /\ word \in Words

Spec == Init /\ [][Next]_vars
===============================================================================
