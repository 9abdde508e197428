--------------------------- MODULE MCLittlefsVfs ---------------------------
(***************************************************************************)
(* The driver for TLC; a behaviour runs one of its parts: the descriptor   *)
(* table and the mount with two tasks on one volume with two files of one  *)
(* path each, or what the operations do to files and folders.              *)
(***************************************************************************)
EXTENDS LittlefsVfs, LittlefsIo

CONSTANTS t1, t2, o1, o2, o3

MCTasks == {t1, t2}
MCObjects == {o1, o2, o3}
MCPaths == {"a", "b"}
MCFile == [p \in MCPaths |-> p]

\* A file in a folder in a folder, one that is in the way, and another folder.
a == <<"a">>
d == <<"d">>
e == <<"e">>
de == <<"d", "e">>
da == <<"d", "a">>
dea == <<"d", "e", "a">>
ea == <<"e", "a">>
eb == <<"e", "b">>
MCIoPaths == {a, d, e, de, da, dea, ea, eb}

Shared == {"RDWR", "CREAT"}
Afresh == {"WRONLY", "CREAT", "TRUNC"}
Once == {"WRONLY", "CREAT", "EXCL"}
MCRequests == {{}, Shared, Afresh, Once, {"APPEND"}}

\* Folders without data; files whose folders are renamed; one file that is open twice;
\* one that is flushed; one whose nonce goes up several times.
MCSettings == {
    [compat |-> TRUE, flush |-> FALSE, paths |-> {d, e, de, da, dea, eb}, requests |-> {Shared, Once},
     fds |-> 1, size |-> 0, nonces |-> 1, ids |-> 6],
    [compat |-> FALSE, flush |-> FALSE, paths |-> {d, e, da, ea}, requests |-> {Afresh},
     fds |-> 1, size |-> 1, nonces |-> 1, ids |-> 2],
    [compat |-> FALSE, flush |-> FALSE, paths |-> {a}, requests |-> {Shared, Afresh},
     fds |-> 2, size |-> 1, nonces |-> 2, ids |-> 1],
    [compat |-> FALSE, flush |-> TRUE, paths |-> {a}, requests |-> {{}, Shared, Afresh, {"APPEND"}},
     fds |-> 1, size |-> 2, nonces |-> 1, ids |-> 2],
    [compat |-> FALSE, flush |-> FALSE, paths |-> {a}, requests |-> {Shared, Afresh},
     fds |-> 1, size |-> 1, nonces |-> 3, ids |-> 2]}

VARIABLE part

MCInit ==
    /\ Init /\ IoInit /\ part \in {"table", "files"}
    /\ part = "table" => setting = CHOOSE s \in Settings : TRUE
MCNext ==
    \/ part = "table" /\ Next /\ UNCHANGED <<ioVars, part>>
    \/ part = "files" /\ IoNext /\ UNCHANGED <<vars, part>>
MCSpec == MCInit /\ [][MCNext]_<<vars, ioVars, part>>

\* The table alone, with the fairness of LittlefsVfs.
MCTableInit == MCInit /\ part = "table"
MCFairSpec ==
    /\ MCTableInit /\ [][MCNext]_<<vars, ioVars, part>>
    /\ \A t \in Tasks : WF_vars(Continue(t) /\ UNCHANGED <<ioVars, part>>)

\* The last call decides nothing, nor does what a descriptor holds that has failed.
Shown == [f \in DOMAIN fds |-> IF fds[f].state = "failed" THEN [fds[f] EXCEPT !.text = <<>>, !.pos = 0] ELSE fds[f]]
MCView == <<vars, setting, volume, Shown, excused, noted, part>>
=============================================================================
