------------------------------ MODULE LittlefsIo ------------------------------
(***************************************************************************)
(* What the operations of esp_littlefs.c do to the files: littlefs keeps   *)
(* what AbstractFile promises, and the driver adds modification times that *)
(* are kept as attributes (nonces, CONFIG_LITTLEFS_MTIME_USE_NONCE),       *)
(* folders that come and go with their files (CONFIG_LITTLEFS_SPIFFS_COMPAT), *)
(* a sync after every write (CONFIG_LITTLEFS_FLUSH_FILE_EVERY_WRITE) and   *)
(* transfers at a position.                                                *)
(*                                                                         *)
(* Every operation runs under efs->lock, so it is one step.  Programs name *)
(* descriptors they have opened, read those littlefs has open for reading  *)
(* and write those it has open for writing: littlefs asserts the rest.     *)
(* Failing closes, and seeks that fail before a transfer, are in            *)
(* LittlefsVfs.                                                            *)
(***************************************************************************)
EXTENDS Integers, SequencesExt

CONSTANTS
    IoPaths,    \* paths programs use, as sequences of names
    Requests,   \* flags programs open files with: sets of names of O_ flags
    IoWords,    \* what is written
    Settings,   \* the options of the build, and the paths and requests, the number
                \* of descriptors, the size of files, the nonces and the number of files
                \* to try with them
    Nothing     \* a model value: no file, no descriptor

ASSUME IoAssumption ==
    /\ IoPaths \subseteq Seq(STRING) \ {<<>>}
    /\ Settings \subseteq [compat : BOOLEAN, flush : BOOLEAN, paths : SUBSET IoPaths,
                           requests : SUBSET Requests, fds : Nat, size : Nat, nonces : Nat, ids : Nat]

VARIABLES
    setting,    \* the options of the build, and bounds
    volume,       \* path -> node, for what exists
    fds,        \* descriptor -> the file it has open
    excused,    \* folders whose emptiness is a program's doing, or that of a call that failed
    noted,      \* what a program remembers of a file nobody had open for writing
    made        \* the last call, for the properties

ioVars == <<setting, volume, fds, excused, noted, made>>

Missing == -1       \* lfs_getattr finds no attribute: (time_t)-1

Folder == [kind |-> "dir"]
NewFile(data, nonce, id) == [kind |-> "file", data |-> data, nonce |-> nonce, id |-> id]

Above(p) == {SubSeq(p, 1, i) : i \in 1 .. Len(p) - 1}
Below(d, p) == {q \in DOMAIN d : IsStrictPrefix(p, q)}
IsFolder(d, p) == p = <<>> \/ (p \in DOMAIN d /\ d[p].kind = "dir")
IsFile(d, p) == p \in DOMAIN d /\ d[p].kind = "file"
Without(d, S) == [q \in DOMAIN d \ S |-> d[q]]
With(d, p, n) == [q \in DOMAIN d \cup {p} |-> IF q = p THEN n ELSE d[q]]

\* The identities for a new file.
FreshIds(d) ==
    {i \in 1 .. setting.ids :
        /\ \A q \in DOMAIN d : IsFile(d, q) => d[q].id # i
        /\ \A f \in DOMAIN fds : fds[f].id # i
        /\ noted # Nothing => noted.id # i}

\* What a program remembers of file i is void when its nonce has been set by hand, or
\* an open has not been able to write it.
Forgotten(i) == IF noted # Nothing /\ noted.id = i THEN Nothing ELSE noted

\* vfs_littlefs_get_mtime: the attribute of a file.
get_mtime(p) == volume[p].nonce

\* vfs_littlefs_fstat: asks for the path the descriptor was opened with.
fstat(f) == volume[fds[f].path]

Call(name, f) == made' = [call |-> name, fd |-> f]

----------------------------------------------------------------------------
(* Folders. *)

\* lfs_mkdir and lfs_remove of a folder, as far as they succeed.
Mkdir(d, p) == IF p \in DOMAIN d \/ ~IsFolder(d, Front(p)) THEN d ELSE With(d, p, Folder)
Rmdir(d, p) == IF IsFolder(d, p) /\ Below(d, p) = {} THEN Without(d, {p}) ELSE d

\* mkdirs: the folders above a path, from the top, as long as no file is in the way;
\* failures are ignored.
Makable(d, p) == {q \in Above(p) : \A r \in Above(p) : IsPrefix(r, q) => ~IsFile(d, r)} \ DOMAIN d
mkdirs(d, p) ==
    IF setting.compat
    THEN [q \in DOMAIN d \cup Makable(d, p) |-> IF q \in DOMAIN d THEN d[q] ELSE Folder]
    ELSE d

\* rmdirs: the same folders from below, each if it is empty then.
Removable(d, p) ==
    {q \in DOMAIN d \cap Above(p) : \A r \in {q} \cup Below(d, q) : r \in Above(p) /\ IsFolder(d, r)}
rmdirs(d, p) == IF setting.compat THEN Without(d, Removable(d, p)) ELSE d

\* vfs_littlefs_mkdir.
mkdir(p) ==
    /\ volume' = Mkdir(volume, p) /\ volume' # volume
    /\ excused' = excused \cup {p}
    /\ Call("mkdir", Nothing)
    /\ UNCHANGED <<setting, fds, noted>>

\* vfs_littlefs_rmdir.
rmdir(p) ==
    /\ p # <<>> /\ IsFolder(volume, p)
    /\ volume' = Rmdir(volume, p) /\ volume' # volume
    /\ excused' = (excused \ {p}) \cup {Front(p)}
    /\ Call("rmdir", Nothing)
    /\ UNCHANGED <<setting, fds, noted>>

----------------------------------------------------------------------------
(* Modification times. *)

\* vfs_littlefs_utime without times: the nonce goes up by one, and is not 0
\* afterwards.  What was 0 becomes a random number.
Touched(n) ==
    IF n = 0 THEN 1 .. setting.nonces ELSE {IF n + 1 = 0 THEN 1 ELSE n + 1}

\* Mutant: a file that is opened again keeps its nonce.
Marked_once(d, p, flags) ==
    IF flags = {"RDONLY"} \/ d[p].nonce # Missing THEN {d}
    ELSE {[d EXCEPT ![p].nonce = n] : n \in Touched(d[p].nonce)}

\* The file of path p after it has been opened: vfs_littlefs_update_mtime.
Marked(d, p, flags) ==
    IF flags = {"RDONLY"} THEN {d} ELSE {[d EXCEPT ![p].nonce = n] : n \in Touched(d[p].nonce)}

\* vfs_littlefs_utime with times.
utime(p, t) ==
    /\ IsFile(volume, p) /\ setting.size > 0
    /\ volume' = [volume EXCEPT ![p].nonce = t]
    /\ noted' = Forgotten(volume[p].id)
    /\ Call("utime", Nothing)
    /\ UNCHANGED <<setting, fds, excused>>

\* Somebody has the file open for writing.
Writers(i) == \E f \in DOMAIN fds : fds[f].id = i /\ "WRONLY" \in fds[f].flags

\* A program remembers what stat tells of a file, and its contents (where files
\* have any: setting.size is a bound).
stat(p) ==
    /\ IsFile(volume, p) /\ setting.size > 0
    /\ ~Writers(volume[p].id)
    /\ noted' = [id |-> volume[p].id, nonce |-> get_mtime(p), data |-> volume[p].data]
    /\ Call("stat", Nothing)
    /\ UNCHANGED <<setting, volume, fds, excused>>

----------------------------------------------------------------------------
(* Opening and closing. *)

\* esp_littlefs_flags_conv: a flag that is 0, and O_APPEND, are found only
\* when they are alone.  Both bits of an access mode are set for "RDWR".
flags_conv(m) ==
    (IF m = {"APPEND"} THEN {"APPEND"} ELSE {}) \cup
    (IF m = {} \/ "RDWR" \in m THEN {"RDONLY"} ELSE {}) \cup
    (IF m \cap {"WRONLY", "RDWR"} # {} THEN {"WRONLY"} ELSE {}) \cup
    (m \cap {"EXCL", "CREAT", "TRUNC"})

\* vfs_littlefs_fcntl, F_GETFL: the access mode of a descriptor.
fcntl_getfl(flags) ==
    IF "WRONLY" \notin flags THEN "RDONLY" ELSE IF "RDONLY" \in flags THEN "RDWR" ELSE "WRONLY"

\* What lfs_file_open does to the files: Nothing, when it fails.
Opened(d, p, flags) ==
    IF IsFile(d, p)
    THEN IF "EXCL" \in flags THEN Nothing ELSE d
    ELSE IF p \notin DOMAIN d /\ IsFolder(d, Front(p)) /\ "CREAT" \in flags
            /\ FreshIds(d) # {}  \* bound
         THEN With(d, p, NewFile(<<>>, Missing, CHOOSE i \in FreshIds(d) : TRUE))
         ELSE Nothing

\* The file as it is opened: one that is truncated is so in memory only. A file that
\* has "erred" (LFS_F_ERRED) is not written when it is synced, until it has been
\* written to again; what one that has "failed" holds is in doubt, and it is only
\* closed. A file has strayed when a folder above its path has been renamed.
Handle(d, p, m, flags) ==
    [path |-> p, id |-> d[p].id, asked |-> m, flags |-> flags, pos |-> 0, strayed |-> FALSE,
     text |-> IF "TRUNC" \in flags THEN <<>> ELSE d[p].data,
     state |-> IF "TRUNC" \in flags THEN "dirty" ELSE "clean"]

\* lfs_file_sync of a handle: the files on the flash, wherever its file is by now,
\* and the handle. What was not written, or has erred, leaves the flash alone.
Synced(d, h) ==
    [q \in DOMAIN d |-> IF h.state = "dirty" /\ IsFile(d, q) /\ d[q].id = h.id
                        THEN [d[q] EXCEPT !.data = h.text] ELSE d[q]]
Clean(h) == [h EXCEPT !.state = IF @ = "dirty" THEN "clean" ELSE @]

\* The commit may fail, and so may the flush of what is still in the cache.
SyncFails(h) ==
    {s \in {"erred", "failed"} : h.state = "dirty" /\ (s = "failed" => h.text # <<>>)}
Syncs(d, h) ==
    {[volume |-> Synced(d, h), handle |-> Clean(h)]} \cup
    {[volume |-> d, handle |-> [h EXCEPT !.state = s]] : s \in SyncFails(h)}

FreeDescriptors == (0 .. setting.fds - 1) \ DOMAIN fds

\* vfs_littlefs_open.  The file is synced at once, so one that is truncated is
\* empty on the flash as well. Nobody is told when that fails, or when the nonce
\* cannot be written.
open(p, m) ==
    LET before == mkdirs(volume, p)
        flags  == flags_conv(m)
        after  == Opened(before, p, flags)
        f      == CHOOSE f \in FreeDescriptors : \A g \in FreeDescriptors : f <= g
    IN  /\ FreeDescriptors # {}
        /\ after # Nothing
        /\ \E s \in Syncs(after, Handle(after, p, m, flags)) :
              /\ fds' = With(fds, f, s.handle)
              /\ \/ volume' \in Marked(s.volume, p, flags) /\ UNCHANGED noted
                 \/ /\ flags # {"RDONLY"}
                    /\ volume' = s.volume /\ noted' = Forgotten(after[p].id)
        /\ \A q \in DOMAIN volume' : IsFile(volume', q) => volume'[q].nonce <= setting.nonces
        /\ Call("open", f)
        /\ UNCHANGED <<setting, excused>>

\* An open that fails: the folders stay, and perhaps an empty file.
open_fails(p, m) ==
    LET before == mkdirs(volume, p)
        after  == Opened(before, p, flags_conv(m))
    IN  /\ volume' \in {before} \cup (IF after # Nothing /\ p \notin DOMAIN volume THEN {after} ELSE {})
        /\ volume' # volume
        /\ excused' = excused \cup (Above(p) \ DOMAIN volume)
        /\ Call("open", Nothing)
        /\ UNCHANGED <<setting, fds, noted>>

\* vfs_littlefs_fsync, and vfs_littlefs_close, which syncs too.
fsync(f) ==
    /\ \E s \in Syncs(volume, fds[f]) : fds' = [fds EXCEPT ![f] = s.handle] /\ volume' = s.volume
    /\ Call("fsync", f)
    /\ UNCHANGED <<setting, excused, noted>>

close(f) ==
    /\ volume' = Synced(volume, fds[f])
    /\ fds' = [g \in DOMAIN fds \ {f} |-> fds[g]]
    /\ Call("close", Nothing)
    /\ UNCHANGED <<setting, excused, noted>>

\* The power goes.
Crash ==
    /\ DOMAIN fds # {}
    /\ fds' = <<>>
    /\ Call("crash", Nothing)
    /\ UNCHANGED <<setting, volume, excused, noted>>

----------------------------------------------------------------------------
(* Transfers. *)

Overwritten(t, p, ws) ==
    LET n == IF Len(t) > p + Len(ws) THEN Len(t) ELSE p + Len(ws)
    IN  [i \in 1 .. n |-> IF i \in p + 1 .. p + Len(ws) THEN ws[i - p]
                          ELSE IF i <= Len(t) THEN t[i] ELSE 0]
Sized(t, n) == [i \in 1 .. n |-> IF i <= Len(t) THEN t[i] ELSE 0]

\* lfs_file_write at position p: a file that has erred is to be written again.
Wrote(h, p, ws) ==
    LET at == IF "APPEND" \in h.flags /\ Len(h.text) > p THEN Len(h.text) ELSE p
    IN  [h EXCEPT !.text = Overwritten(@, at, ws), !.pos = at + Len(ws),
                  !.state = "dirty"]

Readable(h) == "RDONLY" \in h.flags /\ h.state # "failed"
Writable(h) == "WRONLY" \in h.flags /\ h.state # "failed"

\* vfs_littlefs_write.
write(f, ws) ==
    LET h == Wrote(fds[f], fds[f].pos, ws)
    IN  /\ Writable(fds[f]) /\ fds[f].pos + Len(ws) <= setting.size
        /\ IF setting.flush
           THEN \E s \in Syncs(volume, h) : fds' = [fds EXCEPT ![f] = s.handle] /\ volume' = s.volume
           ELSE fds' = [fds EXCEPT ![f] = h] /\ UNCHANGED volume
        /\ Call("write", f)
        /\ UNCHANGED <<setting, excused, noted>>

\* A write that fails.
write_fails(f) ==
    /\ Writable(fds[f])
    /\ fds' = [fds EXCEPT ![f].state = "failed"]
    /\ Call("failed", f)
    /\ UNCHANGED <<setting, volume, excused, noted>>

\* vfs_littlefs_read of n words.
read(f, n) ==
    LET h == fds[f]
    IN  /\ Readable(h) /\ h.pos < Len(h.text)
        /\ fds' = [fds EXCEPT ![f].pos = IF @ + n > Len(h.text) THEN Len(h.text) ELSE @ + n]
        /\ Call("read", f)
        /\ UNCHANGED <<setting, volume, excused, noted>>

\* Mutant: goes back to where the transfer has begun.
Restored_offset(h, old, offset) == [h EXCEPT !.pos = offset]

\* The last seek of a positioned transfer.
Restored(h, old, offset) == [h EXCEPT !.pos = old]

\* vfs_littlefs_pwrite: the data stays in the cache, whatever the setting. With
\* LFS_O_APPEND it would go to the end.
pwrite(f, ws, offset) ==
    /\ Writable(fds[f]) /\ offset + Len(ws) <= setting.size
    /\ fds' = [fds EXCEPT ![f] = Restored(Wrote(@, offset, ws), @.pos, offset)]
    /\ Call("pwrite", f)
    /\ UNCHANGED <<setting, volume, excused, noted>>

\* vfs_littlefs_pread: reads nothing at or after the end.
pread(f, offset) ==
    /\ Readable(fds[f])
    /\ fds' = [fds EXCEPT ![f] = Restored([@ EXCEPT !.pos = offset], @.pos, offset)]
    /\ Call("pread", f)
    /\ UNCHANGED <<setting, volume, excused, noted>>

\* A transfer that succeeds and whose last seek fails, or one that fails.
positioned_fails(f, offset) ==
    /\ Writable(fds[f])
    /\ fds' = [fds EXCEPT ![f] = [@ EXCEPT !.state = "failed", !.pos = offset]]
    /\ Call("failed", f)
    /\ UNCHANGED <<setting, volume, excused, noted>>

\* vfs_littlefs_lseek: from the start, from where it is, from the end.
lseek(f, offset, whence) ==
    LET h  == fds[f]
        to == offset + CASE whence = "SET" -> 0 [] whence = "CUR" -> h.pos [] whence = "END" -> Len(h.text)
    IN  /\ to \in 0 .. setting.size
        /\ fds' = [fds EXCEPT ![f].pos = to]
        /\ Call("lseek", f)
        /\ UNCHANGED <<setting, volume, excused, noted>>

\* lfs_file_truncate: writes zeros, or cuts, which does not undo an error.
Resized(h, n) ==
    [h EXCEPT !.text = Sized(h.text, n),
              !.state = IF n = Len(h.text) \/ (n < Len(h.text) /\ @ = "erred") THEN @ ELSE "dirty"]

\* vfs_littlefs_ftruncate: keeps the position; not synced.
ftruncate(f, n) ==
    /\ Writable(fds[f])
    /\ fds' = [fds EXCEPT ![f] = Resized(@, n)]
    /\ Call("ftruncate", f)
    /\ UNCHANGED <<setting, volume, excused, noted>>

----------------------------------------------------------------------------
(* Removing and renaming.  A path that is open is refused. *)

get_fd_by_name(p) == \E f \in DOMAIN fds : fds[f].path = p

\* vfs_littlefs_unlink.
unlink(p) ==
    /\ IsFile(volume, p) /\ ~get_fd_by_name(p)
    /\ volume' = rmdirs(Without(volume, {p}), p)
    /\ excused' = excused \cap DOMAIN volume'
    /\ Call("unlink", Nothing)
    /\ UNCHANGED <<setting, fds, noted>>

\* What is behind src comes behind dst.
Moved(src, dst, q) == dst \o SubSeq(q, Len(src) + 1, Len(q))

\* lfs_rename: none, when it refuses.
Renamed(d, src, dst) ==
    LET moved == {src} \cup Below(d, src)
        kept  == DOMAIN d \ (moved \cup {dst})
    IN  IF \/ src \notin DOMAIN d \/ ~IsFolder(d, Front(dst))
           \/ dst \in DOMAIN d /\ (d[dst].kind # d[src].kind \/ Below(d, dst) # {})
        THEN Nothing
        ELSE [q \in kept \cup {Moved(src, dst, r) : r \in moved} |->
                 d[IF q \in kept THEN q ELSE Moved(dst, src, q)]]

\* Bound: the paths that may come into being.
Bounded(d) == DOMAIN d \subseteq UNION {Above(p) \cup {p} : p \in setting.paths}

\* vfs_littlefs_rename.  A folder may be moved while files in it are open.
rename(src, dst) ==
    LET before == mkdirs(volume, dst)
        after  == Renamed(before, src, dst)
    IN  /\ src # dst /\ ~IsPrefix(src, dst) /\ ~IsPrefix(dst, src)
        /\ ~get_fd_by_name(src) /\ ~get_fd_by_name(dst)
        /\ after # Nothing /\ Bounded(after)
        /\ volume' = rmdirs(after, src)
        /\ fds' = [f \in DOMAIN fds |-> [fds[f] EXCEPT !.strayed = @ \/ IsStrictPrefix(src, fds[f].path)]]
        /\ excused' = (excused \cap DOMAIN volume') \cup
              {q \in DOMAIN volume' : IsPrefix(dst, q) /\ Moved(dst, src, q) \in excused}
        /\ Call("rename", Nothing)
        /\ UNCHANGED <<setting, noted>>

\* A rename that fails leaves the folders it has made.
rename_fails(src, dst) ==
    /\ ~get_fd_by_name(src) /\ ~get_fd_by_name(dst)
    /\ volume' = mkdirs(volume, dst) /\ volume' # volume
    /\ excused' = excused \cup (DOMAIN volume' \ DOMAIN volume)
    /\ Call("rename", Nothing)
    /\ UNCHANGED <<setting, fds, noted>>

----------------------------------------------------------------------------
IoInit ==
    /\ setting \in Settings
    /\ volume = <<>> /\ fds = <<>> /\ excused = {} /\ noted = Nothing
    /\ made = [call |-> "mount", fd |-> Nothing]

OnPath(p) ==
    \/ mkdir(p) \/ rmdir(p) \/ unlink(p) \/ stat(p) \/ utime(p, 0)
    \/ \E m \in setting.requests : open(p, m) \/ open_fails(p, m)
    \/ \E q \in setting.paths : rename(p, q) \/ rename_fails(p, q)

OnDescriptor(f) ==
    \/ fsync(f) \/ close(f) \/ write_fails(f)
    \/ \E w \in IoWords : write(f, <<w>>)
    \/ \E n \in 1 .. setting.size : read(f, n)
    \/ \E w \in IoWords, o \in 0 .. setting.size : pwrite(f, <<w>>, o)
    \/ \E o \in 0 .. setting.size : pread(f, o) \/ positioned_fails(f, o) \/ ftruncate(f, o)
    \/ \E o \in -1 .. setting.size, whence \in {"SET", "CUR", "END"} : lseek(f, o, whence)

IoNext ==
    \/ \E p \in setting.paths : OnPath(p)
    \/ \E f \in DOMAIN fds : OnDescriptor(f)
    \/ Crash

IoSpec == IoInit /\ [][IoNext]_ioVars

----------------------------------------------------------------------------
(* Properties. *)

\* The path a descriptor was opened with leads to its file as long as it is
\* open, unless a folder above it has been renamed: fstat relies on it.
PathsHold ==
    \A f \in DOMAIN fds : ~fds[f].strayed => IsFile(volume, fds[f].path) /\ fstat(f).id = fds[f].id

\* A file whose nonce is what it was has the contents it had, while nobody has it
\* open for writing (Kconfig:114), wherever it has been moved: unless the nonce has
\* been set by hand, or an open could not write it.
NonceTells ==
    noted # Nothing =>
        \A q \in DOMAIN volume :
            IsFile(volume, q) /\ volume[q].id = noted.id /\ get_mtime(q) = noted.nonce /\ ~Writers(noted.id)
            => volume[q].data = noted.data

\* With folders that follow their files, an empty one is a program's doing (Kconfig:133).
FoldersFollow ==
    setting.compat => \A p \in DOMAIN volume : IsFolder(volume, p) /\ Below(volume, p) = {} => p \in excused

\* fcntl tells the access mode that was asked for.
AccessTold ==
    \A f \in DOMAIN fds :
        LET m == fds[f].asked
        IN  fcntl_getfl(fds[f].flags) = IF "RDWR" \in m THEN "RDWR" ELSE IF "WRONLY" \in m THEN "WRONLY" ELSE "RDONLY"

\* What the driver adds to littlefs holds whatever programs do with descriptors,
\* paths and folders, a loss of power included.
VolumeSound == PathsHold /\ NonceTells /\ FoldersFollow /\ AccessTold

\* A descriptor moves only by the calls on it, and by those at a position only
\* when they fail.
OffsetKept(f) ==
    \/ fds'[f].pos = fds[f].pos
    \/ made'.fd = f /\ made'.call \in {"read", "write", "lseek", "failed"}

\* What open has truncated is on the flash when open returns, and so is what a write
\* has written, with the setting for that (Kconfig:144), and what a sync was for; or
\* the descriptor shows that it is not.
OnFlash ==
    LET f == made'.fd
    IN  \/ made'.call = "open" /\ f # Nothing
        \/ made'.call = "write" /\ setting.flush
        \/ made'.call = "fsync" /\ fds[f].state = "dirty"
        => \/ fds'[f].state \in {"erred", "failed"}
           \/ \A q \in DOMAIN volume' :
                 IsFile(volume', q) /\ volume'[q].id = fds'[f].id => volume'[q].data = fds'[f].text

\* Each call leaves the offsets, and on the flash the data, that programs rely on.
CallsKeepWord ==
    [][/\ \A f \in DOMAIN fds \cap DOMAIN fds' : OffsetKept(f)
       /\ OnFlash]_ioVars
=============================================================================
