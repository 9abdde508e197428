---------------------------- MODULE LittlefsVfs ----------------------------
(***************************************************************************)
(* The descriptor table that esp_littlefs.c keeps between the ESP-IDF VFS   *)
(* and littlefs, and the life of the mount it belongs to.  Open files are   *)
(* objects on a linked list; a growing array `cache' gives each its         *)
(* descriptor; littlefs links the same objects on a list of its own.        *)
(* Every file operation runs under the recursive mutex efs->lock, so it is  *)
(* one step here; truncate takes the mutex three times, and format and      *)
(* unregister do not take it at all.                                        *)
(*                                                                          *)
(* Clients keep the VFS's discipline: a task names only descriptors that    *)
(* open gave it and close has not taken back.  A step that frees memory a   *)
(* task still uses makes the mount "lost", and the model stops there.       *)
(***************************************************************************)
EXTENDS Naturals, SequencesExt

CONSTANTS
    Tasks,          \* tasks that call the VFS
    Objects,        \* heap addresses a vfs_littlefs_file_t can have
    Paths,          \* path strings the tasks use
    File,           \* [Paths -> file]: the file littlefs finds for a path
    MinCache,       \* CONFIG_LITTLEFS_FD_CACHE_MIN_SIZE, 4 in the code
    Null            \* a NULL slot; no holder of the mutex

ASSUME VfsAssumption ==
    /\ Null \notin Objects \cup Tasks
    /\ MinCache \in Nat \ {0}
    /\ DOMAIN File = Paths

VARIABLES
    mount,          \* _efs[0]: "none", "mounted", "unmounted" (cache_size 0), "lost"
    registered,     \* the VFS has the context
    cache,          \* efs->cache: descriptor d is cache[d + 1]
    list,           \* efs->file and its next pointers
    fdCount,        \* efs->fd_count
    path,           \* file->path of each object
    alive,          \* objects that are allocated
    opened,         \* objects on littlefs's own list lfs->mlist
    disk,           \* files that exist
    orphans,        \* opened objects whose file was removed or replaced
    holder,         \* owner of efs->lock between operations
    held,           \* descriptors each task has from open
    pc,             \* where each task is inside a call of several steps
    inner           \* the descriptor truncate opened for itself

vars == <<mount, registered, cache, list, fdCount, path, alive, opened, disk, orphans,
          holder, held, pc, inner>>
table == <<cache, list, fdCount, path, alive, opened>>
directory == <<disk, orphans>>
context == <<mount, registered>>

Steps == {"idle", "opened", "truncated", "formatting", "reformatting", "detached"}
TypeOK ==
    /\ mount \in {"none", "mounted", "unmounted", "lost"}
    /\ registered \in BOOLEAN
    /\ cache \in Seq(Objects \cup {Null})
    /\ list \in Seq(Objects)
    /\ fdCount \in Nat
    /\ path \in [Objects -> Paths \cup {Null}]
    /\ alive \subseteq Objects
    /\ opened \subseteq Objects
    /\ disk \subseteq {File[p] : p \in Paths}
    /\ orphans \subseteq opened
    /\ holder \in Tasks \cup {Null}
    /\ held \in [Tasks -> SUBSET Nat]
    /\ pc \in [Tasks -> Steps]
    /\ inner \in [Tasks -> Nat \cup {Null}]

Init ==
    /\ mount = "none" /\ registered = FALSE
    /\ cache = <<>> /\ list = <<>> /\ fdCount = 0
    /\ path = [o \in Objects |-> Null]
    /\ alive = {} /\ opened = {} /\ disk = {} /\ orphans = {}
    /\ holder = Null
    /\ held = [t \in Tasks |-> {}]
    /\ pc = [t \in Tasks |-> "idle"]
    /\ inner = [t \in Tasks |-> Null]

----------------------------------------------------------------------------
(* The descriptor table. *)

\* Task t gets the mutex of a mounted partition.  On one that is not mounted an
\* open fails for want of an array (a realloc to 0 bytes); the model has tasks
\* call nothing else on it.
CanTake(t) == mount = "mounted" /\ holder \in {Null, t}

\* Mutant: grows only when the count is already past the size.
Grown_late ==
    IF fdCount > Len(cache)
    THEN [d \in 1 .. 2 * Len(cache) |-> IF d <= Len(cache) THEN cache[d] ELSE Null]
    ELSE cache

\* Mutant: leaves the new slots as realloc returns them.
Grown_dirty ==
    IF fdCount + 1 > Len(cache)
    THEN [d \in 1 .. 2 * Len(cache) |-> IF d <= Len(cache) THEN cache[d] ELSE 0]
    ELSE cache

\* The array after the growth in esp_littlefs_allocate_fd: twice the size
\* when one more descriptor would not fit.
Grown ==
    IF fdCount + 1 > Len(cache)
    THEN [d \in 1 .. 2 * Len(cache) |-> IF d <= Len(cache) THEN cache[d] ELSE Null]
    ELSE cache

\* The first free slot, and the array's size when there is none.
FreeSlot(c) ==
    LET free == {d \in 1 .. Len(c) : c[d] = Null}
    IN  IF free = {} THEN Len(c) ELSE Min(free) - 1

\* esp_littlefs_get_fd_by_name: the search stops after fd_count entries.
IsOpen(p) ==
    \E d \in 1 .. Len(cache) :
        /\ cache[d] # Null
        /\ path[cache[d]] = p
        /\ Cardinality({e \in 1 .. d - 1 : cache[e] # Null}) < fdCount

\* esp_littlefs_allocate_fd with object o, then a successful lfs_file_open
\* of path p; the task finds the descriptor in FreeSlot(Grown).
Allocate(o, p) ==
    /\ cache' = [d \in DOMAIN Grown |->
                    IF d = FreeSlot(Grown) + 1 THEN o ELSE Grown[d]]
    /\ list' = <<o>> \o list
    /\ fdCount' = fdCount + 1
    /\ alive' = alive \cup {o}
    /\ opened' = opened \cup {o}
    /\ path' = [path EXCEPT ![o] = p]

\* The list without the cell of object o.
Unlinked(o) ==
    LET i == CHOOSE i \in DOMAIN list : list[i] = o
    IN  [j \in 1 .. Len(list) - 1 |-> IF j < i THEN list[j] ELSE list[j + 1]]

\* Mutant: leaves the object on the list when it is not its head.
Release_head(d) ==
    LET o == cache[d + 1]
    IN  /\ list' = IF Head(list) = o THEN Tail(list) ELSE list
        /\ cache' = [cache EXCEPT ![d + 1] = Null]
        /\ fdCount' = fdCount - 1
        /\ alive' = alive \ {o}
        /\ path' = [path EXCEPT ![o] = Null]

\* esp_littlefs_free_fd of descriptor d, whose file littlefs has closed.
Release(d) ==
    LET o == cache[d + 1]
    IN  /\ list' = Unlinked(o)
        /\ cache' = [cache EXCEPT ![d + 1] = Null]
        /\ fdCount' = fdCount - 1
        /\ alive' = alive \ {o}
        /\ path' = [path EXCEPT ![o] = Null]

----------------------------------------------------------------------------
(* File operations. *)

\* The part of vfs_littlefs_open that succeeds: a new file is made when the
\* flags ask for it.
OpenOk(p) ==
    /\ \E o \in Objects \ alive : Allocate(o, p)
    /\ disk' = disk \cup {File[p]}
    /\ UNCHANGED orphans

\* vfs_littlefs_open.
Open(t, p) ==
    /\ pc[t] = "idle" /\ CanTake(t)
    /\ OpenOk(p)
    /\ held' = [held EXCEPT ![t] = @ \cup {FreeSlot(Grown)}]
    /\ UNCHANGED <<context, holder, pc, inner>>

\* An open that fails, truncate's included.  No memory for the array leaves it
\* alone; a later failure gives the object back with esp_littlefs_free_fd, but
\* the array stays grown and littlefs may have made the file.
OpenFails(t, p) ==
    /\ pc[t] = "idle" /\ CanTake(t)
    /\ \/ cache' = cache /\ disk' = disk
       \/ cache' = Grown /\ disk' \in {disk, disk \cup {File[p]}}
    /\ UNCHANGED <<context, list, fdCount, path, alive, opened, orphans, holder, held, pc,
                   inner>>

\* lfs_file_close takes the object off its list whether or not the sync in
\* it fails; vfs_littlefs_close frees the descriptor only on success.
CloseOn(d) ==
    /\ opened' = opened \ {cache[d + 1]}
    /\ orphans' = orphans \ {cache[d + 1]}
    /\ \/ Release(d)
       \/ UNCHANGED <<cache, list, fdCount, path, alive>>

\* vfs_littlefs_close: the VFS forgets the descriptor either way.
Close(t, d) ==
    /\ pc[t] = "idle" /\ CanTake(t) /\ d \in held[t]
    /\ CloseOn(d)
    /\ held' = [held EXCEPT ![t] = @ \ {d}]
    /\ UNCHANGED <<context, disk, holder, pc, inner>>

\* vfs_littlefs_pwrite and pread when a seek fails, as it does for a
\* negative offset: `goto exit' jumps over sem_give.
PositionedFails(t, d) ==
    /\ pc[t] = "idle" /\ CanTake(t) /\ d \in held[t]
    /\ holder' = t
    /\ UNCHANGED <<context, table, directory, held, pc, inner>>

\* vfs_littlefs_truncate: opens the path, truncates, closes, and takes the
\* mutex afresh each time.
TruncateOpen(t, p) ==
    /\ pc[t] = "idle" /\ CanTake(t) /\ File[p] \in disk
    /\ OpenOk(p)
    /\ inner' = [inner EXCEPT ![t] = FreeSlot(Grown)]
    /\ pc' = [pc EXCEPT ![t] = "opened"]
    /\ UNCHANGED <<context, holder, held>>

Truncate(t) ==
    /\ pc[t] = "opened" /\ CanTake(t)
    /\ pc' = [pc EXCEPT ![t] = "truncated"]
    /\ UNCHANGED <<context, table, directory, holder, held, inner>>

TruncateClose(t) ==
    /\ pc[t] = "truncated" /\ CanTake(t)
    /\ CloseOn(inner[t])
    /\ pc' = [pc EXCEPT ![t] = "idle"]
    /\ inner' = [inner EXCEPT ![t] = Null]
    /\ UNCHANGED <<context, disk, holder, held>>

\* The objects littlefs has open on the file of path p.
OpenOn(p) == {o \in opened : File[path[o]] = File[p]}

\* vfs_littlefs_unlink refuses a path that is open, with EBUSY.
Unlink(t, p) ==
    /\ pc[t] = "idle" /\ CanTake(t)
    /\ File[p] \in disk /\ ~IsOpen(p)
    /\ disk' = disk \ {File[p]}
    /\ orphans' = orphans \cup OpenOn(p)
    /\ UNCHANGED <<context, table, holder, held, pc, inner>>

\* Mutant: looks for the source only.
Rename_srconly(t, src, dst) ==
    /\ pc[t] = "idle" /\ CanTake(t)
    /\ ~IsOpen(src)
    /\ File[src] \in disk /\ File[src] # File[dst]
    /\ disk' = (disk \ {File[src]}) \cup {File[dst]}
    /\ orphans' = orphans \cup OpenOn(src) \cup OpenOn(dst)
    /\ UNCHANGED <<context, table, holder, held, pc, inner>>

\* vfs_littlefs_rename refuses when either path is open.
Rename(t, src, dst) ==
    /\ pc[t] = "idle" /\ CanTake(t)
    /\ ~IsOpen(src) /\ ~IsOpen(dst)
    /\ File[src] \in disk /\ File[src] # File[dst]
    /\ disk' = (disk \ {File[src]}) \cup {File[dst]}
    /\ orphans' = orphans \cup OpenOn(src) \cup OpenOn(dst)
    /\ UNCHANGED <<context, table, holder, held, pc, inner>>

----------------------------------------------------------------------------
(* The mount. *)

Others(t) == \E u \in Tasks \ {t} : pc[u] # "idle"

\* esp_littlefs_free_fds.
FreeFds ==
    /\ cache' = <<>> /\ list' = <<>> /\ fdCount' = 0
    /\ alive' = {}
    /\ path' = [o \in Objects |-> Null]

\* lfs_init, with which lfs_mount and lfs_format begin, empties littlefs's list.
LfsInit == opened' = {} /\ orphans' = {}

\* A successful lfs_mount followed by the calloc of the array.
Mounted ==
    /\ mount' = "mounted"
    /\ cache' = [d \in 1 .. MinCache |-> Null]
    /\ LfsInit
    /\ UNCHANGED <<list, fdCount, path, alive>>

\* esp_littlefs_free of a context: what is left of it, and of the descriptors
\* the VFS had.
Freed ==
    /\ registered' = FALSE
    /\ FreeFds
    /\ LfsInit
    /\ holder' = Null
    /\ held' = [t \in Tasks |-> {}]

\* Memory is freed, or littlefs reset, under a task that still uses it.
Lost ==
    /\ mount' = "lost"
    /\ Freed
    /\ pc' = [t \in Tasks |-> "idle"]
    /\ inner' = [t \in Tasks |-> Null]
    /\ UNCHANGED disk

\* esp_vfs_littlefs_register with esp_littlefs_init: a mount that fails is
\* formatted and tried again (littlefs.c asks for that); what fails after
\* that frees the new context.
Register(t) ==
    /\ pc[t] = "idle" /\ mount = "none"
    /\ disk' \in {disk, {}}
    /\ \/ Mounted /\ registered' = TRUE
       \/ UNCHANGED <<context, table, orphans>>
    /\ UNCHANGED <<holder, held, pc, inner>>

\* A register of a partition that has a context fails with
\* ESP_ERR_INVALID_STATE, and its exit path frees that context.
RegisterAgain(t) ==
    /\ pc[t] = "idle" /\ mount \in {"mounted", "unmounted"}
    /\ IF registered \/ Others(t)
       THEN Lost
       ELSE mount' = "none" /\ Freed /\ UNCHANGED <<disk, pc, inner>>

\* esp_vfs_littlefs_unregister: the VFS drops its descriptors, then the
\* context is freed without taking its mutex.
Unregister(t) ==
    /\ pc[t] = "idle" /\ registered
    /\ IF Others(t)
       THEN Lost
       ELSE mount' = "none" /\ Freed /\ UNCHANGED <<disk, pc, inner>>

\* esp_littlefs_format, first part, of a mounted partition: lfs_unmount, which
\* leaves littlefs's list alone, and esp_littlefs_free_fds.  No part of format
\* takes the mutex.
Format(t) ==
    /\ pc[t] = "idle" /\ mount = "mounted"
    /\ IF Others(t) \/ \E u \in Tasks : held[u] # {}
       THEN Lost
       ELSE /\ mount' = "unmounted"
            /\ FreeFds
            /\ pc' = [pc EXCEPT ![t] = "formatting"]
            /\ UNCHANGED <<registered, opened, directory, holder, held, inner>>

\* One that is not mounted is formatted as it is, through a temporary context
\* when it has none.
FormatUnmounted(t) ==
    /\ pc[t] = "idle"
    /\ \/ /\ mount = "unmounted"
          /\ pc' = [pc EXCEPT ![t] = "reformatting"]
          /\ UNCHANGED mount
       \/ /\ mount = "none"
          /\ mount' = "unmounted"
          /\ pc' = [pc EXCEPT ![t] = "detached"]
    /\ UNCHANGED <<registered, table, directory, holder, held, inner>>

\* The rest of it: erase and lfs_format, then the remount of what was mounted,
\* or the end of the temporary context.  Where one of these fails the call
\* returns at once: the partition stays unmounted, the temporary context stays, and
\* any of the files may be left.
FormatEnds(t) ==
    /\ pc[t] \in {"formatting", "reformatting", "detached"}
    /\ IF mount = "mounted"
       THEN Lost
       ELSE /\ pc' = [pc EXCEPT ![t] = "idle"]
            /\ \/ /\ pc[t] = "formatting"
                  /\ disk' = {}
                  /\ Mounted
               \/ /\ pc[t] = "detached" /\ ~Others(t)
                  /\ disk' = {}
                  /\ mount' = "none"
                  /\ LfsInit
                  /\ UNCHANGED <<cache, list, fdCount, path, alive>>
               \/ /\ disk' \in SUBSET disk
                  /\ LfsInit
                  /\ UNCHANGED <<mount, cache, list, fdCount, path, alive>>
            /\ UNCHANGED <<registered, holder, held, inner>>

\* The temporary context goes while another task is formatting with it.
FormatFrees(t) == pc[t] = "detached" /\ mount # "mounted" /\ Others(t) /\ Lost

----------------------------------------------------------------------------

TaskStep(t) ==
    \/ \E p \in Paths : Open(t, p) \/ OpenFails(t, p) \/ TruncateOpen(t, p) \/ Unlink(t, p)
    \/ \E d \in held[t] : Close(t, d) \/ PositionedFails(t, d)
    \/ \E p, q \in Paths : Rename(t, p, q)
    \/ Truncate(t) \/ TruncateClose(t)
    \/ Register(t) \/ RegisterAgain(t) \/ Unregister(t)
    \/ Format(t) \/ FormatUnmounted(t) \/ FormatEnds(t) \/ FormatFrees(t)

Next == \E t \in Tasks : TaskStep(t)

Spec == Init /\ [][Next]_vars

\* A task inside truncate or format is scheduled until its call returns.
Continue(t) == Truncate(t) \/ TruncateClose(t) \/ FormatEnds(t)
FairSpec == Spec /\ \A t \in Tasks : WF_vars(Continue(t))

----------------------------------------------------------------------------
(* Properties. *)

Slots == {d \in 1 .. Len(cache) : cache[d] # Null}

\* The array, the list and the count tell of the same objects, each once, and
\* no freed object is among them.  A walk of either finds every open file
\* (esp_littlefs_free_fd searches the list, unlink the array up to fd_count).
TableAgrees ==
    /\ Cardinality(Slots) = fdCount
    /\ {cache[d] : d \in Slots} = alive
    /\ Cardinality(alive) = fdCount
    /\ ToSet(list) = alive /\ Len(list) = fdCount

\* A task's descriptors, its own and the one truncate is using.
Uses(t) == held[t] \cup IF pc[t] \in {"opened", "truncated"} THEN {inner[t]} ELSE {}

\* Every descriptor in use stands for an object littlefs has open, which is
\* what the assertions at the head of its file functions demand; no two
\* tasks, and no truncate and a client, use one descriptor; and every object
\* littlefs has open has a user, so none is left open for ever.
OneUser ==
    mount = "mounted" =>
        /\ \A t \in Tasks : \A d \in Uses(t) :
              /\ d < Len(cache)
              /\ cache[d + 1] \in opened
              /\ \A u \in Tasks \ {t} : d \notin Uses(u)
              /\ pc[t] \in {"opened", "truncated"} => inner[t] \notin held[t]
        /\ \A o \in opened : \E t \in Tasks : \E d \in Uses(t) : cache[d + 1] = o

\* No file that is open is removed, renamed or renamed over: unlink and
\* rename find it in the table whatever was opened and closed before.
NoOrphans == orphans = {}

\* A descriptor stands for the same object from its open to its close,
\* through every growth of the array and the opens and closes of others.
DescriptorsStable ==
    [][\A t \in Tasks : \A d \in Uses(t) \cap Uses(t)' :
          cache'[d + 1] = cache[d + 1]]_vars

\* A truncate or a format that a task has begun returns, whatever the other
\* tasks do to the volume.
CallsReturn == \A t \in Tasks : pc[t] # "idle" ~> pc[t] = "idle"
=============================================================================
