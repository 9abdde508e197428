# Berry on the ESP32: TLA+ models, model checks and proofs

This directory specifies the concurrent, stateful and easily broken parts of
`esp32-berry-lang`: an ESP32 firmware that runs the Berry scripting language on
a littlefs file system, with a Wi-Fi station and a TFTP server to upload
scripts. Every definition is translated from the code under `src/`; the path
and the lines each one stands for are in `PROJECT.json` under `map`.

## 1. The system

    main.c ── repl_task: littlefs_init, BerryInit, then the REPL loop
      ├─ Berry       be_repl.c
      │     compiler (be_lexer, be_parser, be_code) ── bytecode
      │     virtual machine (be_vm, be_exec, be_class, be_module)
      │        uses  be_map, be_list/be_vector, be_string, be_func
      │        allocates through be_mem ── may run be_gc
      │              be_gc marks the heap, runs deinit methods (be_vm),
      │              sweeps be_gc's list and be_string's table
      │     libraries (be_byteslib, be_jsonlib, ...) ── be_port ──────┐
      │                                                               │
      ├─ TFTP task   tftp_server.c ── socket, one buffer, one file ───┤
      │  (a component: main.c does not start it)                      │
      ├─ Wi-Fi       wifi.c ── event loop callbacks, event group      │
      │  (a component: main.c does not start it)                      │
      └─ esp_littlefs.c (VFS driver: descriptors, one mutex) ─────────┘
               lfs.c (littlefs) ── flash

(`B/` below is `src/components/berry/berry/src/`, `I/` is
`src/components/internals/esp32/`, `L/` is `src/components/esp_littlefs/src/`.)

| component | state | operations | what is hard | what makes it correct | modules |
|---|---|---|---|---|---|
| Garbage collector `B/be_gc.c` | list of objects, marks, gray list, usage, threshold, flags | allocate, collect (mark, destruct, sweep), fix, pause, delete all | runs inside any allocation; deinit methods run between marking and sweeping, may raise | nothing reachable is freed, everything unreachable is found, usage is exact | `BerryGC` |
| Memory pools `B/be_mem.c` | two pools with bitmaps, heap | malloc, free, realloc between them | moves between pools; a collection in the retry | no block is handed out twice or lost | `BerryMem` |
| String table `B/be_string.c` | buckets, count, size | intern, resize, sweep, shrink | an allocation between looking up a bucket and linking into it | one object per text, every string found | `BerryStrtab` |
| Maps `B/be_map.c` | nodes chained through one array, `lastfree` | find, insert, remove, resize, compact, iterate | displaced nodes; stale `next` of removed ones | implements a finite function; walks end and are complete | `BerryMap`, `AbstractMap` |
| Lists, vectors `B/be_list.c`, `be_vector.c`, `be_listlib.c` | data, count, capacity | push, insert, remove, resize, copy, reverse | cells beyond the end stay; negative indices | implement sequences and stacks | `BerryList`, `AbstractList` |
| Bytes `B/be_byteslib.c` | buffer, length, capacity, fixed or mapped | the methods of the class (section 6 lists what is left out) | signed offsets and lengths, growth, the methods' own clipping | implements a sequence of bytes | `BerryBytes`, `AbstractBytes` |
| Compiler `B/be_parser.c`, `be_code.c` | registers, jump lists, blocks, loops | one pass over the text | jumps patched late, results moved by changing code already written | the code does what the text says | `BerryCode`, `BerryParser`, `BerryMeaning` |
| Virtual machine `B/be_vm.c`, `be_exec.c` | frames, registers, handlers | opcodes, calls, raising | leaving loops and handlers in every way | runs as written, and ends | `BerryVM` |
| Closures `B/be_func.c` and its callers | open upvalues, reference counts | capture, close, unwind, free | every way out of a block must close; the stack moves | a closure sees its own variable, shared with its siblings | `BerryClosures` |
| Classes, instances `B/be_class.c`, `be_baselib.c` | member maps, chains of instances | inherit, construct, look up, `super()` | a call becomes a construction after its frame is laid out | the definition that is meant is found | `BerryClass` |
| Modules `B/be_module.c` | cache, path | search, import, init | cycles, failing imports | one module per name, from the nearest file; what failed imports leave behind is known | `BerryModule` |
| Bytecode files `B/be_bytecode.c` | file, table of globals | save, load | an index of a global holds in one VM only | load inverts save, in another VM too | `BerryBytecode` |
| littlefs VFS `L/esp_littlefs.c` | descriptor array and list, recursive mutex, partitions | open, read, write, truncate, rename, unlink, folders, times, register, format | several tasks; the array grows under them; closes and seeks fail | a descriptor keeps its file; an open file is not removed; every call returns and does what it says | `LittlefsVfs`, `LittlefsIo` |
| littlefs core `L/littlefs/lfs.c` | metadata pairs, tags, tree, skip lists, allocator | everything below the driver | power loss between any two programs; bad blocks; relocation | commits and renames are atomic; files keep what they promise | `LfsPair`, `LfsTags`, `LfsTree`, `LfsDir`, `LfsFile`, `AtomicCommit`, `AtomicTree`, `AbstractFile` |
| TFTP server `I/tftp_server.c` | position in the protocol, one buffer, block number, file | write and read transfers, timeouts, retries | lost, repeated, reordered packets | blocks in order and once; a transfer ends | `TftpServer`, `TftpSystem` |
| Host interface `B/be_api.c`, libraries but bytes, REPL, port, mapping and ctypes, mounting `I/littlefs.c`, Wi-Fi `I/wifi.c`, host tools | | | | | not modelled: section 6 |

The collector is what everything else leans on: every allocation may run it,
so every pointer that a C variable keeps over an allocation is a hazard.
`PROJECT.json` "hazards" lists the hazards with their lines and the properties
that cover them.

## 2. The models

Operators named `X_something` under a `Mutant:` comment are deliberate faults in
`X`: for every property of a passing run `PROJECT.json` ("mutants") names one
under which the run finds it violated. `Rare` constants name situations in which
the code is known to break a property; the runs leave them out (`Rare = {}`),
and section 5 lists them. With a tag added to the set the run shows the trace.

### Berry: memory and data

* **BerryGC**. `be_gc.c`, the retry of `be_realloc`, the string sweep. The mutator
  is any program: it moves references between a stack, globals, fixed objects and
  fields. An allocation is a sequence of steps with a collection in its middle;
  while a deinit method runs, the mutator's actions are enabled again. Objects are
  cells of a heap `Obj`, marks are white, gray, dark; the gray list is a set.
* **BerryMem**. The pools of the two classes (31 lines of 16 bytes and 15 of 32 in the
  code; the numbers are constants) and the heap behind them; each block carries what is
  written in it. A collection marks (`condemned`), runs deinit methods, which allocate
  and free, and sweeps; meanwhile, and for ever after a deinit has raised, `halted` (GC_HALT)
  keeps a request that fails from collecting.
* **BerryStrtab**. A call in progress is a record on `calls` that remembers the
  bucket and the size it has read; a collection, whose deinit methods intern
  strings themselves, may come between its steps, and another one when there is no memory
  for the table to grow. `raced` is the set of the strings in whose making a
  collection has begun, `swept` that of those it has freed under their call.
* **AbstractMap, BerryMap**. The nodes, chains and `lastfree` of `be_map.c`, shown to
  implement a finite function. Iterators are part of the state.
* **AbstractList, BerryList**; **AbstractBytes, BerryBytes**. Arrays with the cells
  beyond their end, shown to implement sequences.
* `BerryValues` holds what these share: values, and the capacities of arrays.

### Berry: programs

* **BerryMeaning** says what a small program means, on variables; **BerryParser** and
  **BerryCode** compile it as `be_parser.c` and `be_code.c` do, with registers,
  constants, jump lists, blocks, loops and handlers; **BerryVM** runs the code.
  `RunsAsWritten` compares. Operators are represented by a few.
* **BerryClosures**. Blocks and the ways out of them (`hasupval`, `OP_CLOSE`, `break`,
  `continue`, `return`, `raise`), the list of open upvalues, the moving of the stack.
  A variable is an identity, so "this closure sees that variable" can be stated.
* **BerryClass**. An object is a chain of instances, one per class; lookup, construction,
  `super()`, virtual members, statics.
* **BerryModule**. Search, cache, the run of a module's code, its init function, and
  what is on the stack and on the C heap when it raises. `cycled` has the names that were
  imported or set while their code ran, `lost` counts the imports that failed, and
  `missed` tells that a search has missed a file.
* **BerryBytecode**. Scripts are compiled in one VM, saved, and loaded in others, with
  other globals or in another build; a variable of the file that cannot be decoded is
  `GARBLED`.

### The file system

* **AtomicCommit, LfsPair**. A metadata pair as two logs of commits with revision
  counts, checksums and erased space; programs may tear, blocks go bad, power goes.
  It implements a register that is written atomically.
* **LfsTags**. What the tags of those commits say: lookup, filtering and
  compaction, against a list of entries.
* **AtomicTree, LfsTree**. Directories as lists of pairs and as a tree: create, remove,
  rename, relocation, splitting, dropping, orphans, pending moves. It implements a
  tree that changes atomically, seen by a mount at any moment.
* **LfsDir**. Open handles and streams, each with a copy of a pair and an index into
  it, while entries come and go and pairs split, move and are dropped.
* **AbstractFile, LfsFile**. Skip lists, inline files, the cache of an open file, and the
  allocator with its lookahead window; it keeps what `AbstractFile` promises.
* **LittlefsVfs**. The array, the list and the count of open files of the driver,
  littlefs's list of the same objects, the owner of the mutex, and what each task is
  doing. An operation under the mutex is one action; `truncate` is three, because it
  gives the mutex up in between; format and unregister do not take it. What littlefs
  does is the outcome of its calls: an open, a close, a mount, a format may fail at any
  time. A step that frees memory under a task that uses it makes the mount `lost`;
  nothing is claimed, and nothing happens, after that.
* **LittlefsIo**. What the same operations do to files, folders, offsets, modification
  times and synchronisation, with each option of the build. Syncs fail, in open, write and fsync,
  and an open may be unable to write the nonce; a handle remembers whether it is dirty, has
  erred or has failed, and whether it has `strayed`: a folder above its path was renamed. A volume is a function from
  paths to nodes; the folders `mkdirs` makes (`Makable`) and those `rmdirs` removes
  (`Removable`) are given as sets, where the code goes along the path one name at a time.

### The network

* **TftpServer** is the task of `tftp_server.c`, one action per stop of its control.
  **TftpSystem** adds a client (external: it repeats what is not answered, and may
  abort) and a network that loses packets and, with `Reorder`, reorders them.

## 3. The runs

Components that do not interact are checked side by side: the MC module starts one
*part* or another (`part` is fixed from the first state on), so that one run serves
several modules.

| run | what its properties say | bounds, and why they are enough |
|---|---|---|
| `BerryGC_heap` | `MarkExact`: when the gray list is empty, the marked are the reachable; `NoDangling`; `UsageKept`: the account is exact and the threshold bounds it (programs without deinit methods) | 3 objects - a root, what it refers to, garbage - make chains, cycles and sharing; 1 global, 1 fixed object, 3 references |
| `BerryGC_deinit` | `DeinitContained`: whatever deinit methods allocate, store and raise, marking is exact the next time, the account is kept, and a raise stops the collector; `DeinitOnce` | 3 instances: one condemned, one its deinit makes, one that lives; at this step rate every allocation collects |
| `BerryData_containers` | map: `WellLinked`, `IterComplete`, `Implements`; lists: `ListImplements`; allocator: `BlocksExact`, `FailsOnlyWhenFull` | 4 keys of which 3 collide, tables of up to 4 slots: a chain grows into the main slot of another key; pools of 2 blocks of 16 bytes and 1 of 32, heap of 4 units, so that each overflows into the next, and a deinit finds a full heap; lists of up to 4 |
| `BerryText_strings` | `UniqueUnlessRaced`, `TableExact`; `BytesImplement`; `LoadsWhatWasSaved` | 4 addresses, 3 texts of which two collide for ever, tables from 1 bucket, so that two calls and a growth meet in one collection; buffers of 3 bytes that grow to 9, contents of up to 6, offsets from -1 on, widths from -4 to 4, 2 calls; 3 scripts, 4 builds, 3 globals |
| `BerryObjects_programs` | `Lexical`, `UpvaluesKept` (shared, listed exactly, counted exactly, none freed in use); `ObjectsMeant`; `ImportsMeant` | 2 variables, 3 closures, 3 upvalues on 3 slots, 2 frames, 2 blocks, two places for the stack; chains of 3 classes, 3 calls; 3 modules that import one another |
| `BerryVM_programs` | `RunsAsWritten`, `Halts` | some 15,000 functions: every expression of a small grammar, two operators deep, wherever one can stand, and every nest of blocks three deep around every way out of it |
| `LfsPair_log` | `CommitsAtomic` (refinement), `WearSpread`; `LogsTell` | 3 blocks, 3 versions, revisions modulo 10 so that they wrap, a pair that moves every `Modulus` = 3 revisions (10 mod 3 is odd: `WrapsOdd` of section 4); logs of 8 tags in 3 commits |
| `LfsTree_names` | `OrphansFlagged`, `AllAtomic` (refinement); `PlacesKept` | 2 names, 2 directories, 7 blocks, which three pairs and a relocation use up, 4 operations, 1 compaction, 1 power loss; directories of 3 entries in up to 3 pairs, 1 stream and 1 handle |
| `LfsFile_data` | `ListsSound`, `KeepsPromise` (refinement), `SpaceIsUsed` | 2 files, 7 blocks of 6 words, so that a file spans three and a skip list skips; one bad block, one damaged one; 5 operations |
| `LittlefsVfs_files` | `TableAgrees`, `OneUser`, `NoOrphans`; `VolumeSound`, `CallsKeepWord` | 2 tasks, 2 files, 3 file objects; the array begins with 1 slot (4 in the code) and grows twice; for the volume 5 settings, each with the options, paths, requests, descriptors and sizes that make one question interesting: nested folders without data, renamed folders, a file open twice, a flushed file, a nonce that goes up to 3 |
| `LittlefsVfs_stuck` (violated) | `CallsReturn` | the same |
| `TftpSystem_transfers` | `InOrder`, `UploadComplete`, `ReadEndsAfterClient`, `ReturnsUnlessAborted` | blocks of 2 bytes, files of 2, 3 and 4; 2 losses and 3 packets sent again: a block and its acknowledgement lost, the three tries used up; `Reorder` is off |

The longest runs take about two and a half minutes; the largest (`BerryGC_deinit`) has 4.3 million states.
Symmetry is used where the permuted values are identities without an order
(objects, values, addresses, variables, blocks), and in no run with a liveness property.
`VIEW`s leave out what a module computes only for a property to look at.

`CHECK_DEADLOCK FALSE` stands where the system really stops: the virtual machine has
been deleted, the program has ended and every closure is freed, the operations of a
run are used up, the TFTP task has ended, the mount is lost.

### Fairness
Safety needs none. `TftpSystem!FairSpec` has weak fairness for the server, whose
FreeRTOS task is scheduled whenever its socket has a packet or its timeout has
passed, and for the client; losses are not fair and are bounded by `MaxLoss`, so
that the liveness property is about what follows the last loss. `LittlefsVfs!FairSpec`
has weak fairness for the steps of a task inside `truncate` or `format`: between
operations of others the mutex is free, so the step stays enabled until it is taken,
unless the mutex is never given back. No task has to begin anything. `BerryVM` has
weak fairness of its single step: the machine runs until it returns.

## 4. What is proved

Eight modules hold proofs; TLAPS checks all of them to the last step. Each theorem holds
for all values of the constants that the named assumption admits, where TLC has
looked at one instance.

| theorem | says | for |
|---|---|---|
| `BerryGC_proofs`: `TypeCorrect`, `Invariance` | types; the invariant | every heap, program and step rate (`GCAssumption`) |
| `MarkingSound`, `MarkingComplete` | when nothing is gray, the marked are the reachable | " |
| `UsageIsExact`, `UsageIsBounded`, `UsageIsKept` | the account never drifts; the threshold bounds it | ", step rate at least 100 for the bound |
| `DeinitsContained`, `DeinitCalledOnce` | what deinit methods allocate, store and raise does not disturb the next marking or the account, and after a raise (`RaisingStopsGC`) nothing marks; no second call before one has raised | " |
| `NoDanglingReferences` | no reference to freed memory | programs without deinit methods |
| `BerryText_proofs`: `StrtabInvariant`, `TableExactAlways` | strings hang in the bucket of their hash, but those of calls in which a collection began; the count is exact, raced or not | every set of addresses and texts, every hash, any load limits with `MinLoad >= 2` (`StrtabAssumption`) |
| `UniqueAlways` | one object per text, but for strings in whose insertion a collection began | " |
| `HeldAliveAlways` | no string in use or just linked is freed, except the one a table without memory is growing for (`swept`) | " |
| `BerryText_proofs`: `BytesKept` | the invariant: the bytes are in the buffer, and the buffer is there | any contents, integers and sizes, objects of up to `MaxSize` bytes (`BytesAssumption`), without the events of section 5 (`Rare = {}`) |
| `BytesAreSequences` | bytes objects are sequences of bytes, whatever their buffers: what each method changes and returns, fields of bits, hexadecimal and base64 included | " |
| `BerryData_proofs`: `HeapKept`, `BlocksAreExact` | blocks, lines and contents agree, the usage is exact | any finite set of objects, any sizes, up to 32 lines a pool, any heap (`MemAssumption`) |
| `RefusedWhenFull` | a refused request has no room: after a collection that has freed the dropped and the empty pools or, under GC_HALT, in the heap as it is | " |
| `BerryData_proofs`: `MapKept`, `MapWellLinked` | every key is found where it is and once, no chain leads through a free slot, every walk ends, `nextfree` finds a slot while there is one | any finite set of keys, any hash codes, tables of up to 2^24 - 1 slots (`MapAssumption`) |
| `MapIterComplete` | an iterator misses no key | " |
| `MapImplements` | the hash table is a finite function, and answers as one | " |
| `ListsImplement` | lists are sequences and vectors stacks, whatever their arrays keep beyond the count: what each method changes and returns | any elements, literals and indices, arrays of up to 2^28 cells (`ListAssumption`), without the events of section 5 (`Rare = {}`) |
| `BerryClosures_proofs`: `ClosuresKept`, `TypesKept` | the invariant; types | any variables, finite sets of closures and upvalues, any programs and places of the stack (`ClosuresAssumption`) |
| `LexicalScoping` | a closure reaches the variables it has captured | ", programs that leave blocks at the end or by return (`Plain`, which `Lexical` states) |
| `UpvaluesAreKept` | open upvalues are listed once, counted exactly and not freed in use, in every program; closures of one variable share one, in those that are `Plain` and capture up the stack | " |
| `BerryModule_proofs`: `ImportsKept` | the invariant, with types | any modules, native or in files, any file systems (`ModuleAssumption`) |
| `ImportsAreMeant` | a module comes from the nearest file; a name has one, unless it was imported or set while its own code ran; the paths there are belong to imports that go on and, one each, to those that failed; no values are left unless a search missed a file | " |
| `LfsPair_proofs`: `PairTyped`, `PairConsistent` | types; the invariant | every set of blocks, number of versions, capacity; revisions modulo any even number at least twice `BlockCycles + 3` (`PairAssumption`; 2^32 and 1 to 1000 in practice) |
| `CommitsAreAtomic` | the pair implements `AtomicCommit`: each commit is there as a whole or not at all, whatever tears, goes bad, moves or loses power | " |
| `WearIsSpread` | neither block of a pair is compacted into more than `Modulus` times before it is replaced, whatever fails or loses power | ", where the counter wraps in an odd part of a cycle (`WrapsOdd`: 2^32 mod 513 = 481, for the default `block_cycles`) |
| `Littlefs_proofs`: `VfsTyped`, `TableInvariant` | types; the invariant | any number of tasks, paths and objects, any first size of the array (`VfsAssumption`) |
| `TableAgreesAlways`, `OneUserAlways` | array, list and littlefs's list agree; a descriptor has one user | " |
| `NoOrphansAlways` | no open file is removed or replaced | one path per file (`OneNameEach`): the driver compares the text of paths |
| `DescriptorsAreStable` | a descriptor in use never changes its object | " (`VfsAssumption`) |
| `Littlefs_proofs`: `VolumeInvariant`, `VolumeIsSound` | open paths lead to their files until a folder above them is renamed; an unchanged nonce tells unchanged contents of the same file, unless it was set by hand or could not be written; folders follow their files; access modes are told | any paths, requests, words, settings (`IoAssumption`), failing syncs and attributes included |
| `WordIsKept` | offsets are where each call says; data is on the flash, or the descriptor has erred or failed | " |
| `TftpSystem_proofs`: `TransferInvariant` | types, and the course of a transfer | every file, block size and number of losses (`ServerAssumption`, `SystemAssumption`) |
| `DownloadsInOrder`, `ReadsEndAfter` | downloads hand over the blocks in order and once, all of them; the server ends well only after that | ", in any order of packets |
| `TransfersInOrder`, `UploadsComplete` | the same of uploads | ", over a network that keeps the order |

### The arguments

**Collector.** `MarkSound` is about the moment the gray list is empty, so it is not
inductive. While the collector marks, three facts hold after every step (`Marking`):
the roots are not white, what a dark object refers to is not white, only containers
are gray. When nothing is gray the non-white objects are closed under references and
contain the roots, so they contain `Reachable`, the smallest such set. Completeness
is the converse: each marked object was marked as a root or as a field of a marked
one. The marks must be white between collections (`MarksReset`) - they are, unless a
deinit has raised and the collector is halted - and no deinit may run while it marks
(`DeinitFrame`). Usage needs to know who owns the block an allocation has taken and not
linked (`BlockOwned`). The numbers are unbounded in the model: the code's product
`usage * (steprate + 100)` is a `size_t`, exact up to 12 MB of usage at the highest
rate on a 32-bit machine, more than the 8 MB an ESP32 can have. `DeinitOnce` rests on
`CalledAreFreed`: an instance whose deinit was called stays white until the sweep of
the same collection frees it, even when the deinit has stored it in a global.

**String table.** A collection can come between the lookup of a bucket and the
insertion, so neither exactness nor uniqueness is inductive alone. The invariant says
what a call in progress remembers (`Stack`): where it will insert, that what it has
looked up is still true unless the table was swept or resized, and, if it was, that
the call knows it, so that its string will be `raced`; strings that calls hold are kept (`Kept`); the load stays between its
limits so that shrinking never goes below one bucket (`Load`). What a call has linked is
not yet referred to, so the one collection that can come there, while the table grows, is the
one that frees it (`swept`).

**Allocator.** `HeapOK` is about all blocks at once: a used line is some block's line
(`LinesOwned`), a small block is on a used line of its class and a large one at a place
that no pool has (`BlocksPlaced`), and no two blocks share a place. `malloc_from_pool` and
`free_from_pool` add and remove one block of such a layout; a move holds both blocks for a
moment, which is why the layout is stated for sets of blocks and not for objects. That a
place is left for what there is room for (`NewIdIs`) is a count of pools and large blocks.
What a collection frees, and the pools it keeps, are recursive functions over sets
and lists, and are reasoned about by induction on numbers (`UpTo`, `Recursion`).

**Hash table.** `Chain` computes a set step by step; it is the least set that a link never
leaves (`ChainIs`: a walk that has not ended has found a slot with every step, and there are only `size`).
So chains are reasoned about as such sets, without an order: `Reached` says that a set with a main slot and all
that its nodes lead to has every node of that main slot, `Ends` that every set of
slots has one whose link leaves it, free slots with their stale links included. `Sound` is these two,
with chains that keep to one main slot, start in it and never meet. Insertion
has three cases and removal three shapes; moving a displaced node renames a slot in every chain
(`DisplacedSound`), and both ways to take out a node behind another come to the same (`BypassedSound`). The bound
of `MapAssumption` is the code's: `next` has 24 bits, and `be_nextsize` takes a
table of 2^23 slots to 2^24, whose last slot has the number that ends a chain (`be_map.c:34`).
That the new table of `resize` has room for each key is a count (`SlotLeft`).

**Lists.** `Items` cuts an array at its count, so the proof is about the cells below it: `Holds(l, s)`
says that `l` is an array with room for its elements, and that these are `s`. Every operation has a
lemma that says which sequence its result holds (`PushIs`, `ListInsertIs`, `ListRemoveIs`, `ListResizeIs`,
`MergeIs`, `ReverseIs`), a larger array keeps its cells (`Roomier`), and what is made by pushing one
element after the other, or joined with delimiters, is found by induction on the number of steps
(`PushedAll`, `ConcatIs`). `ListInv` adds that the iterator counts from 0 and that `end` is the count
less one. `resize` is the one that depends on what lies beyond the count: it fills with nil only when
it grows the array, hence `~Regrows`. The bound of `ListAssumption` keeps every size
below 2^30, the last that `be_nextsize` can go beyond in an `int`.

**Bytes.** `Holds(a, s)` says that a copy of the attributes has the bytes `s` in the first cells of
its buffer; what is behind them is anything. Each of realloc, resize, set_len, add and set keeps it of
the sequence it should, so a method is a chain of such lemmas and a comparison with
`AbstractBytes`. A new object has room for one byte less than a range selects, and the headroom, which
therefore must not be 0. Fields of bits: the blocks of the loop tile the field (`Tiles`), the
sum of the blocks is the sum of the bits by induction on the blocks (`TotalSteps`), and a
byte is the number of its eight bits, so that two bytes with the same bits are equal. Base64 takes three
bytes to four digits of six bits (`Six`) and back. The invariant (`BytesInv`) adds that the
length fits in the buffer and that no method leaves the address of a buffer that is gone. The
lemmas hold for a field of up to 14 bits at any place, and any value; the calls of the model use four
places, five lengths and one value.

**Closures.** `UpvaluesKept` holds of every program, `Lexical` of those whose blocks all end with
what the compiler emits there, so the invariant has three layers. `Sound` and `Accounted` need nothing of
the program: slots, frames, blocks and closures are in shape, the list has the open upvalues each once, an open upvalue points into
the stack, a counter is the number of places in closures that hold the upvalue. `Scoped` is about
plain programs: blocks begin in the order in which they were opened, the innermost block around an
open upvalue is marked as captured, so that its way out closes it (`Emitted`), an upvalue leads to
the variable it was made for (`Meant`), and a variable is in one place (`Apart`): this is what a
move of the stack, a return and an iteration have to keep. `Joined` adds, for programs that
capture up the stack, that the list descends: `findupval` stops at the first smaller address, so only then
does it find every upvalue there is, and a variable has one (`Unique`). What `be_initupvals` and
`be_release_upvalues` do to all descriptors of a closure are folds, done by induction on the number of
descriptors.

**Imports.** What `load_package` finds is a fold over places and suffixes, what is meant the least
of the files in an order; `SearchIsMeant` joins them: after `i` places the search
has found nothing and there is nothing, or it has found the first suffix in the first of the places that has one
(`Searched`, by induction on `i`). The invariant says that cache and meaning agree and that no module is in the cache while its
code runs, which runs once (`Cache`), of every name that is not `cycled`: an import or a
`setmodule` of a running module ends it for that name only, because what is cached and what runs is
said name by name (`Agree`, `Distinct`). Each frame but the main program's has a path exactly while its body
runs (`Frames`), so the paths that are allocated can be counted: those of the frames and the
`lost` (`Balance`).

**Metadata pair.** The refinement reads the newer valid block. The invariant says that
the memory of a mounted pair follows that block (`DirFollows`), that the block that
counts is the newer one modulo wrap-around (`CurrentWins`: revisions are never
further apart than the cycles between moves, hence the bound), what is erased and
what is written where a program may tear. Each step then maps to a step of
`AtomicCommit` or to none, and a power loss in the middle shows the old or the new
contents.

**Wear.** The blocks of a pair take turns, so the place of the revision in its cycle of
`Modulus` bounds both counts (`Fair`): at an even place the current block has joined last,
at an odd one the other. A cycle ends at an even place, since `Modulus` is odd, with the
older block's turn to be written, and it is that one that is replaced. A commit that is cut off, or a
block that is bad, changes neither the place nor the order. The wrap of the counter may cut a
cycle short; at an odd place it would replace the younger block twice in a row, hence
`WrapsOdd`.

**Descriptors.** `TableAgrees` follows from who holds which object at which point of an
operation: `Agreed` for a table at rest, `Away` for the object that an open or a
truncate has outside of it, `Ready` for what a task may pass as a descriptor.

**Volume.** Paths are sequences of names, ordered by prefix; `lfs_rename` maps what is behind
`src` behind `dst` and back (`MovedBack`, `MovedOrder`), so it keeps trees (`RenamedTree`) and
merges no two files (`RenamedFiles`). `NonceTells` compares a file with what a program has
noted of it, perhaps long ago; `NoteSafe` says what holds between: while somebody has
the noted file open for writing its nonce is already ahead, because open touches it
before a byte changes, and so a sync, which changes data and no nonce, does no harm. It
needs that a file has one path (`OneId`) and that an open path leads to its file
(`PathsHold`): the driver asks for both by path. That what is not synced was opened for writing
(`Opens`) holds because a truncating open is synced at once. An empty folder that nobody has
excused would have to have lost its last entry to an unlink or a rename, and those go up the
path they have emptied (`RmdirsTree`).

**TFTP.** Downloads: block `n` is a function of `n` (`Chunk`), so it does not matter
which of several copies arrives; the server is never more than one block ahead of
what the client has acknowledged, and an acknowledgement on its way names a block
that the client has. A short block is the last, so when it has been acknowledged the
client has everything. Uploads: an acknowledgement tells that its block has been
written, and no request is behind a block on the way to the server (`Sorted`), so a
repeated request can truncate the file only while it is empty. With reordering it can
truncate it later (section 5), hence the assumption `~Reorder`.

### What stays with TLC

* Liveness: `ReturnsUnlessAborted`, `Halts`, `CallsReturn` (fairness and ENABLED are out of
  the prover's reach).
* Modules with RECURSIVE operators, in which the prover loses its SMT backend:
  `BerryParser`, `BerryCode`, `BerryMeaning` and `BerryVM` (`RunsAsWritten`), `BerryClass`
  (`ObjectsMeant`), `BerryBytecode` (`LoadsWhatWasSaved`),
  `LfsTags` (`LogsTell`), `AtomicTree` and `LfsTree` (`OrphansFlagged`, `AllAtomic`), `LfsDir`
  (`PlacesKept`), `LfsFile` (`ListsSound`, `KeepsPromise`, `SpaceIsUsed`).

## 5. Where the code departs from its comments, and what the runs leave out

### The finding
`LittlefsVfs_stuck`: `vfs_littlefs_pread` and `vfs_littlefs_pwrite` leave by `goto exit`
when a seek fails (`L/esp_littlefs.c:1122`, 1128, 1180, 1186), behind the `sem_give`: the
call returns -1 and keeps the mutex, and every other task that uses the volume waits for
ever, while `test_littlefs.c:550` says "multiple tasks can use same volume". A negative
offset is enough. `CallsReturn` is violated; every other property of the driver holds
with this behaviour in the model.

### Situations in which a property fails
Each is modelled; the tag in quotation marks lets the runs reach it.

* **LfsTree.** "full": no block is free for a pair that is tired, so it is relocated in place,
  without its share of the global state (`lfs.c:1899`); a mount can then see a rename twice, although
  `littlefs/README.md:111` promises that renames are atomic. "intoItself": a directory is renamed into one below it, which
  `lfs_rawrename` (3695-3824) does not refuse; it leaves the tree. "cutAndMoved": a compaction
  both cuts a pair and relocates it. "laterMoved": a relocation in a mkdir whose first
  commit took a change of the global state along (2431-2438). "midway": power is lost, or
  another pair compacted, when a relocated directory with others in it is in the tree and
  not yet in the list. `LFS_ASSERT(pdir)` at 2032 can be reached: a rename takes the last entry of a
  directory and its target moves (`AssertsHold`, which no run checks).
* **LfsPair.** Values of `block_cycles` for which 2^32 mod `Modulus` is even (`Modulus` is
  `(block_cycles + 1) | 1`; the default 512 and 500 are no such values, 100 is one): when the counter wraps, one
  block of a pair is replaced twice in a row, and the other lives up to half a cycle longer
  than `WearSpread` says. TLC shows
  it with `RevMod = 8`.
* **LfsFile.** "sought": a seek into the next block from where the last one has been read
  to its end (3490-3507). "shortened": a file is shortened to the end of a block (3541).
  "behind": blocks are looked for when an open file is in a block further than its position
  says: the traversal (4330-4331) misses that block. An outlining that fails leaves a
  block number that means "inline" in a file without that flag; a second handle that only
  reads is not traversed.
* **LfsDir.** "ahead": the entry that a stream reads next is removed (2141-2145). "followed":
  an open file's entry is deleted while its pair is cut, and the handle follows the cut.
  "alias": the blocks of a pair that was dropped come back while somebody stands in it.
* **BerryVM.** "kept", "joined": a move is made by changing the last instruction, although its
  register is a variable's, or a jump arrives in between (`be_code.c:84-103`).
  "overwritten": the value of a condition is written over the variable it ends with
  (`be_code.c:459-477`; `tests/bool.be:20-22` calls the case of a negation a bug). "open": a statement that is a
  condition with pending jumps, which go nowhere (`be_parser.c:1022-1031`). "unread": a
  statement that is an access to a member or item: the access is not made. "leaked":
  the iterator of a loop is not in the register that `.it` gets. Functions that run for ever are left out.
* **BerryList.** "regrown": a list made longer within its capacity shows what its cells held
  (`be_list.c:129-146`; `tests/list.be:25-27` expects nil). "before": a negative index writes before
  the array (`be_api.c:702-709`). "moved": an iterator goes on after its list has moved to
  grow (`be_listlib.c:283`).
* **BerryBytes.** "refused": add makes room and then refuses its arguments, and the object
  keeps the old address (`be_byteslib.c:778-805`). "itself": an object that grows is connected with
  itself (1095-1120). "before": several bytes at a negative index (321-396). "halfway": setbits
  goes beyond the end after it has set some (1403-1425). "capped": what does not fit
  into the largest buffer is left out without an error.
* **BerryClass.** "moved": a method is replaced, or is a static of another class too, and
  `super()` looks for its class (`be_baselib.c:80-100`). "truth": `member` answers anything for
  `tobool` (`be_vm.c:256-271`). "setmember": a `setmember` that is kept in a variable.
* **BerryBytecode.** "cut": a file is shorter than what was written to it; the results of
  fwrite and fread are ignored. "collected": a collection at `be_newproto` (`be_bytecode.c:534`) frees
  the name that was just read. "builtins": a file from a build with fewer builtins. "mixed":
  with named globals, code that has indices is saved; the test against it (196-199)
  compares a whole instruction with an opcode and never fires. "bare": a class without
  members has no map. "nested": a class in a method. "long": a string whose length does not
  fit 16 bits.

### Other departures, modelled as they are
* `be_func.c`: an upvalue may be inserted out of order of the stack when the list is searched
  (line 21); the model searches as the code does. `continue`, early `return`, exceptions and `break`
  leave upvalues open for longer than their block (`be_code.c:770`, `be_exec.c:456`, `be_parser.c:209`).
* `be_gc.c:22` and 529 disagree on what pausing means. An object that its deinit has stored
  is freed nevertheless (560, 563).
* `be_string.c:71`: the bucket that was looked up is used after an allocation: two
  objects of one text are possible after a collection there (`raced`). The string is linked before
  the table grows (80, 201); when there is no memory for that, the collection of `be_realloc`
  (`be_mem.c:110-113`) frees it, white as it is, and its caller gets a pointer to free memory (`swept`).
* `be_mem.c:107-113`: a request that fails while GC_HALT is set is refused without a collection,
  although there are dropped blocks and empty pools (`be_gc.c:560`); after a deinit has raised (`be_gc.c:468`)
  that is so for ever. `FailsOnlyWhenFull` says what is left: the heap as it is has no room.
* `be_module.c`: a module is not in the cache while its code runs, so a name that is imported
  then runs again and may stand for two modules (`cycled`, 285). Code that raises leaves
  the path of its import allocated (174-190, `lost`). When the search misses a file on its way, what it has
  pushed stays on the stack (`missed`).
* `be_mem.c:250`: the bitmap test of the larger pool uses the smaller one's slot size; the
  comparison still separates the pools.
* `tftp_server.c`: a received block is written with one byte too many, and every 513th byte
  of a file that is read is dropped; `InOrder` and `UploadComplete` are stated of what
  is left (`Chunk`, `Stored`). After a failed acknowledgement the buffer holds the error packet
  with the length of the block (243). A request that is repeated and arrives late truncates what has been
  uploaded so far. An error packet in an upload is examined for ever, although
  `tftp_server.h:50` calls the loop non-blocking; hence `ReturnsUnlessAborted`.
* `esp_littlefs.c`: registering twice frees a context that is mounted (698); a failed
  format leaves a temporary context; a failed close keeps the entry of a freed file in
  the array (1232); descriptors are compared with `> cache_size`, one too weak. These end
  the model (`lost`) or are in it. Further: `O_APPEND` counts only when it is the only flag
  (552), `O_CREAT|O_RDONLY` opens without a mode, a folder may be moved into itself,
  pwrite does not flush when each write should, and rmdir leaves the parents that open made.
* `esp_littlefs.c`, in LittlefsIo: a folder is renamed while a file below it is open, whose stored path is
  stale then (1462; `strayed`). The result of the sync in open (1000-1012) and in write with the
  setting for it (1051) is ignored: the call succeeds, and only the handle (`LFS_F_ERRED`) shows that the
  data is not on the flash. That the nonce of an open cannot be written is ignored too, and a time may
  be set by hand; of what a program has noted of that file nothing is claimed from then on. A path that leads to another file
  after a removal has a nonce that begins at 1 again (compare `Kconfig:117-118`): `NonceTells` is about
  the file and claims nothing of the other. A failed format may leave any part of
  the files there were (370-402).
* `lfs.c`: `dir->erased` is not set after a compaction, so the first commit after one
  compacts again.

## 6. What is left out

| part | left out | why |
|---|---|---|
| all | word widths, unless a property is about them; wording, logging, statistics | no effect on the properties |
| collector, maps, strings | NaN as a key, a map that changes while it is walked, failing allocations inside map and list operations, long strings and strings in flash | numbers and failures multiply the states; long strings are not shared |
| compiler, machine | the lexer, most operators, reals, upvalues in `BerryParser` (`BerryClosures` has them), named globals (`BerryBytecode` has them), methods (`BerryClass` has them) | one operator of a kind takes the path of all |
| classes, modules | a class statement that runs again, `class A : A`, ancestors that are constants, static init, native classes, the method `()`; shared libraries | the build has no shared libraries; the others are programs no library uses |
| lists | a negative size, joining to text, `be_list_pool_*` | nothing calls the pool |
| bytes | deinit, and the check for a null pointer that goes with it (`be_byteslib.c:440`, 622); the start argument of `fromhex` (1214-1222); the errors of `getbits` and `setbits` for more than 32 bits (1368, 1404); a negative size in `resize`, which counts as 0; conversions to text and numbers | arguments that are refused, or clipped, before anything is done |
| string table | a table that finds no memory even after the collection | the exception leaves the string linked and the table as it was, too full |
| littlefs | the block caches, format and mount of the superblock and its expansion, migration; more than one cut or move in a commit; a rename whose first commit relocates; `block_cycles = -1`; the correction of a pair's parent after a relocation is one atomic step of `LfsPair`, and does not fail after memory has taken the new pair (`lfs.c:2209-2211`, 2306) | a program or an erase is a step, whatever the cache holds; the driver gives `block_cycles` a positive number |
| driver | information functions, two spellings of one path, the partition; in LittlefsIo what a handle holds that has failed in the middle of a transfer (it is only closed), failing closes (`LittlefsVfs` has them), a loss of power within a call | the driver compares the text; the partition is the medium of the littlefs models; a power loss inside littlefs is theirs too |
| TFTP | a second client, start and stop, failing sends and writes, options, block numbers past 65535 | stop frees the buffer under the task: any property fails at once |

Components without a model: the **host interface** (wrappers around what is modelled);
**JSON, strings, math** and the other libraries (sequential, covered by the tests of `berry/tests`); the
**REPL** (one loop around a compilation); the **port** (calls of the C library);
**mapping and ctypes** (conversion of arguments); **mounting** (three calls in a row); **Wi-Fi** (its
event handlers mostly call a driver that is not in the repository: at the first
disconnection the handler calls `wifi_stop`, which deletes the loop it runs in,
so that `wifi_init_sta` waits for ever, while the comment at `wifi.c:238` promises an
answer; and the handlers are unregistered on return, so that `wifi_connected` goes
stale); the **host tools**.

Hazards without a property: the acknowledgement before the write (`tftp_server.c:176`), the
stopping of the TFTP task from another (398), formatting without the lock while others are
inside (`esp_littlefs.c:367`), the assertion of `lfs.c:2032`.

Definitions that state more than the runs check: `NoOther` (`BerryClosures`), `ServerReturns`, `SweepsUnreachable` (`BerryGC`), `AssertsHold` and `StateTracked`
(`LfsTree`), `HandlersMatch` (`BerryVM`); most are false in the situations above.

## 7. The plan

1. Proofs: the recursive definitions of `LfsTree` and `BerryClass` as recursive functions, so
   that their invariants can be proved.
2. Models: the registration of file systems and the mount at start, `be_jsonlib`, the REPL's
   line reader, the Wi-Fi station with its event loop.
