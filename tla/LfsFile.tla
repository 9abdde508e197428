------------------------------- MODULE LfsFile -------------------------------
(***************************************************************************)
(* Files of littlefs (lfs.c) and the block allocator.  A small file is     *)
(* kept in its directory entry; a larger one is a backwards skip list of   *)
(* blocks, extended and copied on write into new blocks, and it replaces   *)
(* the old one when the entry is committed.  lfs_alloc finds blocks by     *)
(* traversing everything that is in use, a window of blocks at a time.     *)
(*                                                                         *)
(* Abstractions.  The unit is a word, the size of a block pointer.  What   *)
(* is programmed is on the flash at once; whether a position is in the     *)
(* cache, which only seeks ask, is arbitrary.  The entry is committed at   *)
(* once or not at all (LfsPair).  Each file has at most one handle, opened *)
(* to read and write.  A call is one step: the driver lets in one at a     *)
(* time.                                                                   *)
(***************************************************************************)
EXTENDS Integers, Sequences, FiniteSets, SequencesExt

CONSTANTS
    Files,
    BlockCount,     \* blocks besides those of the metadata
    BlockSize,      \* words in a block
    InlineMax,      \* words of the largest file that is kept in its entry
    Lookahead,      \* blocks that lfs_alloc looks at in one traversal
    InitialSizes,   \* sizes of the files on the flash
    Modes,          \* "rw", "append", "trunc"
    Lengths,        \* words written or read by a call
    Marks,          \* positions for seek and truncate
    Moved,          \* files that the program also reads, seeks and truncates
    Worn, Damage,   \* blocks of which one may be bad, and from which offsets on; see bad
    Seeds,          \* blocks that the allocator may start from when mounted
    MaxOperations,  \* bound
    Rare            \* rare events that may happen: subset of {"sought", "shortened", "behind"}

VARIABLES
    flash,      \* block -> [ptrs, data]: the pointers at its start, the words behind
    ents,       \* the committed entry of each file: [head, size, data]
    file,       \* the lfs_file_t of each file, or NoFile
    free,       \* lfs->free
    bad,        \* block -> the offset from which on it cannot be programmed; rigid
    got,        \* what the last read has returned
    error,      \* what the last call on each file has failed with, or "none"
    operations  \* for the bound

vars == <<flash, ents, file, free, bad, got, error, operations>>

Blocks == 0 .. BlockCount - 1
Null == -1      \* LFS_BLOCK_NULL
Inline == -2    \* LFS_BLOCK_INLINE
Erased == [ptrs |-> <<>>, data |-> <<>>]

Lesser(a, b) == IF a < b THEN a ELSE b
Greater(a, b) == IF a > b THEN a ELSE b

-----------------------------------------------------------------------------
(* The skip list.  Block i > 0 starts with ctz(i) + 1 pointers, to the blocks
   i - 1, i - 2, i - 4 ... *)

popc[n \in Nat] == IF n = 0 THEN 0 ELSE (n % 2) + popc[n \div 2]
ctz[n \in Nat \ {0}] == IF n % 2 = 1 THEN 0 ELSE 1 + ctz[n \div 2]
npw2[n \in Nat \ {0}] == IF n = 1 THEN 0 ELSE 1 + npw2[(n + 1) \div 2]

\* By counting: where the blocks of a list start, and the positions that there can be.
Room(i) == BlockSize - IF i = 0 THEN 0 ELSE ctz[i] + 1
StartOf[i \in Nat] == IF i = 0 THEN 0 ELSE StartOf[i - 1] + Room(i - 1)
Positions == 0 .. StartOf[BlockCount + 1]

\* lfs_ctz_index: which block of the list has a position, and where in the block.
Index == [pos \in Positions |->
    LET b == BlockSize - 2
        i == pos \div b
        j == (pos - (popc[i - 1] + 2)) \div b
    IN  IF i = 0 THEN [i |-> 0, off |-> pos] ELSE [i |-> j, off |-> pos - b * j - popc[j]]]

ASSUME FileAssumption ==
    /\ InlineMax < BlockSize
    /\ \A i \in 0 .. BlockCount - 1, off \in 0 .. BlockSize - 1 :
          off < Room(i) => Index[StartOf[i] + off] = [i |-> i, off |-> off + BlockSize - Room(i)]

\* A pointer, as it is read from the flash.
PointerAt(fl, b, k) == IF b \in Blocks /\ k + 1 <= Len(fl[b].ptrs) THEN fl[b].ptrs[k + 1] ELSE Null

RECURSIVE Hops(_, _, _, _)
Hops(fl, b, current, target) ==
    IF current <= target THEN b
    ELSE LET skip == Lesser(npw2[current - target + 1] - 1, ctz[current])
         IN  Hops(fl, PointerAt(fl, b, skip), current - 2 ^ skip, target)

\* lfs_ctz_find: the block that has pos, and where.
CtzFind(fl, head, size, pos) ==
    IF size = 0 THEN [block |-> Null, off |-> 0]
    ELSE [block |-> Hops(fl, head, Index[size - 1].i, Index[pos].i), off |-> Index[pos].off]

\* lfs_ctz_traverse.
RECURSIVE Walk(_, _, _)
Walk(fl, b, i) ==
    {b} \cup IF i = 0 THEN {}
             ELSE IF i % 2 = 1 THEN Walk(fl, PointerAt(fl, b, 0), i - 1)
             ELSE {PointerAt(fl, b, 0)} \cup Walk(fl, PointerAt(fl, b, 1), i - 2)
ChainOf(fl, head, size) == IF size = 0 THEN {} ELSE Walk(fl, head, Index[size - 1].i)

\* The word at an offset of a block, and at a position of a list, as it is read.
RawWord(fl, b, off) ==
    IF b \in Blocks /\ off - Len(fl[b].ptrs) + 1 \in DOMAIN fl[b].data
    THEN fl[b].data[off - Len(fl[b].ptrs) + 1] ELSE Null
WordAt(fl, head, size, pos) ==
    LET at == CtzFind(fl, head, size, pos) IN RawWord(fl, at.block, at.off)

\* The first n words of a list, going from block to block.
TextOf(fl, head, size, n) ==
    LET at[i \in Nat] == IF i >= Index[size - 1].i THEN head ELSE PointerAt(fl, at[i + 1], 0)
    IN  [k \in 1 .. n |-> RawWord(fl, at[Index[k - 1].i], Index[k - 1].off)]

-----------------------------------------------------------------------------
(* A call works on s, a record of the variables that it may change; s.err is
   what it has failed with, or "none". *)

Failed(s) == s.err # "none"
Then(s, Step(_)) == IF Failed(s) THEN s ELSE Step(s)

NoFile == [flags |-> {}, append |-> FALSE, pos |-> 0, off |-> 0, block |-> Null, head |-> Null,
           size |-> 0, data |-> <<>>]
Has(f, flag) == flag \in f.flags
OnFlash(f) == ~Has(f, "inline")

Traverse_entries(s) ==   \* mutant: forgets what open files have not committed yet
    UNION {ChainOf(s.flash, s.ents[x].head, s.ents[x].size) : x \in {y \in Files : s.ents[y].head # Inline}}

\* lfs_fs_rawtraverse: the entries, and what open files have beyond them.
Traverse(s) ==
    UNION {ChainOf(s.flash, s.ents[x].head, s.ents[x].size) : x \in {y \in Files : s.ents[y].head # Inline}}
    \cup UNION {
        LET f == s.file[x]
        IN  (IF Has(f, "dirty") /\ OnFlash(f) THEN ChainOf(s.flash, f.head, f.size) ELSE {}) \cup
            (IF Has(f, "writing") /\ OnFlash(f) THEN ChainOf(s.flash, f.block, f.pos) ELSE {}) :
        x \in {y \in Files : Has(s.file[y], "opened")}}

Ack_none(s) == s         \* mutant: goes on with the count of the calls before
Ack(s) == [s EXCEPT !.free.ack = BlockCount]

\* Rare: blocks are looked for when an open file is in a block further than its position says,
\* since it has to leave that block before anything is written to it.
Behind(s) ==
    \E x \in Files :
        LET f == s.file[x]
        IN  /\ Has(f, "writing") /\ OnFlash(f) /\ f.pos > 0
            /\ Len(s.flash[f.block].ptrs) # BlockSize - Room(Index[f.pos - 1].i)

\* lfs_alloc: s.block is the block.
FreeAt(s) == {i \in s.free.i .. s.free.size - 1 : (s.free.off + i) % BlockCount \notin s.free.used}
Lookup(s) ==
    [s EXCEPT !.rare = @ \/ Behind(s),
              !.free = [off |-> (@.off + @.size) % BlockCount, size |-> Lesser(Lookahead, @.ack), i |-> 0,
                        ack |-> @.ack, used |-> Traverse(s)]]
Passed(s, i) == [s EXCEPT !.free.ack = @ - (i - s.free.i), !.free.i = i]

RECURSIVE Alloc(_)
Alloc(s) ==
    LET here == FreeAt(s)
        first == CHOOSE i \in here : \A j \in here : i <= j
        rest == (here \ {first}) \cup {s.free.size}
    IN  IF here # {}
        THEN [Passed(s, CHOOSE i \in rest : \A j \in rest : i <= j)
                EXCEPT !.block = (s.free.off + first) % BlockCount]
        ELSE IF s.free.ack = s.free.size - s.free.i THEN [Passed(s, s.free.size) EXCEPT !.err = "nospc"]
        ELSE Alloc(Lookup(Passed(s, s.free.size)))

\* lfs_alloc and lfs_bd_erase until there is a block that takes `content'.
Fits(b, n) == n <= bad[b]
RECURSIVE NewBlock(_, _)
NewBlock(s, content) ==
    Then(Alloc(s), LAMBDA a :
        IF bad[a.block] # 0 /\ Fits(a.block, Len(content.ptrs) + Len(content.data))
        THEN [a EXCEPT !.flash[a.block] = content]
        ELSE NewBlock([a EXCEPT !.flash[a.block] = Erased], content))

\* What is at the start of a block, up to offset off.
Upto(c, off) ==
    [ptrs |-> c.ptrs, data |-> SubSeq(c.data, 1, off - Len(c.ptrs))]

\* The first n pointers of a block that follows b.
Pointers(fl, b, n) ==
    LET to[k \in 0 .. n - 1] == IF k = 0 THEN b ELSE PointerAt(fl, to[k - 1], k - 1)
    IN  [i \in 1 .. n |-> to[i - 1]]

\* What the block starts with that follows b, or takes its place, in a list of some size.
Start(fl, b, size) ==
    LET last == Index[size - 1]
    IN  IF size = 0 THEN Erased
        ELSE IF last.off + 1 # BlockSize THEN Upto(fl[b], last.off + 1)
        ELSE [ptrs |-> Pointers(fl, b, ctz[last.i + 1] + 1), data |-> <<>>]

\* lfs_ctz_extend: s.block is the block to go on with.
CtzExtend(s, b, size) == NewBlock(s, Start(s.flash, b, size))

-----------------------------------------------------------------------------
(* Parts of the calls. *)

Update(s, x, f) == [s EXCEPT !.file[x] = f]
Marked(s, x) == IF Failed(s) THEN [s EXCEPT !.file[x].flags = @ \cup {"erred"}] ELSE s

\* What is already there when ws is programmed behind k words is spoilt.
Over(data, k, ws) ==
    [i \in 1 .. Greater(Len(data), k + Len(ws)) |->
        IF i \notin k + 1 .. k + Len(ws) THEN data[i] ELSE IF i <= Len(data) THEN Null ELSE ws[i - k]]
Copied(data, k, ws) ==
    [i \in 1 .. Greater(Len(data), k + Len(ws)) |->
        IF i \in k + 1 .. k + Len(ws) THEN ws[i - k] ELSE data[i]]

\* lfs_file_relocate.
Relocate(s, x) ==
    LET f == s.file[x]
    IN  Then(NewBlock(s, IF OnFlash(f) THEN Upto(s.flash[f.block], f.off)
                         ELSE [ptrs |-> <<>>, data |-> SubSeq(f.data, 1, f.off)]),
             LAMBDA n : Update(n, x, [f EXCEPT !.block = n.block, !.flags = @ \cup {"writing"}]))

\* lfs_file_outline.
Outline(s, x) ==
    Then(Marked(Relocate(Ack([s EXCEPT !.file[x].off = s.file[x].pos]), x), x),
         LAMBDA r : [r EXCEPT !.file[x].flags = @ \ {"inline"}])

\* lfs_bd_prog of ws where the file is, in another block if this one is bad.
RECURSIVE Prog(_, _, _)
Prog(s, x, ws) ==
    LET f == s.file[x]
    IN  IF ~OnFlash(f) THEN Update(s, x, [f EXCEPT !.data = Copied(@, f.off, ws)])
        ELSE IF Fits(f.block, f.off + Len(ws))
        THEN [s EXCEPT !.flash[f.block].data = Over(@, f.off - Len(s.flash[f.block].ptrs), ws)]
        ELSE Then(Marked(Relocate(s, x), x), LAMBDA r : Prog(r, x, ws))

\* The block that the next word goes into.
NextBlock(s, x) ==
    LET f == s.file[x]
        from == IF ~Has(f, "writing") /\ f.pos > 0
                THEN CtzFind(s.flash, f.head, f.size, f.pos - 1).block ELSE f.block
    IN  IF Has(f, "writing") /\ f.off # BlockSize THEN s
        ELSE IF ~OnFlash(f)
        THEN Update(s, x, [f EXCEPT !.block = Inline, !.off = f.pos, !.flags = @ \cup {"writing"}])
        ELSE Then(Marked(CtzExtend(Ack(s), from, f.pos), x), LAMBDA e :
                Update(e, x, [f EXCEPT !.block = e.block,
                                       !.off = Len(e.flash[e.block].ptrs) + Len(e.flash[e.block].data),
                                       !.flags = @ \cup {"writing"}]))

\* The loop of lfs_file_flushedwrite.
RECURSIVE WriteWords(_, _, _)
WriteWords(s, x, ws) ==
    IF ws = <<>> THEN s
    ELSE Then(NextBlock(s, x), LAMBDA r :
            LET k == Lesser(Len(ws), BlockSize - r.file[x].off)
            IN  Then(Prog(r, x, SubSeq(ws, 1, k)), LAMBDA p :
                    WriteWords(Ack([p EXCEPT !.file[x].pos = @ + k, !.file[x].off = @ + k]), x,
                               SubSeq(ws, k + 1, Len(ws)))))

\* lfs_file_flushedwrite.
FlushedWrite(s, x, ws) ==
    LET f == s.file[x]
    IN  Then(IF ~OnFlash(f) /\ Greater(f.pos + Len(ws), f.size) > InlineMax THEN Outline(s, x) ELSE s,
             LAMBDA r : WriteWords(r, x, ws))

\* The words from the position to the end are copied behind what was written.
RECURSIVE CopyRest(_, _)
CopyRest(s, x) ==
    LET f == s.file[x]
    IN  IF f.pos >= f.size THEN s
        ELSE IF f.head = Inline THEN [s EXCEPT !.err = "corrupt"]
        ELSE Then(FlushedWrite(s, x, <<WordAt(s.flash, f.head, f.size, f.pos)>>),
                  LAMBDA r : CopyRest(r, x))

Flush_short(s, x) ==     \* mutant: what follows the position is lost
    LET f == s.file[x]
    IN  IF Has(f, "writing")
        THEN Update(s, x, [f EXCEPT !.head = f.block, !.size = Greater(f.pos, IF OnFlash(f) THEN 0 ELSE f.size),
                                    !.flags = (@ \ {"reading", "writing"}) \cup {"dirty"}])
        ELSE Update(s, x, [f EXCEPT !.flags = @ \ {"reading"}])

\* lfs_file_flush.
Flush(s, x) ==
    LET f == [s.file[x] EXCEPT !.flags = @ \ {"reading"}]
    IN  IF ~Has(f, "writing") THEN Update(s, x, f)
        ELSE Then(IF OnFlash(f) THEN CopyRest(Update(s, x, f), x)
                  ELSE Update(s, x, [f EXCEPT !.pos = Greater(@, f.size)]), LAMBDA c :
                LET g == c.file[x]
                IN  Update(c, x, [g EXCEPT !.head = g.block, !.size = g.pos, !.pos = f.pos,
                                           !.flags = (@ \ {"writing"}) \cup {"dirty"}]))

FlushIf(flag, s, x) == IF Has(s.file[x], flag) THEN Flush(s, x) ELSE s

RECURSIVE ZerosUpTo(_, _, _)
ZerosUpTo(s, x, pos) ==
    IF s.file[x].pos >= pos THEN s
    ELSE Then(FlushedWrite(s, x, <<0>>), LAMBDA r : ZerosUpTo(r, x, pos))

\* lfs_file_rawwrite.
RawWrite(s, x, ws) ==
    Then(FlushIf("reading", s, x), LAMBDA r :
        LET f == r.file[x]
            at == IF f.append /\ f.pos < f.size THEN f.size ELSE f.pos
            from == IF ~Has(f, "writing") /\ at > f.size THEN f.size ELSE at
        IN  Then(ZerosUpTo([r EXCEPT !.file[x].pos = from], x, at), LAMBDA z : FlushedWrite(z, x, ws)))

\* lfs_file_flushedread: the words are added to s.got.
RECURSIVE ReadWords(_, _, _)
ReadWords(s, x, n) ==
    LET f == s.file[x]
        at == IF ~OnFlash(f) THEN [block |-> Inline, off |-> f.pos]
              ELSE CtzFind(s.flash, f.head, f.size, f.pos)
        g == IF Has(f, "reading") /\ f.off # BlockSize THEN f
             ELSE [f EXCEPT !.block = at.block, !.off = at.off, !.flags = @ \cup {"reading"}]
        k == Lesser(n, BlockSize - g.off)
    IN  IF n <= 0 THEN s
        ELSE ReadWords([s EXCEPT !.file[x] = [g EXCEPT !.pos = @ + k, !.off = @ + k],
                                 !.got = @ \o [i \in 1 .. k |->
                                     IF ~OnFlash(g) THEN g.data[g.off + i]
                                     ELSE RawWord(s.flash, g.block, g.off + i - 1)]], x, n - k)

\* lfs_file_rawseek.
RawSeek(s, x, pos, incache) ==
    LET f == s.file[x]
    IN  IF f.pos = pos THEN s
        ELSE IF ~Has(f, "writing") /\ Index[f.pos].i = Index[pos].i /\ incache
        THEN Update(s, x, [f EXCEPT !.pos = pos, !.off = Index[pos].off])
        ELSE Then(Flush(s, x), LAMBDA r : [r EXCEPT !.file[x].pos = pos])

RawSize(f) == IF Has(f, "writing") THEN Greater(f.pos, f.size) ELSE f.size

\* lfs_file_rawtruncate to less, and to more.
Shorten(s, x, n) ==
    Then(Flush(s, x), LAMBDA r :
        LET f == r.file[x]
            at == CtzFind(r.flash, f.head, f.size, n)
        IN  Update(r, x, [f EXCEPT !.block = at.block, !.off = at.off, !.pos = n, !.head = at.block,
                                   !.size = n, !.flags = @ \cup {"dirty", "reading"}]))

RECURSIVE RawZerosUpTo(_, _, _)
RawZerosUpTo(s, x, pos) ==
    IF s.file[x].pos >= pos THEN s ELSE Then(RawWrite(s, x, <<0>>), LAMBDA r : RawZerosUpTo(r, x, pos))

RawTruncate(s, x, n, incache) ==
    LET size == RawSize(s.file[x])
    IN  Then(IF n < size THEN Shorten(s, x, n)
             ELSE IF n > size THEN Then(RawSeek(s, x, size, incache), LAMBDA r : RawZerosUpTo(r, x, n))
             ELSE s,
             LAMBDA r : RawSeek(r, x, s.file[x].pos, incache))

\* lfs_file_rawsync; the commit may fail.
RawSync(s, x, committed) ==
    IF Has(s.file[x], "erred") THEN s
    ELSE Then(Marked(Flush(s, x), x), LAMBDA r :
            LET f == r.file[x]
            IN  IF ~Has(f, "dirty") THEN r
                ELSE IF ~committed THEN Marked([r EXCEPT !.err = "io"], x)
                ELSE [r EXCEPT !.file[x].flags = @ \ {"dirty"},
                               !.ents[x] = [head |-> f.head, size |-> f.size,
                                            data |-> IF OnFlash(f) THEN <<>> ELSE SubSeq(f.data, 1, f.size)]])

-----------------------------------------------------------------------------
(* The calls. *)

State == [flash |-> flash, ents |-> ents, file |-> file, free |-> free, got |-> got,
          block |-> Null, err |-> "none", rare |-> FALSE]

\* A call on file x leads to s.
Become(s, x) ==
    /\ s.rare => "behind" \in Rare
    /\ flash' = s.flash /\ ents' = s.ents /\ file' = s.file /\ free' = s.free /\ got' = s.got
    /\ error' = [error EXCEPT ![x] = s.err]
    /\ operations < MaxOperations /\ operations' = operations + 1
    /\ UNCHANGED bad

\* What the program calls on a file: after a call that fails, only close.
Usable(x) == Has(file[x], "opened") /\ error[x] = "none"

Open(x) ==
    /\ ~Has(file[x], "opened")
    /\ \E mode \in Modes :
          LET trunc == mode = "trunc"
              inline == trunc \/ ents[x].head = Inline
          IN  Become([State EXCEPT !.file[x] =
                  [flags |-> {"opened"} \cup (IF trunc THEN {"dirty"} ELSE {}) \cup (IF inline THEN {"inline"} ELSE {}),
                   append |-> mode = "append", pos |-> 0, off |-> 0, block |-> Null,
                   head |-> IF inline THEN Inline ELSE ents[x].head,
                   size |-> IF trunc THEN 0 ELSE ents[x].size,
                   data |-> IF trunc THEN <<>> ELSE ents[x].data]], x)

Write(x) ==
    /\ Usable(x)
    /\ \E n \in Lengths : Become(RawWrite(State, x, [i \in 1 .. n |-> 100 + operations]), x)

Read(x) ==
    /\ Usable(x) /\ x \in Moved
    /\ \E n \in Lengths :
          Become(Then(FlushIf("writing", State, x), LAMBDA s :
              ReadWords([s EXCEPT !.got = <<>>], x, Lesser(n, s.file[x].size - s.file[x].pos))), x)

\* Rare: a seek into the next block from where the last one has been read to its end.
Seek(x) ==
    /\ Usable(x) /\ x \in Moved
    /\ \E pos \in Marks, incache \in BOOLEAN :
          /\ "sought" \in Rare \/ ~(Has(file[x], "reading") /\ file[x].off = BlockSize /\ incache)
          /\ Become(RawSeek(State, x, pos, incache), x)

\* Rare: a file is shortened to the end of a block.
Truncate(x) ==
    /\ Usable(x) /\ x \in Moved
    /\ \E n \in Marks, incache \in BOOLEAN :
          /\ "shortened" \in Rare \/ n = 0 \/ n >= RawSize(file[x]) \/ n # StartOf[Index[n].i]
          /\ Become(RawTruncate(State, x, n, incache), x)

Sync(x) == Usable(x) /\ (\E ok \in BOOLEAN : Become(RawSync(State, x, ok), x))

\* lfs_file_rawclose.
Close(x) ==
    /\ Has(file[x], "opened")
    /\ \E ok \in BOOLEAN :
          Become([RawSync(State, x, ok) EXCEPT !.file[x] = NoFile, !.err = "none"], x)

\* Power is lost; lfs_mount starts the allocator somewhere.
PowerLoss ==
    /\ \E x \in Files : Has(file[x], "opened")
    /\ operations < MaxOperations /\ operations' = operations + 1
    /\ file' = [x \in Files |-> NoFile] /\ error' = [x \in Files |-> "none"]
    /\ \E off \in Seeds :
          free' = [off |-> off, size |-> 0, i |-> 0, ack |-> BlockCount, used |-> {}]
    /\ UNCHANGED <<flash, ents, bad, got>>


\* Every file lies in blocks that follow one another; its words tell which file they are of.
Laid(f, n) == [i \in 1 .. n |-> 20 * f + i]
FirstOf(f, sizes) ==
    LET before == {y \in Files : y < f /\ sizes[y] > InlineMax}
    IN  FoldSet(LAMBDA y, n : n + Index[sizes[y] - 1].i + 1, 0, before)
BlockOf(f, i, sizes) ==
    [ptrs |-> IF i = 0 THEN <<>> ELSE [k \in 1 .. ctz[i] + 1 |-> FirstOf(f, sizes) + i - 2 ^ (k - 1)],
     data |-> SubSeq(Laid(f, sizes[f]), StartOf[i] + 1, Lesser(sizes[f], StartOf[i + 1]))]

Init ==
    /\ \E sizes \in {s \in [Files -> InitialSizes] :
                        \A f, g \in Files : f < g => s[f] > s[g]} :     \* bound: the largest is first
          LET large == {f \in Files : sizes[f] > InlineMax}
              at(b) == {p \in large \X Blocks : /\ p[2] <= Index[sizes[p[1]] - 1].i
                                               /\ b = FirstOf(p[1], sizes) + p[2]}
          IN  /\ ents = [f \in Files |->
                    IF f \in large
                    THEN [head |-> FirstOf(f, sizes) + Index[sizes[f] - 1].i, size |-> sizes[f], data |-> <<>>]
                    ELSE [head |-> Inline, size |-> sizes[f], data |-> Laid(f, sizes[f])]]
              /\ flash = [b \in Blocks |-> IF at(b) = {} THEN Erased
                                           ELSE LET p == CHOOSE p \in at(b) : TRUE IN BlockOf(p[1], p[2], sizes)]
              /\ \E b \in Worn, off \in Damage \cup {BlockSize} :
                    /\ bad = [c \in Blocks |-> IF c = b THEN off ELSE BlockSize]
                    /\ at(b) # {} => off = BlockSize
    /\ file = [x \in Files |-> NoFile]
    /\ \E off \in Seeds :
          free = [off |-> off, size |-> 0, i |-> 0, ack |-> BlockCount, used |-> {}]
    /\ got = <<>> /\ error = [x \in Files |-> "none"] /\ operations = 0

Next ==
    \/ \E x \in Files : \/ Open(x) \/ Write(x) \/ Read(x) \/ Seek(x)
                         \/ Truncate(x) \/ Sync(x) \/ Close(x)
    \/ PowerLoss

Spec == Init /\ [][Next]_vars

-----------------------------------------------------------------------------
(* Properties. *)

Working(x) == Has(file[x], "opened") /\ error[x] = "none"

\* A list of blocks is whole: the blocks are different, and each of its pointers goes where it should.
Sound(head, size) ==
    LET n == IF size = 0 THEN 0 ELSE Index[size - 1].i + 1
        at[i \in 0 .. n - 1] == IF i = n - 1 THEN head ELSE PointerAt(flash, at[i + 1], 0)
    IN  /\ \A i \in 0 .. n - 1 : at[i] \in Blocks /\ Len(flash[at[i]].ptrs) = BlockSize - Room(i)
        /\ \A i \in 1 .. n - 1 : \A k \in 0 .. ctz[i] : flash[at[i]].ptrs[k + 1] = at[i - 2 ^ k]
        /\ Cardinality({at[i] : i \in 0 .. n - 1}) = n

\* Every list that an entry or an open file keeps is whole, no block is in the lists of two files,
\* and none is beyond what is programmed well in its block.
ListsSound ==
    LET large == {x \in Files : ents[x].head # Inline}
        lists(x) == (IF ents[x].head = Inline THEN {} ELSE {<<ents[x].head, ents[x].size>>}) \cup
                    (IF Working(x) /\ OnFlash(file[x])
                     THEN (IF file[x].head = Inline THEN {} ELSE {<<file[x].head, file[x].size>>}) \cup
                          (IF Has(file[x], "writing") THEN {<<file[x].block, file[x].pos>>} ELSE {})
                     ELSE {})
        blocks(x) == UNION {ChainOf(flash, l[1], l[2]) : l \in lists(x)}
    IN  /\ \A x \in Files : \A l \in lists(x) : Sound(l[1], l[2])
        /\ \A x, y \in Files : x # y => blocks(x) \cap blocks(y) = {}
        /\ \A b \in UNION {blocks(x) : x \in Files} : Len(flash[b].ptrs) + Len(flash[b].data) <= bad[b]

\* What is read of a file from its entry, and what would be read through the open file.
Entry(x) ==
    LET e == ents[x] IN IF e.head = Inline THEN e.data ELSE TextOf(flash, e.head, e.size, e.size)
Through(x) ==
    LET f == file[x]
        old == TextOf(flash, f.head, f.size, f.size)
    IN  IF ~OnFlash(f) THEN SubSeq(f.data, 1, IF Has(f, "writing") THEN Greater(f.pos, f.size) ELSE f.size)
        ELSE IF ~Has(f, "writing") THEN old
        ELSE TextOf(flash, f.block, f.pos, f.pos) \o SubSeq(old, f.pos + 1, f.size)

\* Files promise what README.md:112 says: an open file reads as it was written, sought and
\* truncated, block by block and past bad blocks; the flash has it all once it is synced
\* or closed, and nothing of it before, whatever fails and whenever power is lost.
AsPromised == INSTANCE AbstractFile WITH
    Words <- 0 .. 100 + MaxOperations, Closed <- <<-9>>, word <- 100 + operations,
    saved <- [x \in Files |-> Entry(x)],
    text <- [x \in Files |-> IF Working(x) THEN Through(x) ELSE <<-9>>],
    pos <- [x \in Files |-> IF Working(x) THEN file[x].pos ELSE 0],
    append <- [x \in Files |-> Working(x) /\ file[x].append]
KeepsPromise == AsPromised!Spec

\* A call runs out of space only when every good block is in use, or was when the allocator
\* last looked, or has been filled by the call itself; and it never follows a pointer off the flash.
SpaceIsUsed ==
    [][\A x \in Files : error[x] = "none" =>
          /\ error'[x] # "corrupt"
          /\ error'[x] = "nospc" =>
                \A b \in Blocks : \/ bad[b] # BlockSize \/ flash'[b] # flash[b]
                                  \/ b \in Traverse(State) \cup free.used
      ]_vars
==============================================================================
