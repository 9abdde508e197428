------------------------------- MODULE LfsDir -------------------------------
(***************************************************************************)
(* One directory of littlefs and those who are in the middle of it.  Its   *)
(* names are kept in order in a chain of metadata pairs.  Every open file  *)
(* and every directory that is being read is on lfs->mlist with a copy of  *)
(* one of the pairs and an index into it, and each commit corrects all of  *)
(* them: for entries that come and go, for pairs that split, move and are  *)
(* dropped (lfs.c 2137-2176).  esp_littlefs.c counts what a directory      *)
(* stream has read, for telldir and seekdir.                               *)
(*                                                                         *)
(* One operation is one step, under efs->lock.  LfsTree has what reaches   *)
(* the flash when the power goes in between; LfsPair one pair.             *)
(***************************************************************************)
EXTENDS Integers, SequencesExt, FiniteSetsExt, TLC

CONSTANTS
    Entries,        \* names, in their order: positive numbers
    Pairs,          \* metadata pairs
    PairCap,        \* entries that fit into a pair
    Streams,        \* directory streams of programs
    Handles,        \* open files
    NoPair,         \* a model value: LFS_BLOCK_NULL
    DirRare,        \* events the properties are not about that are let happen
    MaxChanges      \* a bound on the operations that change the directory

VARIABLES
    chain,          \* the flash: pair -> names, next pair, whether that is of this directory
    head,           \* the first pair, as the parent or lfs->root has it
    mlist,          \* lfs->mlist: stream or handle -> its copy and place
    changes

dirVars == <<chain, head, mlist, changes>>

\* The entry of the superblock, first in the root directory: it has no name.
Super == 0

\* lfs_dir_fetch.
Copied(c, p) == [pair |-> p, count |-> Len(c[p].names), split |-> c[p].split, tail |-> c[p].tail]

Streaming == {s \in DOMAIN mlist : mlist[s].type = "dir"}

\* The pairs from p to the end of the directory.
RECURSIVE PairsFrom(_, _)
PairsFrom(c, p) == <<p>> \o (IF c[p].split THEN PairsFrom(c, c[p].tail) ELSE <<>>)

AllNames(c) == UNION {ToSet(c[p].names) : p \in DOMAIN c} \ {Super}

----------------------------------------------------------------------------
(* A commit to a pair, and what follows from it. *)

Creation(i, n) == [type |-> "create", id |-> i, name |-> n]
Removal(i) == [type |-> "delete", id |-> i]

Spliced(names, attrs) ==
    FoldLeft(LAMBDA ns, a : IF a.type = "create" THEN InsertAt(ns, a.id + 1, a.name) ELSE RemoveAt(ns, a.id + 1),
             names, attrs)

\* Mutant: an entry that comes in front of the one to be read next is not counted.
Shifted_after(d, a) ==
    CASE a.type = "delete" /\ d.id = a.id -> [d EXCEPT !.m.pair = NoPair]
      [] a.type = "delete" /\ d.id > a.id -> [d EXCEPT !.id = @ - 1, !.pos = @ - 1]
      [] a.type = "create" /\ d.id > a.id -> [d EXCEPT !.id = @ + 1, !.pos = @ + 1]
      [] OTHER -> d

\* One item for one attribute.  The place of a deleted entry is lost, also for a
\* stream that is to read it next.
Shifted(d, a) ==
    CASE a.type = "delete" /\ d.id = a.id -> [d EXCEPT !.m.pair = NoPair]
      [] a.type = "delete" /\ d.id > a.id -> [d EXCEPT !.id = @ - 1, !.pos = @ - 1]
      [] a.type = "create" /\ d.id >= a.id -> [d EXCEPT !.id = @ + 1, !.pos = @ + 1]
      [] OTHER -> d

\* The pair was split and the place is in a later one.
RECURSIVE Followed(_, _)
Followed(c, d) ==
    IF d.id >= d.m.count /\ d.m.split
    THEN Followed(c, [d EXCEPT !.m = Copied(c, d.m.tail), !.id = @ - d.m.count])
    ELSE d

\* fixmlist: every item whose copy is of pair p, after a commit to it that leaves m.
\* The item the commit was made through knows what it did.
Fixed(items, c, p, m, attrs, via) ==
    [s \in DOMAIN items |->
        IF items[s].m.pair # p THEN items[s]
        ELSE Followed(c, LET d == [items[s] EXCEPT !.m = m]
                         IN  IF s = via THEN d ELSE FoldLeft(Shifted, d, attrs))]

\* Pairs that are free: the blocks of a pair that was dropped may come back while
\* somebody still stands in it.
FreePairs(c, items) ==
    {q \in Pairs \ DOMAIN c :
        "alias" \in DirRare \/ \A s \in DOMAIN items : items[s].m.pair # q}

\* Where lfs_dir_splittingcompact may cut n entries in two: it halves what is left.
RECURSIVE Halves(_, _)
Halves(k, n) ==
    IF n - k <= 1 THEN {} ELSE LET j == k + ((n - k) \div 2) IN {j} \cup Halves(j, n)

\* A pair [names, tail, split] is written in place, or its last part to a new pair.
Written(c, items, p, node) ==
    (IF Len(node.names) <= PairCap THEN {(p :> node) @@ c} ELSE {}) \cup
    {(p :> [names |-> SubSeq(node.names, 1, k), tail |-> q, split |-> TRUE]) @@
     (q :> [node EXCEPT !.names = SubSeq(@, k + 1, Len(@))]) @@ c
        : k \in Halves(0, Len(node.names)), q \in FreePairs(c, items)}

DirPred(c, p) == {q \in DOMAIN c : c[q].split /\ c[q].tail = p}

\* The predecessor of p gets another tail.
Retailed(c, items, p, tail, split) ==
    UNION {{[chain |-> d, head |-> head, items |-> Fixed(items, d, q, Copied(d, q), <<>>, NoPair)]
               : d \in Written(c, items, q, [c[q] EXCEPT !.tail = tail, !.split = split])} : q \in DirPred(c, p)}

\* lfs_dir_commit of attributes to pair p through one of the items, or a copy nobody
\* tracks.  A pair without entries is dropped, unless it is the first.
Commits(c, items, p, attrs, via) ==
    LET names == Spliced(c[p].names, attrs)
        node  == [c[p] EXCEPT !.names = names]
        gone  == [pair |-> p, count |-> 0, split |-> node.split, tail |-> node.tail]
    IN  IF names = <<>> /\ p # head /\ \E i \in DOMAIN attrs : attrs[i].type = "delete"
        THEN Retailed([q \in DOMAIN c \ {p} |-> c[q]], Fixed(items, c, p, gone, attrs, via), p, node.tail, node.split)
        ELSE {[chain |-> d, head |-> head, items |-> Fixed(items, d, p, Copied(d, p), attrs, via)]
                 : d \in Written(c, items, p, node)}

\* As above, to a pair one of whose blocks is bad or worn: what was p is now q.
Moves(c, items, p, attrs, via) ==
    LET moved(q) == (q :> [c[p] EXCEPT !.names = Spliced(@, attrs)]) @@ [r \in DOMAIN c \ {p} |-> c[r]]
        known(q) == [s \in DOMAIN items |->
                        LET d == Fixed(items, moved(q), p, Copied(moved(q), q), attrs, via)[s]
                        IN  IF d.head = p THEN [d EXCEPT !.head = q] ELSE d]
    IN  IF Len(Spliced(c[p].names, attrs)) \notin (IF p = head THEN 0 ELSE 1) .. PairCap THEN {}
        ELSE UNION {IF p = head THEN {[chain |-> moved(q), head |-> q, items |-> known(q)]}
                    ELSE Retailed(moved(q), known(q), p, q, TRUE) : q \in FreePairs(c, items)}

Results(c, items, p, attrs, via) == Commits(c, items, p, attrs, via) \cup Moves(c, items, p, attrs, via)

\* Names a program cannot expect to read any more, or to have read, and whether the
\* directory is as it was when the stream was opened.
Told(items, gone) ==
    [s \in DOMAIN items |->
        IF items[s].type = "dir"
        THEN [items[s] EXCEPT !.due = @ \ gone, !.got = @ \ gone, !.fresh = FALSE] ELSE items[s]]

\* A handle whose entry is deleted while its pair is cut follows the cut to a pair again,
\* and to another file.
Lost(r, gone) ==
    "followed" \notin DirRare =>
        \A f \in DOMAIN mlist \ Streaming : mlist[f].name \in gone => r.items[f].m.pair = NoPair

Take(r, gone) ==
    /\ Lost(r, gone)
    /\ chain' = r.chain /\ head' = r.head /\ mlist' = Told(r.items, gone)
    /\ changes < MaxChanges /\ changes' = changes + 1

\* The entries a stream is yet to read.
Ahead(c, d) ==
    IF d.m.pair \notin DOMAIN c THEN <<>>
    ELSE SubSeq(c[d.m.pair].names, d.id + 1, d.m.count) \o
         (IF d.m.split THEN FlattenSeq([i \in DOMAIN PairsFrom(c, d.m.tail) |-> c[PairsFrom(c, d.m.tail)[i]].names])
          ELSE <<>>)

\* Bound: the entry that a stream reads next stays, or the stream may fail.
Stays(n) ==
    "ahead" \notin DirRare =>
        \A s \in Streaming : LET ahead == Ahead(chain, mlist[s]) IN ahead # <<>> => Head(ahead) # n

----------------------------------------------------------------------------
(* Operations on the directory. *)

\* lfs_dir_find: the first pair with the name or a greater one, or the last.
find(n) ==
    LET ps == PairsFrom(chain, head)
        last == Len(ps)
        i == Min({j \in 1 .. last : \E x \in ToSet(chain[ps[j]].names) : x >= n} \cup {last})
        names == chain[ps[i]].names
        j == Min({k \in DOMAIN names : names[k] >= n} \cup {Len(names) + 1})
    IN  [pair |-> ps[i], id |-> j - 1, found |-> j <= Len(names) /\ names[j] = n]

\* lfs_file_open of handle f, which creates the file through the handle's own copy.
open(f, n) ==
    LET at == find(n)
        h  == [type |-> "reg", m |-> Copied(chain, at.pair), id |-> at.id, pos |-> 0, head |-> NoPair, name |-> n]
        items == (f :> h) @@ mlist
    IN  /\ f \notin DOMAIN mlist
        /\ IF at.found
           THEN mlist' = items /\ UNCHANGED <<chain, head, changes>>
           ELSE \E r \in Results(chain, items, at.pair, <<Creation(at.id, n)>>, f) : Take(r, {n})

\* lfs_mkdir: as above, through a copy of its own.
mkdir(n) ==
    LET at == find(n)
    IN  ~at.found /\ \E r \in Results(chain, mlist, at.pair, <<Creation(at.id, n)>>, NoPair) : Take(r, {n})

\* lfs_file_sync and lfs_setattr: the entry stays.
sync(f) ==
    /\ f \in DOMAIN mlist /\ mlist[f].type = "reg" /\ mlist[f].m.pair # NoPair
    /\ \E r \in Results(chain, mlist, mlist[f].m.pair, <<>>, f) :
          chain' = r.chain /\ head' = r.head /\ mlist' = r.items /\ chain' # chain
    /\ changes < MaxChanges /\ changes' = changes + 1

\* lfs_file_close, lfs_dir_close.
close(s) ==
    /\ s \in DOMAIN mlist
    /\ mlist' = [t \in DOMAIN mlist \ {s} |-> mlist[t]]
    /\ UNCHANGED <<chain, head, changes>>

\* lfs_remove.
remove(n) ==
    LET at == find(n)
    IN  /\ at.found /\ Stays(n)
        /\ \E r \in Results(chain, mlist, at.pair, <<Removal(at.id)>>, NoPair) : Take(r, {n})

\* lfs_rename within the directory: one commit in one pair, two in two. The first of
\* two that moves its pair is left to LfsTree.
rename(n, to) ==
    LET old == find(n)
        new == find(to)
        put == (IF new.found THEN <<Removal(new.id)>> ELSE <<>>) \o <<Creation(new.id, to)>>
        oldid == IF ~new.found /\ new.id <= old.id THEN old.id + 1 ELSE old.id
    IN  /\ old.found /\ n # to
        /\ Stays(n) /\ Stays(to)
        /\ IF old.pair = new.pair
           THEN \E r \in Results(chain, mlist, old.pair, put \o <<Removal(oldid)>>, NoPair) : Take(r, {n, to})
           ELSE \E r \in Commits(chain, mlist, new.pair, put, NoPair) :
                   \E q \in Results(r.chain, r.items, old.pair, <<Removal(old.id)>>, NoPair) : Take(q, {n, to})

----------------------------------------------------------------------------
(* Directory streams. *)

\* lfs_dir_open.
Opened(c, h) ==
    [type |-> "dir", m |-> Copied(c, h), head |-> h, id |-> 0, pos |-> 0, offset |-> 0,
     due |-> AllNames(c), got |-> {}, fresh |-> TRUE]

\* lfs_dir_rewind, which the driver does for an offset behind.
Rewound(c, d) == Opened(c, d.head)

\* lfs_dir_read: the name, or Super for "." and ".." and at the end; the superblock is
\* passed over.
RECURSIVE dir_read(_, _)
dir_read(c, d) ==
    CASE d.pos < 2 ->
            [name |-> Super, more |-> TRUE, d |-> [d EXCEPT !.pos = @ + 1]]
      [] d.pos >= 2 /\ d.id = d.m.count /\ d.m.split ->
            dir_read(c, [d EXCEPT !.m = Copied(c, d.m.tail), !.id = 0])
      [] d.pos >= 2 /\ d.id = d.m.count /\ ~d.m.split ->
            [name |-> Super, more |-> FALSE, d |-> d]
      [] d.pos >= 2 /\ d.id # d.m.count /\ c[d.m.pair].names[d.id + 1] = Super ->
            dir_read(c, [d EXCEPT !.id = @ + 1])
      [] OTHER ->
            [name |-> c[d.m.pair].names[d.id + 1], more |-> TRUE, d |-> [d EXCEPT !.id = @ + 1, !.pos = @ + 1]]

\* vfs_littlefs_readdir_r: the next real name; the offset counts calls, that at the
\* end as well.
RECURSIVE readdir_r(_, _)
readdir_r(c, d) ==
    LET r == dir_read(c, d)
    IN  IF r.more /\ r.name = Super THEN readdir_r(c, r.d)
        ELSE [r.d EXCEPT !.offset = @ + 1, !.due = @ \ {r.name},
                         !.got = @ \cup (IF r.more THEN {r.name} ELSE {})]

\* vfs_littlefs_seekdir.
RECURSIVE Sought(_, _, _)
Sought(c, d, offset) ==
    CASE offset < d.offset -> Sought(c, Rewound(c, d), offset)
      [] offset = d.offset -> d
      [] offset > d.offset -> Sought(c, readdir_r(c, d), offset)

opendir(s) ==
    /\ s \notin DOMAIN mlist
    /\ mlist' = (s :> Opened(chain, head)) @@ mlist
    /\ UNCHANGED <<chain, head, changes>>

readdir(s) ==
    /\ s \in Streaming /\ mlist[s].m.pair # NoPair /\ mlist[s].offset <= Cardinality(Entries)
    /\ mlist' = [mlist EXCEPT ![s] = readdir_r(chain, @)]
    /\ UNCHANGED <<chain, head, changes>>

\* Forward, it is as many reads.
seekdir(s, offset) ==
    /\ s \in Streaming /\ offset < mlist[s].offset
    /\ mlist' = [mlist EXCEPT ![s] = Sought(chain, @, offset)]
    /\ UNCHANGED <<chain, head, changes>>

\* vfs_littlefs_telldir.
telldir(s) == mlist[s].offset

\* lfs_dir_seek, to off entries after the place of a stream: no pair, past the end.
RECURSIVE Walked(_, _, _)
Walked(c, d, off) ==
    LET diff == Min({d.m.count - d.id, off})
        e == [d EXCEPT !.id = @ + diff, !.pos = @ + diff]
    IN  CASE off = 0 -> d
          [] off > 0 /\ e.id # e.m.count -> Walked(c, e, off - diff)
          [] off > 0 /\ e.id = e.m.count /\ e.m.split ->
                Walked(c, [e EXCEPT !.m = Copied(c, e.m.tail), !.id = 0], off - diff)
          [] OTHER -> [e EXCEPT !.m.pair = NoPair]

dir_seek(c, d, off) ==
    LET first == Min({2, off})
        super == off > first /\ c[d.head].names # <<>> /\ Head(c[d.head].names) = Super
    IN  Walked(c, [Rewound(c, d) EXCEPT !.pos = first, !.id = IF super THEN 1 ELSE 0], off - first)

----------------------------------------------------------------------------
\* Directories that may be found at mount: in one pair or in two, the root or not.
MountedDirs(p) ==
    LET sorted(A) == SelectSeq(SetToSortSeq(Entries, <), LAMBDA n : n \in A)
        all == {sorted(A) : A \in SUBSET Entries} \cup {<<Super>> \o sorted(A) : A \in SUBSET Entries}
        q == Min(Pairs \ {p})
    IN  {(p :> [names |-> ns, tail |-> NoPair, split |-> FALSE]) : ns \in {ns \in all : Len(ns) <= PairCap}} \cup
        {(p :> [names |-> SubSeq(x[1], 1, x[2]), tail |-> q, split |-> TRUE]) @@
         (q :> [names |-> SubSeq(x[1], x[2] + 1, Len(x[1])), tail |-> NoPair, split |-> FALSE])
            : x \in {x \in all \X (1 .. PairCap) : Len(x[1]) - x[2] \in 1 .. PairCap}}

DirInit ==
    /\ head = Min(Pairs) /\ chain \in MountedDirs(head)
    /\ mlist = <<>> /\ changes = 0

DirNext ==
    \/ \E n \in Entries : mkdir(n) \/ remove(n)
    \/ \E n, to \in Entries : rename(n, to)
    \/ \E f \in Handles : sync(f) \/ close(f) \/ \E n \in Entries : open(f, n)
    \/ \E s \in Streams : opendir(s) \/ readdir(s) \/ close(s) \/ \E o \in 0 .. Cardinality(Entries) : seekdir(s, o)

DirSpec == DirInit /\ [][DirNext]_dirVars

----------------------------------------------------------------------------
(* Properties. *)

Live(s) == mlist[s].m.pair \in DOMAIN chain

\* Every copy on the list says what the flash says, and every stream knows the first pair.
CopiesFresh ==
    /\ \A s \in DOMAIN mlist : Live(s) => mlist[s].m = Copied(chain, mlist[s].m.pair)
    /\ \A s \in Streaming : mlist[s].head = head

\* A handle's place is that of its file, as long as the file exists.
HandlesFollow ==
    \A f \in DOMAIN mlist : mlist[f].type = "reg" /\ Live(f) =>
        mlist[f].id < mlist[f].m.count /\ chain[mlist[f].m.pair].names[mlist[f].id + 1] = mlist[f].name

\* A stream tells every name that is there all the time, and none twice.
StreamsComplete ==
    \A s \in Streaming :
        LET ahead == ToSet(Ahead(chain, mlist[s]))
        IN  mlist[s].due \subseteq ahead /\ mlist[s].got \cap ahead = {}

\* In a directory that has not changed, the offset of a stream is the number of the
\* names before it, and a seek leads there.
Later(all, n) == {x \in all : Cardinality({y \in all : y <= x}) > n}
AheadAfter(d, n) == ToSet(Ahead(chain, d)) \ {Super} = Later(AllNames(chain), n)
OffsetsTell ==
    \A s \in Streaming : mlist[s].fresh =>
        /\ AheadAfter(mlist[s], telldir(s))
        /\ mlist[s].offset = 0 => \A n \in 0 .. Cardinality(AllNames(chain)) - 1 :
              LET d == dir_seek(chain, mlist[s], n + 2) IN d.pos = n + 2 /\ AheadAfter(d, n)

\* Whoever is in a directory while it changes keeps his place.
PlacesKept == CopiesFresh /\ HandlesFollow /\ StreamsComplete /\ OffsetsTell
=============================================================================
