------------------------------- MODULE LfsTree -------------------------------
(***************************************************************************)
(* The directories of littlefs (lfs.c): metadata pairs linked twice, as a  *)
(* tree of directory entries and as a list through the tails.  An          *)
(* operation that must change both, or two directories, needs several      *)
(* commits; what a power loss between them leaves behind is announced in   *)
(* the global state, kept as deltas in the pairs, and repaired by the next *)
(* operation that writes (lfs_fs_forceconsistency).                        *)
(*                                                                         *)
(* Abstractions.  A commit to one pair is atomic: LfsPair shows it.  An id *)
(* is its name, and names are numbers.  A fetch takes the block with the   *)
(* newer revision.  The superblock's pair is {0, 1}, is the root, and      *)
(* never expands.  A file is only its entry.  The tail block of a split is *)
(* good, and where a pair is cut is arbitrary.  lfs_alloc takes the lowest *)
(* free block: which one does not matter here.                             *)
(***************************************************************************)
EXTENDS Integers, Sequences, FiniteSets, SequencesExt

CONSTANTS
    Names,              \* names, as numbers above 0: their order is the directory's
    Dirs,               \* identities of directories besides the root
    MaxBlock,           \* the last block
    Rare,               \* which of the RareEvents may happen
    MaxOperations,      \* bound: operations in a behaviour
    MaxCompactions,     \* bound: compactions, with or without a split or relocation
    MaxPowerLosses      \* bound

VARIABLES
    md,         \* the flash: block -> what the last commit in it says, and the revision
    gstate,     \* lfs->gstate: [orphans, move]
    gdisk,      \* lfs->gdisk
    hooked,     \* the directory an operation has put into lfs->mlist
    taken,      \* blocks handed out since lfs_alloc_ack
    todo,       \* what is left of the call: a stack of steps of one commit each
    tree,       \* history: the tree a mount would find
    goal,       \* history: the tree the call leads to
    aborted,    \* an LFS_ASSERT has failed
    spent       \* [operations, compactions, losses], for the bounds

ram == <<gstate, gdisk, hooked, taken, todo>>
vars == <<md, ram, tree, goal, aborted, spent>>

Blocks == 0 .. MaxBlock
Root == 0
File == -1
Null == <<>>        \* LFS_BLOCK_NULL, in a pair or as a pair
RootPair == <<0, 1>>
\* Events that littlefs does not survive in every case; the README says how.
\*   full          lfs_alloc has no block for a pair that is only tired
\*   cutAndMoved   a compaction both cuts a pair and relocates it
\*   laterMoved    a relocation in a mkdir whose first commit took a change of the
\*                 global state along
\*   midway        power is lost, or another pair compacted, when a relocated directory
\*                 with others in it is in the tree but not yet in the list
\*   intoItself    a directory is renamed into one below it
RareEvents == {"full", "cutAndMoved", "laterMoved", "midway", "intoItself"}
ASSUME RareAssumption == Rare \subseteq RareEvents

Fuel == MaxBlock \div 2 + 1     \* the loops give up after block_count / 2 turns

Xor(S, T) == (S \ T) \cup (T \ S)
Both(p) == ToSet(p)
Same(p, q) == Both(p) \cap Both(q) # {}     \* lfs_pair_cmp(p, q) == 0
Sync(p, q) == Both(p) = Both(q)             \* lfs_pair_sync
NoMove == [pair |-> Null, name |-> 0]
OrphanBit == [pair |-> Null, name |-> -1]  \* in a delta, beside moves

-----------------------------------------------------------------------------
(* Reading the flash. *)

Blank == [rev |-> 0, uid |-> Root, ents |-> [n \in {} |-> Null], tail |-> Null,
          split |-> FALSE, delta |-> {}]

NoDir == [pair |-> Null, c |-> Blank]

\* lfs_dir_fetch of a pair of the flash f.
Fetch(f, p) ==
    LET r == IF f[p[2]].rev > f[p[1]].rev THEN 2 ELSE 1
    IN  [pair |-> <<p[r], p[3 - r]>>, c |-> f[p[r]]]

RECURSIVE FollowTail(_, _, _, _)
FollowTail(f, p, hard, k) ==
    LET m == Fetch(f, p)
    IN  <<m>> \o IF k = 0 \/ m.c.tail = Null \/ (hard /\ ~m.c.split) THEN <<>>
                 ELSE FollowTail(f, m.c.tail, hard, k - 1)

List(f) == FollowTail(f, RootPair, FALSE, Fuel)
Chain(f, p) == FollowTail(f, p, TRUE, Fuel)

IsHidden(move, p, n) == Same(move.pair, p) /\ move.name = n
Visible(m, move) == {n \in DOMAIN m.c.ents : ~IsHidden(move, m.pair, n)}
SubPairs(m, move) == {m.c.ents[n] : n \in Visible(m, move)} \ {Null}

\* The heads of the directories below p, by their paths.
RECURSIVE HeadsBelow(_, _, _, _)
HeadsBelow(f, p, move, k) ==
    {p} \cup IF k = 0 THEN {}
             ELSE UNION {HeadsBelow(f, q, move, k - 1) :
                            q \in UNION {SubPairs(m, move) : m \in ToSet(Chain(f, p))}}

Heads(f, move) == HeadsBelow(f, RootPair, move, Cardinality(Dirs))
Uid(f, p) == Fetch(f, p).c.uid

\* The tree as the reading calls see it when `move' is pending: a file's entry
\* leads nowhere.
Edges(f, move) ==
    UNION {UNION {{<<Uid(f, p), n, IF m.c.ents[n] = Null THEN File ELSE Uid(f, m.c.ents[n])>> :
                      n \in Visible(m, move)} : m \in ToSet(Chain(f, p))} : p \in Heads(f, move)}

\* lfs_dir_find: the pair of directory d that has n, or where n belongs.
Find(d, n) ==
    LET ch == Chain(md, CHOOSE p \in Heads(md, gdisk.move) : Uid(md, p) = d)
        S == {i \in DOMAIN ch : \E m \in DOMAIN ch[i].c.ents : m >= n}
    IN  ch[IF S = {} THEN Len(ch) ELSE Min(S)]

\* lfs_fs_parent: who has the entry of a pair, and lfs_fs_pred: whose tail it is.
Parent(p) == SelectSeq(List(md), LAMBDA m : \E q \in SubPairs(m, gdisk.move) : Same(p, q))
NameOf(m, p) == CHOOSE n \in Visible(m, gdisk.move) : Same(m.c.ents[n], p)
Pred(p) == SelectSeq(List(md), LAMBDA m : Same(m.c.tail, p))

\* A directory whose parent the list does not have.
Missed == \E p \in Heads(md, gdisk.move) \ {RootPair} : Parent(p) = <<>>

\* lfs_fs_rawtraverse: the blocks that are in use, as lfs_alloc sees it.
Traverse ==
    UNION {Both(m.pair) \cup Both(m.c.tail) \cup UNION {Both(q) : q \in SubPairs(m, gdisk.move)} :
              m \in ToSet(List(md))}

Lowest(S) == SelectSeq([i \in 1 .. MaxBlock + 1 |-> i - 1], LAMBDA b : b \in S)
Free == Lowest(Blocks \ (Traverse \cup taken))

-----------------------------------------------------------------------------
(* The global state. *)

\* What the flash keeps of it: the count of orphans is only a bit there.
Bits(g) == (IF g.orphans > 0 THEN {OrphanBit} ELSE {}) \cup ({g.move} \ {NoMove})

\* The sum of the deltas, and the move in it.
OnDisk(f) == FoldSeq(LAMBDA m, acc : Xor(m.c.delta, acc), {}, List(f))
MoveIn(bits) == IF bits \subseteq {OrphanBit} THEN NoMove ELSE CHOOSE x \in bits : x # OrphanBit

\* What lfs_mount reads of the flash f: the global state, and the tree.
Mounted(f) ==
    LET bits == OnDisk(f)
    IN  [orphans |-> IF OrphanBit \in bits THEN 1 ELSE 0, move |-> MoveIn(bits)]
TreeIn(f) == UNION {Edges(f, g.move) : g \in {Mounted(f)}}

\* lfs_fs_preporphans and lfs_fs_prepmove.
PrepOrphans_none(g, n) == g
PrepMove_none(g, move) == g
PrepOrphans(g, n) == [g EXCEPT !.orphans = @ + n]
PrepMove(g, move) == [g EXCEPT !.move = move]

-----------------------------------------------------------------------------
(* Steps that are left to do. *)

Demove == [t |-> "demove"]
Deorphan(powerloss) == [t |-> "deorphan", powerloss |-> powerloss, found |-> 0]
Run(op, args) == [t |-> "run", op |-> op, args |-> args]

\* After a relocation: the entry of `old', then the tail, gets the pair `new'.
\* `orphans' is lfs_dir_orphaningcommit's; `clean' that lfs_dir_commit called it.
FixParent(old, new, orphans, clean) ==
    [t |-> "parent", old |-> old, new |-> new, orphans |-> orphans, clean |-> clean]
FixPred(task, hasparent) ==
    [t |-> "pred", old |-> task.old, new |-> task.new, orphans |-> task.orphans,
     clean |-> task.clean, hasparent |-> hasparent]

Flags(orphans, clean) == [orphans |-> orphans, clean |-> clean]
DirCommit == Flags(FALSE, TRUE)

\* lfs_dir_orphaningcommit is done: the tail of lfs_dir_commit.
Committed(f) == IF f.clean /\ f.orphans THEN <<Deorphan(FALSE)>> ELSE <<>>

\* Commits of the operations, to be made one after the other.
Put(m, c) == [t |-> "put", m |-> m, c |-> c]
Delete(m, n) == [t |-> "delete", m |-> m, name |-> n]
FinishMove(m, n) == [t |-> "finish", m |-> m, name |-> n]
Drop == [t |-> "drop"]
Append1(pred, dir) == [t |-> "append", pred |-> pred, dir |-> dir]
Link(n, dir, less) == [t |-> "link", name |-> n, dir |-> dir, less |-> less]

-----------------------------------------------------------------------------
(* Committing. *)

\* An LFS_ASSERT fails: the program stops.
Abort ==
    /\ aborted' = TRUE
    /\ UNCHANGED <<md, ram, goal, spent>>

\* Where a commit goes: behind the last one, to the other block of the pair, or
\* to a new block, or none when there is none and the pair was only tired.
Placements(m, free) ==
    LET p == m.pair
    IN  {[how |-> "append", pair |-> p]} \cup
        IF spent.compactions = MaxCompactions \/ (Missed /\ "midway" \notin Rare) THEN {}
        ELSE {[how |-> "compact", pair |-> <<p[2], p[1]>>]} \cup
             IF Same(p, RootPair) THEN {}
             ELSE {[how |-> "relocate", pair |-> <<b, p[1]>>] :
                      b \in (IF "full" \in Rare THEN {p[2]} ELSE {}) \cup
                              (IF free = <<>> THEN {} ELSE {free[1]})}

\* Where lfs_dir_splittingcompact may cut: names from the cut on go to a new
\* pair; 0 for no cut.  The superblock's entry always stays.
Cuts(m, c) ==
    {0} \cup {n \in DOMAIN c.ents : Same(m.pair, RootPair) \/ \E l \in DOMAIN c.ents : l < n}

\* lfs_dir_relocatingcommit of the copy m of a directory, which becomes c, with
\* the global state g and lfs->gdelta = gd; between commits that is zero.  If the pair
\* is relocated, lfs_dir_orphaningcommit goes on with the flags f; if not, the steps
\* `stays' are next.
Commit(m, c, g, gd, f, stays) ==
    \E cut \in Cuts(m, c) :
    LET free == Free
        split == cut # 0
        all == Xor(gd, Xor(Bits(g), Bits(gdisk)))
        tail == [rev |-> 1, uid |-> c.uid, tail |-> c.tail, split |-> c.split, delta |-> all,
                 ents |-> [n \in {x \in DOMAIN c.ents : x >= cut} |-> c.ents[n]]]
    IN
    \E w \in Placements(m, IF split THEN SubSeq(free, 3, Len(free)) ELSE free) :
      LET moved == w.how = "relocate"
          new == IF split
                 THEN [c EXCEPT !.ents = [n \in {x \in DOMAIN c.ents : x < cut} |-> c.ents[n]],
                                !.tail = <<free[1], free[2]>>, !.split = TRUE]
                 ELSE [c EXCEPT !.delta = Xor(@, IF moved THEN gd ELSE all)]
          done == [new EXCEPT !.rev = m.c.rev + IF w.how = "append" THEN 0 ELSE 1]
          cleared == IF split THEN [md EXCEPT ![free[1]] = tail, ![free[2]] = Blank] ELSE md
      IN  /\ split => w.how # "append" /\ (moved => "cutAndMoved" \in Rare) /\ Len(free) > 1
          /\ md' = [cleared EXCEPT ![w.pair[1]] = done]
          /\ gstate' = g
          /\ gdisk' = IF moved /\ ~split THEN gdisk ELSE g
          /\ hooked' = IF Same(hooked.pair, m.pair)
                       THEN [pair |-> w.pair, c |-> done] ELSE hooked
          /\ taken' = taken \cup (IF split THEN {free[1], free[2]} ELSE {}) \cup {w.pair[1]}
          /\ spent' = [spent EXCEPT !.compactions = @ + IF w.how = "append" THEN 0 ELSE 1]
          /\ todo' = (IF moved THEN <<FixParent(m.pair, w.pair, f.orphans, f.clean)>>
                      ELSE stays) \o Tail(todo)
          /\ UNCHANGED <<goal, aborted>>

Count(m, c) == Cardinality(DOMAIN c.ents) + IF Same(m.pair, RootPair) THEN 1 ELSE 0

CommitDelete_alone(m, c, g, f, stays) ==
    LET before == Pred(m.pair)
    IN  IF Count(m, c) = 0 /\ before # <<>> /\ before[1].c.split
        THEN Commit(before[1], [before[1].c EXCEPT !.tail = c.tail, !.split = c.split],
                    g, {}, f, stays)
        ELSE Commit(m, c, g, {}, f, stays)

\* A commit that deletes an entry.  A pair in the middle of a directory that has become
\* empty is dropped: its predecessor steals its tail and its delta.
CommitDelete(m, c, g, f, stays) ==
    LET before == Pred(m.pair)
    IN  IF Count(m, c) = 0 /\ before # <<>> /\ before[1].c.split
        THEN Commit(before[1], [before[1].c EXCEPT !.tail = c.tail, !.split = c.split],
                    g, m.c.delta, f, stays)
        ELSE Commit(m, c, g, {}, f, stays)

Without(c, n) == [c EXCEPT !.ents = [x \in DOMAIN c.ents \ {n} |-> c.ents[x]]]
With(c, n, what) == [c EXCEPT !.ents = [x \in DOMAIN c.ents \cup {n} |->
                                            IF x = n THEN what ELSE c.ents[x]]]

\* The step at the top of the stack is of kind t.
Turn(t) == todo # <<>> /\ ~aborted /\ Head(todo).t = t

\* A step that changes only the memory.
Goto(g, hook, steps) ==
    /\ gstate' = g /\ hooked' = hook /\ todo' = steps \o Tail(todo)
    /\ UNCHANGED <<md, gdisk, taken, goal, aborted, spent>>
Skip == Goto(gstate, hooked, <<>>)

\* A commit to a pair with a pending move in it finishes the move.
FixMove(m) ==
    LET here == gstate.move # NoMove /\ Same(gstate.move.pair, m.pair)
    IN  [here |-> here,
         g |-> IF here THEN PrepMove(gstate, NoMove) ELSE gstate,
         c |-> IF here THEN Without(m.c, gstate.move.name) ELSE m.c]

-----------------------------------------------------------------------------
(* Relocations: the loop in lfs_dir_orphaningcommit. *)

\* The parent's entry.  When the parent moves too, it is the parent's turn, and
\* the tail is left to lfs_fs_deorphan.  These commits must not empty a pair.
DoParent ==
    LET task == Head(todo)
        found == Parent(task.old)
    IN  /\ Turn("parent")
        /\ IF found = <<>> THEN Goto(gstate, hooked, <<FixPred(task, FALSE)>>)
           ELSE LET m == found[1]
                    fix == FixMove(m)
                    c == With(fix.c, NameOf(m, task.old), task.new)
                IN  IF fix.here /\ Count(m, c) = 0 THEN Abort
                    ELSE Commit(m, c, PrepOrphans(fix.g, 1), {},
                                Flags(TRUE, task.clean), <<FixPred(task, TRUE)>>)

\* The tail that leads to the pair.
DoPred ==
    LET task == Head(todo)
        found == Pred(task.old)
    IN  /\ Turn("pred")
        /\ IF found = <<>>
           THEN IF task.hasparent THEN Abort ELSE Goto(gstate, hooked, Committed(task))
           ELSE LET m == found[1]
                    fix == FixMove(m)
                    c == [fix.c EXCEPT !.tail = task.new]
                    less == IF fix.g.orphans > 0 /\ task.hasparent THEN -1 ELSE 0
                IN  IF fix.here /\ Count(m, c) = 0 THEN Abort
                    ELSE Commit(m, c, PrepOrphans(fix.g, less), {},
                                Flags(task.orphans, task.clean), Committed(task))

-----------------------------------------------------------------------------
(* Repairs: lfs_fs_forceconsistency. *)

\* lfs_fs_demove.
DoDemove ==
    LET move == gdisk.move
        m == Fetch(md, move.pair)
    IN  /\ Turn("demove")
        /\ IF move = NoMove THEN Skip
           ELSE CommitDelete(m, Without(m.c, move.name), PrepMove(gstate, NoMove), DirCommit, <<>>)

\* A head in the list that has no parent, or a parent that knows a newer pair.
IsHead(m) == ~m.c.split /\ m.c.tail # Null
IsOrphan(m) == IsHead(m) /\ Parent(m.c.tail) = <<>>
ParentsPair(p) == LET m == Parent(p)[1] IN m.c.ents[NameOf(m, p)]
IsHalfOrphan(m) ==
    IsHead(m) /\ Parent(m.c.tail) # <<>> /\ ~Sync(ParentsPair(m.c.tail), m.c.tail)

Found_all(task) == task.found
Found(task) == Min({gstate.orphans, task.found})

\* lfs_fs_deorphan: one turn of the loop that finds something, or the end.  Orphans
\* are meant to be there except after a power loss.
DoDeorphan ==
    LET task == Head(todo)
        bad == SelectSeq(List(md), LAMBDA m : (task.powerloss /\ IsOrphan(m)) \/ IsHalfOrphan(m))
        m == bad[1]
        lost == Fetch(md, m.c.tail).c
        fix == FixMove(m)
        linked == [fix.c EXCEPT !.tail = ParentsPair(m.c.tail)]
        inner == Flags(FALSE, FALSE)
        again == <<[task EXCEPT !.found = @ + 1]>>
    IN  /\ Turn("deorphan")
        /\ IF gstate.orphans = 0 /\ task.found = 0 THEN Skip
           ELSE IF bad = <<>>
           THEN Goto(PrepOrphans(gstate, -Found(task)), hooked, <<>>)
           ELSE IF IsOrphan(m)
           THEN Commit(m, [m.c EXCEPT !.tail = lost.tail, !.split = lost.split],
                       gstate, lost.delta, inner, again)
           ELSE IF fix.here THEN CommitDelete(m, linked, fix.g, inner, again)
           ELSE Commit(m, linked, fix.g, {}, inner, again)

-----------------------------------------------------------------------------
(* The operations. *)

Tree == INSTANCE AtomicTree WITH busy <- todo # <<>>

Begin(op, args, to) ==
    /\ todo = <<>>
    /\ spent.operations < MaxOperations
    /\ spent' = [spent EXCEPT !.operations = @ + 1]
    /\ goal' = to
    /\ todo' = <<Demove, Deorphan(TRUE), Run(op, args)>>
    /\ UNCHANGED <<md, gstate, gdisk, hooked, taken, aborted>>

BeginCreate == \E d \in Tree!DirsOf(tree), n \in Names :
    Tree!CanCreate(tree, d, n) /\ Begin("create", <<d, n>>, Tree!Created(tree, d, n, File))

BeginMkdir == \E d \in Tree!DirsOf(tree), n \in Names :
    LET free == Dirs \ Tree!DirsOf(tree)
    IN  /\ free # {} /\ Tree!CanCreate(tree, d, n)
        /\ Begin("mkdir", <<d, n, Min(free)>>, Tree!Created(tree, d, n, Min(free)))

BeginRemove == \E d \in Tree!DirsOf(tree), n \in Names :
    Tree!CanRemove(tree, d, n) /\ Begin("remove", <<d, n>>, Tree!Removed(tree, d, n))

\* lfs_rename does not look whether the new place is below the old one.
BeginRename == \E d, d2 \in Tree!DirsOf(tree), n, n2 \in Names :
    /\ \/ Tree!CanMove(tree, d, n, d2, n2)
       \/ "intoItself" \in Rare /\ Tree!Fits(tree, d, n, d2, n2)
    /\ Begin("rename", <<d, n, d2, n2>>, Tree!Moved(tree, d, n, d2, n2))

\* The body of an operation.  It fails when the path does not lead to what it needs.
Args == Head(todo).args
PathsExist(ds) == ds \subseteq {Uid(md, p) : p \in Heads(md, gdisk.move)}
Has(m, n) == n \in Visible(m, gdisk.move)
Body(op, paths, Proceed) ==
    /\ Turn("run") /\ Head(todo).op = op
    /\ IF PathsExist(paths) THEN Proceed ELSE Skip

\* lfs_file_open with LFS_O_CREAT: the entry of an empty file.
DoCreate ==
    LET m == Find(Args[1], Args[2])
    IN  Body("create", {Args[1]},
             IF Has(m, Args[2]) THEN Skip
             ELSE Goto(gstate, hooked, <<Put(m, With(m.c, Args[2], Null))>>))

\* lfs_mkdir up to the commit of the new pair, which nothing leads to yet but
\* which takes the pending changes of the global state with it, unless its block is bad.
DoMkdir ==
    LET cwd == Find(Args[1], Args[2])
        pred == Last(Chain(md, cwd.pair))
        free == Lowest(Blocks \ Traverse)
        dir == <<free[1], free[2]>>
        link == Link(Args[2], dir, cwd.c.split)
        pending == Xor(Bits(gstate), Bits(gdisk))
    IN  Body("mkdir", {Args[1]},
             IF Has(cwd, Args[2]) THEN Skip
             ELSE IF Len(free) < 2
             THEN /\ todo' = Tail(todo) /\ taken' = {} /\ goal' = tree
                  /\ UNCHANGED <<md, gstate, gdisk, hooked, aborted, spent>>
             ELSE \E good \in {TRUE} \cup {spent.compactions = MaxCompactions} :
                  /\ taken' = {free[1], free[2]}
                  /\ md' = [md EXCEPT ![free[2]] = Blank,
                        ![free[1]] = [Blank EXCEPT !.rev = 1, !.uid = Args[3], !.tail = pred.c.tail,
                            !.delta = IF good THEN pending ELSE {}]]
                  /\ gdisk' = IF good THEN gstate ELSE gdisk
                  /\ hooked' = cwd
                  /\ spent' = [spent EXCEPT !.compactions =
                         IF pending # {} /\ "laterMoved" \notin Rare THEN MaxCompactions
                         ELSE @ + IF good THEN 0 ELSE 1]
                  /\ todo' = (IF cwd.c.split THEN <<Append1(pred, dir), link>> ELSE <<link>>)
                             \o Tail(todo)
                  /\ UNCHANGED <<gstate, goal, aborted>>)

\* The directory goes on in other pairs: the new one goes behind the last of them.
DoAppend ==
    LET task == Head(todo)
    IN  /\ Turn("append")
        /\ Commit(task.pred, [task.pred.c EXCEPT !.tail = task.dir], PrepOrphans(gstate, 1),
                  {}, DirCommit, <<>>)

\* The entry in the parent, and the tail when that was not done yet.
DoLink ==
    LET task == Head(todo)
        g == IF task.less THEN PrepOrphans(gstate, -1) ELSE gstate
        c == IF hooked.c.split THEN hooked.c ELSE [hooked.c EXCEPT !.tail = task.dir]
    IN  /\ Turn("link")
        /\ IF g.orphans < 0 THEN Abort
           ELSE Commit(hooked, With(c, task.name, task.dir), g, {}, DirCommit, <<>>)

\* lfs_remove.  A directory is taken out of the tree first and then out of the list;
\* its copy in memory is hooked, because the first commit may change it.
DoRemove ==
    LET m == Find(Args[1], Args[2])
        target == m.c.ents[Args[2]]
    IN  Body("remove", {Args[1]},
             IF ~Has(m, Args[2]) THEN Skip
             ELSE IF target = Null THEN Goto(gstate, hooked, <<Delete(m, Args[2])>>)
             ELSE Goto(PrepOrphans(gstate, 1), Fetch(md, target), <<Delete(m, Args[2]), Drop>>))

\* lfs_rename.  Between two pairs, the commit to the new one records the move in the
\* global state, and the old entry is deleted next, unless a relocation has done it.
DoRename ==
    LET n == Args[2]
        n2 == Args[4]
        old == Find(Args[1], n)
        new == Find(Args[3], n2)
        samepair == Same(old.pair, new.pair)
        c == With(IF samepair THEN Without(new.c, n) ELSE new.c, n2, old.c.ents[n])
        overDir == Has(new, n2) /\ new.c.ents[n2] # Null
        g == IF overDir THEN PrepOrphans(gstate, 1) ELSE gstate
    IN  Body("rename", {Args[1], Args[3]},
             IF ~Has(old, n) THEN Skip
             ELSE Goto(IF samepair THEN g ELSE PrepMove(g, [pair |-> old.pair, name |-> n]),
                       IF overDir THEN Fetch(md, new.c.ents[n2]) ELSE hooked,
                       <<Put(new, c)>> \o (IF samepair THEN <<>> ELSE <<FinishMove(old, n)>>)
                                      \o (IF overDir THEN <<Drop>> ELSE <<>>)))

DoPut == Turn("put") /\ Commit(Head(todo).m, Head(todo).c, gstate, {}, DirCommit, <<>>)

DoDelete ==
    LET task == Head(todo)
    IN  Turn("delete") /\ CommitDelete(task.m, Without(task.m.c, task.name), gstate, DirCommit, <<>>)

DoFinishMove ==
    LET task == Head(todo)
    IN  /\ Turn("finish")
        /\ IF gstate.move = NoMove THEN Skip
           ELSE CommitDelete(task.m, Without(task.m.c, task.name), PrepMove(gstate, NoMove),
                             DirCommit, <<>>)

\* lfs_dir_drop, and the search for the predecessor before it.
DoDrop ==
    LET before == Pred(hooked.pair)
        g == PrepOrphans(gstate, -1)
    IN  /\ Turn("drop")
        /\ IF g.orphans < 0 THEN Abort
           ELSE IF before = <<>> THEN Goto(g, hooked, <<>>)
           ELSE Commit(before[1],
                       [before[1].c EXCEPT !.tail = hooked.c.tail, !.split = hooked.c.split],
                       g, hooked.c.delta, DirCommit, <<>>)

-----------------------------------------------------------------------------
(* The environment. *)

\* Power is lost, or a failed assertion restarts the chip: what was in memory is
\* gone, and lfs_mount reads the global state.
PowerLoss ==
    /\ todo # <<>>
    /\ "midway" \in Rare \/ ~Missed
    /\ spent.losses < MaxPowerLosses \/ aborted
    /\ spent' = [spent EXCEPT !.losses = @ + IF aborted THEN 0 ELSE 1]
    /\ gstate' = Mounted(md) /\ gdisk' = gstate'
    /\ hooked' = NoDir /\ taken' = {} /\ todo' = <<>>
    /\ goal' = tree
    /\ aborted' = FALSE
    /\ UNCHANGED md

Init ==
    /\ md = [b \in Blocks |-> IF b = 0 THEN [Blank EXCEPT !.rev = 1] ELSE Blank]
    /\ gstate = [orphans |-> 0, move |-> NoMove] /\ gdisk = gstate
    /\ hooked = NoDir /\ taken = {} /\ todo = <<>>
    /\ tree = {} /\ goal = {} /\ aborted = FALSE
    /\ spent = [operations |-> 0, compactions |-> 0, losses |-> 0]

Step ==
    \/ DoParent \/ DoPred \/ DoDemove \/ DoDeorphan
    \/ DoCreate \/ DoMkdir \/ DoAppend \/ DoLink \/ DoRemove \/ DoRename
    \/ DoPut \/ DoDelete \/ DoFinishMove \/ DoDrop

Next ==
    /\ BeginCreate \/ BeginMkdir \/ BeginRemove \/ BeginRename \/ Step \/ PowerLoss
    /\ tree' = IF md' = md THEN tree ELSE UNION {TreeIn(f) : f \in {md'}}

Spec == Init /\ [][Next]_vars

-----------------------------------------------------------------------------
(* Properties. *)

TypeOK ==
    /\ \A b \in Blocks : md[b].rev \in 0 .. MaxCompactions + 1
    /\ gstate.orphans \in Nat /\ gdisk.orphans \in Nat
    /\ taken \subseteq Blocks

\* README.md:112: "All POSIX operations, such as remove and rename, are atomic, even
\* in event of power-loss."  Whatever relocates or splits on the way.
AllAtomic == Tree!Spec

\* The list and the tree have the same directories, with the same pairs.
Threaded ==
    LET inTree == {Both(p) : p \in Heads(md, Mounted(md).move)}
        inList == {Both(m.c.tail) : m \in {x \in ToSet(List(md)) : IsHead(x)}}
    IN  inTree = inList \cup {Both(RootPair)}

\* Whenever they have not, the flash says so: else nobody would repair it.
OrphansFlagged == Threaded \/ OrphanBit \in OnDisk(md)

\* After each call the flash holds the global state that the memory thinks it holds.
StateTracked == todo = <<>> => OnDisk(md) = Bits(gdisk)

\* No LFS_ASSERT fails (lfs_dir_relocatingcommit, lfs_fs_preporphans, and
\* lfs_dir_orphaningcommit where it looks for the predecessor).
AssertsHold == ~aborted

==============================================================================
