------------------------------- MODULE LfsTags -------------------------------
(***************************************************************************)
(* What is in the commits of a metadata pair of littlefs: tags.  A tag     *)
(* says one thing about the entry that has some index when the tag is      *)
(* written; entries that come and go before it in the order of names       *)
(* change the index of those behind them, for all the tags written before. *)
(* Looking something up goes through the log backwards (lfs_dir_getslice), *)
(* finding a name goes forwards (lfs_dir_fetchmatch), and a compaction     *)
(* copies what still holds (lfs_dir_traverse), in one pair or cut in       *)
(* several.  The two directories here are one pair each.                   *)
(*                                                                         *)
(* Abstractions.  Data is a value and a tag takes the room of one; a       *)
(* commit is there or not (LfsPair has its checksums); a behaviour follows *)
(* one of the pairs that a cut leads to; superblock and global state are   *)
(* LfsTree's, but for the move that hides an entry.                        *)
(***************************************************************************)
EXTENDS Integers, SequencesExt, FiniteSetsExt, TLC

CONSTANTS
    Words,          \* names, in their order
    Data,           \* contents of files
    Attributes,     \* kinds of attributes
    LogCap,         \* tags that fit into a block
    None,           \* a model value
    MaxCommits      \* a bound

VARIABLES
    logs,           \* the current block of each pair
    entries,        \* history: the entries each directory has
    moving,         \* lfs->gdisk: an entry that is in its new place already, [pair, id]
    commits

tagVars == <<logs, entries, moving, commits>>

TwoPairs == {1, 2}
Kinds == {"reg", "dir"}

Tag(type, id, key, value) == [type |-> type, id |-> id, key |-> key, value |-> value]
Creating(id) == Tag("create", id, None, None)
Deleting(id) == Tag("delete", id, None, None)
Naming(id, kind, n) == Tag("name", id, kind, n)
Storing(id, x) == Tag("struct", id, None, x)
Attributing(id, a, x) == Tag("attr", id, a, x)      \* None: lfs_tag_isdelete
Moving(id, from) == Tag("move", id, None, from)     \* LFS_FROM_MOVE

\* lfs_tag_splice.
Splice(t) == CASE t.type = "create" -> 1 [] t.type = "delete" -> -1 [] OTHER -> 0

----------------------------------------------------------------------------
(* Reading. *)

HasMove(p) == moving # None /\ moving.pair = p

\* The tags in log[1 .. n], backwards, about the entry that is number id after
\* them: what the last one of this type and key says.
RECURSIVE Slice(_, _, _, _, _)
Slice(log, n, type, key, id) ==
    IF n = 0 THEN None
    ELSE LET t == log[n]
             before == Slice(log, n - 1, type, key, IF t.id <= id THEN id - Splice(t) ELSE id)
         IN  CASE t.type = "create" /\ t.id = id -> None
               [] t.type = type /\ t.id = id /\ key \in {None, t.key} -> t.value
               [] OTHER -> before

\* lfs_dir_getslice, past an entry that has moved away.
Get(p, type, key, id) ==
    Slice(logs[p], Len(logs[p]), type, key, IF HasMove(p) /\ moving.id <= id THEN id + 1 ELSE id)

\* A best match after tag t: it moves with the entry, and is lost with it.
Kept(best, t) ==
    CASE best = None \/ Splice(t) = 0 -> best
      [] t.type = "delete" /\ t.id = best.id -> [best EXCEPT !.found = FALSE]
      [] t.id > best.id -> best
      [] OTHER -> [best EXCEPT !.id = @ + Splice(t)]

\* The better match for name n of that and the one in a name tag.
Better(best, t, n) ==
    LET same == best # None /\ t.id = best.id /\ t.key = best.kind
    IN  CASE t.type # "name" -> best
          [] t.type = "name" /\ t.value = n -> [id |-> t.id, kind |-> t.key, found |-> TRUE]
          [] t.type = "name" /\ t.value # n /\ same -> None
          [] t.type = "name" /\ t.value > n /\ ~same /\ (best = None \/ t.id <= best.id) ->
                 [id |-> t.id, kind |-> t.key, found |-> FALSE]
          [] OTHER -> best

\* lfs_dir_fetchmatch for name n over log[1 .. i]: how many entries there are, and the
\* best match, which is that of a greater name when there is none.
RECURSIVE Match(_, _, _)
Match(log, i, n) ==
    IF i = 0 THEN [count |-> 0, best |-> None]
    ELSE LET Next_(f, t) ==
                 [count |-> IF t.type = "name" THEN Max({f.count, t.id + 1}) ELSE f.count + Splice(t),
                  best  |-> Better(Kept(f.best, t), t, n)]
         IN  Next_(Match(log, i - 1, n), log[i])

\* lfs_dir_find in a pair: the index the name has or would get, m having been found.
Found(m, p) ==
    IF m.best = None THEN [count |-> m.count, id |-> m.count, found |-> FALSE, kind |-> None]
    ELSE LET id == m.best.id
         IN  [count |-> m.count,
              id    |-> Min({IF HasMove(p) /\ moving.id < id THEN id - 1 ELSE id, m.count}),
              found |-> m.best.found /\ ~(HasMove(p) /\ moving.id = id),
              kind  |-> m.best.kind]

FetchMatch(p, n) == Found(Match(logs[p], Len(logs[p]), n), p)

----------------------------------------------------------------------------
(* Writing. *)

\* Mutant: what is said of a deleted entry is copied.
Redundant_kept(t, f) ==
    \/ t.type = f.type /\ t.id = f.id /\ (t.type = "attr" => t.key = f.key)
    \/ f.type = "attr" /\ f.value = None

\* lfs_dir_traverse_filter: whether tag f is of no use with a later tag t.
Redundant(t, f) ==
    \/ t.type = f.type /\ t.id = f.id /\ (t.type = "attr" => t.key = f.key)
    \/ f.type = "attr" /\ f.value = None
    \/ t.type = "delete" /\ t.id = f.id

\* Tag f with its index after tags[i ..], or None.
RECURSIVE Filtered(_, _, _)
Filtered(f, tags, i) ==
    IF i > Len(tags) THEN f
    ELSE LET t == tags[i]
         IN  CASE t.type # "move" /\ Redundant(t, f) -> None
               [] t.type = "move" \/ ~Redundant(t, f) ->
                      Filtered(IF t.id <= f.id THEN [f EXCEPT !.id = @ + Splice(t)] ELSE f, tags, i + 1)

\* lfs_dir_traverse of tags[i ..], of some types, for entries begin .. end - 1, which
\* get numbers from there on plus diff.
RECURSIVE Traversed(_, _, _, _, _, _)
Traversed(tags, i, types, begin, end, diff) ==
    LET Taken(t) == IF t # None /\ t.id \in begin .. end - 1 THEN <<[t EXCEPT !.id = @ + diff]>> ELSE <<>>
    IN  IF i > Len(tags) THEN <<>>
        ELSE (IF tags[i].type \in types THEN Taken(Filtered(tags[i], tags, i + 1)) ELSE <<>>)
             \o Traversed(tags, i + 1, types, begin, end, diff)

\* A move stands for what the other entry has, but for its name.
RECURSIVE Expanded(_, _)
Expanded(tags, source) ==
    LET t == Head(tags)
    IN  IF tags = <<>> THEN <<>>
        ELSE (IF t.type = "move"
              THEN Traversed(source, 1, {"struct", "attr"}, t.value, t.value + 1, t.id - t.value)
              ELSE <<t>>)
             \o Expanded(Tail(tags), source)

\* The tags of a compaction of entries begin .. end - 1.
CompactedTags(tags, source, begin, end) ==
    Expanded(Traversed(tags, 1, {"name", "struct", "attr", "move"}, begin, end, -begin), source)

\* lfs_dir_splittingcompact: where the last part of entries begin .. end - 1 starts.
RECURSIVE SplitOf(_, _, _, _)
SplitOf(tags, source, split, end) ==
    IF end - split <= 1 \/ Len(CompactedTags(tags, source, split, end)) <= LogCap \div 2 THEN split
    ELSE SplitOf(tags, source, split + ((end - split) \div 2), end)

\* The ranges of entries that get a pair each.
RECURSIVE Ranges(_, _, _)
Ranges(tags, source, end) ==
    LET Rest(split) == {<<split, end>>} \cup (IF split = 0 THEN {} ELSE Ranges(tags, source, split))
    IN  Rest(SplitOf(tags, source, 0, end))

\* A commit of attributes to pair p, appended or compacted, that leads to the entries
\* of the last parameter.
Commit_(p, attrs, source, after) ==
    \/ /\ logs' = [logs EXCEPT ![p] = @ \o Expanded(attrs, source)]
       /\ Len(logs'[p]) <= LogCap
       /\ entries' = [entries EXCEPT ![p] = after]
    \/ \E r \in Ranges(logs[p] \o attrs, source, Len(after)) :
          /\ logs' = [logs EXCEPT ![p] = CompactedTags(@ \o attrs, source, r[1], r[2])]
          /\ entries' = [entries EXCEPT ![p] = SubSeq(after, r[1] + 1, r[2])]

----------------------------------------------------------------------------
(* Operations. *)

NewEntry(kind, n, x) == [name |-> n, kind |-> kind, data |-> x, attrs |-> [a \in Attributes |-> None]]

\* lfs_file_open of a new file, lfs_mkdir.
make(p, kind, n) ==
    \E at \in {FetchMatch(p, n)}, x \in {Min(Data)} :
        /\ ~at.found /\ moving = None
        /\ Commit_(p, <<Creating(at.id), Naming(at.id, kind, n), Storing(at.id, x)>>, <<>>,
                   InsertAt(entries[p], at.id + 1, NewEntry(kind, n, x)))
        /\ UNCHANGED moving

\* lfs_file_sync.
store(p, n, x) ==
    \E at \in {FetchMatch(p, n)} :
        /\ at.found /\ moving = None /\ entries[p][at.id + 1].data # x
        /\ Commit_(p, <<Storing(at.id, x)>>, <<>>, [entries[p] EXCEPT ![at.id + 1].data = x])
        /\ UNCHANGED moving

\* lfs_getattr.
getattr(p, id, a) == Get(p, "attr", a, id)

\* lfs_setattr, and with None lfs_removeattr.
commitattr(p, n, a, x) ==
    \E at \in {FetchMatch(p, n)} :
        /\ at.found /\ moving = None /\ getattr(p, at.id, a) # x
        /\ Commit_(p, <<Attributing(at.id, a, x)>>, <<>>, [entries[p] EXCEPT ![at.id + 1].attrs[a] = x])
        /\ UNCHANGED moving

\* lfs_remove.
remove_(p, n) ==
    \E at \in {FetchMatch(p, n)} :
        /\ at.found /\ moving = None
        /\ Commit_(p, <<Deleting(at.id)>>, <<>>, RemoveAt(entries[p], at.id + 1))
        /\ UNCHANGED moving

Put(es, new, e) == InsertAt(IF new.found THEN RemoveAt(es, new.id + 1) ELSE es, new.id + 1, e)

\* The tags that put an entry of a kind at new under a name, as what from is.
Renaming(new, kind, to, from) ==
    (IF new.found THEN <<Deleting(new.id)>> ELSE <<>>)
    \o <<Creating(new.id), Naming(new.id, kind, to), Moving(new.id, from)>>

\* lfs_rename in one pair.
rename_here(p, n, to) ==
    \E old \in {FetchMatch(p, n)}, new \in {FetchMatch(p, to)} :
        /\ old.found /\ n # to /\ (new.found => new.kind = old.kind) /\ moving = None
        /\ \E e \in {[entries[p][old.id + 1] EXCEPT !.name = to]},
              oldid \in {IF ~new.found /\ new.id <= old.id THEN old.id + 1 ELSE old.id} :
              Commit_(p, Append(Renaming(new, e.kind, to, old.id), Deleting(oldid)), logs[p],
                      RemoveAt(Put(entries[p], new, e), oldid + 1))
        /\ UNCHANGED moving

\* lfs_rename to another pair, which leaves the old entry for the next commit.
rename_away(p, q, n, to) ==
    \E old \in {FetchMatch(p, n)}, new \in {FetchMatch(q, to)} :
        /\ old.found /\ p # q /\ (new.found => new.kind = old.kind) /\ moving = None
        /\ \E e \in {[entries[p][old.id + 1] EXCEPT !.name = to]} :
              Commit_(q, Renaming(new, e.kind, to, old.id), logs[p], Put(entries[q], new, e))
        /\ moving' = [pair |-> p, id |-> old.id]

\* The rest of it, or lfs_fs_demove after a loss of power.
finish_move ==
    /\ moving # None
    /\ Commit_(moving.pair, <<Deleting(moving.id)>>, <<>>, RemoveAt(entries[moving.pair], moving.id + 1))
    /\ moving' = None

\* A compacted log with some files.
Filled(ns) == FlattenSeq([i \in DOMAIN ns |-> <<Naming(i - 1, "reg", ns[i]), Storing(i - 1, Min(Data))>>])
Files(ns) == [i \in DOMAIN ns |-> NewEntry("reg", ns[i], Min(Data))]

\* Bound: programs work in the first directory and move things to the second, which
\* has one file.
TagInit ==
    /\ \E A \in SUBSET Words :
          LET ns == SetToSortSeq(A, <)
              n  == Min(Words \ {Min(Words)})
          IN  logs = <<Filled(ns), Filled(<<n>>)>> /\ entries = <<Files(ns), Files(<<n>>)>>
    /\ moving = None /\ commits = 0

TagNext ==
    /\ commits < MaxCommits /\ commits' = commits + 1
    /\ \/ \E n \in Words :
             \/ \E k \in Kinds : make(1, k, n)
             \/ \E x \in Data : store(1, n, x)
             \/ \E a \in Attributes, x \in Data \cup {None} : commitattr(1, n, a, x)
             \/ remove_(1, n)
             \/ \E to \in Words : rename_here(1, n, to) \/ rename_away(1, 2, n, to)
       \/ finish_move

TagSpec == TagInit /\ [][TagNext]_tagVars

----------------------------------------------------------------------------
(* Properties. *)

\* What a reader sees of a directory: an entry that is in its new place is not there.
Visible_(p) == IF HasMove(p) THEN RemoveAt(entries[p], moving.id + 1) ELSE entries[p]

\* The log of a pair tells exactly the entries it should have: how many, each one's
\* name, data and attributes under its index, and nothing about other indexes.
TagsTell ==
    \A p \in TwoPairs : \A vis \in {Visible_(p)} :
        /\ \A n \in Words : FetchMatch(p, n).count = Len(entries[p])
        /\ \A id \in DOMAIN vis : \A e \in {vis[id]} :
              /\ \A k \in {None, e.kind} : Get(p, "name", k, id - 1) = e.name
              /\ Get(p, "struct", None, id - 1) = e.data
              /\ \A a \in Attributes : getattr(p, id - 1, a) = e.attrs[a]
        /\ \A id \in Len(vis) .. Len(entries[p]) : Get(p, "name", None, id) = None

\* A name is found where it is, and one that is not there gets the place that keeps
\* the directory in order.
NamesFound ==
    \A p \in TwoPairs, n \in Words : \A at \in {FetchMatch(p, n)}, vis \in {Visible_(p)} :
        /\ at.found <=> \E i \in DOMAIN vis : vis[i].name = n
        /\ at.found \/ ~HasMove(p) => at.id = Cardinality({i \in DOMAIN vis : vis[i].name < n})

\* A log says what it has to say whatever was written, moved, deleted and compacted.
LogsTell == TagsTell /\ NamesFound
==============================================================================
