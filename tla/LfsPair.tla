------------------------------- MODULE LfsPair -------------------------------
(***************************************************************************)
(* A metadata pair of littlefs (lfs.c): two blocks that hold a log of      *)
(* commits each.  The block with the newer revision is the current one; a  *)
(* commit is appended to it, or, when it is full or damaged, everything is *)
(* rewritten to the other block under the next revision.  Every so many    *)
(* revisions, and when a block turns out bad, the block to be written is   *)
(* replaced by a free one and the parent records the new pair.             *)
(*                                                                         *)
(* Abstractions.  A block is its revision, the commits whose checksum      *)
(* matches, and what a scan meets behind them: a checksum never matches by *)
(* accident.  A commit is the directory it leads to, and a directory the   *)
(* number of commits behind it, modulo Versions.  An erase or a program    *)
(* may fail at any time; reads succeed.  The parent's own commit is one    *)
(* step: it is another pair's.  What is compacted fits one block: lfs_dir_ *)
(* split is not modelled here.  What a block outside the pair holds does   *)
(* not matter, since it is erased before it joins; the model has it        *)
(* Erased.                                                                 *)
(***************************************************************************)
EXTENDS Integers, Sequences, FiniteSets

CONSTANTS
    Blocks,         \* block addresses
    Versions,       \* contents of the directory that are told apart
    RevMod,         \* 2^32 in the code: a revision is a uint32_t
    BlockCycles,    \* cfg->block_cycles
    Capacity,       \* commits that fit a block
    MaxWear         \* bound: compactions counted per block

ASSUME PairAssumption ==
    /\ Cardinality(Blocks) >= 2
    /\ RevMod \in Nat /\ RevMod % 2 = 0
    /\ BlockCycles \in Nat \ {0} /\ BlockCycles + 3 <= RevMod \div 2   \* 512 and 2^32 here
    /\ MaxWear \in Nat \ {0}
    /\ Capacity \in Nat \ {0}
    /\ Versions \in Nat \ {0}

VARIABLES
    isSuper,    \* the pair is {0, 1}, the superblock's
    media,      \* the flash: for each block [rev, log, end]
    home,       \* the pair as the parent's entry on disk records it
    dir,        \* the lfs_mdir_t in memory: [pair, rev, off, erased]
    pc,         \* where the commit in progress is
    ldir,       \* its copy of dir
    tired,      \* local of lfs_dir_compact
    relocated,  \* local of lfs_dir_compact
    tried,      \* blocks lfs_alloc has handed out since lfs_alloc_ack
    reply,      \* how the last commit ended
    wear        \* history: compactions into a block since it joined the pair

commit == <<pc, ldir, tired, relocated, tried, reply>>
vars == <<isSuper, media, home, dir, commit, wear>>

Ends == {"erased", "looksErased", "dirty"}
Revs == 0 .. RevMod - 1
Dirs == 0 .. Versions - 1
Pairs == {p \in [1 .. 2 -> Blocks] : p[1] # p[2]}
Both(p) == {p[1], p[2]}

-----------------------------------------------------------------------------
(* Reading a pair. *)

\* Mutant: compares revisions as unsigned numbers.
Newer_unsigned(a, b) == a > b

\* lfs_scmp(a, b) > 0: revisions compare by their signed difference, which
\* survives the wrap of the counter.
Newer(a, b) == (a - b) % RevMod \in 1 .. RevMod \div 2 - 1

\* lfs_dir_fetchmatch: the block with the newer revision, or the other one when
\* that has no complete commit.  `erased' says that the scan ended at a tag
\* that looks unprogrammed right behind a checksum.
Fetch(p) ==
    LET r == IF Newer(media[p[2]].rev, media[p[1]].rev) THEN 2 ELSE 1
        b == IF media[p[r]].log # <<>> THEN r ELSE 3 - r
    IN  [pair |-> <<p[b], p[3 - b]>>, rev |-> media[p[b]].rev,
         off |-> Len(media[p[b]].log), erased |-> media[p[b]].end # "dirty"]

\* What a mount now would find in the pair the parent has; -1 for LFS_ERR_CORRUPT.
OnDisk ==
    LET log == media[Fetch(home).pair[1]].log
    IN  IF log = <<>> THEN -1 ELSE log[Len(log)]

-----------------------------------------------------------------------------
(* A new directory: lfs_dir_alloc and its first commit, which compacts into the
   second block; the first keeps what it had in an earlier life. *)

Modulus == IF BlockCycles % 2 = 0 THEN BlockCycles + 1 ELSE BlockCycles + 2
    \* (block_cycles + 1) | 1, for block_cycles > 0: the next odd number

Alignup(r) == LET s == (r + Modulus - 1) % RevMod IN s - (s % Modulus)

\* A block as it may be found: erased, or with a directory of an earlier life.
Erased == [rev |-> RevMod - 1, log |-> <<>>, end |-> "erased"]
Former == {[rev |-> r, log |-> <<c>>, end |-> "dirty"] : r \in Revs, c \in Dirs}

Init ==
    /\ isSuper \in BOOLEAN
    /\ \E p \in Pairs, old \in Former \cup {Erased}, c \in Dirs :
          /\ home = p
          /\ media = [b \in Blocks |->
                IF b = p[1] THEN [rev |-> (Alignup(old.rev) + 1) % RevMod,
                                  log |-> <<c>>, end |-> "erased"]
                ELSE IF b = p[2] THEN old
                ELSE Erased]
          /\ dir = [pair |-> p, rev |-> media[p[1]].rev, off |-> 1, erased |-> FALSE]
          /\ wear = [b \in Blocks |-> IF b = p[1] THEN 1 ELSE 0]
    /\ pc = "idle" /\ ldir = dir
    /\ tired = FALSE /\ relocated = FALSE /\ tried = {}
    /\ reply = "done"

TypeOK ==
    /\ isSuper \in BOOLEAN
    /\ media \in [Blocks -> [rev : Revs, log : Seq(Dirs), end : Ends]]
    /\ Both(home) \cap Both(dir.pair) # {}
    /\ home \in Pairs
    /\ dir \in [pair : Pairs, rev : Revs, off : 1 .. Capacity, erased : BOOLEAN]
    /\ ldir \in [pair : Pairs, rev : Revs, off : 1 .. Capacity, erased : BOOLEAN]
    /\ pc \in {"idle", "append", "compact", "erase", "prog", "relocate", "parent"}
    /\ tired \in BOOLEAN /\ relocated \in BOOLEAN
    /\ tried \subseteq Blocks
    /\ reply \in {"done", "failed"}
    /\ wear \in [Blocks -> 0 .. MaxWear]

-----------------------------------------------------------------------------
(* A commit. *)

\* An operation fetches the directory anew, or uses the copy an open file or
\* directory keeps in lfs->mlist.
Begin ==
    /\ pc = "idle"
    /\ \E d \in {dir, Fetch(home)} :
          /\ dir' = d /\ ldir' = d
          /\ pc' = IF d.erased THEN "append" ELSE "compact"
    /\ tried' = {}
    /\ tired' = FALSE /\ relocated' = FALSE
    /\ UNCHANGED <<media, home, reply, wear>>

\* The commit returns; fixmlist leaves its copy of the directory in dir.
Ended(r, d) ==
    /\ pc' = "idle" /\ reply' = r
    /\ dir' = d /\ ldir' = d
    /\ tired' = FALSE /\ relocated' = FALSE /\ tried' = {}

Finish(d) == Ended("done", d)

\* The flash as far as the blocks S are concerned.
Known(m, S) == [b \in Blocks |-> IF b \in S THEN m[b] ELSE Erased]

\* What programming behind the last commit of a block may leave when it is cut
\* off or fails.
Torn(b) == {[media[b] EXCEPT !.end = e] : e \in (Ends \ {"erased"}) \cup {media[b].end}}

\* The directory the commit reads, and what it makes of it.
Changed == (media[ldir.pair[1]].log[ldir.off] + 1) % Versions

\* A block with the commit behind the others: the attribute and the checksum.
Appendable(b) == Len(media[b].log) < Capacity /\ media[b].end = "erased"
Appended(b) == [media[b] EXCEPT !.log = Append(@, Changed)]

\* lfs_dir_relocatingcommit on an erased tail: the attribute, then the checksum,
\* which is read back.  Where that fails - always in a block that is full, or not erased
\* in spite of its looks - something torn is left, and everything is compacted.
AppendCommit ==
    LET b == ldir.pair[1]
    IN  /\ pc = "append"
        /\ \/ /\ Appendable(b)
              /\ media' = [media EXCEPT ![b] = Appended(b)]
              /\ Finish([ldir EXCEPT !.off = @ + 1])
           \/ /\ \E m \in Torn(b) : media' = [media EXCEPT ![b] = m]
              /\ pc' = "compact"
              /\ UNCHANGED <<dir, ldir, tired, relocated, tried, reply>>
        /\ UNCHANGED <<home, wear>>

\* Mutant: block_cycles itself as the modulus.
NeedsRelocation_even(d) == ((d.rev + 1) % RevMod) % (BlockCycles + 1) = 0

\* lfs_dir_needsrelocation.
NeedsRelocation(d) == ((d.rev + 1) % RevMod) % Modulus = 0

\* The head of lfs_dir_compact.
StartCompact ==
    /\ pc = "compact"
    /\ tired' = (NeedsRelocation(ldir) /\ ~isSuper)
    /\ ldir' = [ldir EXCEPT !.rev = (@ + 1) % RevMod]
    /\ pc' = IF tired' THEN "relocate" ELSE "erase"
    /\ UNCHANGED <<media, home, dir, relocated, tried, reply, wear>>

\* lfs_bd_erase.
Erase ==
    LET b == ldir.pair[2]
    IN  /\ pc = "erase"
        /\ \/ media' = [media EXCEPT ![b] = Erased] /\ pc' = "prog"
           \/ media' = media /\ pc' = "relocate"
        /\ UNCHANGED <<home, dir, ldir, tired, relocated, tried, reply, wear>>

\* A block whose first commit is cut off or fails: it reads as before the
\* erase, as erased, or as something without a complete commit, whose revision
\* only decides which block of the pair is read first.
Scrap(b) ==
    {media[b], Erased} \cup
        {[rev |-> r, log |-> <<>>, end |-> "dirty"] : r \in {ldir.rev, (ldir.rev - 2) % RevMod}}

\* The block when it succeeds: everything the directory held, and the change.
Compacted == [rev |-> ldir.rev, log |-> <<Changed>>, end |-> "erased"]

Worn(b) == [wear EXCEPT ![b] = IF @ < MaxWear /\ ~isSuper THEN @ + 1 ELSE @]

\* The rest of a turn of the loop in lfs_dir_compact: the revision, the
\* snapshot and the checksum, read back.
Prog ==
    LET b == ldir.pair[2]
        swapped == [ldir EXCEPT !.pair = <<b, ldir.pair[1]>>, !.off = 1]
    IN  /\ pc = "prog"
        /\ \/ /\ media' = [media EXCEPT ![b] = Compacted]
              /\ IF relocated
                 THEN /\ ldir' = swapped /\ pc' = "parent"
                      /\ UNCHANGED <<dir, tired, relocated, tried, reply>>
                 ELSE Finish(swapped)
              /\ wear' = Worn(b)
           \/ /\ \E m \in Scrap(b) : media' = [media EXCEPT ![b] = m]
              /\ pc' = "relocate"
              /\ UNCHANGED <<dir, ldir, tired, relocated, tried, reply, wear>>
        /\ UNCHANGED home

\* Mutant: the allocator does not look which blocks are in use.
Free_any == Blocks \ tried

\* What lfs_alloc may hand out: no block of the tree as it is on disk, none twice
\* since lfs_alloc_ack.
Free == Blocks \ (Both(home) \cup Both(ldir.pair) \cup tried)

\* The label relocate of lfs_dir_compact.  A pair that was only tired goes on
\* with its block when there is no other; one with a bad block, or the superblock's, fails.
Relocate ==
    /\ pc = "relocate"
    /\ \E available \in SUBSET Free :   \* other files have the rest
        IF isSuper \/ (available = {} /\ ~tired)
        THEN Ended("failed", dir) /\ UNCHANGED wear
        ELSE /\ pc' = "erase"
             /\ relocated' = TRUE /\ tired' = FALSE
             /\ IF available = {}
                THEN wear' = [b \in Blocks |-> 0] /\ UNCHANGED <<ldir, tried>>
                ELSE \E b \in available :
                       /\ ldir' = [ldir EXCEPT !.pair[2] = b]
                       /\ tried' = tried \cup {b}
                       /\ wear' = [wear EXCEPT ![b] = 0]
             /\ UNCHANGED <<dir, reply>>
    /\ media' = Known(media, Both(home) \cup Both(dir.pair))
    /\ UNCHANGED home

\* lfs_dir_orphaningcommit: the parent's entry gets the new pair.
UpdateParent ==
    /\ pc = "parent"
    /\ home' = ldir.pair
    /\ media' = Known(media, Both(ldir.pair))
    /\ Finish(ldir)
    /\ UNCHANGED wear

-----------------------------------------------------------------------------
(* The environment. *)

\* Power is lost; what was being written is torn; the next mount fetches the
\* pair the parent has.
PowerLoss ==
    /\ pc # "idle"
    /\ \/ pc \in {"compact", "relocate", "parent"} /\ media' = Known(media, Both(home))
       \/ LET b == ldir.pair[1]
          IN  /\ pc = "append"
              /\ \E m \in Torn(b) \cup IF Appendable(b) THEN {Appended(b)} ELSE {} :
                    media' = Known([media EXCEPT ![b] = m], Both(home))
       \/ LET b == ldir.pair[2]
          IN  /\ pc \in {"erase", "prog"}
              /\ \E m \in Scrap(b) \cup
                          IF pc = "prog" THEN {Compacted} ELSE {} :
                    media' = Known([media EXCEPT ![b] = m], Both(home))
    /\ wear' = IF media'[ldir.pair[2]] = Compacted /\ pc = "prog" /\ ldir.pair[2] \in Both(home)
               THEN Worn(ldir.pair[2]) ELSE wear
    /\ UNCHANGED home
    /\ Ended("failed", Fetch(home)')

\* A step of the commit in progress.
Step ==
    \/ AppendCommit \/ StartCompact \/ Erase \/ Prog \/ Relocate \/ UpdateParent

Next == (Begin \/ Step \/ PowerLoss) /\ UNCHANGED isSuper

Spec == Init /\ [][Next]_vars

-----------------------------------------------------------------------------
(* Properties. *)

\* Whatever is torn, whatever fails and whatever the blocks held before, the
\* pair is an atomic register: a mount at any moment finds the directory, with
\* every acknowledged commit, and the one in progress entirely or not at all;
\* a commit that a mount has once found stays; and the copy of the directory
\* in memory, from which the next commit starts, agrees with the disk.
Atomic == INSTANCE AtomicCommit
            WITH content <- OnDisk, base <- media[dir.pair[1]].log[dir.off], busy <- pc # "idle"
CommitsAtomic == Atomic!Spec

\* Wear levelling reaches both blocks of a pair: neither is compacted into more
\* than Modulus times before it is replaced (lfs_dir_needsrelocation on why the
\* modulus is odd).  The wrap of the counter must leave an odd part of a cycle,
\* as 2^32 does with the default block_cycles.
WearSpread ==
    ~isSuper => \A b \in Both(home) : wear[b] <= Modulus

==============================================================================
