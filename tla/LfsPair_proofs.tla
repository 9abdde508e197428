--------------------------- MODULE LfsPair_proofs ---------------------------
(***************************************************************************)
(* Proofs about a metadata pair, for any number of blocks, any revision    *)
(* counter that wraps and any block_cycles: whatever is torn, fails or is  *)
(* cut off, the pair implements an atomic register, and wear levelling     *)
(* reaches both of its blocks.                                             *)
(***************************************************************************)
EXTENDS LfsPair, TLAPS

-----------------------------------------------------------------------------
(***************************************************************************)
(* The inductive invariant.                                                *)
(***************************************************************************)

LastOf(b) == media[b].log[Len(media[b].log)]

\* A fetch of a pair with the blocks b and o finds what b holds.
Wins(b, o) ==
    /\ media[b].log # <<>>
    /\ media[o].log = <<>> \/ Newer(media[b].rev, media[o].rev)

\* The copy in memory is of the pair the parent has, and as current as the disk.
DirFollows ==
    LET b == dir.pair[1]
    IN  /\ Both(dir.pair) = Both(home)
        /\ dir.off = Len(media[b].log) /\ media[b].log # <<>>
        /\ dir.rev = media[b].rev

\* Until the parent hears of a new block, the current block of the pair is the
\* one the commit began from.
CurrentWins == pc # "parent" => Wins(dir.pair[1], dir.pair[2])

\* The commit's own copy, before the revision is counted and after.
Fresh ==
    pc \in {"append", "compact"} =>
        ldir.pair = dir.pair /\ ldir.off = dir.off /\ ldir.rev = dir.rev

Counted ==
    pc \in {"erase", "prog", "relocate"} =>
        /\ ldir.pair[1] = dir.pair[1] /\ ldir.off = dir.off
        /\ ldir.rev = (dir.rev + 1) % RevMod
        /\ ldir.pair[2] \in {dir.pair[2]} \cup (Blocks \ Both(home))
        /\ ~relocated => ldir.pair[2] = dir.pair[2]

ErasedFirst == pc = "prog" => media[ldir.pair[2]] = Erased

\* Everything is written, and the parent is about to get the new pair.  The new
\* block may belong to the pair all the same: a tired pair that finds no free
\* block goes on with its own.
Written ==
    pc = "parent" =>
        LET b == dir.pair[1]
            x == ldir.pair[1]
        IN  /\ ldir.pair[2] = b /\ ldir.off = 1
            /\ ldir.rev = (dir.rev + 1) % RevMod
            /\ media[x] = [rev |-> ldir.rev, log |-> <<(LastOf(b) + 1) % Versions>>,
                           end |-> "erased"]
            /\ \/ x = dir.pair[2]
               \/ x \notin Both(home) /\ Wins(b, dir.pair[2])

Consistent ==
    /\ DirFollows /\ CurrentWins /\ Fresh /\ Counted /\ ErasedFirst /\ Written

Typed ==
    /\ media \in [Blocks -> [rev : Revs, log : Seq(Dirs), end : Ends]]
    /\ \A b \in Blocks : Len(media[b].log) <= Capacity
    /\ home \in Pairs
    /\ dir \in [pair : Pairs, rev : Revs, off : 1 .. Capacity, erased : BOOLEAN]
    /\ ldir \in [pair : Pairs, rev : Revs, off : 1 .. Capacity, erased : BOOLEAN]
    /\ pc \in {"idle", "append", "compact", "erase", "prog", "relocate", "parent"}
    /\ tired \in BOOLEAN /\ relocated \in BOOLEAN
    /\ tried \subseteq Blocks
    /\ reply \in {"done", "failed"}
    /\ wear \in [Blocks -> 0 .. MaxWear]

IInv == Typed /\ Consistent


-----------------------------------------------------------------------------
(***************************************************************************)
(* Revisions.                                                              *)
(***************************************************************************)

\* Revisions and contents are taken modulo something positive, and the modulus
\* of needsrelocation is small against half the range of revisions.
LEMMA Bounds ==
  /\ RevMod \in Nat \ {0} /\ RevMod \div 2 \in Nat /\ 2 * (RevMod \div 2) = RevMod
  /\ RevMod \div 2 >= 4
  /\ Modulus \in Nat \ {0} /\ Modulus <= RevMod \div 2 - 1
  /\ Versions \in Nat \ {0} /\ Capacity \in Nat \ {0}
  BY PairAssumption DEF Modulus

\* Newer as a comparison of signed differences.
LEMMA NewerMeans ==
  ASSUME NEW a \in Revs, NEW b \in Revs
  PROVE  Newer(a, b) <=> \/ a - b \in 1 .. RevMod \div 2 - 1
                         \/ a - b + RevMod \in 1 .. RevMod \div 2 - 1
  <1>1. CASE a >= b
    <2>1. (a - b) % RevMod = a - b
      BY <1>1, Bounds DEF Revs
    <2>2. QED
      BY <1>1, <2>1, Bounds DEF Revs, Newer
  <1>2. CASE a < b
    <2>1. (a - b) % RevMod = a - b + RevMod
      BY <1>2, Bounds DEF Revs
    <2>2. QED
      BY <1>2, <2>1, Bounds DEF Revs, Newer
  <1>3. QED
    BY <1>1, <1>2 DEF Revs

\* Of two revisions at most one is newer, and the next revision is, also where
\* the counter wraps.
LEMMA NewerOrders ==
  /\ \A a, b \in Revs : Newer(a, b) => ~Newer(b, a)
  /\ \A r \in Revs : (r + 1) % RevMod \in Revs /\ Newer((r + 1) % RevMod, r)
  <1>1. \A a, b \in Revs : Newer(a, b) => ~Newer(b, a)
    BY NewerMeans, Bounds DEF Revs
  <1>2. ASSUME NEW r \in Revs
        PROVE  (r + 1) % RevMod \in Revs /\ Newer((r + 1) % RevMod, r)
    <2>1. (r + 1) % RevMod = IF r + 1 = RevMod THEN 0 ELSE r + 1
      BY Bounds DEF Revs
    <2>2. QED
      BY <2>1, NewerMeans, Bounds DEF Revs
  <1>3. QED
    BY <1>1, <1>2

\* A new directory's revision: aligned to the modulus, and newer than what the
\* block held in an earlier life.
LEMMA NewerAligned ==
  ASSUME NEW r \in Revs
  PROVE  (Alignup(r) + 1) % RevMod \in Revs /\ Newer((Alignup(r) + 1) % RevMod, r)
  <1> DEFINE s == (r + Modulus - 1) % RevMod
  <1>1. CASE r + Modulus - 1 < RevMod
    <2>1. s = r + Modulus - 1
      BY <1>1, Bounds DEF Revs
    <2>2. s % Modulus \in 0 .. Modulus - 1
      BY <2>1, Bounds DEF Revs
    <2>3. Alignup(r) \in r .. r + Modulus - 1
      BY <2>1, <2>2, Bounds DEF Alignup, Revs
    <2>4. (Alignup(r) + 1) % RevMod =
             IF Alignup(r) + 1 = RevMod THEN 0 ELSE Alignup(r) + 1
      BY <1>1, <2>3, Bounds DEF Revs
    <2>5. QED
      BY <1>1, <2>3, <2>4, NewerMeans, Bounds DEF Revs
  <1>2. CASE r + Modulus - 1 >= RevMod
    <2>1. s = r + Modulus - 1 - RevMod
      BY <1>2, Bounds DEF Revs
    <2>2. s % Modulus = s
      BY <2>1, <1>2, Bounds DEF Revs
    <2>3. Alignup(r) = 0
      BY <2>1, <2>2, Bounds DEF Alignup, Revs
    <2>4. (Alignup(r) + 1) % RevMod = 1
      BY <2>3, Bounds
    <2>5. QED
      BY <1>2, <2>4, NewerMeans, Bounds DEF Revs
  <1>3. QED
    BY <1>1, <1>2, Bounds DEF Revs

-----------------------------------------------------------------------------
(***************************************************************************)
(* Revisions and the modulus of needsrelocation.                           *)
(***************************************************************************)

\* A remainder is what is left of a multiple.
LEMMA RemainderIs ==
  ASSUME NEW m \in Nat \ {0}, NEW q \in Nat, NEW f \in 0 .. m - 1, NEW s, s = m * q + f
  PROVE  s % m = f
  OBVIOUS

\* Every number is a multiple of the divisor and a remainder.
LEMMA Division ==
  ASSUME NEW m \in Nat \ {0}, NEW r \in Nat
  PROVE  \E q \in Nat, f \in 0 .. m - 1 : r = m * q + f /\ r % m = f
  <1>1. PICK q \in Nat : q = r \div m
    OBVIOUS
  <1>2. m * q <= r /\ r < m * (q + 1)
    BY <1>1, SMTT(60)
  <1>3. PICK f \in 0 .. m - 1 : f = r - m * q
    BY <1>2
  <1>4. r = m * q + f
    BY <1>3
  <1>5. r % m = f
    BY <1>4, RemainderIs
  <1>6. QED
    BY <1>4, <1>5

\* The remainder of the next number.
LEMMA NextRemainder ==
  ASSUME NEW m \in Nat \ {0}, NEW r \in Nat
  PROVE  /\ r % m \in 0 .. m - 1
         /\ (r + 1) % m = IF r % m = m - 1 THEN 0 ELSE (r % m) + 1
  <1>1. PICK q \in Nat, f \in 0 .. m - 1 : r = m * q + f /\ r % m = f
    BY Division
  <1>2. r % m = f
    BY <1>1
  <1>3. CASE f = m - 1
    <2>1. PICK k \in Nat : k = q + 1
      OBVIOUS
    <2>2. r + 1 = m * k + 0
      BY <1>1, <1>3, <2>1
    <2>3. (r + 1) % m = 0
      <3>1. 0 \in 0 .. m - 1
        OBVIOUS
      <3>2. QED
        BY ONLY <2>2, <3>1, RemainderIs, k \in Nat, m \in Nat \ {0}
    <2>4. QED
      BY <1>2, <1>3, <2>3
  <1>4. CASE f < m - 1
    <2>1. PICK g \in 0 .. m - 1 : g = f + 1
      BY <1>4
    <2>2. r + 1 = m * q + g
      BY <1>1, <2>1
    <2>3. (r + 1) % m = g
      BY ONLY <2>2, RemainderIs, q \in Nat, g \in 0 .. m - 1, m \in Nat \ {0}
    <2>4. QED
      BY <1>2, <1>4, <2>1, <2>3
  <1>5. QED
    BY <1>3, <1>4

\* What is left without the remainder has none.
LEMMA CutRemainder ==
  ASSUME NEW m \in Nat \ {0}, NEW s \in Nat
  PROVE  s - (s % m) \in 0 .. s /\ (s - (s % m)) % m = 0
  <1>1. PICK q \in Nat, f \in 0 .. m - 1 : s = m * q + f /\ s % m = f
    BY Division
  <1>2. m * q \in Nat
    OBVIOUS
  <1>3. PICK t \in 0 .. s : t = m * q + 0 /\ t = s - f
    BY <1>1, <1>2
  <1>4. t % m = 0
    <2>1. 0 \in 0 .. m - 1
      OBVIOUS
    <2>2. QED
      BY ONLY <1>3, <2>1, RemainderIs, q \in Nat, m \in Nat \ {0}
  <1>5. QED
    BY <1>1, <1>3, <1>4

\* The last revisions before the counter wraps fill an odd part of a cycle:
\* 2^32 % 513 = 481 for the block_cycles that the driver has by default.
WrapsOdd == (RevMod % Modulus) % 2 = 1

\* From one revision to the next the place in the cycle advances by one or,
\* from an even place, starts over.
LEMMA PlaceSteps ==
  ASSUME WrapsOdd, NEW r \in Revs
  PROVE  LET f == r % Modulus
             g == ((r + 1) % RevMod) % Modulus
         IN  /\ Modulus % 2 = 1 /\ Modulus \in Nat \ {0}
             /\ f \in 0 .. Modulus - 1 /\ g \in 0 .. Modulus - 1
             /\ g = f + 1 \/ (g = 0 /\ f % 2 = 0)
  <1> DEFINE f == r % Modulus
             g == ((r + 1) % RevMod) % Modulus
  <1>1. Modulus \in Nat \ {0} /\ Modulus % 2 = 1
    BY Bounds, PairAssumption DEF Modulus
  <1>2. r \in Nat /\ RevMod \in Nat \ {0}
    BY Bounds DEF Revs
  <1>3. f \in 0 .. Modulus - 1 /\ (r + 1) % Modulus = IF f = Modulus - 1 THEN 0 ELSE f + 1
    BY <1>1, <1>2, NextRemainder
  <1>4. CASE r + 1 = RevMod
    <2>1. (r + 1) % RevMod = 0
      BY <1>2, <1>4
    <2>2. g = 0
      BY <1>1, <2>1, RemainderIs
    <2>3. RevMod % Modulus = IF f = Modulus - 1 THEN 0 ELSE f + 1
      BY <1>3, <1>4
    <2>4. f % 2 = 0
      BY <1>1, <1>3, <2>3 DEF WrapsOdd
    <2>5. QED
      BY <1>1, <1>3, <2>2, <2>4
  <1>5. CASE r + 1 # RevMod
    <2>1. (r + 1) % RevMod = r + 1
      BY <1>2, <1>5 DEF Revs
    <2>2. g = IF f = Modulus - 1 THEN 0 ELSE f + 1
      BY <1>3, <2>1
    <2>3. f = Modulus - 1 => f % 2 = 0
      BY <1>1
    <2>4. QED
      BY <1>1, <1>3, <2>2, <2>3
  <1>6. QED
    BY <1>4, <1>5

-----------------------------------------------------------------------------
(***************************************************************************)
(* Types.                                                                  *)
(***************************************************************************)

BlockStates == [rev : Revs, log : Seq(Dirs), end : Ends]
Mdirs == [pair : Pairs, rev : Revs, off : 1 .. Capacity, erased : BOOLEAN]

MediaOK(m) ==
    m \in [Blocks -> BlockStates] /\ \A b \in Blocks : Len(m[b].log) <= Capacity

\* Pairs are ordered pairs of distinct blocks.
LEMMA PairFacts ==
  /\ \A p \in Pairs : /\ p[1] \in Blocks /\ p[2] \in Blocks /\ p[1] # p[2]
                      /\ p = <<p[1], p[2]>> /\ Both(p) = {p[1], p[2]}
  /\ \A b, o \in Blocks : b # o => <<b, o>> \in Pairs /\ Both(<<b, o>>) = {b, o}
  BY DEF Pairs, Both

\* What the type invariant says of a block, and of a directory in memory.
LEMMA TypeFacts ==
  ASSUME Typed
  PROVE  /\ \A b \in Blocks : /\ media[b] \in BlockStates /\ media[b].rev \in Revs
                              /\ media[b].log \in Seq(Dirs) /\ media[b].end \in Ends
                              /\ Len(media[b].log) \in 0 .. Capacity
                              /\ media[b].log # <<>> => Len(media[b].log) \in 1 .. Capacity
                              /\ \A i \in 1 .. Len(media[b].log) : media[b].log[i] \in Dirs
         /\ \A d \in {dir, ldir} : /\ d \in Mdirs /\ d.pair \in Pairs /\ d.rev \in Revs
                                   /\ d.off \in 1 .. Capacity
  <1>1. ASSUME NEW b \in Blocks
        PROVE  /\ media[b] \in BlockStates /\ media[b].rev \in Revs
               /\ media[b].log \in Seq(Dirs) /\ media[b].end \in Ends
               /\ Len(media[b].log) \in 0 .. Capacity
               /\ media[b].log # <<>> => Len(media[b].log) \in 1 .. Capacity
               /\ \A i \in 1 .. Len(media[b].log) : media[b].log[i] \in Dirs
    <2>1. /\ media[b] \in BlockStates /\ media[b].rev \in Revs
          /\ media[b].log \in Seq(Dirs) /\ media[b].end \in Ends
      BY DEF Typed, BlockStates
    <2>2. \A i \in 1 .. Len(media[b].log) : media[b].log[i] \in Dirs
      BY <2>1
    <2>3. Len(media[b].log) \in 0 .. Capacity
      BY <2>1, Bounds DEF Typed
    <2>4. media[b].log # <<>> => Len(media[b].log) \in 1 .. Capacity
      BY <2>1, <2>3, Bounds
    <2>5. QED
      BY <2>1, <2>2, <2>3, <2>4
  <1>2. \A d \in {dir, ldir} : /\ d \in Mdirs /\ d.pair \in Pairs /\ d.rev \in Revs
                               /\ d.off \in 1 .. Capacity
    BY DEF Typed, Mdirs
  <1>3. QED
    BY <1>1, <1>2

-----------------------------------------------------------------------------
(***************************************************************************)
(* Fetching.                                                               *)
(***************************************************************************)

\* A fetch finds the block that wins, whatever the order of the pair.
FetchFinds ==
    \A p \in Pairs : \A b, o \in Blocks :
        /\ MediaOK(media) /\ Both(p) = {b, o} /\ b # o /\ Wins(b, o)
        => /\ Fetch(p) \in Mdirs
           /\ Fetch(p) = [pair |-> <<b, o>>, rev |-> media[b].rev,
                           off |-> Len(media[b].log), erased |-> media[b].end # "dirty"]

LEMMA FetchWinner == FetchFinds
  <1> SUFFICES ASSUME NEW p \in Pairs, NEW b \in Blocks, NEW o \in Blocks,
                      MediaOK(media), Both(p) = {b, o}, b # o, Wins(b, o)
               PROVE  /\ Fetch(p) \in Mdirs
                      /\ Fetch(p) = [pair |-> <<b, o>>, rev |-> media[b].rev,
                                     off |-> Len(media[b].log),
                                     erased |-> media[b].end # "dirty"]
    BY DEF FetchFinds
  <1> DEFINE r == IF Newer(media[p[2]].rev, media[p[1]].rev) THEN 2 ELSE 1
             k == IF media[p[r]].log # <<>> THEN r ELSE 3 - r
  <1>1. Fetch(p) = [pair |-> <<p[k], p[3 - k]>>, rev |-> media[p[k]].rev,
                    off |-> Len(media[p[k]].log), erased |-> media[p[k]].end # "dirty"]
    BY DEF Fetch
  <1>2. media[b].rev \in Revs /\ media[o].rev \in Revs
    BY DEF MediaOK, BlockStates
  <1>3. p[k] = b /\ p[3 - k] = o
    <2>1. CASE p[1] = b /\ p[2] = o
      <3>1. r = 1 \/ media[p[r]].log = <<>>
        BY <1>2, <2>1, NewerOrders DEF Wins
      <3>2. k = 1
        BY <2>1, <3>1 DEF Wins
      <3>3. QED
        BY <2>1, <3>2
    <2>2. CASE p[1] = o /\ p[2] = b
      <3>1. r = 2 \/ media[p[r]].log = <<>>
        BY <2>2 DEF Wins
      <3>2. k = 2
        BY <2>2, <3>1 DEF Wins
      <3>3. QED
        BY <2>2, <3>2
    <2>3. (p[1] = b /\ p[2] = o) \/ (p[1] = o /\ p[2] = b)
      BY DEF Both, Pairs
    <2>4. QED
      BY <2>1, <2>2, <2>3
  <1>4. Len(media[b].log) \in 1 .. Capacity
    BY Bounds DEF MediaOK, BlockStates, Wins
  <1>5. Fetch(p) = [pair |-> <<b, o>>, rev |-> media[b].rev,
                    off |-> Len(media[b].log), erased |-> media[b].end # "dirty"]
    BY <1>1, <1>3
  <1>6. QED
    BY <1>2, <1>4, <1>5, PairFacts DEF Mdirs

-----------------------------------------------------------------------------
(***************************************************************************)
(* Programming a block.                                                    *)
(***************************************************************************)

\* What a failed or finished program leaves is a block, whose log is what it
\* was, gone, or one commit longer.
LEMMA BlockTypes ==
  ASSUME Typed, ldir.off \in 1 .. Len(media[ldir.pair[1]].log)
  PROVE  /\ Erased \in BlockStates /\ Erased.log = <<>>
         /\ Changed \in Dirs
         /\ Compacted \in BlockStates /\ Len(Compacted.log) = 1
         /\ \A b \in Blocks : \A m \in Torn(b) :
               m \in BlockStates /\ m.log = media[b].log /\ m.rev = media[b].rev
         /\ \A b \in Blocks : Appendable(b) =>
               /\ Appended(b) \in BlockStates /\ Appended(b).rev = media[b].rev
               /\ Len(Appended(b).log) = Len(media[b].log) + 1
               /\ Len(media[b].log) + 1 <= Capacity
               /\ Appended(b).log[Len(media[b].log) + 1] = Changed
         /\ \A b \in Blocks : \A m \in Scrap(b) :
               m \in BlockStates /\ (m = media[b] \/ m.log = <<>>)
  <1>1. Erased \in BlockStates /\ Erased.log = <<>>
    BY Bounds DEF Erased, BlockStates, Revs, Ends
  <1>2. Changed \in Dirs
    <2>1. ldir.pair[1] \in Blocks
      BY TypeFacts, PairFacts
    <2>2. \A i \in 1 .. Len(media[ldir.pair[1]].log) : media[ldir.pair[1]].log[i] \in Dirs
      BY <2>1, TypeFacts
    <2>3. media[ldir.pair[1]].log[ldir.off] \in Dirs
      BY <2>2
    <2>4. QED
      BY <2>3, Bounds DEF Changed, Dirs
  <1>3. Compacted \in BlockStates /\ Len(Compacted.log) = 1
    BY <1>2, TypeFacts DEF Compacted, BlockStates, Ends
  <1>4. ASSUME NEW b \in Blocks, NEW m \in Torn(b)
        PROVE  m \in BlockStates /\ m.log = media[b].log /\ m.rev = media[b].rev
    BY <1>4, TypeFacts DEF Torn, BlockStates, Ends
  <1>5. ASSUME NEW b \in Blocks, Appendable(b)
        PROVE  /\ Appended(b) \in BlockStates /\ Appended(b).rev = media[b].rev
               /\ Len(Appended(b).log) = Len(media[b].log) + 1
               /\ Len(media[b].log) + 1 <= Capacity
               /\ Appended(b).log[Len(media[b].log) + 1] = Changed
    <2>1. media[b] \in BlockStates /\ media[b].log \in Seq(Dirs)
      BY TypeFacts
    <2>2. /\ Appended(b).rev = media[b].rev /\ Appended(b).end = media[b].end
          /\ Appended(b).log = Append(media[b].log, Changed)
          /\ Appended(b) \in BlockStates
      BY <1>2, <2>1 DEF Appended, BlockStates
    <2>3. Len(media[b].log) + 1 <= Capacity
      BY <1>5, <2>1, Bounds DEF Appendable
    <2>4. QED
      BY <1>2, <2>1, <2>2, <2>3
  <1>6. ASSUME NEW b \in Blocks, NEW m \in Scrap(b)
        PROVE  m \in BlockStates /\ (m = media[b] \/ m.log = <<>>)
    <2>1. (ldir.rev - 2) % RevMod \in Revs /\ ldir.rev \in Revs
      <3>1. ldir.rev \in Revs
        BY TypeFacts
      <3>2. QED
        BY <3>1, Bounds DEF Revs
    <2>2. CASE m = media[b] \/ m = Erased
      BY <1>1, <2>2, TypeFacts
    <2>3. CASE \E r \in {ldir.rev, (ldir.rev - 2) % RevMod} :
                  m = [rev |-> r, log |-> <<>>, end |-> "dirty"]
      BY <2>1, <2>3 DEF BlockStates, Ends
    <2>4. QED
      BY <1>6, <2>2, <2>3 DEF Scrap
  <1>7. QED
    BY <1>1, <1>2, <1>3, <1>4, <1>5, <1>6

-----------------------------------------------------------------------------
(***************************************************************************)
(* Every step keeps the invariant.                                         *)
(***************************************************************************)

\* Writing a block and forgetting blocks yields a flash.
LEMMA MediaTypes ==
  /\ Typed => MediaOK(media)
  /\ \A m : MediaOK(m) => \A x \in Blocks : \A v \in BlockStates :
        Len(v.log) <= Capacity => MediaOK([m EXCEPT ![x] = v])
  /\ \A m : MediaOK(m) => \A S : MediaOK(Known(m, S))
  <1>1. Typed => MediaOK(media)
    BY DEF Typed, MediaOK, BlockStates
  <1>2. ASSUME NEW m, MediaOK(m), NEW x \in Blocks, NEW v \in BlockStates,
               Len(v.log) <= Capacity
        PROVE  MediaOK([m EXCEPT ![x] = v])
    BY <1>2 DEF MediaOK
  <1>3. ASSUME NEW m, MediaOK(m), NEW S PROVE MediaOK(Known(m, S))
    <2>1. Erased \in BlockStates /\ Len(Erased.log) <= Capacity
      BY Bounds DEF Erased, BlockStates, Revs, Ends
    <2>2. QED
      BY <1>3, <2>1 DEF MediaOK, Known
  <1>4. QED
    BY <1>1, <1>2, <1>3

\* The two blocks of the pair, and what the commit reads from.
LEMMA PairState ==
  ASSUME IInv
  PROVE  LET b == dir.pair[1]
             o == dir.pair[2]
         IN  /\ b \in Blocks /\ o \in Blocks /\ b # o
             /\ dir.pair = <<b, o>>
             /\ home \in Pairs /\ Both(home) = {b, o}
             /\ media[b].log # <<>> /\ Len(media[b].log) \in 1 .. Capacity
             /\ dir.off = Len(media[b].log) /\ dir.rev = media[b].rev
             /\ LastOf(b) \in Dirs
             /\ pc \notin {"idle", "parent"} =>
                   /\ ldir.pair[1] = b /\ ldir.off = Len(media[b].log)
                   /\ ldir.off \in 1 .. Len(media[ldir.pair[1]].log)
                   /\ Changed = (LastOf(b) + 1) % Versions
  <1> USE DEF IInv, Consistent
  <1> DEFINE b == dir.pair[1]
             o == dir.pair[2]
  <1>1. dir.pair \in Pairs
    BY TypeFacts
  <1>2. b \in Blocks /\ o \in Blocks /\ b # o /\ dir.pair = <<b, o>> /\ Both(dir.pair) = {b, o}
    BY <1>1, PairFacts
  <1>3. home \in Pairs /\ Both(home) = {b, o}
    BY <1>2 DEF Typed, DirFollows
  <1>4. media[b].log # <<>> /\ dir.off = Len(media[b].log) /\ dir.rev = media[b].rev
    BY DEF DirFollows
  <1>5. Len(media[b].log) \in 1 .. Capacity
    BY <1>2, <1>4, TypeFacts
  <1>6. LastOf(b) \in Dirs
    BY <1>2, <1>5, TypeFacts DEF LastOf
  <1>7. ASSUME pc \notin {"idle", "parent"}
        PROVE  ldir.pair[1] = b /\ ldir.off = Len(media[b].log)
    BY <1>7, <1>4 DEF Typed, Fresh, Counted
  <1>8. ASSUME pc \notin {"idle", "parent"}
        PROVE  Changed = (LastOf(b) + 1) % Versions
    BY <1>7, <1>8 DEF Changed, LastOf
  <1>9. QED
    BY <1>2, <1>3, <1>4, <1>5, <1>6, <1>7, <1>8

\* The first commit of a directory goes to a block that is newer than what the
\* other one held before.
LEMMA InitInv == Init => IInv
  <1> SUFFICES ASSUME Init PROVE IInv
    OBVIOUS
  <1>1. PICK p \in Pairs, old \in Former \cup {Erased}, c \in Dirs :
          /\ home = p
          /\ media = [b \in Blocks |->
                IF b = p[1] THEN [rev |-> (Alignup(old.rev) + 1) % RevMod,
                                  log |-> <<c>>, end |-> "erased"]
                ELSE IF b = p[2] THEN old
                ELSE Erased]
          /\ dir = [pair |-> p, rev |-> media[p[1]].rev, off |-> 1, erased |-> FALSE]
          /\ wear = [b \in Blocks |-> IF b = p[1] THEN 1 ELSE 0]
    BY DEF Init
  <1>2. /\ p[1] \in Blocks /\ p[2] \in Blocks /\ p[1] # p[2]
    BY PairFacts
  <1>3. Erased \in BlockStates /\ Erased.rev \in Revs /\ Len(Erased.log) <= Capacity
    BY Bounds DEF Erased, BlockStates, Revs, Ends
  <1>4. old \in BlockStates /\ old.rev \in Revs /\ Len(old.log) <= Capacity
    <2>1. CASE old \in Former
      <3>1. PICK r \in Revs, d \in Dirs : old = [rev |-> r, log |-> <<d>>, end |-> "dirty"]
        BY <2>1 DEF Former
      <3>2. <<d>> \in Seq(Dirs) /\ Len(<<d>>) <= Capacity
        BY Bounds
      <3>3. QED
        BY <3>1, <3>2 DEF BlockStates, Ends
    <2>2. QED
      BY <1>3, <2>1
  <1>5. /\ (Alignup(old.rev) + 1) % RevMod \in Revs
        /\ Newer((Alignup(old.rev) + 1) % RevMod, old.rev)
    BY <1>4, NewerAligned
  <1>6. MediaOK(media)
    <2>1. [rev |-> (Alignup(old.rev) + 1) % RevMod, log |-> <<c>>, end |-> "erased"]
             \in BlockStates
      BY <1>5 DEF BlockStates, Ends
    <2>2. Len(<<c>>) <= Capacity
      BY Bounds
    <2>3. QED
      BY <1>1, <1>3, <1>4, <2>1, <2>2 DEF MediaOK
  <1>7. dir \in Mdirs
    BY <1>1, <1>2, <1>5, Bounds DEF Mdirs
  <1>8. Typed
    <2>1. wear \in [Blocks -> 0 .. MaxWear]
      BY <1>1, PairAssumption
    <2>2. ldir = dir
      BY DEF Init
    <2>3. QED
      BY <1>1, <1>6, <1>7, <2>1, <2>2 DEF Init, Typed, MediaOK, BlockStates, Mdirs
  <1>9. Wins(p[1], p[2])
    BY <1>1, <1>2, <1>5 DEF Wins
  <1>10. Consistent
    BY <1>1, <1>2, <1>9 DEF Init, Consistent, DirFollows, CurrentWins, Fresh, Counted,
                            ErasedFirst, Written
  <1>11. QED
    BY <1>8, <1>10 DEF IInv

\* An operation starts from the copy in memory, or fetches one like it.
LEMMA BeginKeeps ==
  ASSUME IInv, Begin
  PROVE  IInv' /\ dir'.pair = dir.pair /\ UNCHANGED <<media, home>>
  <1> DEFINE b == dir.pair[1]
             o == dir.pair[2]
  <1>1. PICK d \in {dir, Fetch(home)} :
          /\ dir' = d /\ ldir' = d
          /\ pc' = IF d.erased THEN "append" ELSE "compact"
    BY DEF Begin
  <1>2. /\ media' = media /\ home' = home /\ reply' = reply /\ wear' = wear
        /\ tried' = {} /\ tired' = FALSE /\ relocated' = FALSE /\ pc = "idle"
    BY DEF Begin
  <1>3. Wins(b, o)
    BY <1>2 DEF IInv, Consistent, CurrentWins
  <1>4. d \in Mdirs /\ d.pair = dir.pair /\ d.off = dir.off /\ d.rev = dir.rev
    <2>1. CASE d = dir
      BY <2>1, TypeFacts DEF IInv
    <2>2. CASE d = Fetch(home)
      <3>1. Fetch(home) = [pair |-> <<b, o>>, rev |-> media[b].rev,
                           off |-> Len(media[b].log), erased |-> media[b].end # "dirty"]
        BY <1>3, PairState, MediaTypes, FetchWinner DEF IInv, FetchFinds
      <3>2. Fetch(home) \in Mdirs
        BY <1>3, PairState, MediaTypes, FetchWinner DEF IInv, FetchFinds
      <3>3. QED
        BY <2>2, <3>1, <3>2, PairState
    <2>3. QED
      BY <2>1, <2>2
  <1>5. Typed'
    BY <1>1, <1>2, <1>4 DEF IInv, Typed, Mdirs
  <1>6. Wins(b, o)'
    BY <1>1, <1>2, <1>3, <1>4 DEF Wins
  <1>7. Consistent'
    BY <1>1, <1>2, <1>4, <1>6 DEF IInv, Consistent, DirFollows, CurrentWins, Fresh, Counted,
                                  ErasedFirst, Written
  <1>8. QED
    BY <1>1, <1>2, <1>4, <1>5, <1>7 DEF IInv

\* An append makes the log of the current block one longer, or leaves it.
LEMMA AppendKeeps ==
  ASSUME IInv, AppendCommit
  PROVE  IInv' /\ dir'.pair = dir.pair
  <1> DEFINE b == dir.pair[1]
             o == dir.pair[2]
  <1>1. /\ pc = "append" /\ home' = home /\ wear' = wear
        /\ ldir.pair = dir.pair /\ ldir.off = dir.off /\ ldir.rev = dir.rev
    BY DEF AppendCommit, IInv, Consistent, Fresh
  <1>2. Wins(b, o)
    BY <1>1 DEF IInv, Consistent, CurrentWins
  <1>3. /\ b \in Blocks /\ o \in Blocks /\ b # o /\ dir.off = Len(media[b].log)
        /\ Len(media[b].log) \in 1 .. Capacity /\ dir.rev = media[b].rev
    BY PairState
  <1>4. MediaOK(media) /\ ldir \in Mdirs /\ Typed
    BY MediaTypes, TypeFacts DEF IInv
  <1>5. CASE /\ Appendable(b)
             /\ media' = [media EXCEPT ![b] = Appended(b)]
             /\ Finish([ldir EXCEPT !.off = @ + 1])
    <2>1. /\ Appended(b) \in BlockStates /\ Appended(b).rev = media[b].rev
          /\ Len(Appended(b).log) = Len(media[b].log) + 1
          /\ Len(media[b].log) + 1 <= Capacity
      BY <1>1, <1>3, <1>5, PairState, BlockTypes DEF IInv
    <2>2. MediaOK(media')
      BY <1>3, <1>4, <1>5, <2>1, MediaTypes
    <2>3. /\ pc' = "idle" /\ reply' = "done" /\ tired' = FALSE /\ relocated' = FALSE
          /\ tried' = {} /\ dir' = [ldir EXCEPT !.off = @ + 1] /\ ldir' = dir'
      BY <1>5 DEF Finish, Ended
    <2>4. /\ dir' \in Mdirs /\ dir'.pair = dir.pair /\ dir'.off = dir.off + 1
          /\ dir'.rev = dir.rev
      <3>1. ldir.off + 1 \in 1 .. Capacity
        BY <1>1, <1>3, <2>1, Bounds
      <3>2. QED
        BY <1>1, <1>4, <2>3, <3>1 DEF Mdirs
    <2>5. Typed'
      BY <1>1, <2>2, <2>3, <2>4 DEF IInv, Typed, MediaOK, Mdirs, BlockStates
    <2>6. media'[b] = Appended(b) /\ media'[o] = media[o]
      BY <1>3, <1>4, <1>5 DEF MediaOK
    <2>7. Wins(b, o)' /\ DirFollows'
      BY <1>1, <1>2, <1>3, <2>1, <2>4, <2>6 DEF IInv, Consistent, Wins, DirFollows, Both
    <2>8. QED
      BY <2>3, <2>4, <2>5, <2>7 DEF IInv, Consistent, CurrentWins, Fresh, Counted,
                                    ErasedFirst, Written
  <1>6. CASE /\ \E m \in Torn(b) : media' = [media EXCEPT ![b] = m]
             /\ pc' = "compact"
             /\ UNCHANGED <<dir, ldir, tired, relocated, tried, reply>>
    <2>1. PICK m \in Torn(b) : media' = [media EXCEPT ![b] = m]
      BY <1>6
    <2>2. m \in BlockStates /\ m.log = media[b].log /\ m.rev = media[b].rev
      BY <1>1, <1>3, <2>1, PairState, BlockTypes DEF IInv
    <2>3. MediaOK(media')
      <3>1. Len(m.log) <= Capacity
        BY <1>3, <2>2, Bounds
      <3>2. QED
        BY <1>3, <1>4, <2>1, <2>2, <3>1, MediaTypes
    <2>4. Typed'
      BY <1>1, <1>6, <2>3 DEF IInv, Typed, MediaOK, BlockStates
    <2>5. media'[b] = m /\ media'[o] = media[o]
      BY <1>3, <1>4, <2>1 DEF MediaOK
    <2>6. Wins(b, o)' /\ DirFollows'
      BY <1>1, <1>2, <1>3, <1>6, <2>2, <2>5 DEF IInv, Consistent, Wins, DirFollows, Both
    <2>7. QED
      BY <1>1, <1>6, <2>4, <2>6 DEF IInv, Consistent, CurrentWins, Fresh, Counted,
                                    ErasedFirst, Written
  <1>7. QED
    BY <1>1, <1>5, <1>6 DEF AppendCommit

\* The revision is counted, and the commit goes to the other block or asks for
\* a new one.
LEMMA StartKeeps ==
  ASSUME IInv, StartCompact
  PROVE  IInv' /\ UNCHANGED <<media, home, dir>>
  <1>1. /\ pc = "compact" /\ pc' \in {"relocate", "erase"} /\ tired' \in BOOLEAN
        /\ ldir' = [ldir EXCEPT !.rev = (@ + 1) % RevMod]
        /\ UNCHANGED <<media, home, dir, relocated, tried, reply, wear>>
    BY DEF StartCompact
  <1>2. ldir.pair = dir.pair /\ ldir.off = dir.off /\ ldir.rev = dir.rev
    BY <1>1 DEF IInv, Consistent, Fresh
  <1>3. ldir \in Mdirs /\ ldir.rev \in Revs
    BY TypeFacts DEF IInv
  <1>4. /\ ldir' \in Mdirs /\ ldir'.pair = dir.pair /\ ldir'.off = dir.off
        /\ ldir'.rev = (dir.rev + 1) % RevMod
    BY <1>1, <1>2, <1>3, NewerOrders DEF Mdirs
  <1>5. Typed'
    BY <1>1, <1>4 DEF IInv, Typed, Mdirs
  <1>6. dir.pair[2] \in Blocks /\ Wins(dir.pair[1], dir.pair[2])
    BY <1>1, PairState DEF IInv, Consistent, CurrentWins
  <1>7. Consistent'
    BY <1>1, <1>4, <1>6 DEF IInv, Consistent, DirFollows, CurrentWins, Fresh, Counted,
                            ErasedFirst, Written, Wins
  <1>8. QED
    BY <1>1, <1>5, <1>7 DEF IInv

\* The blocks of a commit that compacts: the one it reads, the one it writes,
\* which is the pair's other block or none of the pair, and the other block.
LEMMA CompactState ==
  ASSUME IInv, pc \in {"erase", "prog", "relocate"}
  PROVE  LET b == dir.pair[1]
             o == dir.pair[2]
             x == ldir.pair[2]
         IN  /\ b \in Blocks /\ o \in Blocks /\ x \in Blocks /\ b # o /\ b # x
             /\ dir.pair = <<b, o>> /\ ldir.pair = <<b, x>>
             /\ home \in Pairs /\ Both(home) = {b, o}
             /\ Wins(b, o) /\ media[b].rev \in Revs
             /\ dir.off = Len(media[b].log) /\ dir.rev = media[b].rev
             /\ ldir.off = Len(media[b].log) /\ ldir.rev = (media[b].rev + 1) % RevMod
             /\ ldir.off \in 1 .. Len(media[ldir.pair[1]].log)
             /\ x = o \/ x \notin Both(home)
             /\ ~relocated => x = o
             /\ Changed = (LastOf(b) + 1) % Versions
             /\ ldir \in Mdirs /\ Typed /\ MediaOK(media)
  <1> DEFINE b == dir.pair[1]
             o == dir.pair[2]
             x == ldir.pair[2]
  <1>1. Typed /\ MediaOK(media) /\ Wins(b, o)
    BY MediaTypes DEF IInv, Consistent, CurrentWins
  <1>2. ldir \in Mdirs /\ ldir.pair \in Pairs
    BY <1>1, TypeFacts
  <1>3. x \in Blocks /\ ldir.pair[1] # x /\ ldir.pair = <<ldir.pair[1], x>>
    BY <1>2, PairFacts
  <1>4. /\ ldir.pair[1] = b /\ ldir.off = dir.off /\ ldir.rev = (dir.rev + 1) % RevMod
        /\ x = o \/ x \notin Both(home)
        /\ ~relocated => x = o
    BY DEF IInv, Consistent, Counted
  <1>5. dir.rev \in Revs
    BY <1>1, TypeFacts
  <1>6. QED
    BY <1>1, <1>2, <1>3, <1>4, <1>5, PairState

\* The count of compactions stays within its bound.
LEMMA WornType ==
  ASSUME Typed, NEW x \in Blocks PROVE Worn(x) \in [Blocks -> 0 .. MaxWear]
  <1>1. wear \in [Blocks -> 0 .. MaxWear] /\ MaxWear \in Nat /\ wear[x] \in 0 .. MaxWear
    BY PairAssumption DEF Typed
  <1>2. (IF wear[x] < MaxWear /\ ~isSuper THEN wear[x] + 1 ELSE wear[x]) \in 0 .. MaxWear
    BY <1>1
  <1>3. QED
    BY <1>1, <1>2 DEF Worn

\* An erase leaves the current block alone.
LEMMA EraseKeeps ==
  ASSUME IInv, Erase
  PROVE  IInv' /\ UNCHANGED <<home, dir>>
  <1> DEFINE b == dir.pair[1]
             o == dir.pair[2]
             x == ldir.pair[2]
  <1>1. /\ pc = "erase"
        /\ UNCHANGED <<home, dir, ldir, tired, relocated, tried, reply, wear>>
        /\ \/ media' = [media EXCEPT ![x] = Erased] /\ pc' = "prog"
           \/ media' = media /\ pc' = "relocate"
    BY DEF Erase
  <1>2. MediaOK(media')
    BY <1>1, CompactState, MediaTypes, BlockTypes, Bounds
  <1>3. Typed'
    BY <1>1, <1>2 DEF IInv, Typed, MediaOK, BlockStates
  <1>4. /\ media'[b] = media[b]
        /\ media'[o] = media[o] \/ media'[o] = Erased
        /\ pc' = "prog" => media'[x] = Erased
    BY <1>1, CompactState DEF MediaOK
  <1>5. Wins(b, o) /\ DirFollows /\ Erased.log = <<>>
    BY <1>1, CompactState, BlockTypes DEF IInv, Consistent
  <1>6. Wins(b, o)' /\ DirFollows'
    BY <1>1, <1>4, <1>5 DEF Wins, DirFollows
  <1>7. QED
    BY <1>1, <1>3, <1>4, <1>6 DEF IInv, Consistent, CurrentWins, Fresh, Counted,
                                  ErasedFirst, Written

\* A compaction that fails leaves the current block; one that succeeds makes the
\* block it wrote the current one, at once or once the parent knows it.
LEMMA ProgKeeps ==
  ASSUME IInv, Prog
  PROVE  IInv' /\ home' = home
  <1> DEFINE b == dir.pair[1]
             o == dir.pair[2]
             x == ldir.pair[2]
             swapped == [ldir EXCEPT !.pair = <<x, ldir.pair[1]>>, !.off = 1]
  <1>1. pc = "prog" /\ home' = home
    BY DEF Prog
  <1>2. CASE /\ media' = [media EXCEPT ![x] = Compacted]
             /\ IF relocated
                THEN /\ ldir' = swapped /\ pc' = "parent"
                     /\ UNCHANGED <<dir, tired, relocated, tried, reply>>
                ELSE Finish(swapped)
             /\ wear' = Worn(x)
    <2>1. /\ Compacted \in BlockStates /\ Compacted.rev = ldir.rev
          /\ Compacted.log = <<(LastOf(b) + 1) % Versions>> /\ Len(Compacted.log) = 1
          /\ Compacted.end = "erased"
      BY <1>1, CompactState, BlockTypes DEF Compacted
    <2>2. MediaOK(media')
      <3>1. x \in Blocks /\ MediaOK(media) /\ Len(Compacted.log) <= Capacity
        BY <1>1, <2>1, CompactState, Bounds
      <3>2. QED
        BY <1>2, <2>1, <3>1, MediaTypes
    <2>3. wear' \in [Blocks -> 0 .. MaxWear]
      BY <1>1, <1>2, CompactState, WornType
    <2>4. /\ swapped \in Mdirs /\ swapped.pair = <<x, b>> /\ swapped.off = 1
          /\ swapped.rev = ldir.rev
      <3>1. <<x, b>> \in Pairs /\ ldir \in Mdirs /\ ldir.pair[1] = b
        BY <1>1, CompactState, PairFacts
      <3>2. 1 \in 1 .. Capacity
        BY Bounds
      <3>3. QED
        BY <3>1, <3>2 DEF Mdirs
    <2>5. media'[b] = media[b] /\ media'[x] = Compacted
      <3>1. b \in Blocks /\ x \in Blocks /\ b # x /\ MediaOK(media)
        BY <1>1, CompactState
      <3>2. QED
        BY <1>2, <3>1 DEF MediaOK
    <2>6. CASE relocated
      <3>1. Typed'
        BY <1>1, <1>2, <2>2, <2>3, <2>4, <2>6 DEF IInv, Typed, MediaOK, Mdirs, BlockStates
      <3>2. DirFollows'
        BY <1>1, <1>2, <2>5, <2>6 DEF IInv, Consistent, DirFollows, Both
      <3>3. x # o => media'[o] = media[o]
        BY <1>1, <1>2, CompactState DEF MediaOK
      <3>4. x = o \/ (x \notin Both(home) /\ Wins(b, o)')
        BY <1>1, <1>2, <2>5, <2>6, <3>3, CompactState DEF Wins
      <3>5. Compacted = [rev |-> ldir.rev, log |-> <<(LastOf(b) + 1) % Versions>>,
                         end |-> "erased"]
        BY <1>1, CompactState DEF Compacted
      <3>6. LastOf(b)' = LastOf(b)
        BY <1>2, <2>5, <2>6 DEF LastOf
      <3>7. /\ ldir'.pair[1] = x /\ ldir'.pair[2] = b /\ ldir'.off = 1 /\ ldir'.rev = ldir.rev
            /\ pc' = "parent" /\ dir' = dir /\ home' = home
            /\ ldir.rev = (dir.rev + 1) % RevMod
        <4>1. ldir' = swapped /\ pc' = "parent" /\ dir' = dir /\ home' = home
          BY <1>1, <1>2, <2>6
        <4>2. ldir.rev = (dir.rev + 1) % RevMod
          BY <1>1, CompactState
        <4>3. QED
          BY <2>4, <4>1, <4>2
      <3>8. Written'
        BY <2>5, <3>4, <3>5, <3>6, <3>7 DEF Written
      <3>9. QED
        BY <3>1, <3>2, <3>7, <3>8 DEF IInv, Consistent, CurrentWins, Fresh, Counted,
                                            ErasedFirst
    <2>7. CASE ~relocated
      <3>1. /\ pc' = "idle" /\ dir' = swapped /\ ldir' = swapped /\ reply' = "done"
            /\ tired' = FALSE /\ relocated' = FALSE /\ tried' = {}
        BY <1>2, <2>7 DEF Finish, Ended
      <3>2. Typed'
        BY <1>1, <2>2, <2>3, <2>4, <3>1 DEF IInv, Typed, MediaOK, Mdirs, BlockStates
      <3>3. x = o
        BY <1>1, <2>7, CompactState
      <3>4. Newer(Compacted.rev, media[b].rev)
        BY <1>1, <2>1, CompactState, NewerOrders
      <3>5. dir'.pair[1] = x /\ dir'.pair[2] = b /\ dir'.off = 1 /\ dir'.rev = ldir.rev
        BY <2>4, <3>1
      <3>6. Wins(dir.pair[1], dir.pair[2])'
        <4>1. media'[dir'.pair[1]] = Compacted /\ media'[dir'.pair[2]] = media[b]
          BY <2>5, <3>5
        <4>2. Compacted.log # <<>>
          BY <2>1
        <4>3. QED
          BY <3>4, <4>1, <4>2 DEF Wins
      <3>7. Both(dir'.pair) = Both(home')
        BY <1>1, <3>3, <3>5, CompactState DEF Both
      <3>8. DirFollows'
        <4>1. Len(Compacted.log) = 1 /\ Compacted.log # <<>>
          BY <2>1
        <4>2. QED
          BY <2>1, <2>5, <3>5, <3>7, <4>1 DEF DirFollows, Both
      <3>9. pc' = "idle"
        BY <3>1
      <3>10. QED
        BY <1>1, <3>2, <3>6, <3>8, <3>9 DEF IInv, Consistent, CurrentWins, Fresh, Counted,
                                            ErasedFirst, Written
    <2>8. QED
      BY <2>6, <2>7
  <1>3. CASE /\ \E m \in Scrap(x) : media' = [media EXCEPT ![x] = m]
             /\ pc' = "relocate"
             /\ UNCHANGED <<dir, ldir, tired, relocated, tried, reply, wear>>
    <2>1. PICK m \in Scrap(x) : media' = [media EXCEPT ![x] = m]
      BY <1>3
    <2>2. m \in BlockStates /\ Len(m.log) <= Capacity /\ m.log = <<>>
      <3>1. m \in BlockStates /\ (m = media[x] \/ m.log = <<>>)
        BY <1>1, <2>1, CompactState, BlockTypes
      <3>2. media[x].log = <<>>
        BY <1>1 DEF IInv, Consistent, ErasedFirst, Erased
      <3>3. QED
        BY <3>1, <3>2, Bounds
    <2>3. MediaOK(media')
      BY <1>1, <2>1, <2>2, CompactState, MediaTypes
    <2>4. Typed'
      BY <1>1, <1>3, <2>3 DEF IInv, Typed, MediaOK, BlockStates
    <2>5. media'[b] = media[b] /\ (media'[o] = media[o] \/ media'[o].log = <<>>)
      BY <1>1, <2>1, <2>2, CompactState DEF MediaOK
    <2>6. Wins(b, o)' /\ DirFollows'
      <3>1. Wins(b, o) /\ DirFollows
        BY <1>1, CompactState DEF IInv, Consistent
      <3>2. QED
        BY <1>1, <1>3, <2>5, <3>1 DEF Wins, DirFollows, Both
    <2>7. QED
      BY <1>1, <1>3, <2>4, <2>6 DEF IInv, Consistent, CurrentWins, Fresh, Counted,
                                    ErasedFirst, Written
  <1>4. QED
    BY <1>1, <1>2, <1>3 DEF Prog

\* A failed compaction gives up, or goes on with a block that is not the pair's.
LEMMA RelocateKeeps ==
  ASSUME IInv, Relocate
  PROVE  IInv' /\ UNCHANGED <<home, dir>>
  <1> DEFINE b == dir.pair[1]
             o == dir.pair[2]
  <1>1. /\ pc = "relocate" /\ home' = home
        /\ media' = Known(media, Both(home) \cup Both(dir.pair))
    BY DEF Relocate
  <1>2. MediaOK(media')
    BY <1>1, CompactState, MediaTypes
  <1>3. media'[b] = media[b] /\ media'[o] = media[o]
    <2>1. b \in Blocks /\ o \in Blocks /\ b \in Both(home) /\ o \in Both(home)
      BY <1>1, CompactState
    <2>2. QED
      BY <1>1, <2>1 DEF Known
  <1>4. Wins(b, o) /\ DirFollows
    BY <1>1, CompactState DEF IInv, Consistent
  <1>5. dir' = dir /\ (pc' = "idle" \/ pc' = "erase")
    BY DEF Relocate, Ended
  <1>6. Wins(b, o)' /\ DirFollows'
    BY <1>1, <1>3, <1>4, <1>5 DEF Wins, DirFollows, Both
  <1>7. CASE Ended("failed", dir) /\ UNCHANGED wear
    <2>1. /\ pc' = "idle" /\ ldir' = dir /\ dir' = dir /\ reply' = "failed" /\ wear' = wear
          /\ tired' = FALSE /\ relocated' = FALSE /\ tried' = {}
      BY <1>7 DEF Ended
    <2>2. Typed'
      BY <1>1, <1>2, <2>1 DEF IInv, Typed, MediaOK, BlockStates
    <2>3. QED
      BY <1>1, <1>5, <1>6, <2>1, <2>2 DEF IInv, Consistent, CurrentWins, Fresh, Counted,
                                    ErasedFirst, Written
  <1>8. ASSUME NEW available \in SUBSET Free,
               /\ pc' = "erase"
               /\ relocated' = TRUE /\ tired' = FALSE
               /\ IF available = {}
                  THEN wear' = [c \in Blocks |-> 0] /\ UNCHANGED <<ldir, tried>>
                  ELSE \E c \in available :
                         /\ ldir' = [ldir EXCEPT !.pair[2] = c]
                         /\ tried' = tried \cup {c}
                         /\ wear' = [wear EXCEPT ![c] = 0]
               /\ UNCHANGED <<dir, reply>>
        PROVE  IInv'
    <2>1. 0 \in 0 .. MaxWear
      BY PairAssumption
    <2>2. /\ ldir \in Mdirs /\ ldir.pair \in Pairs /\ ldir.pair = <<b, ldir.pair[2]>>
          /\ b \in Blocks /\ Both(home) = {b, o} /\ o \in Blocks
      BY <1>1, CompactState, TypeFacts
    <2>3. Counted /\ Typed
      BY DEF IInv, Consistent
    <2>4. CASE available = {}
      <3>1. Typed'
        BY <1>1, <1>2, <1>8, <2>1, <2>3, <2>4 DEF Typed, MediaOK, BlockStates
      <3>2. Counted'
        BY <1>1, <1>8, <2>3, <2>4 DEF Counted, Both
      <3>3. QED
        BY <1>6, <1>8, <3>1, <3>2 DEF IInv, Consistent, CurrentWins, Fresh,
                                      ErasedFirst, Written
    <2>5. CASE available # {}
      <3>1. PICK c \in available : /\ ldir' = [ldir EXCEPT !.pair[2] = c]
                                   /\ tried' = tried \cup {c}
                                   /\ wear' = [wear EXCEPT ![c] = 0]
        BY <1>8, <2>5
      <3>2. c \in Blocks /\ c \notin Both(home) /\ c \notin tried
        BY DEF Free
      <3>3. <<b, c>> \in Pairs
        BY <2>2, <3>2, PairFacts
      <3>4. /\ ldir' \in Mdirs /\ ldir'.pair[1] = b /\ ldir'.pair[2] = c
            /\ ldir'.off = ldir.off /\ ldir'.rev = ldir.rev
        <4>1. ldir'.pair = [ldir.pair EXCEPT ![2] = c]
          BY <2>2, <3>1 DEF Mdirs
        <4>2. ldir'.pair = <<b, c>>
          BY <2>2, <4>1 DEF Pairs
        <4>3. ldir' \in Mdirs /\ ldir'.off = ldir.off /\ ldir'.rev = ldir.rev
          BY <2>2, <3>1, <3>3, <4>2 DEF Mdirs
        <4>4. QED
          BY <4>2, <4>3
      <3>5. Typed'
        BY <1>1, <1>2, <1>8, <2>1, <2>3, <3>1, <3>2, <3>4
           DEF Typed, MediaOK, BlockStates, Mdirs
      <3>6. Counted'
        BY <1>1, <1>8, <2>3, <3>2, <3>4 DEF Counted, Both
      <3>7. QED
        BY <1>6, <1>8, <3>5, <3>6 DEF IInv, Consistent, CurrentWins, Fresh,
                                      ErasedFirst, Written
    <2>6. QED
      BY <2>4, <2>5
  <1>9. QED
    BY <1>1, <1>5, <1>7, <1>8 DEF Relocate

\* The parent's commit makes the pair the one that was written.
LEMMA ParentKeeps ==
  ASSUME IInv, UpdateParent
  PROVE  /\ IInv' /\ dir'.pair[1] = ldir.pair[1]
         /\ media'[ldir.pair[1]] = media[ldir.pair[1]]
  <1> DEFINE b == dir.pair[1]
             x == ldir.pair[1]
  <1>1. /\ pc = "parent" /\ home' = ldir.pair /\ wear' = wear
        /\ media' = Known(media, Both(ldir.pair))
        /\ pc' = "idle" /\ dir' = ldir /\ ldir' = ldir /\ reply' = "done"
        /\ tired' = FALSE /\ relocated' = FALSE /\ tried' = {}
    BY DEF UpdateParent, Finish, Ended
  <1>2. /\ b \in Blocks /\ dir.rev = media[b].rev /\ dir.rev \in Revs
        /\ ldir \in Mdirs /\ ldir.pair \in Pairs /\ x \in Blocks /\ ldir.pair = <<x, b>>
        /\ ldir.pair[2] = b /\ Both(ldir.pair) = {x, b} /\ MediaOK(media)
    <2>1. ldir.pair \in Pairs /\ ldir \in Mdirs /\ dir.rev \in Revs
      BY TypeFacts DEF IInv
    <2>2. ldir.pair[2] = b
      BY <1>1 DEF IInv, Consistent, Written
    <2>3. QED
      BY <2>1, <2>2, PairFacts, PairState, MediaTypes DEF IInv
  <1>3. /\ ldir.off = 1 /\ ldir.rev = (dir.rev + 1) % RevMod
        /\ media[x].rev = ldir.rev /\ media[x].log = <<(LastOf(b) + 1) % Versions>>
    BY <1>1 DEF IInv, Consistent, Written
  <1>4. MediaOK(media')
    BY <1>1, <1>2, MediaTypes
  <1>5. media'[x] = media[x] /\ media'[b] = media[b]
    BY <1>1, <1>2 DEF Known
  <1>6. Typed'
    BY <1>1, <1>2, <1>4 DEF IInv, Typed, MediaOK, BlockStates, Mdirs
  <1>7. Newer(media[x].rev, media[b].rev)
    BY <1>2, <1>3, NewerOrders
  <1>8. media[x].log # <<>> /\ Len(media[x].log) = 1
    BY <1>3
  <1>9. Wins(dir.pair[1], dir.pair[2])'
    BY <1>1, <1>2, <1>5, <1>7, <1>8 DEF Wins
  <1>10. DirFollows'
    BY <1>1, <1>2, <1>3, <1>5, <1>8 DEF DirFollows, Both
  <1>11. QED
    BY <1>1, <1>5, <1>6, <1>9, <1>10 DEF IInv, Consistent, CurrentWins, Fresh, Counted,
                                    ErasedFirst, Written

\* A mount after a power loss that leaves one block of the pair the winner.
LEMMA MountKeeps ==
  ASSUME IInv, PowerLoss, MediaOK(media'),
         NEW w \in Blocks, NEW l \in Blocks, w # l, Both(home) = {w, l}, Wins(w, l)'
  PROVE  IInv' /\ dir'.pair = <<w, l>> /\ dir'.pair[1] = w /\ dir'.rev = media'[w].rev
  <1>1. /\ home' = home /\ pc' = "idle" /\ dir' = Fetch(home)' /\ ldir' = dir'
        /\ reply' = "failed" /\ tired' = FALSE /\ relocated' = FALSE /\ tried' = {}
    BY DEF PowerLoss, Ended
  <1>2. FetchFinds'
    BY FetchWinner, PTL
  <1>3. home \in Pairs
    BY DEF IInv, Typed
  <1>4. /\ dir' \in Mdirs
        /\ dir' = [pair |-> <<w, l>>, rev |-> media'[w].rev, off |-> Len(media'[w].log),
                   erased |-> media'[w].end # "dirty"]
    BY <1>1, <1>2, <1>3 DEF FetchFinds, Both
  <1>5. wear' \in [Blocks -> 0 .. MaxWear]
    <2>1. ldir.pair[2] \in Blocks /\ Typed /\ wear \in [Blocks -> 0 .. MaxWear]
      BY TypeFacts, PairFacts DEF IInv, Typed
    <2>2. wear' = Worn(ldir.pair[2]) \/ wear' = wear
      BY DEF PowerLoss
    <2>3. QED
      BY <2>1, <2>2, WornType
  <1>6. Typed'
    BY <1>1, <1>3, <1>4, <1>5 DEF Typed, MediaOK, BlockStates, Mdirs
  <1>7. dir'.pair = <<w, l>> /\ dir'.off = Len(media'[w].log) /\ dir'.rev = media'[w].rev
    BY <1>4
  <1>8. DirFollows'
    <2>1. dir'.pair[1] = w /\ dir'.pair[2] = l /\ media'[w].log # <<>>
      BY <1>7 DEF Wins
    <2>2. {dir'.pair[1], dir'.pair[2]} = {home'[1], home'[2]}
      BY <1>1, <2>1 DEF Both
    <2>3. QED
      BY <1>7, <2>1, <2>2 DEF DirFollows, Both
  <1>9. Wins(dir.pair[1], dir.pair[2])'
    BY <1>7 DEF Wins
  <1>10. QED
    BY <1>1, <1>6, <1>7, <1>8, <1>9 DEF IInv, Consistent, CurrentWins, Fresh, Counted,
                                    ErasedFirst, Written

\* A power loss leaves the block the commit began from the current one, or the
\* pair's other block when everything had been written to it; a compaction counts
\* in the second case only.
Landed ==
    LET b == dir.pair[1]
        o == dir.pair[2]
    IN  \/ dir'.pair = <<b, o>> /\ dir'.rev = dir.rev /\ wear' = wear
        \/ /\ dir'.pair = <<o, b>> /\ dir'.rev = (dir.rev + 1) % RevMod
           /\ \/ pc = "parent" /\ ldir.pair[1] = o /\ wear' = wear
              \/ pc = "prog" /\ ldir.pair[2] = o /\ wear' = Worn(o)

\* A power loss leaves what the directory held, or that and the change.
LEMMA PowerLossKeeps ==
  ASSUME IInv, PowerLoss
  PROVE  /\ IInv' /\ Landed
         /\ LastOf(dir.pair[1])' \in
               IF pc = "parent" /\ ldir.pair[1] = dir.pair[2]
               THEN {(LastOf(dir.pair[1]) + 1) % Versions}
               ELSE {LastOf(dir.pair[1]), (LastOf(dir.pair[1]) + 1) % Versions}
  <1>1. PICK b \in Blocks, o \in Blocks : b = dir.pair[1] /\ o = dir.pair[2]
    BY PairState
  <1>2. b # o /\ Both(home) = {b, o} /\ MediaOK(media) /\ dir.rev = media[b].rev
    BY <1>1, PairState, MediaTypes DEF IInv
  <1> DEFINE Kept(w) == media'[w].log[Len(media'[w].log)]
             Old == LastOf(b)
             New == (LastOf(b) + 1) % Versions
             Goal == /\ IInv' /\ Landed
                     /\ LastOf(dir.pair[1])' \in
                           IF pc = "parent" /\ ldir.pair[1] = o THEN {New} ELSE {Old, New}
  <1>3. SUFFICES Goal
    BY <1>1
  <1>4. ASSUME MediaOK(media'), Wins(b, o)', media'[b].rev = media[b].rev, wear' = wear,
               Kept(b) \in IF pc = "parent" /\ ldir.pair[1] = o THEN {New} ELSE {Old, New}
        PROVE  Goal
    <2>1. IInv' /\ dir'.pair = <<b, o>> /\ dir'.pair[1] = b /\ dir'.rev = dir.rev
      BY <1>2, <1>4, MountKeeps
    <2>2. LastOf(dir.pair[1])' = Kept(b)
      BY <2>1 DEF LastOf
    <2>3. Landed
      BY <1>1, <1>4, <2>1 DEF Landed
    <2>4. QED
      BY <1>4, <2>1, <2>2, <2>3
  <1>5. ASSUME MediaOK(media'), Wins(o, b)', media'[o].rev = (media[b].rev + 1) % RevMod,
               \/ pc = "parent" /\ ldir.pair[1] = o /\ wear' = wear
               \/ pc = "prog" /\ ldir.pair[2] = o /\ wear' = Worn(o),
               Kept(o) \in IF pc = "parent" /\ ldir.pair[1] = o THEN {New} ELSE {Old, New}
        PROVE  Goal
    <2>1. /\ IInv' /\ dir'.pair = <<o, b>> /\ dir'.pair[1] = o
          /\ dir'.rev = (dir.rev + 1) % RevMod
      BY <1>2, <1>5, MountKeeps
    <2>2. LastOf(dir.pair[1])' = Kept(o)
      BY <2>1 DEF LastOf
    <2>3. Landed
      BY <1>1, <1>5, <2>1 DEF Landed
    <2>4. QED
      BY <1>5, <2>1, <2>2, <2>3
  <1>6. \A m \in [Blocks -> BlockStates] : \A c \in {b, o} : Known(m, Both(home))[c] = m[c]
    BY <1>2 DEF Known
  <1>7. CASE pc \in {"compact", "relocate", "parent"} /\ media' = Known(media, Both(home))
    <2>1. media'[b] = media[b] /\ media'[o] = media[o] /\ MediaOK(media')
      BY <1>2, <1>6, <1>7, MediaTypes DEF MediaOK
    <2>2. Kept(b) = Old /\ Kept(o) = LastOf(o) /\ wear' = wear
      BY <1>7, <2>1 DEF LastOf, PowerLoss
    <2>3. CASE pc # "parent" \/ ldir.pair[1] # o
      <3>1. Wins(b, o)
        BY <1>1, <2>3 DEF IInv, Consistent, CurrentWins, Written
      <3>2. Wins(b, o)'
        BY <2>1, <3>1 DEF Wins
      <3>3. QED
        BY <1>4, <2>1, <2>2, <2>3, <3>2
    <2>4. CASE pc = "parent" /\ ldir.pair[1] = o
      <3>1. /\ media[o].rev = (media[b].rev + 1) % RevMod /\ media[o].log = <<New>>
        BY <1>1, <2>4, PairState DEF IInv, Consistent, Written
      <3>2. media[b].rev \in Revs
        BY <1>2 DEF MediaOK, BlockStates
      <3>3. Newer(media[o].rev, media[b].rev)
        BY <3>1, <3>2, NewerOrders
      <3>4. media[o].log # <<>> /\ LastOf(o) = New
        BY <3>1 DEF LastOf
      <3>5. Wins(o, b)'
        BY <2>1, <3>3, <3>4 DEF Wins
      <3>6. QED
        BY <1>5, <2>1, <2>2, <2>4, <3>1, <3>4, <3>5
    <2>5. QED
      BY <2>3, <2>4
  <1>8. CASE pc = "append"
    <2>1. /\ ldir.pair[1] = b /\ Wins(b, o) /\ Changed = New
          /\ ldir.off \in 1 .. Len(media[ldir.pair[1]].log)
          /\ Len(media[b].log) \in 1 .. Capacity
      BY <1>1, <1>8, PairState DEF IInv, Consistent, CurrentWins
    <2>2. PICK m \in Torn(b) \cup IF Appendable(b) THEN {Appended(b)} ELSE {} :
             media' = Known([media EXCEPT ![b] = m], Both(home))
      BY <1>8, <2>1 DEF PowerLoss
    <2>3. /\ m \in BlockStates /\ m.rev = media[b].rev /\ Len(m.log) <= Capacity
          /\ m.log # <<>> /\ m.log[Len(m.log)] \in {Old, New}
      <3>1. CASE m \in Torn(b)
        <4>1. m \in BlockStates /\ m.rev = media[b].rev /\ m.log = media[b].log
          BY <2>1, <3>1, BlockTypes DEF IInv
        <4>2. QED
          BY <2>1, <4>1, Bounds DEF LastOf, Wins
      <3>2. CASE Appendable(b) /\ m = Appended(b)
        <4>1. /\ m \in BlockStates /\ m.rev = media[b].rev
              /\ Len(m.log) = Len(media[b].log) + 1
              /\ Len(media[b].log) + 1 <= Capacity
              /\ m.log[Len(media[b].log) + 1] = Changed
          BY <2>1, <3>2, BlockTypes DEF IInv
        <4>2. m.log # <<>>
          <5>1. Len(m.log) # 0
            BY <2>1, <4>1, Bounds
          <5>2. QED
            BY <5>1
        <4>3. QED
          BY <2>1, <4>1, <4>2
      <3>3. QED
        BY <3>1, <3>2
    <2>4. MediaOK([media EXCEPT ![b] = m])
      BY <1>2, <2>3, MediaTypes
    <2>5. media'[b] = m /\ media'[o] = media[o] /\ MediaOK(media')
      BY <1>2, <1>6, <2>2, <2>4, MediaTypes DEF MediaOK
    <2>6. Wins(b, o)' /\ Kept(b) \in {Old, New} /\ media'[b].rev = media[b].rev /\ wear' = wear
      BY <1>8, <2>1, <2>3, <2>5 DEF Wins, PowerLoss
    <2>7. QED
      BY <1>4, <1>8, <2>5, <2>6
  <1>9. CASE pc \in {"erase", "prog"}
    <2> DEFINE x == ldir.pair[2]
    <2>1. PICK m \in Scrap(x) \cup IF pc = "prog" THEN {Compacted} ELSE {} :
             media' = Known([media EXCEPT ![x] = m], Both(home))
      BY <1>9 DEF PowerLoss
    <2>2. /\ x \in Blocks /\ b # x /\ Wins(b, o) /\ Changed = New
          /\ ldir.off \in 1 .. Len(media[ldir.pair[1]].log)
          /\ ldir.rev = (media[b].rev + 1) % RevMod /\ media[b].rev \in Revs
      BY <1>1, <1>9, CompactState
    <2>3. /\ m \in BlockStates /\ Len(m.log) <= Capacity
          /\ m = media[x] \/ m.log = <<>> \/ (m = Compacted /\ pc = "prog")
          /\ Compacted.rev = ldir.rev /\ Compacted.log = <<New>>
      <3>1. Compacted.rev = ldir.rev /\ Compacted.log = <<New>>
        BY <2>2 DEF Compacted
      <3>2. CASE m \in Scrap(x)
        <4>1. m \in BlockStates /\ (m = media[x] \/ m.log = <<>>)
          BY <2>2, <3>2, BlockTypes DEF IInv
        <4>2. Len(media[x].log) <= Capacity
          BY <1>2, <2>2 DEF MediaOK
        <4>3. QED
          BY <3>1, <4>1, <4>2, Bounds
      <3>3. CASE m = Compacted /\ pc = "prog"
        <4>1. Compacted \in BlockStates /\ Len(Compacted.log) = 1
          BY <2>2, BlockTypes DEF IInv
        <4>2. Len(Compacted.log) <= Capacity
          BY <4>1, Bounds
        <4>3. QED
          BY <3>1, <3>3, <4>1, <4>2
      <3>4. QED
        BY <2>1, <3>2, <3>3
    <2>4. MediaOK([media EXCEPT ![x] = m])
      BY <1>2, <2>2, <2>3, MediaTypes
    <2>5. MediaOK(media') /\ media'[b] = media[b] /\ Kept(b) = Old
      BY <1>2, <1>6, <2>1, <2>2, <2>4, MediaTypes DEF MediaOK, LastOf
    <2>6. media'[o] = IF x = o THEN m ELSE media[o]
      BY <1>2, <1>6, <2>1, <2>2, <2>4 DEF MediaOK
    <2>7. CASE media'[o] = media[o] \/ media'[o].log = <<>>
      <3>1. Wins(b, o)'
        BY <2>2, <2>5, <2>7 DEF Wins
      <3>2. media'[x] # Compacted \/ pc # "prog" \/ x \notin Both(home)
        <4>1. ASSUME pc = "prog", x = o PROVE media'[o].log = <<>>
          BY <2>7, <4>1, BlockTypes, <2>2 DEF IInv, Consistent, ErasedFirst
        <4>2. Compacted.log # <<>>
          BY DEF Compacted
        <4>3. QED
          BY <1>2, <2>2, <4>1, <4>2
      <3>3. wear' = wear
        BY <3>2 DEF PowerLoss
      <3>4. QED
        BY <1>4, <1>9, <2>5, <3>1, <3>3
    <2>8. CASE x = o /\ m = Compacted /\ pc = "prog"
      <3>1. media'[o].rev = ldir.rev /\ media'[o].log = <<New>> /\ media'[o] = Compacted
        BY <2>3, <2>6, <2>8
      <3>2. Newer(media'[o].rev, media'[b].rev)
        BY <2>2, <2>5, <3>1, NewerOrders
      <3>3. media'[o].log # <<>> /\ Kept(o) = New
        BY <3>1
      <3>4. Wins(o, b)'
        BY <3>2, <3>3 DEF Wins
      <3>5. wear' = Worn(o)
        BY <1>2, <2>8, <3>1 DEF PowerLoss
      <3>6. QED
        BY <1>5, <2>2, <2>5, <2>8, <3>1, <3>3, <3>4, <3>5
    <2>9. QED
      BY <2>3, <2>6, <2>7, <2>8
  <1>10. QED
    BY <1>7, <1>8, <1>9 DEF PowerLoss

-----------------------------------------------------------------------------
(***************************************************************************)
(* The invariant, and what it is for.                                      *)
(***************************************************************************)

LEMMA NextInv == IInv /\ [Next]_vars => IInv'
  <1>1. ASSUME IInv, UNCHANGED vars PROVE IInv'
    <2>1. /\ media' = media /\ home' = home /\ dir' = dir /\ pc' = pc /\ ldir' = ldir
          /\ tired' = tired /\ relocated' = relocated /\ tried' = tried /\ reply' = reply
          /\ wear' = wear
      BY <1>1 DEF vars, commit
    <2>2. Typed'
      BY <1>1, <2>1 DEF IInv, Typed
    <2>3. DirFollows' /\ CurrentWins' /\ Fresh' /\ Counted' /\ ErasedFirst'
      BY <1>1, <2>1 DEF IInv, Consistent, DirFollows, CurrentWins, Fresh, Counted,
                        ErasedFirst, Wins, Erased, Both
    <2>4. Written'
      BY <1>1, <2>1 DEF IInv, Consistent, Written, Wins, LastOf, Both
    <2>5. QED
      BY <2>2, <2>3, <2>4 DEF IInv, Consistent
  <1>2. ASSUME IInv, Next PROVE IInv'
    BY <1>2, BeginKeeps, AppendKeeps, StartKeeps, EraseKeeps, ProgKeeps, RelocateKeeps,
       ParentKeeps, PowerLossKeeps DEF Next, Step
  <1>3. QED
    BY <1>1, <1>2

\* The invariant holds throughout: in particular the copy of the directory in
\* memory is the one a mount would fetch, whatever failed before.
THEOREM PairConsistent == Spec => []IInv
  <1>1. QED
    BY InitInv, NextInv, PTL DEF Spec

\* Type correctness: a revision stays in its 32 bits, a log in its block, and
\* the copies of the directory refer to blocks and commits that exist.
THEOREM PairTyped == Spec => []TypeOK
  <1>1. Init => isSuper \in BOOLEAN
    BY DEF Init
  <1>2. isSuper \in BOOLEAN /\ [Next]_vars => (isSuper \in BOOLEAN)'
    BY DEF Next, vars
  <1>3. IInv => Both(home) \cap Both(dir.pair) # {}
    <2>1. ASSUME IInv PROVE dir.pair[1] \in Both(home) \cap Both(dir.pair)
      BY <2>1, PairState DEF Both
    <2>2. QED
      BY <2>1
  <1>4. IInv /\ isSuper \in BOOLEAN => TypeOK
    <2> SUFFICES ASSUME IInv, isSuper \in BOOLEAN PROVE TypeOK
      OBVIOUS
    <2>1. Typed /\ Both(home) \cap Both(dir.pair) # {}
      BY <1>3 DEF IInv
    <2>2. tired \in BOOLEAN /\ relocated \in BOOLEAN
      BY <2>1, Zenon DEF Typed
    <2>3. /\ media \in [Blocks -> [rev : Revs, log : Seq(Dirs), end : Ends]]
          /\ home \in Pairs
          /\ dir \in [pair : Pairs, rev : Revs, off : 1 .. Capacity, erased : BOOLEAN]
          /\ ldir \in [pair : Pairs, rev : Revs, off : 1 .. Capacity, erased : BOOLEAN]
      BY <2>1, Zenon DEF Typed
    <2>4. /\ pc \in {"idle", "append", "compact", "erase", "prog", "relocate", "parent"}
          /\ tried \subseteq Blocks
          /\ reply \in {"done", "failed"}
          /\ wear \in [Blocks -> 0 .. MaxWear]
      BY <2>1, Zenon DEF Typed
    <2>5. QED
      BY <2>1, <2>2, <2>3, <2>4, Zenon DEF TypeOK
  <1>5. QED
    BY <1>1, <1>2, <1>4, PairConsistent, PTL DEF Spec

\* What a mount would find, and what the commit in progress started from.
ContentIs ==
  IInv =>
    /\ media[dir.pair[1]].log[dir.off] = LastOf(dir.pair[1])
    /\ LastOf(dir.pair[1]) \in Dirs
    /\ OnDisk = IF pc = "parent" /\ ldir.pair[1] = dir.pair[2]
                THEN (LastOf(dir.pair[1]) + 1) % Versions
                ELSE LastOf(dir.pair[1])

LEMMA ContentKnown == ContentIs
  <1> SUFFICES ASSUME IInv
               PROVE  /\ media[dir.pair[1]].log[dir.off] = LastOf(dir.pair[1])
                      /\ LastOf(dir.pair[1]) \in Dirs
                      /\ OnDisk = IF pc = "parent" /\ ldir.pair[1] = dir.pair[2]
                                  THEN (LastOf(dir.pair[1]) + 1) % Versions
                                  ELSE LastOf(dir.pair[1])
    BY DEF ContentIs
  <1> DEFINE b == dir.pair[1]
             o == dir.pair[2]
  <1>1. /\ b \in Blocks /\ o \in Blocks /\ b # o /\ home \in Pairs /\ Both(home) = {b, o}
        /\ media[b].log # <<>> /\ dir.off = Len(media[b].log) /\ dir.rev = media[b].rev
        /\ LastOf(b) \in Dirs /\ MediaOK(media)
    BY PairState, MediaTypes DEF IInv
  <1>2. CASE pc # "parent" \/ ldir.pair[1] # o
    <2>1. Wins(b, o)
      BY <1>2 DEF IInv, Consistent, CurrentWins, Written
    <2>2. Fetch(home).pair[1] = b
      BY <1>1, <2>1, FetchWinner DEF FetchFinds
    <2>3. QED
      BY <1>1, <1>2, <2>2 DEF OnDisk, LastOf
  <1>3. CASE pc = "parent" /\ ldir.pair[1] = o
    <2>1. /\ media[o].rev = (media[b].rev + 1) % RevMod
          /\ media[o].log = <<(LastOf(b) + 1) % Versions>>
      BY <1>1, <1>3 DEF IInv, Consistent, Written
    <2>2. media[b].rev \in Revs
      BY <1>1 DEF MediaOK, BlockStates
    <2>3. Wins(o, b)
      <3>1. Newer(media[o].rev, media[b].rev) /\ media[o].log # <<>>
        BY <2>1, <2>2, NewerOrders
      <3>2. QED
        BY <3>1 DEF Wins
    <2>4. Fetch(home).pair[1] = o
      BY <1>1, <2>3, FetchWinner DEF FetchFinds
    <2>5. QED
      <3>1. media[o].log # <<>> /\ media[o].log[Len(media[o].log)] = (LastOf(b) + 1) % Versions
        BY <2>1
      <3>2. OnDisk = (LastOf(b) + 1) % Versions
        BY <2>4, <3>1 DEF OnDisk
      <3>3. QED
        BY <1>1, <1>3, <3>2 DEF LastOf
  <1>4. QED
    BY <1>2, <1>3

\* Every step of the pair is a step of the register, or changes nothing there.
LEMMA CommitStep ==
  ASSUME IInv, IInv', [Next]_vars
  PROVE  [Atomic!Next]_(<<OnDisk, media[dir.pair[1]].log[dir.off], pc # "idle", reply>>)
  <1> DEFINE content == OnDisk
             base == media[dir.pair[1]].log[dir.off]
             Read == LastOf(dir.pair[1])
             There == pc = "parent" /\ ldir.pair[1] = dir.pair[2]
  <1>1. base = Read /\ Read \in Dirs /\ content = IF There THEN (Read + 1) % Versions ELSE Read
    BY ContentKnown DEF ContentIs
  <1>2. /\ base' = Read' /\ content' = IF There' THEN (Read' + 1) % Versions ELSE Read'
    <2>1. ContentIs'
      BY ContentKnown, PTL
    <2>2. QED
      BY <2>1 DEF ContentIs
  <1>3. Atomic!Changed = (Read + 1) % Versions
    BY <1>1 DEF Atomic!Changed
  <1> HIDE DEF content, base, Read, There
  <1> DEFINE Goal == [Atomic!Next]_(<<OnDisk, media[dir.pair[1]].log[dir.off], pc # "idle", reply>>)
  <1>4. ASSUME Read' = Read, ~There, ~There', pc # "idle", pc' # "idle", reply' = reply
        PROVE  Goal
    BY <1>1, <1>2, <1>4 DEF content, base
  <1>5. ASSUME Read' = (Read + 1) % Versions, ~There', pc # "idle", pc' = "idle",
               reply' = "done"
        PROVE  Goal
    BY <1>1, <1>2, <1>3, <1>5 DEF Atomic!Next, Atomic!Acknowledge, content, base
  <1>6. CASE Begin
    <2>1. UNCHANGED <<media, home, reply>> /\ pc = "idle" /\ pc' # "idle" /\ pc' # "parent"
      BY <1>6 DEF Begin
    <2>2. content' = content
      BY <2>1 DEF content, OnDisk, Fetch, Newer
    <2>3. ~There /\ ~There'
      BY <2>1 DEF There
    <2>4. QED
      BY <1>1, <1>2, <2>1, <2>2, <2>3 DEF Atomic!Next, Atomic!Begin, content, base
  <1>7. CASE AppendCommit
    <2>1. pc = "append" /\ ldir.pair[1] = dir.pair[1] /\ dir'.pair = dir.pair
      BY <1>7, AppendKeeps DEF AppendCommit, IInv, Consistent, Fresh
    <2>2. PICK b \in Blocks : b = dir.pair[1] /\ MediaOK(media)
      BY PairState, MediaTypes DEF IInv
    <2>3. /\ Changed = (LastOf(b) + 1) % Versions /\ Len(media[b].log) \in 1 .. Capacity
          /\ ldir.off \in 1 .. Len(media[ldir.pair[1]].log)
      BY <2>1, <2>2, PairState
    <2>4. CASE Appendable(b) /\ media' = [media EXCEPT ![b] = Appended(b)]
               /\ Finish([ldir EXCEPT !.off = @ + 1])
      <3>1. media'[b] = Appended(b)
        BY <2>2, <2>4 DEF MediaOK
      <3>2. /\ Len(Appended(b).log) = Len(media[b].log) + 1
            /\ Appended(b).log[Len(media[b].log) + 1] = Changed
        BY <2>2, <2>3, <2>4, BlockTypes DEF IInv
      <3>3. Read' = (Read + 1) % Versions
        BY <2>1, <2>2, <2>3, <3>1, <3>2 DEF Read, LastOf
      <3>4. pc' = "idle" /\ reply' = "done" /\ ~There'
        BY <2>4 DEF Finish, Ended, There
      <3>5. QED
        BY <1>5, <2>1, <3>3, <3>4
    <2>5. CASE /\ \E m \in Torn(b) : media' = [media EXCEPT ![b] = m]
               /\ pc' = "compact"
               /\ UNCHANGED <<dir, ldir, tired, relocated, tried, reply>>
      <3>1. media'[b].log = media[b].log
        BY <2>2, <2>3, <2>5, BlockTypes DEF IInv, MediaOK
      <3>2. Read' = Read
        BY <2>1, <2>2, <3>1 DEF Read, LastOf
      <3>3. ~There /\ ~There' /\ pc' # "idle" /\ reply' = reply
        BY <2>1, <2>5 DEF There
      <3>4. QED
        BY <1>4, <2>1, <3>2, <3>3
    <2>6. QED
      BY <1>7, <2>1, <2>2, <2>4, <2>5 DEF AppendCommit
  <1>8. CASE StartCompact
    <2>1. /\ media' = media /\ dir' = dir /\ pc = "compact" /\ reply' = reply
          /\ pc' \in {"relocate", "erase"}
      BY <1>8 DEF StartCompact
    <2>2. Read' = Read
      BY <2>1 DEF Read, LastOf
    <2>3. QED
      BY <1>4, <2>1, <2>2 DEF There
  <1>9. CASE Erase
    <2>1. /\ dir' = dir /\ pc = "erase" /\ reply' = reply /\ pc' \in {"prog", "relocate"}
          /\ media' = media \/ media' = [media EXCEPT ![ldir.pair[2]] = Erased]
      BY <1>9 DEF Erase
    <2>2. media'[dir.pair[1]] = media[dir.pair[1]]
      BY <2>1, CompactState DEF MediaOK
    <2>3. Read' = Read
      BY <2>1, <2>2 DEF Read, LastOf
    <2>4. QED
      BY <1>4, <2>1, <2>3 DEF There
  <1>10. CASE Prog
    <2>1. PICK b \in Blocks, x \in Blocks :
             /\ b = dir.pair[1] /\ x = ldir.pair[2] /\ b # x /\ MediaOK(media)
             /\ ldir.pair[1] = b /\ pc = "prog" /\ Changed = (LastOf(b) + 1) % Versions
      BY <1>10, CompactState DEF Prog
    <2> DEFINE swapped == [ldir EXCEPT !.pair = <<x, ldir.pair[1]>>, !.off = 1]
    <2>2. swapped.pair = <<x, b>>
      BY <2>1, TypeFacts DEF IInv, Mdirs
    <2>3. ~There
      BY <2>1 DEF There
    <2> HIDE DEF swapped
    <2>4. CASE /\ media' = [media EXCEPT ![x] = Compacted]
               /\ relocated /\ ldir' = swapped /\ pc' = "parent"
               /\ UNCHANGED <<dir, tired, relocated, tried, reply>>
      <3>1. media'[b] = media[b] /\ dir' = dir
        BY <2>1, <2>4 DEF MediaOK
      <3>2. Read' = Read
        BY <2>1, <3>1 DEF Read, LastOf
      <3>3. content = Read /\ base' = base
        BY <1>1, <1>2, <2>3, <3>2
      <3>4. CASE There'
        <4>1. content' = (Read + 1) % Versions
          BY <1>2, <3>2, <3>4
        <4>2. QED
          BY <1>3, <2>1, <2>4, <3>3, <4>1 DEF Atomic!Next, Atomic!Effect, content, base
      <3>5. CASE ~There'
        <4>1. content' = content
          BY <1>2, <3>2, <3>3, <3>5
        <4>2. QED
          BY <2>1, <2>4, <3>3, <4>1 DEF content, base
      <3>6. QED
        BY <3>4, <3>5
    <2>5. CASE media' = [media EXCEPT ![x] = Compacted] /\ Finish(swapped)
      <3>1. media'[x] = Compacted /\ dir'.pair[1] = x /\ pc' = "idle" /\ reply' = "done"
        BY <2>1, <2>2, <2>5 DEF Finish, Ended, MediaOK
      <3>2. Compacted.log = <<(LastOf(b) + 1) % Versions>>
        BY <2>1 DEF Compacted
      <3>3. Compacted.log[Len(Compacted.log)] = (LastOf(b) + 1) % Versions
        BY <3>2
      <3>4. Read' = (Read + 1) % Versions
        BY <2>1, <3>1, <3>3 DEF Read, LastOf
      <3>5. QED
        BY <1>5, <2>1, <3>1, <3>4 DEF There
    <2>6. CASE /\ \E m \in Scrap(x) : media' = [media EXCEPT ![x] = m]
               /\ pc' = "relocate"
               /\ UNCHANGED <<dir, ldir, tired, relocated, tried, reply, wear>>
      <3>1. media'[b] = media[b] /\ dir' = dir
        BY <2>1, <2>6 DEF MediaOK
      <3>2. Read' = Read
        BY <2>1, <3>1 DEF Read, LastOf
      <3>3. QED
        BY <1>4, <2>1, <2>3, <2>6, <3>2 DEF There
    <2>7. QED
      BY <1>10, <2>1, <2>4, <2>5, <2>6 DEF Prog, swapped
  <1>11. CASE Relocate
    <2>1. PICK b \in Blocks : b = dir.pair[1] /\ b \in Both(home) /\ pc = "relocate"
      BY <1>11, CompactState DEF Relocate
    <2>2. media'[b] = media[b] /\ dir' = dir /\ pc' \in {"idle", "erase"}
      BY <1>11, <2>1 DEF Relocate, Ended, Known
    <2>3. Read' = Read /\ ~There /\ ~There'
      BY <2>1, <2>2 DEF Read, LastOf, There
    <2>4. CASE pc' = "erase"
      <3>1. reply' = reply
        BY <1>11, <2>4 DEF Relocate, Ended
      <3>2. QED
        BY <1>4, <2>1, <2>3, <2>4, <3>1
    <2>5. CASE pc' = "idle"
      <3>1. reply' = "failed"
        BY <1>11, <2>5 DEF Relocate, Ended
      <3>2. content' = content /\ base' = content'
        BY <1>1, <1>2, <2>3
      <3>3. QED
        BY <2>1, <2>5, <3>1, <3>2 DEF Atomic!Next, Atomic!Abort, content, base
    <2>6. QED
      BY <2>2, <2>4, <2>5
  <1>12. CASE UpdateParent
    <2>1. pc = "parent" /\ pc' = "idle" /\ reply' = "done"
      BY <1>12 DEF UpdateParent, Finish, Ended
    <2>2. dir'.pair[1] = ldir.pair[1] /\ media'[ldir.pair[1]] = media[ldir.pair[1]]
      BY <1>12, ParentKeeps
    <2>3. media[ldir.pair[1]].log = <<(Read + 1) % Versions>>
      BY <2>1 DEF IInv, Consistent, Written, Read
    <2>4. Read' = media[ldir.pair[1]].log[Len(media[ldir.pair[1]].log)]
      BY <2>2 DEF Read, LastOf
    <2>5. Read' = (Read + 1) % Versions
      BY <2>3, <2>4
    <2>6. QED
      BY <1>5, <2>1, <2>5 DEF There
  <1>13. CASE PowerLoss
    <2>1. pc # "idle" /\ pc' = "idle" /\ reply' = "failed" /\ ~There'
      BY <1>13 DEF PowerLoss, Ended, There
    <2>2. Read' \in IF There THEN {(Read + 1) % Versions} ELSE {Read, (Read + 1) % Versions}
      BY <1>13, PowerLossKeeps DEF Read, There
    <2>3. content' \in {content, (Read + 1) % Versions} /\ base' = content'
      BY <1>1, <1>2, <2>1, <2>2
    <2>4. QED
      BY <1>3, <2>1, <2>3 DEF Atomic!Next, Atomic!Abort, content, base
  <1>14. CASE UNCHANGED vars
    <2>1. /\ media' = media /\ home' = home /\ dir' = dir /\ pc' = pc /\ ldir' = ldir
          /\ reply' = reply
      BY <1>14 DEF vars, commit
    <2>2. content' = content /\ base' = base
      BY <2>1 DEF content, base, OnDisk, Fetch, Newer
    <2>3. QED
      BY <2>1, <2>2 DEF content, base
  <1>15. QED
    BY <1>6, <1>7, <1>8, <1>9, <1>10, <1>11, <1>12, <1>13, <1>14 DEF Next, Step

\* Whatever is torn, whatever fails and whatever the blocks held before, a
\* metadata pair implements an atomic register: lfs_dir_commit of lfs.c happens
\* entirely or not at all, once, and before it is acknowledged.
THEOREM CommitsAreAtomic == Spec => CommitsAtomic
  <1>1. Init => Atomic!Init
    <2> SUFFICES ASSUME Init PROVE Atomic!Init
      OBVIOUS
    <2>1. IInv /\ pc = "idle" /\ reply = "done"
      BY InitInv DEF Init
    <2>2. /\ media[dir.pair[1]].log[dir.off] = LastOf(dir.pair[1])
          /\ LastOf(dir.pair[1]) \in Dirs /\ OnDisk = LastOf(dir.pair[1])
      BY <2>1, ContentKnown DEF ContentIs
    <2>3. QED
      BY <2>1, <2>2 DEF Atomic!Init, Dirs
  <1>2. IInv /\ IInv' /\ [Next]_vars
        => [Atomic!Next]_(<<OnDisk, media[dir.pair[1]].log[dir.off], pc # "idle", reply>>)
    BY CommitStep
  <1>3. QED
    BY <1>1, <1>2, PairConsistent, PTL DEF Spec, CommitsAtomic, Atomic!Spec

-----------------------------------------------------------------------------
(***************************************************************************)
(* Wear.                                                                   *)
(***************************************************************************)

\* What the current block of a pair and the other one may have had at a place in
\* the cycle: they take turns, and the one that was replaced last has been there
\* for less than one cycle, the other one for less than two.
Fair(r, current, other) ==
    LET f == r % Modulus
    IN  IF f % 2 = 0
        THEN 2 * current <= f + 2 /\ 2 * other <= Modulus + 1 + f
        ELSE 2 * current <= Modulus + f + 2 /\ 2 * other <= f + 1

\* Between the parent's commits the blocks of the pair have fair counts; those
\* about to become the pair have, too; and a block is written anew in place only
\* when its turn to be replaced has not come.
WearInv ==
    ~isSuper =>
        /\ Fair(dir.rev, wear[dir.pair[1]], wear[dir.pair[2]])
        /\ pc = "parent" => Fair(ldir.rev, wear[ldir.pair[1]], wear[ldir.pair[2]])
        /\ pc \in {"append", "compact"} => ~relocated
        /\ pc \in {"erase", "prog"} =>
              \/ wear[ldir.pair[2]] = 0
              \/ ldir.rev % Modulus # 0 /\ ~relocated

\* The next compaction keeps the counts fair, and so does a block that joins the
\* pair; fair counts stay below the bound.
LEMMA FairSteps ==
  ASSUME WrapsOdd, NEW r \in Revs, NEW c \in Nat, NEW d \in Nat, Fair(r, c, d)
  PROVE  LET n == (r + 1) % RevMod
         IN  /\ \A e \in Nat : e <= d + 1 /\ n % Modulus # 0 => Fair(n, e, c)
             /\ \A e \in Nat : e <= 1 => Fair(n, e, c) /\ Fair(r, c, e)
             /\ c <= Modulus /\ d <= Modulus
  <1> DEFINE n == (r + 1) % RevMod
             f == r % Modulus
             g == n % Modulus
  <1>1. /\ Modulus % 2 = 1 /\ Modulus \in Nat \ {0}
        /\ f \in 0 .. Modulus - 1 /\ g \in 0 .. Modulus - 1
        /\ g = f + 1 \/ (g = 0 /\ f % 2 = 0)
    BY PlaceSteps
  <1>2. IF f % 2 = 0
        THEN 2 * c <= f + 2 /\ 2 * d <= Modulus + 1 + f
        ELSE 2 * c <= Modulus + f + 2 /\ 2 * d <= f + 1
    BY DEF Fair
  <1> HIDE DEF f, g
  <1>3. ASSUME NEW e \in Nat, e <= d + 1, g # 0
        PROVE  IF g % 2 = 0
               THEN 2 * e <= g + 2 /\ 2 * c <= Modulus + 1 + g
               ELSE 2 * e <= Modulus + g + 2 /\ 2 * c <= g + 1
    BY <1>1, <1>2, <1>3
  <1>4. ASSUME NEW e \in Nat, e <= 1
        PROVE  /\ IF g % 2 = 0
                  THEN 2 * e <= g + 2 /\ 2 * c <= Modulus + 1 + g
                  ELSE 2 * e <= Modulus + g + 2 /\ 2 * c <= g + 1
               /\ IF f % 2 = 0
                  THEN 2 * c <= f + 2 /\ 2 * e <= Modulus + 1 + f
                  ELSE 2 * c <= Modulus + f + 2 /\ 2 * e <= f + 1
    BY <1>1, <1>2, <1>4
  <1>5. c <= Modulus /\ d <= Modulus
    BY <1>1, <1>2
  <1>6. QED
    BY <1>3, <1>4, <1>5 DEF Fair, f, g

\* A new block, and one that is written again.
LEMMA FairStart ==
  ASSUME WrapsOdd, NEW r \in Revs
  PROVE  Fair(r, 0, 0) /\ ((r % Modulus = 0 \/ r % Modulus = 1) => Fair(r, 1, 0))
  <1>1. /\ Modulus % 2 = 1 /\ Modulus \in Nat \ {0}
        /\ r % Modulus \in 0 .. Modulus - 1
    BY PlaceSteps
  <1>2. QED
    BY <1>1 DEF Fair

LEMMA InitWear == WrapsOdd /\ Init => WearInv
  <1> SUFFICES ASSUME WrapsOdd, Init PROVE WearInv
    OBVIOUS
  <1>1. PICK p \in Pairs, old \in Former \cup {Erased}, c \in Dirs :
          /\ home = p
          /\ media = [b \in Blocks |->
                IF b = p[1] THEN [rev |-> (Alignup(old.rev) + 1) % RevMod,
                                  log |-> <<c>>, end |-> "erased"]
                ELSE IF b = p[2] THEN old
                ELSE Erased]
          /\ dir = [pair |-> p, rev |-> media[p[1]].rev, off |-> 1, erased |-> FALSE]
          /\ wear = [b \in Blocks |-> IF b = p[1] THEN 1 ELSE 0]
    BY DEF Init
  <1>2. p[1] \in Blocks /\ p[2] \in Blocks /\ p[1] # p[2]
    BY PairFacts
  <1>3. old.rev \in Revs
    BY Bounds DEF Former, Erased, Revs
  <1> DEFINE a == Alignup(old.rev)
  <1>4. Modulus \in Nat \ {0} /\ RevMod \in Nat \ {0}
    BY Bounds
  <1>5. PICK s \in Revs : a = s - (s % Modulus)
    <2>1. old.rev + Modulus - 1 \in Nat
      BY <1>3, <1>4 DEF Revs
    <2>2. (old.rev + Modulus - 1) % RevMod \in Revs
      BY <1>4, <2>1 DEF Revs
    <2>3. QED
      BY <2>2 DEF Alignup
  <1>6. a \in Revs /\ a % Modulus = 0
    <2>1. s \in Nat /\ s % Modulus \in 0 .. Modulus - 1
      BY <1>4 DEF Revs
    <2>2. s - (s % Modulus) \in 0 .. s /\ (s - (s % Modulus)) % Modulus = 0
      BY <1>4, <2>1, CutRemainder
    <2>3. a % Modulus = 0
      BY <1>5, <2>2, Zenon
    <2>4. a \in 0 .. s
      BY <1>5, <2>2, Zenon
    <2>5. 0 .. s \subseteq Revs
      BY <1>4 DEF Revs
    <2>6. QED
      BY <2>3, <2>4, <2>5
  <1>7. dir.rev = (a + 1) % RevMod /\ dir.rev \in Revs /\ dir.pair = p
    BY <1>1, <1>2, <1>6, NewerOrders
  <1>8. dir.rev % Modulus = 0 \/ dir.rev % Modulus = 1
    BY <1>6, <1>7, PlaceSteps
  <1>9. Fair(dir.rev, 1, 0)
    BY <1>7, <1>8, FairStart
  <1>10. wear[dir.pair[1]] = 1 /\ wear[dir.pair[2]] = 0
    BY <1>1, <1>2, <1>7
  <1>11. QED
    BY <1>9, <1>10 DEF WearInv, Init

\* The counts of the blocks, as numbers.
LEMMA WearFacts ==
  ASSUME IInv
  PROVE  /\ dir.rev \in Revs /\ ldir.rev \in Revs
         /\ \A x \in Blocks : wear[x] \in Nat
         /\ \A x \in Blocks : /\ Worn(x)[x] \in Nat /\ Worn(x)[x] <= wear[x] + 1
                              /\ \A y \in Blocks : y # x => Worn(x)[y] = wear[y]
  <1>1. dir.rev \in Revs /\ ldir.rev \in Revs /\ wear \in [Blocks -> 0 .. MaxWear]
    BY TypeFacts DEF IInv, Typed
  <1>2. \A x \in Blocks : wear[x] \in Nat
    BY <1>1, PairAssumption
  <1>3. ASSUME NEW x \in Blocks
        PROVE  /\ Worn(x)[x] \in Nat /\ Worn(x)[x] <= wear[x] + 1
               /\ \A y \in Blocks : y # x => Worn(x)[y] = wear[y]
    BY <1>1, <1>2 DEF Worn
  <1>4. QED
    BY <1>1, <1>2, <1>3

\* Every step keeps the counts fair.
LEMMA NextWear ==
  ASSUME WrapsOdd, IInv, IInv', WearInv, [Next]_vars
  PROVE  WearInv'
  <1> DEFINE b == dir.pair[1]
             o == dir.pair[2]
             x == ldir.pair[2]
             n == (dir.rev + 1) % RevMod
  <1>1. isSuper' = isSuper
    BY DEF Next, vars
  <1>2. CASE isSuper
    BY <1>1, <1>2 DEF WearInv
  <1>3. CASE ~isSuper
    <2>1. /\ Fair(dir.rev, wear[b], wear[o])
          /\ pc = "parent" => Fair(ldir.rev, wear[ldir.pair[1]], wear[ldir.pair[2]])
          /\ pc \in {"append", "compact"} => ~relocated
          /\ pc \in {"erase", "prog"} =>
                \/ wear[x] = 0
                \/ ldir.rev % Modulus # 0 /\ ~relocated
      BY <1>3 DEF WearInv
    <2>2. /\ b \in Blocks /\ o \in Blocks /\ b # o /\ Both(home) = {b, o}
          /\ dir.rev = media[b].rev /\ n \in Revs
          /\ dir'.rev = media'[dir'.pair[1]].rev
      <3>1. dir.rev \in Revs
        BY WearFacts
      <3>2. QED
        BY <3>1, PairState, NewerOrders DEF IInv, Consistent, DirFollows
    <2>3. wear[b] \in Nat /\ wear[o] \in Nat /\ dir.rev \in Revs
      BY <2>2, WearFacts
    <2>4. /\ \A e \in Nat : e <= wear[o] + 1 /\ n % Modulus # 0 => Fair(n, e, wear[b])
          /\ \A e \in Nat : e <= 1 => Fair(n, e, wear[b]) /\ Fair(dir.rev, wear[b], e)
      BY <2>1, <2>3, FairSteps
    <2>5. CASE UNCHANGED vars
      <3>1. UNCHANGED <<isSuper, dir, ldir, pc, relocated, wear>>
        BY <2>5 DEF vars, commit
      <3>2. QED
        BY <3>1 DEF WearInv
    <2>6. CASE Begin
      <3>1. dir'.pair = dir.pair /\ media' = media /\ wear' = wear
        BY <2>6, BeginKeeps DEF Begin
      <3>2. dir'.rev = dir.rev
        BY <2>2, <3>1
      <3>3. pc' \in {"append", "compact"} /\ relocated' = FALSE
        BY <2>6 DEF Begin
      <3>4. QED
        BY <2>1, <3>1, <3>2, <3>3 DEF WearInv
    <2>7. CASE AppendCommit
      <3>1. pc = "append" /\ wear' = wear /\ pc' \in {"idle", "compact"}
        BY <2>7 DEF AppendCommit, Finish, Ended
      <3>2. ldir.pair = dir.pair /\ ldir.rev = dir.rev /\ ldir \in Mdirs
        BY <3>1, TypeFacts DEF IInv, Consistent, Fresh
      <3>3. dir'.pair = dir.pair /\ dir'.rev = dir.rev
        BY <2>7, <3>2 DEF AppendCommit, Finish, Ended, Mdirs
      <3>4. pc' = "compact" => relocated' = relocated
        BY <2>7 DEF AppendCommit, Finish, Ended
      <3>5. QED
        BY <2>1, <3>1, <3>3, <3>4 DEF WearInv
    <2>8. CASE StartCompact
      <3>1. /\ pc = "compact" /\ pc' \in {"relocate", "erase"} /\ UNCHANGED <<dir, relocated, wear>>
            /\ pc' = "erase" => ~NeedsRelocation(ldir)
        BY <1>3, <2>8 DEF StartCompact
      <3>2. ldir'.rev = (ldir.rev + 1) % RevMod
        BY <2>8, TypeFacts DEF StartCompact, IInv, Mdirs
      <3>3. QED
        BY <2>1, <3>1, <3>2 DEF WearInv, NeedsRelocation
    <2>9. CASE Erase
      <3>1. /\ pc = "erase" /\ pc' \in {"prog", "relocate"}
            /\ UNCHANGED <<dir, ldir, relocated, wear>>
        BY <2>9 DEF Erase
      <3>2. QED
        BY <2>1, <3>1 DEF WearInv
    <2>10. CASE Prog
      <3>1. /\ pc = "prog" /\ x \in Blocks /\ b # x /\ ldir.pair = <<b, x>> /\ ldir.rev = n
            /\ x = o \/ x \notin Both(home)
            /\ ~relocated => x = o
            /\ ldir \in Mdirs
        BY <2>2, <2>10, CompactState DEF Prog
      <3> DEFINE swapped == [ldir EXCEPT !.pair = <<x, ldir.pair[1]>>, !.off = 1]
      <3>2. CASE wear' = wear /\ pc' = "relocate" /\ dir' = dir
        BY <2>1, <3>2 DEF WearInv
      <3>3. CASE /\ IF relocated
                    THEN /\ ldir' = swapped /\ pc' = "parent"
                         /\ UNCHANGED <<dir, tired, relocated, tried, reply>>
                    ELSE Finish(swapped)
                 /\ wear' = Worn(x)
        <4>1. swapped.pair = <<x, b>> /\ swapped.rev = n
          BY <3>1 DEF Mdirs
        <4>2. wear'[x] \in Nat /\ wear'[x] <= wear[x] + 1 /\ wear'[b] = wear[b]
          BY <2>2, <3>1, <3>3, WearFacts
        <4>3. Fair(n, wear'[x], wear'[b])
          <5>1. CASE wear[x] = 0
            BY <2>4, <4>2, <5>1
          <5>2. CASE ldir.rev % Modulus # 0 /\ ~relocated
            BY <2>4, <3>1, <4>2, <5>2
          <5>3. QED
            BY <2>1, <3>1, <5>1, <5>2
        <4>4. CASE relocated
          <5>1. wear[x] = 0
            BY <2>1, <3>1, <4>4
          <5>2. Fair(dir.rev, wear'[b], wear'[o])
            <6>1. CASE x = o
              BY <2>4, <4>2, <5>1, <6>1
            <6>2. CASE x # o
              BY <2>1, <2>2, <3>1, <3>3, <4>2, <6>2, WearFacts
            <6>3. QED
              BY <6>1, <6>2
          <5>3. dir' = dir /\ pc' = "parent" /\ ldir' = swapped
            BY <3>3, <4>4
          <5>4. ldir'.pair[1] = x /\ ldir'.pair[2] = b /\ ldir'.rev = n
            <6>1. ldir'.pair = <<x, b>> /\ ldir'.rev = n
              BY <4>1, <5>3
            <6>2. QED
              BY <6>1
          <5>5. QED
            BY <4>3, <5>2, <5>3, <5>4 DEF WearInv
        <4>5. CASE ~relocated
          <5>1. dir' = swapped /\ pc' = "idle"
            BY <3>3, <4>5 DEF Finish, Ended
          <5>2. QED
            BY <4>1, <4>3, <5>1 DEF WearInv
        <4>6. QED
          BY <4>4, <4>5
      <3>4. QED
        BY <2>10, <3>2, <3>3 DEF Prog
    <2>11. CASE Relocate
      <3>1. pc = "relocate" /\ home' = home
        BY <2>11 DEF Relocate
      <3>2. ldir \in Mdirs /\ ldir.pair \in Pairs
        BY TypeFacts DEF IInv
      <3>3. CASE Ended("failed", dir) /\ UNCHANGED wear
        BY <2>1, <3>3 DEF WearInv, Ended
      <3>4. ASSUME NEW available \in SUBSET Free,
                   pc' = "erase", dir' = dir, available = {},
                   wear' = [c \in Blocks |-> 0], ldir' = ldir
            PROVE  WearInv'
        <4>1. wear'[b] = 0 /\ wear'[o] = 0 /\ wear'[x] = 0
          BY <2>2, <3>2, <3>4, PairFacts
        <4>2. Fair(dir.rev, 0, 0)
          BY <2>3, FairStart
        <4>3. QED
          BY <3>4, <4>1, <4>2 DEF WearInv
      <3>5. ASSUME NEW available \in SUBSET Free,
                   pc' = "erase", dir' = dir,
                   NEW c \in available,
                   ldir' = [ldir EXCEPT !.pair[2] = c], wear' = [wear EXCEPT ![c] = 0]
            PROVE  WearInv'
        <4>1. c \in Blocks /\ c \notin Both(home)
          BY DEF Free
        <4>2. wear \in [Blocks -> 0 .. MaxWear]
          BY DEF IInv, Typed
        <4>3. wear'[b] = wear[b] /\ wear'[o] = wear[o] /\ wear'[c] = 0
          BY <2>2, <3>5, <4>1, <4>2
        <4>4. ldir'.pair[2] = c
          BY <3>2, <3>5 DEF Mdirs, Pairs
        <4>5. QED
          BY <2>1, <3>5, <4>3, <4>4 DEF WearInv
      <3>6. QED
        BY <2>11, <3>3, <3>4, <3>5 DEF Relocate
    <2>12. CASE UpdateParent
      <3>1. pc = "parent" /\ pc' = "idle" /\ dir' = ldir /\ wear' = wear
        BY <2>12 DEF UpdateParent, Finish, Ended
      <3>2. QED
        BY <2>1, <3>1 DEF WearInv
    <2>13. CASE PowerLoss
      <3>1. pc' = "idle"
        BY <2>13 DEF PowerLoss, Ended
      <3>2. CASE dir'.pair = <<b, o>> /\ dir'.rev = dir.rev /\ wear' = wear
        BY <2>1, <3>1, <3>2 DEF WearInv
      <3>3. CASE /\ dir'.pair = <<o, b>> /\ dir'.rev = n
                 /\ pc = "parent" /\ ldir.pair[1] = o /\ wear' = wear
        <4>1. ldir.rev = n /\ ldir.pair[2] = b
          BY <3>3 DEF IInv, Consistent, Written
        <4>2. QED
          BY <2>1, <3>1, <3>3, <4>1 DEF WearInv
      <3>4. CASE /\ dir'.pair = <<o, b>> /\ dir'.rev = n
                 /\ pc = "prog" /\ ldir.pair[2] = o /\ wear' = Worn(o)
        <4>1. ldir.rev = n
          BY <2>2, <3>4, CompactState
        <4>2. wear'[o] \in Nat /\ wear'[o] <= wear[o] + 1 /\ wear'[b] = wear[b]
          BY <2>2, <3>4, WearFacts
        <4>3. Fair(n, wear'[o], wear'[b])
          BY <2>1, <2>4, <3>4, <4>1, <4>2
        <4>4. QED
          BY <3>1, <3>4, <4>3 DEF WearInv
      <3>5. QED
        BY <2>13, <3>2, <3>3, <3>4, PowerLossKeeps DEF Landed
    <2>14. QED
      BY <2>5, <2>6, <2>7, <2>8, <2>9, <2>10, <2>11, <2>12, <2>13 DEF Next, Step
  <1>4. QED
    BY <1>2, <1>3

\* Wear levelling reaches both blocks of a pair, whatever fails or is cut off:
\* lfs_dir_needsrelocation replaces them in turn, each before it has been
\* compacted into more than Modulus times.  The modulus is odd for that; and the
\* wrap of the counter must not cut a cycle at an even place, where the same block
\* would be replaced twice in a row: WrapsOdd, which holds for 2^32 and 512.
THEOREM WearIsSpread == ASSUME WrapsOdd PROVE Spec => []WearSpread
  <1>1. Init => WearInv
    BY InitWear
  <1>2. IInv /\ IInv' /\ WearInv /\ [Next]_vars => WearInv'
    BY NextWear
  <1>3. IInv /\ WearInv => WearSpread
    <2> SUFFICES ASSUME IInv, WearInv, ~isSuper, NEW c \in Both(home)
                 PROVE  wear[c] <= Modulus
      BY DEF WearSpread
    <2>1. /\ dir.pair[1] \in Blocks /\ dir.pair[2] \in Blocks
          /\ c = dir.pair[1] \/ c = dir.pair[2]
      BY PairState
    <2>2. /\ wear[dir.pair[1]] \in Nat /\ wear[dir.pair[2]] \in Nat /\ dir.rev \in Revs
          /\ Fair(dir.rev, wear[dir.pair[1]], wear[dir.pair[2]])
      BY <2>1, WearFacts DEF WearInv
    <2>3. wear[dir.pair[1]] <= Modulus /\ wear[dir.pair[2]] <= Modulus
      BY <2>2, FairSteps
    <2>4. QED
      BY <2>1, <2>3
  <1>4. QED
    BY <1>1, <1>2, <1>3, PairConsistent, PTL DEF Spec

=============================================================================
