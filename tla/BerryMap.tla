------------------------------- MODULE BerryMap -------------------------------
(***************************************************************************)
(* The hash table of Berry maps, classes and modules (be_map.c): chained   *)
(* scatter with Brent's variation.  All nodes live in one array; the keys  *)
(* of a main slot form a chain through it that starts in that slot; a node *)
(* found in the main slot of a new key is moved to a free one.             *)
(*                                                                         *)
(* Abstractions.  A key is a member of Key with a hash; two keys are equal *)
(* when they are the same member (no NaN).  The value a free slot keeps is  *)
(* not told apart.  Allocation succeeds.                                   *)
(***************************************************************************)
EXTENDS Integers, FiniteSets, BerryValues

CONSTANTS
  Key,
  Hash,     \* Hash[k]: hashcode of a key
  MaxSize   \* bound: slots of the table; a position has 24 bits and is not LASTNODE

ASSUME MapAssumption ==
  /\ IsFiniteSet(Key) /\ NIL \notin Key /\ NONE \notin Val
  /\ Hash \in [Key -> Nat]
  /\ MaxSize \in 2 .. 2 ^ 24 - 1

VARIABLES
  size,      \* map->size
  slots,     \* slots[p]: the node at position p
  lastfree,  \* map->lastfree as a position, -1 before the first slot
  count,     \* map->count
  iter,      \* position of the node an iterator has returned last, -1 at first
  seen,      \* history: keys this iterator has returned
  steady,    \* history: no key has come or gone since the iterator began
  ret        \* the result of the last operation

vars == <<size, slots, lastfree, count, iter, seen, steady, ret>>

\* No position (2 ^ 24 - 1 in the code).
LASTNODE == -1

-----------------------------------------------------------------------------
(***************************************************************************)
(* A table m is a record of its size, slots and lastfree.                  *)
(***************************************************************************)

Main(m, k) == Hash[k] % m.size

Free(m) == {p \in DOMAIN m.slots : m.slots[p].key = NIL}

\* The positions a walk along `next' visits from p.
Chain(m, p) ==
  LET walk[n \in 0 .. m.size] ==
        IF n = 0 THEN {p}
        ELSE walk[n - 1] \cup ({m.slots[q].next : q \in walk[n - 1]} \ {LASTNODE})
  IN walk[m.size]

\* find: the node with key k, or nothing.
Holding(m, k) ==
  IF Main(m, k) \in Free(m) THEN {}
  ELSE {p \in Chain(m, Main(m, k)) : m.slots[p].key = k}

\* nextfree: the free slot found downwards from lastfree, which stays there.
nextfree(m) ==
  LET free == {p \in Free(m) : p <= m.lastfree}
  IN IF free = {} THEN -1 ELSE CHOOSE p \in free : \A q \in free : q <= p

findprev(m, p, slot) == CHOOSE q \in Chain(m, p) : m.slots[q].next = slot

Node(k, next, v) == [key |-> k, next |-> next, val |-> v]

\* The node at p with another link.
Linked(m, p, next) == Node(m.slots[p].key, next, m.slots[p].val)

\* The table with other slots and another lastfree.
With(m, s, last) == [size |-> m.size, slots |-> s, lastfree |-> last]

\* The main slot is taken by a node of its own chain: the key comes second.
insert_second(m, k, slot) ==
  LET new == nextfree(m)
  IN With(m, [m.slots EXCEPT ![new] = Node(k, m.slots[slot].next, m.slots[new].val),
                             ![slot] = Linked(m, slot, new)], new)

\* Mutant: the chain of the displaced node still leads to its old slot.
insert_displacing_unlinked(m, k, slot) ==
  LET new == nextfree(m)
  IN With(m, [m.slots EXCEPT ![new] = m.slots[slot],
                             ![slot] = Node(k, LASTNODE, m.slots[slot].val)], new)

\* It is taken by a node of another chain: that node moves to a free slot.
insert_displacing(m, k, slot) ==
  LET new  == nextfree(m)
      prev == findprev(m, Main(m, m.slots[slot].key), slot)
  IN With(m, [m.slots EXCEPT ![prev] = Linked(m, prev, new),
                             ![new] = m.slots[slot],
                             ![slot] = Node(k, LASTNODE, m.slots[slot].val)], new)

\* insert: the table with a node for k, which is not in it.
insert(m, k) ==
  LET slot == Main(m, k)
      old  == m.slots[slot].key
  IN CASE old = NIL ->
            With(m, [m.slots EXCEPT ![slot] = Node(k, LASTNODE, m.slots[slot].val)], m.lastfree)
       [] old # NIL /\ Main(m, old) = slot -> insert_second(m, k, slot)
       [] OTHER -> insert_displacing(m, k, slot)

put(m, k, v) ==
  LET t == insert(m, k)
      p == CHOOSE q \in DOMAIN t.slots : t.slots[q].key = k
  IN With(t, [t.slots EXCEPT ![p] = Node(k, t.slots[p].next, v)], t.lastfree)

Nil(n) == [p \in 0 .. n - 1 |-> Node(NIL, LASTNODE, NONE)]

\* Mutant: lastfree begins past the last slot.
Empty_past(n) == [size |-> n, lastfree |-> n, slots |-> Nil(n)]

Empty(n) == [size |-> n, lastfree |-> n - 1, slots |-> Nil(n)]

\* Mutant: the nodes go to the new table without their values.
resize_keys(m, n) ==
  LET rehash[i \in 0 .. m.size] ==
        IF i = 0 THEN Empty(n)
        ELSE LET node == m.slots[i - 1]
             IN IF node.key = NIL THEN rehash[i - 1]
                ELSE put(rehash[i - 1], node.key, NONE)
  IN rehash[m.size]

\* resize: the nodes are inserted into a new table from the first slot on.
resize(m, n) ==
  LET rehash[i \in 0 .. m.size] ==
        IF i = 0 THEN Empty(n)
        ELSE LET node == m.slots[i - 1]
             IN IF node.key = NIL THEN rehash[i - 1]
                ELSE put(rehash[i - 1], node.key, node.val)
  IN rehash[m.size]

unlink(m, first, p) ==
  LET prev == findprev(m, first, p)
  IN With(m, [m.slots EXCEPT ![prev] = Linked(m, prev, m.slots[p].next)], m.lastfree)

\* The slot becomes free; it keeps its `next'.
free(m, p) ==
  With(m, [m.slots EXCEPT ![p] = Node(NIL, m.slots[p].next, NONE)],
          IF m.lastfree < p THEN p ELSE m.lastfree)

\* be_map_remove on a table that holds k: the first node takes over the second;
\* any other node is unlinked.
remove(m, k) ==
  LET first == Main(m, k)
      p     == CHOOSE q \in Chain(m, first) : m.slots[q].key = k
      next  == m.slots[p].next
  IN CASE p = first /\ next # LASTNODE ->
            free(With(m, [m.slots EXCEPT ![p] = m.slots[next]], m.lastfree), next)
       [] p = first /\ next = LASTNODE -> free(m, p)
       [] OTHER -> free(unlink(m, first, p), p)

-----------------------------------------------------------------------------
Table == [size |-> size, slots |-> slots, lastfree |-> lastfree]

Becomes(m) == size' = m.size /\ slots' = m.slots /\ lastfree' = m.lastfree

Keys == {slots[p].key : p \in DOMAIN slots} \ {NIL}

be_map_find(k) ==
  /\ ret' = IF Holding(Table, k) = {} THEN NONE
            ELSE slots[CHOOSE p \in Holding(Table, k) : TRUE].val
  /\ UNCHANGED <<size, slots, lastfree, count, iter, seen, steady>>

\* be_map_insert overwrites the value of a key that is there, ...
Overwrite(k, v) ==
  /\ \E p \in Holding(Table, k) : slots' = [slots EXCEPT ![p] = Node(k, slots[p].next, v)]
  /\ ret' = v
  /\ UNCHANGED <<size, lastfree, count, iter, seen, steady>>

\* ... and makes a node for another, in a larger table when this one is full.
\* An iterator of a table that has been replaced is not used again.
Insert(k, v) ==
  /\ Holding(Table, k) = {}
  /\ count >= size => be_nextsize(size) <= MaxSize
  /\ Becomes(put(IF count >= size THEN resize(Table, be_nextsize(size)) ELSE Table, k, v))
  /\ count' = count + 1
  /\ iter' = IF count >= size THEN -1 ELSE iter
  /\ seen' = IF count >= size THEN {} ELSE seen
  /\ steady' = (count >= size)
  /\ ret' = v

\* be_map_remove walks the chain of the main slot, free or not.
be_map_remove(k) ==
  /\ LET there == \E p \in Chain(Table, Main(Table, k)) : slots[p].key = k
     IN /\ ret' = there
        /\ IF there
           THEN /\ Becomes(remove(Table, k))
                /\ count' = count - 1
                /\ steady' = FALSE
           ELSE UNCHANGED <<size, slots, lastfree, count, steady>>
  /\ UNCHANGED <<iter, seen>>

\* The maps of classes and modules are resized to what they hold.
be_map_compact ==
  /\ Becomes(resize(Table, IF count = 0 THEN 1 ELSE count))
  /\ iter' = -1 /\ seen' = {} /\ steady' = TRUE
  /\ UNCHANGED <<count, ret>>

\* Mutant: the iterator steps over the slot after the one it is at.
be_map_next_skipping ==
  /\ \E p \in iter + 2 .. size - 1 :
       /\ slots[p].key # NIL
       /\ \A q \in iter + 2 .. p - 1 : slots[q].key = NIL
       /\ iter' = p
       /\ seen' = seen \cup {slots[p].key}
  /\ UNCHANGED <<size, slots, lastfree, count, steady, ret>>

\* be_map_next: the next node in the array that is not nil.
be_map_next ==
  /\ \E p \in iter + 1 .. size - 1 :
       /\ slots[p].key # NIL
       /\ \A q \in iter + 1 .. p - 1 : slots[q].key = NIL
       /\ iter' = p
       /\ seen' = seen \cup {slots[p].key}
  /\ UNCHANGED <<size, slots, lastfree, count, steady, ret>>

\* It has returned NULL; another iterator begins.
IterEnd ==
  /\ \A q \in iter + 1 .. size - 1 : slots[q].key = NIL
  /\ iter' = -1 /\ seen' = {} /\ steady' = TRUE
  /\ UNCHANGED <<size, slots, lastfree, count, ret>>

\* be_map_new.
Init ==
  /\ size = 2 /\ count = 0
  /\ slots = Empty(2).slots /\ lastfree = Empty(2).lastfree
  /\ iter = -1 /\ seen = {} /\ steady = TRUE
  /\ ret = NONE

Next ==
  \/ \E k \in Key : be_map_find(k) \/ be_map_remove(k)
  \/ \E k \in Key, v \in Val : Overwrite(k, v) \/ Insert(k, v)
  \/ be_map_compact \/ be_map_next \/ IterEnd

Spec == Init /\ [][Next]_vars

-----------------------------------------------------------------------------
Position == 0 .. size - 1

TypeOK ==
  /\ size \in Nat \ {0} /\ count \in 0 .. size
  /\ slots \in [Position -> [key : Key \cup {NIL}, next : Position \cup {LASTNODE},
                             val : Val \cup {NONE}]]
  /\ lastfree \in Position \cup {-1} /\ iter \in Position \cup {-1}
  /\ seen \subseteq Key /\ steady \in BOOLEAN
  /\ ret \in Val \cup {NONE} \cup BOOLEAN

\* Every key is in the chain of its main slot, and only once in the table:
\* lookup, insertion and removal agree on where it is, and the count on how many
\* there are.
Findable ==
  /\ \A p \in Position : slots[p].key # NIL => Holding(Table, slots[p].key) = {p}
  /\ count = Cardinality(Keys)

\* A chain in use never leads through a free slot, although a freed slot keeps
\* its link (be_map_remove): reusing the slot cannot cut a chain.
ChainsInUse ==
  \A p \in Position : slots[p].key # NIL => Chain(Table, p) \cap Free(Table) = {}

\* A walk ends from every slot, also from a free one with a stale link, where
\* be_map_remove may start.
WalksEnd ==
  \A p \in Position : \E q \in Chain(Table, p) : slots[q].next = LASTNODE

\* As long as a slot is free, nextfree finds one: insert never stores through
\* the NULL that nextfree returns when it finds none.
FreeBelowLastfree == \A p \in Free(Table) : p <= lastfree

\* What lookup, insertion and removal rely on when they follow links.
WellLinked == Findable /\ ChainsInUse /\ WalksEnd /\ FreeBelowLastfree

\* An iterator visits every key, if none has come or gone since it began.
IterComplete ==
  steady /\ (\A q \in iter + 1 .. size - 1 : slots[q].key = NIL) => seen = Keys

Abstract == INSTANCE AbstractMap WITH
  map <- [k \in Keys |-> slots[CHOOSE p \in Position : slots[p].key = k].val]

\* The hash table implements a finite function from keys to values.
Implements == Abstract!Spec
=============================================================================
