----------------------------- MODULE BerryStrtab -----------------------------
(***************************************************************************)
(* The table of short strings (be_string.c): interning, the growth of the  *)
(* table, and its sweep by the collector.                                  *)
(*                                                                         *)
(* newshortstr remembers a bucket, then allocates: the allocation may run  *)
(* a collection, which frees strings, may halve the table, and before that *)
(* runs deinit methods that create strings of their own.  When the table   *)
(* then grows and there is no memory, a second collection comes between    *)
(* the string and the reference to it that the caller will have.           *)
(*                                                                         *)
(* Abstractions.  A text is a member of Text with a hash given by Hash; a  *)
(* bucket is the set of the strings its chain holds.  The strings the rest *)
(* of the heap refers to are the set held.  realloc moves the table or     *)
(* leaves it in place; a write through a pointer into a block that is gone *)
(* is a string that no bucket holds.  After a collection the table finds   *)
(* the memory to grow.                                                     *)
(***************************************************************************)
EXTENDS Integers, Sequences, FiniteSets

CONSTANTS
  Text,      \* what strings say
  Addr,      \* where string objects are
  Hash,      \* Hash[t]: the hash of a text
  MinSize,   \* the initial and smallest size of the table (8)
  MaxLoad,   \* strings per bucket above which the table doubles (4)
  MinLoad,   \* buckets per string above which a sweep halves it (4)
  NONE

ASSUME StrtabAssumption ==
  /\ IsFiniteSet(Addr)
  /\ Hash \in [Text -> Nat]
  /\ MinSize \in Nat \ {0} /\ MaxLoad \in Nat \ {0} /\ MinLoad \in Nat \ {0, 1}
  /\ NONE \notin Text

VARIABLES
  size,        \* vm->strtab.size
  count,       \* vm->strtab.count
  table,       \* table[i]: the strings in the chain of bucket i
  text,        \* text[a]: what the string at a says; NONE when a is free
  held,        \* strings that roots, containers and the stack refer to
  lost,        \* strings linked through a pointer to a table that is gone
  collecting,  \* a collection has marked and not yet swept the table
  dark,        \* the strings it has marked
  calls,       \* calls of newshortstr that have not returned, innermost first
  raced,       \* history: the strings of calls in which a collection has begun,
               \* and those that are lost
  swept        \* history: where strings were that a collection has freed before
               \* their call returned, which leaves a reference to free memory

vars == <<size, count, table, text, held, lost, collecting, dark, calls, raced, swept>>

InTable == UNION {table[i] : i \in 0 .. size - 1}

\* Bucket of a text in a table of n buckets, n a power of two: hash & (n - 1).
Bucket(t, n) == Hash[t] % n

\* Mutants: the loop of resize moves no string; it misses the last bucket; it
\* visits one bucket too many.
Rehashed_unmoved(n) == [i \in 0 .. n - 1 |-> IF i < size THEN table[i] ELSE {}]
Rehashed_short(n) ==
  [i \in 0 .. n - 1 |-> {a \in UNION {table[j] : j \in 0 .. size - 2} : Bucket(text[a], n) = i}]
Rehashed_long(n) == [i \in 0 .. n |-> {a \in InTable : Bucket(text[a], n) = i}]

\* The table with n buckets, every string of the chains moved to its bucket.
Rehashed(n) == [i \in 0 .. n - 1 |-> {a \in InTable : Bucket(text[a], n) = i}]

\* be_gcstrtab leaves n strings: is the table halved?
Halves(n) == n < size \div MinLoad /\ size > MinSize

\* A call that waits in its allocation holds a pointer into the table; when
\* realloc moves the table the pointer is stale.
Calls_moved(moved) ==
  [k \in DOMAIN calls |-> [calls[k] EXCEPT !.stale = @ \/ moved]]

\* Berry code runs: outside of a collection, or in a deinit.  A collection that
\* the growth of the table waits for runs no deinit (GC_ALLOC).
Running == calls # <<>> => collecting /\ ~Head(calls).deinit /\ Head(calls).step = "create"

\* The innermost call is not waiting for a collection to end.
Proceeds == calls # <<>> /\ (collecting => Head(calls).deinit)

-----------------------------------------------------------------------------
\* newshortstr finds the text.  What a deinit finds it does not keep.
Found(t) ==
  /\ Running /\ ~collecting
  /\ \E a \in table[Bucket(t, size)] : text[a] = t /\ held' = held \cup {a}
  /\ UNCHANGED <<size, count, table, text, lost, collecting, dark, calls, raced, swept>>

\* It does not: it keeps the size and the bucket while it allocates.
NotFound(t) ==
  /\ Running
  /\ \A a \in table[Bucket(t, size)] : text[a] # t
  /\ Cardinality({a \in Addr : text[a] = NONE}) > Len(calls)  \* bound
  /\ calls' = <<[str |-> t, size |-> size, bucket |-> Bucket(t, size), stale |-> FALSE,
                 step |-> "create", result |-> NONE, deinit |-> collecting,
                 raced |-> FALSE]>> \o calls
  /\ UNCHANGED <<size, count, table, text, held, lost, collecting, dark, raced, swept>>

\* The call returns: the caller puts the string on the stack.
Return(a) ==
  /\ calls' = Tail(calls)
  /\ held' = IF Head(calls).deinit THEN held ELSE held \cup {a}

\* createstrobj has its block; the string goes to the head of *list.
Link(a) ==
  /\ Proceeds /\ Head(calls).step = "create"
  /\ text[a] = NONE
  /\ LET c == Head(calls)
     IN /\ text' = [text EXCEPT ![a] = c.str]
        /\ IF ~c.stale /\ c.bucket < size
           THEN /\ table' = [table EXCEPT ![c.bucket] = @ \cup {a}]
                /\ UNCHANGED lost
           ELSE /\ lost' = lost \cup {a}
                /\ UNCHANGED table
        /\ count' = count + 1
        /\ raced' = IF c.raced THEN raced \cup {a} ELSE raced \ ({a} \ swept)
        /\ IF count + 1 > c.size * MaxLoad
           THEN /\ calls' = [calls EXCEPT ![1].step = "grow", ![1].result = a, ![1].stale = FALSE]
                /\ UNCHANGED held
           ELSE Return(a)
  /\ dark' = dark \ {a}
  /\ UNCHANGED <<size, collecting, swept>>

\* resize(vm, size << 1), with the size the call has kept.  When the collection it
\* has waited for has moved the table, it copies memory that is free: the
\* strings may still be there or not.
Grow ==
  /\ Proceeds /\ Head(calls).step = "grow"
  /\ size' = 2 * Head(calls).size
  /\ \E gone \in IF Head(calls).stale THEN {{}, InTable} ELSE {{}} :
       /\ table' = [i \in 0 .. size' - 1 |-> Rehashed(size')[i] \ gone]
       /\ lost' = lost \cup gone
       /\ raced' = raced \cup gone
  /\ \E moved \in BOOLEAN :
       /\ calls' = Tail(Calls_moved(moved))
       /\ held' = IF Head(calls).deinit THEN held ELSE held \cup {Head(calls).result}
  /\ UNCHANGED <<count, text, collecting, dark, swept>>

\* The program lets go of a string.
Drop(a) ==
  /\ Running /\ ~collecting
  /\ a \in held
  /\ held' = held \ {a}
  /\ UNCHANGED <<size, count, table, text, lost, collecting, dark, calls, raced, swept>>

\* The calls in progress know that a collection has begun.
Calls_raced == [k \in DOMAIN calls |-> [calls[k] EXCEPT !.raced = TRUE]]

\* The strings that calls have linked and not returned.
Linked == {calls[k].result : k \in {j \in DOMAIN calls : calls[j].step = "grow"}}

\* A collection begins: in an allocation of some other object or of a string
\* object, or because there is no memory for the table to grow.
Collect ==
  /\ ~collecting
  /\ calls # <<>> /\ Head(calls).step = "grow" => 2 * Head(calls).size > size
  /\ collecting' = TRUE
  /\ dark' = held
  /\ calls' = Calls_raced
  /\ raced' = raced \cup Linked
  /\ UNCHANGED <<size, count, table, text, held, lost, swept>>

\* be_gcstrtab: free the white strings, then perhaps halve the table.  What
\* deinit methods have created since is white as well.
be_gcstrtab ==
  /\ collecting /\ (calls # <<>> => ~Head(calls).deinit)
  /\ LET freed == InTable \ dark
         n == count - Cardinality(freed)
         halved == Halves(n)
     IN /\ count' = n
        /\ text' = [a \in Addr |-> IF a \in freed THEN NONE ELSE text[a]]
        /\ size' = IF halved THEN size \div 2 ELSE size
        /\ table' = IF halved
                    THEN [i \in 0 .. size' - 1 |-> Rehashed(size')[i] \ freed]
                    ELSE [i \in 0 .. size - 1 |-> table[i] \ freed]
        /\ swept' = swept \cup (Linked \cap freed)
        /\ \E moved \in BOOLEAN : calls' = Calls_moved(halved /\ moved)
  /\ collecting' = FALSE
  /\ dark' = {}
  /\ UNCHANGED <<held, lost, raced>>

-----------------------------------------------------------------------------
\* be_string_init.
Init ==
  /\ size = MinSize /\ count = 0
  /\ table = [i \in 0 .. MinSize - 1 |-> {}]
  /\ text = [a \in Addr |-> NONE]
  /\ held = {} /\ lost = {}
  /\ collecting = FALSE /\ dark = {}
  /\ calls = <<>> /\ raced = {} /\ swept = {}

Next ==
  \/ \E t \in Text : Found(t) \/ NotFound(t)
  \/ \E a \in Addr : Link(a) \/ Drop(a)
  \/ Grow \/ Collect \/ be_gcstrtab

Spec == Init /\ [][Next]_vars

-----------------------------------------------------------------------------
Frame == [str : Text, size : Nat, bucket : Nat, stale : BOOLEAN,
          step : {"create", "grow"}, result : Addr \cup {NONE}, deinit : BOOLEAN,
          raced : BOOLEAN]

TypeOK ==
  /\ size \in Nat \ {0} /\ count \in Nat
  /\ table \in [0 .. size - 1 -> SUBSET Addr]
  /\ text \in [Addr -> Text \cup {NONE}]
  /\ held \subseteq Addr /\ lost \subseteq Addr /\ dark \subseteq Addr
  /\ collecting \in BOOLEAN
  /\ calls \in Seq(Frame) /\ raced \subseteq Addr /\ swept \subseteq Addr

\* Two strings the program holds are the same object when they say the same:
\* be_eqstr relies on it ("if both strings are in-memory, they can't be equal
\* without having the same pointer", be_string.c:71).  A collection that begins
\* inside newshortstr spoils this for the string of that call only.
UniqueUnlessRaced == \A a, b \in held \ raced : text[a] = text[b] => a = b

\* Every other string is in the bucket a lookup of its text visits, and no string
\* that the table has freed is still in a chain (resize, be_gcstrtab).
Placed ==
  \A i \in 0 .. size - 1 : \A a \in table[i] :
    text[a] # NONE /\ (a \notin raced => Bucket(text[a], size) = i)

\* The counter that decides growth and shrinking counts the strings there are,
\* those included that no chain leads to any more.
CountExact == count = Cardinality(InTable \cup lost)

\* The sweep frees no string that the program holds, nor one that a call has made,
\* whenever it comes (newshortstr, be_gcstrtab), except the string for which the
\* table is just growing.
HeldAlive ==
  /\ \A a \in held \ swept : text[a] # NONE
  /\ \A k \in DOMAIN calls :
       calls[k].step = "grow" /\ calls[k].result \notin swept => text[calls[k].result] = calls[k].str
  /\ swept \subseteq raced

\* Between calls the chains are short on average.
LoadBounded == calls = <<>> => count <= size * MaxLoad

\* All that lookups, the resizing of the table and the holders of strings rely on.
TableExact == Placed /\ CountExact /\ LoadBounded /\ HeldAlive
=============================================================================
