------------------------------ MODULE BerryList ------------------------------
(***************************************************************************)
(* Lists and vectors (be_list.c, be_vector.c), the methods of the class    *)
(* list (be_listlib.c) and the calls of the host interface they are made   *)
(* of (be_api.c): growing arrays, with cells beyond the count that keep    *)
(* what was there.                                                         *)
(*                                                                         *)
(* Abstractions.  An element is a member of Val or nil; a string that      *)
(* concat makes is the sequence of its parts.  Allocation succeeds.  An    *)
(* iterator is the index its pointer stands for.                           *)
(*                                                                         *)
(* Rare names the events the code does not survive; a model leaves out     *)
(* those that are not in it:                                               *)
(*   "regrown"  resize makes a list longer within its capacity: what the   *)
(*              cells held before comes back                               *)
(*   "before"   setitem with a negative index: the cell written is before  *)
(*              the array                                                  *)
(*   "moved"    an iterator goes on after its list has moved to grow       *)
(***************************************************************************)
EXTENDS Integers, SequencesExt, BerryValues

CONSTANTS
  JUNK,
  Literals,     \* lists that are made of their elements
  MaxIndex,     \* bound of indices and sizes
  MaxCapacity,  \* bound of a list's capacity
  Rare

ASSUME ListAssumption ==
  /\ NIL \notin Val /\ JUNK \notin Val \cup {NIL}
  /\ Literals \subseteq Seq(Val \cup {NIL})
  /\ MaxIndex \in 0 .. 2 ^ 28 /\ MaxCapacity \in 2 .. 2 ^ 28  \* sizes are ints
  /\ \A s \in Literals : Len(s) < 2 ^ 28

VARIABLES
  list,   \* data: the cells up to the capacity; count
  walked, \* how many elements the iterator has returned
  moved,  \* the array has moved since the iterator began
  vec,    \* a vector: data, count, and end, the index of its last element
  call,   \* the last call
  result  \* what it has returned

listVars == <<list, walked, moved, vec, call, result>>

Elements == Val \cup {NIL}
Index == -MaxIndex .. MaxIndex

Items(l) == SubSeq(l.data, 1, l.count)

Junk(n) == [i \in 1 .. n |-> JUNK]

\* The array with room for one more, and for n elements.
Grown(l) ==
  IF l.count < Len(l.data) THEN l
  ELSE [l EXCEPT !.data = @ \o Junk(be_nextsize(Len(@)) - Len(@))]
Reserved(l, n) ==
  IF be_nextsize(n) <= Len(l.data) THEN l
  ELSE [l EXCEPT !.data = @ \o Junk(be_nextsize(n) - Len(@))]

\* The position that an index means; no position is Len(data) or negative.
IndexOf(l, k) == IF k < 0 THEN l.count + k ELSE k
There(l, k) == IndexOf(l, k) \in 0 .. l.count - 1

-----------------------------------------------------------------------------
be_list_new == [data |-> Junk(2), count |-> 0]

be_list_push(l, v) ==
  LET g == Grown(l) IN [g EXCEPT !.data[l.count + 1] = v, !.count = @ + 1]

\* Mutant: an index from the end means the place after the element it names.
be_list_insert_after(l, k, v) ==
  LET g == Grown(l)
      p == IF k < 0 THEN l.count + k + 1 ELSE k
  IN IF p \notin 0 .. l.count THEN l
     ELSE [g EXCEPT !.count = @ + 1,
                    !.data = [i \in DOMAIN @ |-> CASE i = p + 1 -> v
                                                   [] i \in p + 2 .. l.count + 1 -> @[i - 1]
                                                   [] OTHER -> @[i]]]

\* The elements from the index on move up; beyond the end nothing happens.
be_list_insert(l, k, v) ==
  LET g == Grown(l)
      p == IndexOf(l, k)
  IN IF p \notin 0 .. l.count THEN l
     ELSE [g EXCEPT !.count = @ + 1,
                    !.data = [i \in DOMAIN @ |-> CASE i = p + 1 -> v
                                                   [] i \in p + 2 .. l.count + 1 -> @[i - 1]
                                                   [] OTHER -> @[i]]]

\* Those after the index move down; the last cell keeps its value.
be_list_remove(l, k) ==
  IF ~There(l, k) THEN l
  ELSE [l EXCEPT !.count = @ - 1,
                 !.data = [i \in DOMAIN @ |->
                             IF i \in IndexOf(l, k) + 1 .. l.count - 1 THEN @[i + 1] ELSE @[i]]]

\* nil fills the new elements when the array has to grow, and only then.
be_list_resize(l, n) ==
  IF n = l.count THEN l
  ELSE LET g == Reserved(l, n)
       IN [g EXCEPT !.count = n,
                    !.data = IF g = l THEN @
                             ELSE [i \in DOMAIN @ |-> IF i \in l.count + 1 .. n THEN NIL ELSE @[i]]]

be_list_merge(l, s) ==
  LET g == Reserved(l, l.count + Len(s))
  IN IF l.count + Len(s) = 0 THEN l
     ELSE [g EXCEPT !.count = @ + Len(s),
                    !.data = [i \in DOMAIN @ |-> IF i \in l.count + 1 .. l.count + Len(s)
                                                 THEN s[i - l.count] ELSE @[i]]]

be_list_reverse(l) ==
  [l EXCEPT !.data = [i \in DOMAIN @ |-> IF i <= l.count THEN @[l.count + 1 - i] ELSE @[i]]]

-----------------------------------------------------------------------------
\* What the methods that read return.

be_getindex(l, k) ==
  IF There(l, k) THEN <<"value", l.data[IndexOf(l, k) + 1]>> ELSE <<"index_error">>

\* item with a range: both ends are brought into the list, then the elements are
\* pushed one by one to a new list.
item_range(l, j, k) ==
  LET lower == IF IndexOf(l, j) < 0 THEN 0 ELSE IndexOf(l, j)
      upper == IF IndexOf(l, k) < l.count THEN IndexOf(l, k) ELSE l.count - 1
  IN FoldLeft(be_list_push, be_list_new, [i \in 1 .. upper - lower + 1 |-> l.data[lower + i]])

\* item with a list of indices: nil for those that are out of range.
item_list(l, ks) ==
  FoldLeft(be_list_push, be_list_new,
           [i \in DOMAIN ks |-> IF ks[i] \in 0 .. l.count - 1 THEN l.data[ks[i] + 1] ELSE NIL])

m_find(l, v) ==
  LET hits == {i \in 1 .. l.count : l.data[i] = v}
  IN <<"value", IF hits = {} THEN NIL ELSE Min(hits) - 1>>

\* Lists of the same size are compared up to the first difference.
list_equal(l, s) == l.count = Len(s) /\ \A i \in 1 .. l.count : l.data[i] = s[i]

\* The delimiter goes before every part but the first.
list_concat(l) ==
  FoldLeft(LAMBDA parts, x : parts \o (IF parts = <<>> THEN <<x>> ELSE <<"delimiter", x>>),
           <<>>, Items(l))

\* init pushes its arguments to a new list.
m_init(s) == FoldLeft(be_list_push, be_list_new, s)

\* The list + makes has the elements of both operands.
m_merge(l, s) == be_list_merge(be_list_merge(be_list_new, Items(l)), s)

-----------------------------------------------------------------------------
\* A call that may change the array in place.
Change(c, l, r) ==
  /\ Len(l.data) <= MaxCapacity  \* bound
  /\ call' = c /\ result' = r /\ list' = l
  /\ moved' \in IF Len(l.data) > Len(list.data) THEN {moved, TRUE} ELSE {moved}
  /\ UNCHANGED <<walked, vec>>

m_push(v) == Change([op |-> "push", v |-> v], be_list_push(list, v), <<"done">>)

m_insert(k, v) ==
  Change([op |-> "insert", k |-> k, v |-> v], be_list_insert(list, k, v), <<"done">>)

m_remove(k) == Change([op |-> "remove", k |-> k], be_list_remove(list, k), <<"done">>)

\* pop reads the element, which may raise, and then removes it.
m_pop(k) ==
  Change([op |-> "pop", k |-> k],
         IF There(list, k) THEN be_list_remove(list, k) ELSE list, be_getindex(list, k))

\* setitem compares the index with the count only.
m_setitem(k, v) ==
  /\ k >= 0 \/ "before" \in Rare
  /\ Change([op |-> "setitem", k |-> k, v |-> v],
            IF k \in 0 .. list.count - 1 THEN [list EXCEPT !.data[k + 1] = v] ELSE list,
            IF k < list.count THEN <<"done">> ELSE <<"index_error">>)

\* Cells that are not nil become elements again.
Regrows(n) ==
  /\ n > list.count /\ be_nextsize(n) <= Len(list.data)
  /\ \E i \in list.count + 1 .. n : list.data[i] # NIL

\* resize, and clear, which resizes to 0.
m_resize(n) ==
  /\ ~Regrows(n) \/ "regrown" \in Rare
  /\ Change([op |-> "resize", n |-> n], be_list_resize(list, n), <<"done">>)

m_reverse == Change([op |-> "reverse"], be_list_reverse(list), <<"done">>)

\* A call that leaves the list alone.
Reading(c, r) == Change(c, list, r)

Read ==
  \/ \E k \in Index : Reading([op |-> "item", k |-> k], be_getindex(list, k))
  \/ \E j, k \in Index :
       \/ Reading([op |-> "range", j |-> j, k |-> k], <<"list", Items(item_range(list, j, k))>>)
       \/ Reading([op |-> "pick", s |-> <<j, k>>], <<"list", Items(item_list(list, <<j, k>>))>>)
  \/ \E v \in Elements : Reading([op |-> "find", v |-> v], m_find(list, v))
  \/ \E s \in Literals : Reading([op |-> "equal", s |-> s], <<"value", list_equal(list, s)>>)
  \/ Reading([op |-> "size"], <<"value", list.count>>)
  \/ Reading([op |-> "concat"], <<"parts", list_concat(list)>>)

\* The variable gets a new list; an iterator of the old one is not used again.
New(c, l) ==
  /\ Len(l.data) <= MaxCapacity  \* bound
  /\ call' = c /\ result' = <<"done">>
  /\ list' = l /\ walked' = 0 /\ moved' = FALSE
  /\ UNCHANGED vec

Replace ==
  \/ \E s \in Literals : New([op |-> "init", s |-> s], m_init(s))
  \/ \E s \in Literals : New([op |-> "merge", s |-> s], m_merge(list, s))
  \/ New([op |-> "copy"], list)

\* m_iter: a closure with a pointer before the first element.
m_iter ==
  /\ call' = [op |-> "iter"] /\ result' = <<"done">>
  /\ walked' = 0 /\ moved' = FALSE
  /\ UNCHANGED <<list, vec>>

\* The pointer moves to the next element, unless that is the end of the list.
iter_closure ==
  /\ call' = [op |-> "next"]
  /\ ~moved \/ "moved" \in Rare
  /\ IF walked >= list.count
     THEN result' = <<"stop_iteration">> /\ UNCHANGED walked
     ELSE result' = <<"value", IF moved THEN JUNK ELSE list.data[walked + 1]>> /\ walked' = walked + 1
  /\ UNCHANGED <<list, moved, vec>>

-----------------------------------------------------------------------------
Vector(c, v, r) ==
  /\ Len(v.data) <= MaxCapacity  \* bound
  /\ call' = c /\ result' = r
  /\ vec' = v
  /\ UNCHANGED <<list, walked, moved>>

be_vector_init == [data |-> <<NIL, NIL>>, count |-> 0, end |-> -1]

\* be_vector_push_c: one more element, in cells that are cleared when they are
\* new; end follows the count.
be_vector_push_c(v) ==
  LET full == vec.count >= Len(vec.data)
      cap  == be_nextsize(Len(vec.data))
      data == IF full THEN vec.data \o [i \in 1 .. cap - Len(vec.data) |-> NIL] ELSE vec.data
      end  == IF full THEN vec.count ELSE vec.end + 1
  IN Vector([op |-> "vector_push", v |-> v],
            [data |-> [data EXCEPT ![end + 1] = v], count |-> vec.count + 1, end |-> end],
            <<"done">>)

be_vector_remove_end ==
  /\ vec.count > 0
  /\ Vector([op |-> "vector_remove_end"], [vec EXCEPT !.count = @ - 1, !.end = @ - 1], <<"done">>)

\* Another count; the array grows when it has no room for that count, as it may
\* even when the count becomes smaller (after a release).
be_vector_resize(n) ==
  IF n = vec.count THEN vec
  ELSE [data |-> vec.data \o Junk(be_nextsize(n) - Len(vec.data)), count |-> n, end |-> n - 1]

\* Fewer elements (the stacks of the VM when an exception is caught).
vm_state_restore(n) ==
  /\ n <= vec.count
  /\ Vector([op |-> "vector_resize", n |-> n], be_vector_resize(n), <<"done">>)

\* One more, which is set to nil.
global_new_anonymous ==
  LET v == be_vector_resize(vec.count + 1)
  IN Vector([op |-> "vector_push", v |-> NIL], [v EXCEPT !.data = [@ EXCEPT ![v.end + 1] = NIL]],
            <<"done">>)

be_vector_clear ==
  Vector([op |-> "vector_clear", n |-> 0], [vec EXCEPT !.count = 0, !.end = -1], <<"done">>)

\* The array is cut to its elements, none is freed: a later push begins anew.
be_vector_release ==
  Vector([op |-> "vector_release"],
         CASE vec.count = 0 -> [data |-> <<>>, count |-> 0, end |-> -1]
           [] vec.count # 0 -> [vec EXCEPT !.data = SubSeq(@, 1, vec.count), !.end = vec.count - 1],
         <<"done">>)

be_vector_end ==
  /\ vec.count > 0
  /\ Vector([op |-> "vector_end"], vec, <<"value", vec.data[vec.end + 1]>>)

ListInit ==
  /\ list = be_list_new /\ walked = 0 /\ moved = FALSE /\ vec = be_vector_init
  /\ call = [op |-> "init", s |-> <<>>] /\ result = <<"done">>

ListNext ==
  \/ \E v \in Elements : m_push(v)
  \/ \E k \in Index, v \in Elements : m_insert(k, v) \/ m_setitem(k, v)
  \/ \E k \in Index : m_remove(k) \/ m_pop(k)
  \/ \E n \in 0 .. MaxIndex : m_resize(n)
  \/ m_reverse \/ Read \/ Replace \/ m_iter \/ iter_closure

VectorNext ==
  \/ \E v \in Val : be_vector_push_c(v)
  \/ \E n \in 0 .. MaxIndex : vm_state_restore(n)
  \/ global_new_anonymous \/ be_vector_remove_end \/ be_vector_clear \/ be_vector_release \/ be_vector_end

ListSpec == ListInit /\ [][ListNext \/ VectorNext]_listVars

-----------------------------------------------------------------------------
AbstractL == INSTANCE AbstractList WITH
  list <- Items(list), at <- walked, stack <- Items(vec), ret <- result

\* Lists are sequences and vectors stacks: whatever the order in which arrays
\* grow, shrink, keep old cells and are cut, a call changes and returns what its
\* sequence says (be_list.c, be_listlib.c, be_vector.c).
ListImplements == AbstractL!Spec
=============================================================================
