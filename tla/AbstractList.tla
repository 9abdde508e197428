----------------------------- MODULE AbstractList -----------------------------
(***************************************************************************)
(* What lists and vectors promise, whatever arrays hold them: a list is a  *)
(* sequence that negative indices count from its end, an iterator returns  *)
(* what is at the next index, and a vector is a stack of values.           *)
(***************************************************************************)
EXTENDS Integers, SequencesExt

CONSTANT NIL

VARIABLES
  call,   \* the last call, op and its arguments
  list,   \* the list as a sequence
  at,     \* how many elements the iterator has returned
  stack,  \* the vector as a sequence
  ret     \* what the call has returned

\* The index that k means for a sequence s, and whether there is an element.
At(s, k) == IF k < 0 THEN Len(s) + k ELSE k
In(s, k) == At(s, k) \in 0 .. Len(s) - 1

Resized(s, n) ==
  IF n <= Len(s) THEN SubSeq(s, 1, n) ELSE s \o [i \in 1 .. n - Len(s) |-> NIL]

Changed(c, s) ==
  CASE c.op = "push" -> Append(s, c.v)
    [] c.op = "insert" /\ At(s, c.k) \in 0 .. Len(s) -> InsertAt(s, At(s, c.k) + 1, c.v)
    [] c.op \in {"remove", "pop"} /\ In(s, c.k) -> RemoveAt(s, At(s, c.k) + 1)
    [] c.op = "setitem" /\ In(s, c.k) -> [s EXCEPT ![At(s, c.k) + 1] = c.v]
    [] c.op = "resize" -> Resized(s, c.n)
    [] c.op = "reverse" -> Reverse(s)
    [] c.op = "init" -> c.s
    [] c.op = "merge" -> s \o c.s
    [] OTHER -> s

Element(s, k) == IF In(s, k) THEN <<"value", s[At(s, k) + 1]>> ELSE <<"index_error">>

\* The elements from index j to index k, those that there are.
Between(s, j, k) ==
  SubSeq(s, (IF At(s, j) < 0 THEN 0 ELSE At(s, j)) + 1,
            IF At(s, k) < Len(s) THEN At(s, k) + 1 ELSE Len(s))

Picked(s, ks) ==
  [i \in DOMAIN ks |-> IF ks[i] \in 0 .. Len(s) - 1 THEN s[ks[i] + 1] ELSE NIL]

Returned(c, s) ==
  CASE c.op \in {"item", "pop"} -> Element(s, c.k)
    [] c.op = "range" -> <<"list", Between(s, c.j, c.k)>>
    [] c.op = "pick" -> <<"list", Picked(s, c.s)>>
    [] c.op = "find" -> <<"value", IF Contains(s, c.v) THEN SelectInSeq(s, LAMBDA e : e = c.v) - 1
                                   ELSE NIL>>
    [] c.op = "size" -> <<"value", Len(s)>>
    [] c.op = "equal" -> <<"value", s = c.s>>
    [] c.op = "concat" ->
         <<"parts", [i \in 1 .. 2 * Len(s) - 1 |-> IF i % 2 = 1 THEN s[(i + 1) \div 2] ELSE "delimiter"]>>
    [] c.op = "setitem" /\ ~In(s, c.k) -> <<"index_error">>
    [] c.op = "next" -> IF at < Len(s) THEN <<"value", s[at + 1]>> ELSE <<"stop_iteration">>
    [] OTHER -> <<"done">>

\* New lists are not those that an iterator has begun to visit.
Advanced(c) ==
  CASE c.op = "next" -> IF at < Len(list) THEN at + 1 ELSE at
    [] c.op \in {"iter", "init", "merge", "copy"} -> 0
    [] OTHER -> at

Stacked(c, s) ==
  CASE c.op = "vector_push" -> Append(s, c.v)
    [] c.op = "vector_remove_end" -> Front(s)
    [] c.op \in {"vector_resize", "vector_clear"} -> SubSeq(s, 1, c.n)
    [] OTHER -> s

Init == list = <<>> /\ at = 0 /\ stack = <<>> /\ ret = <<"done">>

Next ==
  /\ list' = Changed(call', list)
  /\ at' = Advanced(call')
  /\ stack' = Stacked(call', stack)
  /\ ret' = IF call'.op = "vector_end" THEN <<"value", Last(stack)>> ELSE Returned(call', list)

Spec == Init /\ [][Next]_<<call, list, at, stack, ret>>
=============================================================================
