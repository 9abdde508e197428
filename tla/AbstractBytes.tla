---------------------------- MODULE AbstractBytes ----------------------------
(***************************************************************************)
(* What bytes objects promise, whatever buffers hold them: a sequence of   *)
(* bytes, read and written as integers of 1, 2 or 4 bytes of either order  *)
(* and as fields of bits; some objects have a fixed length.                *)
(*                                                                         *)
(* An integer is the sequence of its 4 bytes, lowest first.                *)
(***************************************************************************)
EXTENDS Integers, SequencesExt

VARIABLES
  call,   \* the last call, op and its arguments
  bytes,  \* the contents
  fixed,  \* the length is fixed
  ret     \* what the call has returned

Zero(n) == [i \in 1 .. n |-> 0]

\* The n lowest bytes of an integer, from the lowest or from the highest on.
Encoded(v, n) == IF n >= 0 THEN SubSeq(v, 1, n) ELSE Reverse(SubSeq(v, 1, -n))

\* The integer whose lowest bytes are s, with its sign or without.
Decoded(s, signed) ==
  s \o [i \in 1 .. 4 - Len(s) |-> IF signed /\ Last(s) >= 128 THEN 255 ELSE 0]

Width(n) == IF n < 0 THEN -n ELSE n
Widths == {-4, -2, -1, 0, 1, 2, 4}
Inside(s, k, n) == k >= 0 /\ k + Width(n) <= Len(s)

Part(s, k, n) ==
  LET part == SubSeq(s, k + 1, k + Width(n)) IN IF n >= 0 THEN part ELSE Reverse(part)

Overwritten(s, k, t) ==
  [i \in DOMAIN s |-> IF i \in k + 1 .. k + Len(t) THEN t[i - k] ELSE s[i]]

\* Bit i of the sequence, from the lowest bit of its first byte on.
BitOf(s, i) == (s[i \div 8 + 1] \div 2 ^ (i % 8)) % 2
Number(bit, n) == FoldLeft(LAMBDA sum, x : sum + x, 0, [i \in 1 .. n |-> bit[i] * 2 ^ (i - 1)])

BitsSet(s, k, n, v) ==
  [j \in DOMAIN s |->
     Number([i \in 1 .. 8 |-> LET b == 8 * (j - 1) + i - 1
                              IN IF b \in k .. k + n - 1 THEN (v \div 2 ^ (b - k)) % 2 ELSE BitOf(s, b)], 8)]

At(s, k) == IF k < 0 THEN Len(s) + k ELSE k
Between(s, j, k) ==
  SubSeq(s, (IF At(s, j) < 0 THEN 0 ELSE At(s, j)) + 1,
            IF At(s, k) < Len(s) THEN At(s, k) + 1 ELSE Len(s))

Resized(s, n) == IF n <= Len(s) THEN SubSeq(s, 1, n) ELSE s \o Zero(n - Len(s))

\* Calls that would change the length of an object of fixed length.
Refused(c, s) ==
  \/ fixed /\ c.op \in {"add", "connect", "clear"}
  \/ fixed /\ c.op \in {"resize"} /\ c.n # Len(s)
  \/ fixed /\ c.op \in {"fromhex", "fromb64", "fromstring"} /\ Len(c.s) # Len(s)

Changed(c, s) ==
  CASE Refused(c, s) -> s
    [] c.op = "init" -> c.s \o IF c.fixed THEN Zero(c.n - Len(c.s)) ELSE <<>>
    [] c.op = "map" -> c.s
    [] c.op = "add" /\ c.n \in Widths /\ ~Refused(c, s) -> s \o Encoded(c.v, c.n)
    [] c.op = "set" /\ c.n \in Widths /\ Inside(s, c.k, c.n) -> Overwritten(s, c.k, Encoded(c.v, c.n))
    [] c.op = "setitem" /\ Inside(s, c.k, 1) -> [s EXCEPT ![c.k + 1] = c.v[1]]
    [] c.op = "setbits" /\ c.k + c.n <= 8 * Len(s) -> BitsSet(s, c.k, c.n, c.v)
    [] c.op = "resize" /\ ~Refused(c, s) -> Resized(s, c.n)
    [] c.op = "clear" /\ ~Refused(c, s) -> <<>>
    [] c.op = "connect" /\ ~Refused(c, s) -> s \o IF c.self THEN s ELSE c.s
    [] c.op = "merge" -> s \o c.s
    [] c.op \in {"fromhex", "fromb64", "fromstring"} /\ ~Refused(c, s) -> c.s
    [] OTHER -> s

Returned(c, s) ==
  CASE Refused(c, s) -> <<"attribute_error">>
    [] c.op \in {"add", "set", "get"} /\ c.n \notin Widths /\ ~Refused(c, s) -> <<"type_error">>
    [] c.op = "get" /\ c.n \in Widths ->
         IF c.n = 0 THEN <<"nil">>
         ELSE IF Inside(s, c.k, c.n)
              THEN <<"int", Decoded(Part(s, c.k, c.n), c.signed /\ Width(c.n) < 4)>>
              ELSE <<"int", Zero(4)>>
    [] c.op = "item" ->
         IF At(s, c.k) \in 0 .. Len(s) - 1 THEN <<"byte", s[At(s, c.k) + 1]>> ELSE <<"index_error">>
    [] c.op = "setitem" /\ ~Inside(s, c.k, 1) -> <<"index_error">>
    [] c.op = "range" -> <<"bytes", Between(s, c.j, c.k)>>
    [] c.op = "getbits" /\ c.n > 0 ->
         IF c.k + c.n <= 8 * Len(s)
         THEN <<"number", Number([i \in 1 .. c.n |-> BitOf(s, c.k + i - 1)], c.n)>>
         ELSE <<"index_error">>
    [] c.op = "getbits" /\ c.n <= 0 -> <<"value_error">>
    [] c.op = "setbits" /\ c.n > 0 /\ c.k + c.n > 8 * Len(s) -> <<"index_error">>
    [] c.op = "size" -> <<"number", Len(s)>>
    [] c.op = "equal" -> <<"bool", s = c.s>>
    [] c.op \in {"tohex", "tob64"} -> <<"bytes", s>>
    [] OTHER -> <<"done">>

Init == bytes = <<>> /\ fixed = FALSE /\ ret = <<"done">>

Next ==
  /\ bytes' = Changed(call', bytes)
  /\ fixed' = CASE call'.op = "init" -> call'.fixed
                [] call'.op = "map" -> TRUE
                [] call'.op \in {"merge", "copy"} -> FALSE
                [] OTHER -> fixed
  /\ ret' = Returned(call', bytes)

Spec == Init /\ [][Next]_<<call, bytes, fixed, ret>>
=============================================================================
