------------------------------ MODULE BerryBytes ------------------------------
(***************************************************************************)
(* The class bytes (be_byteslib.c): a buffer that grows with some headroom *)
(* and shrinks when it is much too large, of a fixed size, or mapped to    *)
(* memory of the host.  A method copies the attributes of the object,      *)
(* works on the copy, which may move the buffer, and writes them back.     *)
(*                                                                         *)
(* Abstractions.  An integer is the sequence of its 4 bytes, lowest first; *)
(* texts in hexadecimal and base64 are sequences of character codes, the   *)
(* first without letters.  A buffer that realloc has resized may have      *)
(* moved.  Formatting with tostring is left out; floats are their bytes.   *)
(*                                                                         *)
(* Rare names the events the code does not survive; a model leaves out     *)
(* those that are not in it:                                               *)
(*   "refused"  add has made room and then refuses its arguments: the      *)
(*              object keeps the address of the old buffer                 *)
(*   "itself"   a growing object is connected with itself: the second      *)
(*              copy of its attributes has the old address                 *)
(*   "before"   set, or get of several bytes, at a negative index          *)
(*   "halfway"  setbits beyond the end, after bytes it has already set     *)
(*   "capped"   more than MaxSize bytes are needed: what does not fit is   *)
(*              left out without an error                                  *)
(***************************************************************************)
EXTENDS Integers, SequencesExt

CONSTANTS
  JUNK,
  DefaultSize,  \* BYTES_DEFAULT_SIZE (28)
  Headroom,     \* BYTES_HEADROOM (8)
  KeepSize,     \* buffers up to this size do not shrink (64)
  MaxSize,      \* BYTES_MAX_SIZE (32768)
  MaxLen,       \* bound: bytes of an object
  MaxCalls,     \* bound: calls of an object's methods
  Ints,         \* the integers that are written
  Contents,     \* the contents objects are made from
  Rare

ASSUME BytesAssumption ==
  /\ DefaultSize \in Nat /\ Headroom \in Nat \ {0} /\ KeepSize \in Nat
  /\ MaxSize \in Nat /\ MaxLen \in Nat /\ MaxLen <= MaxSize
  /\ Ints \subseteq [1 .. 4 -> 0 .. 255] /\ Contents \subseteq Seq(0 .. 255)

VARIABLES
  object,      \* buf: the buffer; len; kind: growing, fixed or mapped
  dangling,    \* the object has the address of a buffer that is gone
  bytesCall,   \* the last call
  bytesResult, \* what it has returned
  bytesCalls   \* how many there have been since the object was made

bytesVars == <<object, dangling, bytesCall, bytesResult, bytesCalls>>

Junk(n) == [i \in 1 .. n |-> JUNK]

-----------------------------------------------------------------------------
(***************************************************************************)
(* A copy of the attributes: as the object, and whether the buffer may     *)
(* have moved since they were read.                                        *)
(***************************************************************************)

m_read_attributes(o) == [buf |-> o.buf, len |-> o.len, kind |-> o.kind, moved |-> FALSE]

\* bytes_realloc: between 4 bytes, unless the size is fixed, and MaxSize.
bytes_realloc(a, n) ==
  LET low  == IF a.kind = "growing" /\ n < 4 THEN 4 ELSE n
      size == IF low > MaxSize THEN MaxSize ELSE low
  IN [a EXCEPT !.moved = TRUE,
               !.buf = IF size <= Len(@) THEN SubSeq(@, 1, size) ELSE @ \o Junk(size - Len(@))]

\* bytes_resize: grow to n, or shrink to it from more than twice as much.
bytes_resize(a, n) ==
  IF \/ a.kind = "mapped"
     \/ Len(a.buf) >= n /\ (Len(a.buf) <= KeepSize \/ Len(a.buf) < 2 * n)
  THEN a ELSE bytes_realloc(a, n)

\* buf_set_len, with zeros in what is new.
buf_set_len(a, n) ==
  LET len == IF n <= Len(a.buf) THEN n ELSE Len(a.buf)
  IN [a EXCEPT !.len = len,
               !.buf = [i \in DOMAIN @ |-> IF i \in a.len + 1 .. len THEN 0 ELSE @[i]]]

\* buf_add1, buf_add2_le, ... buf_add4_be and buf_add_buf: nothing without room.
buf_add(a, s) ==
  IF a.len + Len(s) > Len(a.buf) THEN a
  ELSE [a EXCEPT !.len = @ + Len(s),
                 !.buf = [i \in DOMAIN @ |-> IF i \in a.len + 1 .. a.len + Len(s)
                                             THEN s[i - a.len] ELSE @[i]]]

\* The loops around buf_add1.
buf_add_each(a, s) == FoldLeft(LAMBDA b, x : buf_add(b, <<x>>), a, s)

\* The bytes the size argument of add, set and get selects; others are refused.
Selected(v, n) ==
  CASE n = 0 -> <<>>
    [] n \in {1, -1} -> <<v[1]>>
    [] n = 2 -> <<v[1], v[2]>>
    [] n = -2 -> <<v[2], v[1]>>
    [] n = 4 -> v
    [] n = -4 -> <<v[4], v[3], v[2], v[1]>>
    [] OTHER -> <<>>
Accepted(n) == n \in {-4, -2, -1, 0, 1, 2, 4}
Width(n) == IF n < 0 THEN -n ELSE n

\* buf_set1 ... buf_set4_be compare the end with the length only.
buf_set(a, k, s) ==
  IF k + Len(s) > a.len THEN a
  ELSE [a EXCEPT !.buf = [i \in DOMAIN @ |-> IF i \in k + 1 .. k + Len(s) THEN s[i - k] ELSE @[i]]]

\* Mutant: the comparison forgets the bytes after the first.
buf_get_first(a, k, n) ==
  IF k + 1 > a.len \/ k < 0 THEN <<0, 0, 0, 0>>
  ELSE LET at(i) == IF k + i <= Len(a.buf) THEN a.buf[k + i] ELSE JUNK
       IN CASE Width(n) = 1 -> <<at(1), 0, 0, 0>>
            [] n = 2 -> <<at(1), at(2), 0, 0>>
            [] n = -2 -> <<at(2), at(1), 0, 0>>
            [] n = 4 -> <<at(1), at(2), at(3), at(4)>>
            [] n = -4 -> <<at(4), at(3), at(2), at(1)>>

\* buf_get1 ... buf_get4_be: 0 for what is not inside.
buf_get(a, k, n) ==
  IF k + Width(n) > a.len \/ k < 0 THEN <<0, 0, 0, 0>>
  ELSE LET at(i) == a.buf[k + i]
       IN CASE Width(n) = 1 -> <<at(1), 0, 0, 0>>
            [] n = 2 -> <<at(1), at(2), 0, 0>>
            [] n = -2 -> <<at(2), at(1), 0, 0>>
            [] n = 4 -> <<at(1), at(2), at(3), at(4)>>
            [] n = -4 -> <<at(4), at(3), at(2), at(1)>>

-----------------------------------------------------------------------------
(***************************************************************************)
(* Texts.                                                                  *)
(***************************************************************************)

Digit(d) == IF d < 10 THEN 48 + d ELSE 55 + d

tohex(s) == [i \in 1 .. 2 * Len(s) |->
               IF i % 2 = 1 THEN Digit(s[(i + 1) \div 2] \div 16) ELSE Digit(s[i \div 2] % 16)]

\* asc2byte: 0 for what is no digit.
asc2byte(c) ==
  CASE c \in 48 .. 57 -> c - 48
    [] c \in 65 .. 70 -> c + 10 - 65
    [] c \in 97 .. 102 -> c + 10 - 97
    [] OTHER -> 0

\* buf_add_hex: a byte for every two characters, as long as there is room.
buf_add_hex(a, text) ==
  buf_add_each(a, [i \in 1 .. Len(text) \div 2 |->
                     16 * asc2byte(text[2 * i - 1]) + asc2byte(text[2 * i])])

binary_to_base64(v) ==
  CASE v < 26 -> v + 65
    [] v >= 26 /\ v < 52 -> v + 71
    [] v >= 52 /\ v < 62 -> v - 4
    [] v = 62 -> 43
    [] v = 63 -> 47

base64_to_binary(c) ==
  CASE c \in 65 .. 90 -> c - 65
    [] c \in 97 .. 122 -> c - 71
    [] c \in 48 .. 57 -> c + 4
    [] c = 43 -> 62
    [] c = 47 -> 63
    [] OTHER -> 255

\* encode_base64: four characters for three bytes; "=" fills the last four.
encode_base64(s) ==
  LET byte(i) == IF i <= Len(s) THEN s[i] ELSE 0
      char(j) == LET q == (j - 1) \div 4
                     b(i) == byte(3 * q + i)
                 IN CASE j % 4 = 1 -> b(1) \div 4
                      [] j % 4 = 2 -> (b(1) % 4) * 16 + (b(2) \div 16)
                      [] j % 4 = 3 -> (b(2) % 16) * 4 + (b(3) \div 64)
                      [] j % 4 = 0 -> b(3) % 64
  IN [j \in 1 .. 4 * ((Len(s) + 2) \div 3) |->
        IF j <= (4 * Len(s) + 2) \div 3 THEN binary_to_base64(char(j)) ELSE 61]

\* decode_base64_length: up to the first character that is not of the alphabet.
decode_base64_length(text) ==
  LET end == SelectInSeq(text, LAMBDA c : base64_to_binary(c) >= 64)
      n   == IF end = 0 THEN Len(text) ELSE end - 1
  IN (n \div 4) * 3 + CASE n % 4 = 2 -> 1 [] n % 4 = 3 -> 2 [] OTHER -> 0

decode_base64(text) ==
  LET v(i) == base64_to_binary(text[i])
      byte(j) == LET q == 4 * ((j - 1) \div 3)
                 IN CASE j % 3 = 1 -> v(q + 1) * 4 + (v(q + 2) \div 16)
                      [] j % 3 = 2 -> ((v(q + 2) * 16) % 256) + (v(q + 3) \div 4)
                      [] j % 3 = 0 -> ((v(q + 3) * 64) % 256) + v(q + 4)
  IN [j \in 1 .. decode_base64_length(text) |-> byte(j)]

-----------------------------------------------------------------------------
(***************************************************************************)
(* Fields of bits (the class Bytes at the end of the file).                *)
(***************************************************************************)

\* The blocks of the loop: byte, first bit in it, bits, bits done before.
Blocks(k, n) ==
  LET first == IF 8 - (k % 8) > n THEN n ELSE 8 - (k % 8)
      rest  == (n - first + 7) \div 8
  IN [i \in 1 .. rest + 1 |->
        IF i = 1 THEN [at |-> k \div 8, off |-> k % 8, bits |-> first, done |-> 0]
        ELSE LET done == first + 8 * (i - 2)
             IN [at |-> (k \div 8) + i - 1, off |-> 0, done |-> done,
                 bits |-> IF n - done > 8 THEN 8 ELSE n - done]]

getbits(a, k, n) ==
  LET b == Blocks(k, n)
      field == [i \in DOMAIN b |->
                  ((a.buf[b[i].at + 1] \div 2 ^ b[i].off) % 2 ^ b[i].bits) * 2 ^ b[i].done]
  IN FoldLeft(LAMBDA sum, x : sum + x, 0, field)

\* The bytes of the blocks are set one after the other, those inside at least.
setbits(a, k, n, v) ==
  LET b == Blocks(k, n)
      byte(old, x) ==
        LET low  == old % 2 ^ x.off
            high == (old \div 2 ^ (x.off + x.bits)) * 2 ^ (x.off + x.bits)
        IN high + ((v \div 2 ^ x.done) % 2 ^ x.bits) * 2 ^ x.off + low
  IN [a EXCEPT !.buf = [j \in DOMAIN @ |->
        LET hit == {i \in DOMAIN b : b[i].at = j - 1 /\ b[i].bits > 0}
        IN IF hit = {} \/ j > a.len THEN @[j] ELSE byte(@[j], b[CHOOSE i \in hit : TRUE])]]

-----------------------------------------------------------------------------
(***************************************************************************)
(* The methods.                                                            *)
(***************************************************************************)

\* The calls are counted from one that makes an object on.
Counted(c) ==
  /\ ~(bytesCalls = MaxCalls /\ c.op \notin {"init", "map"})  \* bound
  /\ bytesCalls' = IF c.op \in {"init", "map"} THEN 0 ELSE bytesCalls + 1
  /\ bytesCall' = c

\* The attributes are written back: the object has the address it works with.
m_write_attributes(c, a, r) ==
  /\ a.len <= MaxLen  \* bound
  /\ Counted(c) /\ bytesResult' = r
  /\ object' = [buf |-> a.buf, len |-> a.len, kind |-> a.kind]
  /\ UNCHANGED dangling

\* They are not: if the buffer has moved, the object has lost it.
NotWritten(c, a, r) ==
  /\ a.moved => "refused" \in Rare
  /\ Counted(c) /\ bytesResult' = r
  /\ dangling' = (dangling \/ a.moved)
  /\ UNCHANGED object

Raise(c, a, error) == NotWritten(c, a, <<error>>)
Answer(c, r) == NotWritten(c, m_read_attributes(object), r)

\* What does not fit into MaxSize is lost without a word.
Fits(n) == n <= MaxSize \/ "capped" \in Rare

Fixed(a) == a.kind # "growing"
Self == m_read_attributes(object)

\* m_init with a text in hexadecimal and a size, negative for a fixed one.
Initial(s, n, fixed) ==
  LET kind == IF fixed THEN "fixed" ELSE "growing"
      size == IF fixed THEN n ELSE (IF n = 0 THEN DefaultSize ELSE n) + Headroom
      a    == bytes_realloc([buf |-> <<>>, len |-> 0, kind |-> kind, moved |-> FALSE],
                            IF Len(s) > size THEN Len(s) ELSE size)
      b    == buf_add_hex(a, tohex(s))
  IN IF fixed THEN buf_set_len(b, Len(b.buf)) ELSE b

m_init(s, n, fixed) ==
  /\ (fixed => n > 0 /\ Len(s) <= n) /\ Fits(Len(s))
  /\ m_write_attributes([op |-> "init", s |-> s, n |-> n, fixed |-> fixed],
                        Initial(s, n, fixed), <<"done">>)

\* m_init with the address of memory of the host, and m_change_buffer.
Map(s) ==
  m_write_attributes([op |-> "map", s |-> s],
                     [buf |-> s, len |-> Len(s), kind |-> "mapped", moved |-> FALSE], <<"done">>)

m_change_buffer(s) ==
  /\ object.kind = "mapped" /\ Len(s) = object.len
  /\ Map(s)

\* Mutant: the attributes are written back before the buffer grows.
m_add_unwritten(v, n) ==
  LET c == [op |-> "add", v |-> v, n |-> n]
      a == IF Self.len + 4 > Len(Self.buf) THEN bytes_resize(Self, Self.len + 4) ELSE Self
  IN CASE Fixed(Self) -> Raise(c, Self, "attribute_error")
       [] ~Fixed(Self) /\ ~Accepted(n) -> Raise(c, a, "type_error")
       [] OTHER -> /\ m_write_attributes(c, buf_add(Self, Selected(v, n)), <<"done">>)

\* m_add makes room for 4 bytes first, whatever it adds.
m_add(v, n) ==
  LET c == [op |-> "add", v |-> v, n |-> n]
      a == IF Self.len + 4 > Len(Self.buf) THEN bytes_resize(Self, Self.len + 4) ELSE Self
  IN CASE Fixed(Self) -> Raise(c, Self, "attribute_error")
       [] ~Fixed(Self) /\ ~Accepted(n) -> Raise(c, a, "type_error")
       [] OTHER -> Fits(Self.len + 4) /\ m_write_attributes(c, buf_add(a, Selected(v, n)), <<"done">>)

\* m_getu and m_geti: 1 and 2 bytes are extended with their sign or with 0.
m_get(k, n, signed) ==
  LET c == [op |-> "get", k |-> k, n |-> n, signed |-> signed]
      v == buf_get(Self, k, n)
      w == Width(n)
  IN /\ k >= 0 \/ w = 1 \/ "before" \in Rare
     /\ CASE ~Accepted(n) -> Raise(c, Self, "type_error")
          [] n = 0 -> Answer(c, <<"nil">>)
          [] OTHER -> Answer(c, <<"int", IF signed /\ w < 4 /\ v[w] >= 128
                                         THEN SubSeq(v, 1, w) \o [i \in 1 .. 4 - w |-> 255] ELSE v>>)

m_set(k, v, n) ==
  LET c == [op |-> "set", k |-> k, v |-> v, n |-> n]
  IN /\ k >= 0 \/ "before" \in Rare
     /\ IF Accepted(n) THEN m_write_attributes(c, buf_set(Self, k, Selected(v, n)), <<"done">>)
        ELSE Raise(c, Self, "type_error")

m_setitem(k, v) ==
  LET c == [op |-> "setitem", k |-> k, v |-> v]
  IN IF k \in 0 .. object.len - 1
     THEN m_write_attributes(c, buf_set(Self, k, <<v[1]>>), <<"done">>)
     ELSE Raise(c, Self, "index_error")

m_item(k) ==
  LET i == IF k < 0 THEN k + object.len ELSE k
      c == [op |-> "item", k |-> k]
  IN IF i \in 0 .. object.len - 1 THEN Answer(c, <<"byte", object.buf[i + 1]>>)
     ELSE Raise(c, Self, "index_error")

\* The new object has room for one byte less than the range, and the headroom.
Ranged(j, k) ==
  LET upper == IF k < 0 THEN k + object.len ELSE k
      lower == IF j < 0 THEN j + object.len ELSE j
      last  == IF upper < object.len THEN upper ELSE object.len - 1
      first == IF lower < 0 THEN 0 ELSE lower
  IN buf_add_each(Initial(<<>>, IF last > first THEN last - first ELSE 0, FALSE),
                  SubSeq(object.buf, first + 1, last + 1))

Data(a) == SubSeq(a.buf, 1, a.len)

m_range(j, k) ==
  Answer([op |-> "range", j |-> j, k |-> k], <<"bytes", Data(Ranged(j, k))>>)

m_resize(n) ==
  LET c == [op |-> "resize", n |-> n]
  IN IF Fixed(Self) /\ n # object.len THEN Raise(c, Self, "attribute_error")
     ELSE Fits(n) /\ m_write_attributes(c, buf_set_len(bytes_resize(Self, n), n), <<"done">>)

m_clear ==
  IF Fixed(Self) THEN Raise([op |-> "clear"], Self, "attribute_error")
  ELSE m_write_attributes([op |-> "clear"], [Self EXCEPT !.len = 0], <<"done">>)

\* m_connect with a byte, with bytes, or with the object itself, whose attributes
\* it has read before it makes room.
m_connect(s, self) ==
  LET c     == [op |-> "connect", s |-> s, self |-> self]
      other == IF self THEN Data(object) ELSE s
      a     == bytes_resize(Self, Self.len + Len(other))
      lost  == self /\ a.moved
  IN IF Fixed(Self) THEN Raise(c, Self, "attribute_error")
     ELSE /\ Fits(Self.len + Len(other))
          /\ lost => "itself" \in Rare
          /\ m_write_attributes(c, buf_add(a, IF lost THEN Junk(Len(other)) ELSE other), <<"done">>)

\* m_merge and m_copy make a new object and add the contents to it.
m_merge(s) ==
  /\ Fits(object.len + Len(s) + Headroom)
  /\ m_write_attributes([op |-> "merge", s |-> s],
       buf_add(buf_add(Initial(<<>>, object.len + Len(s), FALSE), Data(object)), s), <<"done">>)

m_copy ==
  m_write_attributes([op |-> "copy"], buf_add(Initial(<<>>, object.len, FALSE), Data(object)),
                     <<"done">>)

\* m_fromstring, m_fromhex and m_fromb64 replace the contents.
Replace(c, n, fill(_)) ==
  IF Fixed(Self) /\ object.len # n THEN Raise(c, Self, "attribute_error")
  ELSE Fits(n) /\ m_write_attributes(c, fill(bytes_resize(Self, n)), <<"done">>)

m_fromstring(s) ==
  Replace([op |-> "fromstring", s |-> s], Len(s),
          LAMBDA a : buf_add([a EXCEPT !.len = 0], s))

m_fromhex(s) ==
  Replace([op |-> "fromhex", s |-> s], Len(tohex(s)) \div 2,
          LAMBDA a : buf_add_hex([a EXCEPT !.len = 0], tohex(s)))

m_fromb64(s) ==
  Replace([op |-> "fromb64", s |-> s], decode_base64_length(encode_base64(s)),
          LAMBDA a : buf_add([a EXCEPT !.len = 0], decode_base64(encode_base64(s))))

\* Their texts, as they are read back; asstring; size; ==.
Texts ==
  \/ Answer([op |-> "tohex"],
            <<"bytes", Data(buf_add_hex(Initial(<<>>, object.len, FALSE), tohex(Data(object))))>>)
  \/ Answer([op |-> "tob64"], <<"bytes", decode_base64(encode_base64(Data(object)))>>)
  \/ Answer([op |-> "size"], <<"number", object.len>>)
  \/ \E s \in Contents : Answer([op |-> "equal", s |-> s], <<"bool", Data(object) = s>>)

m_getbits(k, n) ==
  LET c == [op |-> "getbits", k |-> k, n |-> n]
  IN CASE n <= 0 -> Raise(c, Self, "value_error")
       [] n > 0 /\ k + n > 8 * object.len -> Raise(c, Self, "index_error")
       [] OTHER -> Answer(c, <<"number", getbits(Self, k, n)>>)

m_setbits(k, n, v) ==
  LET c == [op |-> "setbits", k |-> k, n |-> n, v |-> v]
  IN IF n = 0 \/ k + n <= 8 * object.len
     THEN m_write_attributes(c, setbits(Self, k, n, v), <<"done">>)
     ELSE /\ "halfway" \in Rare \/ k >= 8 * object.len
          /\ m_write_attributes(c, setbits(Self, k, n, v), <<"index_error">>)

BytesInit ==
  /\ object = [buf |-> Junk(DefaultSize + Headroom), len |-> 0, kind |-> "growing"]
  /\ dangling = FALSE
  /\ bytesCall = [op |-> "init", s |-> <<>>, n |-> 0, fixed |-> FALSE] /\ bytesResult = <<"done">>
  /\ bytesCalls = 0

Offsets == -1 .. MaxLen

BytesNext ==
  \/ \E s \in Contents, n \in 0 .. MaxLen, fixed \in BOOLEAN : m_init(s, n, fixed)
  \/ \E s \in Contents : Map(s) \/ m_change_buffer(s) \/ m_merge(s)
  \/ \E v \in Ints, n \in -4 .. 4 : m_add(v, n)
  \/ \E v \in Ints, n \in -4 .. 4, k \in Offsets : m_set(k, v, n)
  \/ \E n \in -4 .. 4, k \in Offsets, signed \in BOOLEAN : m_get(k, n, signed)
  \/ \E k \in Offsets, v \in Ints : m_setitem(k, v)
  \/ \E k \in Offsets : m_item(k)
  \/ \E j, k \in Offsets : m_range(j, k)
  \/ \E n \in 0 .. MaxLen : m_resize(n)
  \/ m_clear \/ m_copy
  \/ \E s \in Contents, self \in BOOLEAN : m_connect(s, self)
  \/ \E s \in Contents : m_fromstring(s) \/ m_fromhex(s) \/ m_fromb64(s)
  \/ Texts
  \/ \E k \in {0, 3, 8, 13}, n \in {0, 1, 4, 9, 14} : m_getbits(k, n) \/ m_setbits(k, n, 10923)

BytesSpec == BytesInit /\ [][BytesNext]_bytesVars

-----------------------------------------------------------------------------
AbstractB == INSTANCE AbstractBytes WITH
  call <- bytesCall, bytes <- Data(object), fixed <- object.kind # "growing", ret <- bytesResult

\* A bytes object is a sequence of bytes: growing, shrinking, headroom, fixed and
\* mapped buffers, byte order, sign, fields of bits and the texts it is read from
\* and written to do not show, and an object never keeps the address of a buffer
\* that is gone (be_byteslib.c).
BytesImplement == AbstractB!Spec /\ [](~dangling)
=============================================================================
