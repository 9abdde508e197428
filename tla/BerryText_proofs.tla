-------------------------- MODULE BerryText_proofs --------------------------
(***************************************************************************)
(* Proofs about the string table, for any texts and hash, any finite       *)
(* number of string objects and any thresholds of growth; and that bytes   *)
(* objects implement sequences of bytes, for any contents, integers and    *)
(* sizes of buffers.                                                       *)
(***************************************************************************)
EXTENDS BerryStrtab, BerryBytes, FiniteSetTheorems, SequenceTheorems, WellFoundedInduction, TLAPS

----------------------------------------------------------------------------
(* The inductive invariant. *)

\* What a call remembers is still so.
Fresh(c) == ~c.stale /\ c.size = size /\ c.bucket = Bucket(c.str, size)

\* At most one call waits for a collection, and one of a deinit method inside
\* it; no collection ends under the latter.
Stack ==
  /\ Len(calls) <= 2
  /\ Len(calls) = 2 => calls[1].deinit /\ ~calls[2].deinit /\ calls[2].step = "create"
  /\ \A k \in DOMAIN calls :
       /\ calls[k].size > 0
       /\ calls[k].deinit => collecting /\ ~calls[k].raced /\ Fresh(calls[k])
       /\ collecting /\ ~calls[k].deinit => calls[k].raced

\* Marks and memory: what the program holds is marked while a collection runs,
\* and nothing that a chain or the program holds has been freed, but what was
\* swept.
Kept ==
  /\ collecting => held \ swept \subseteq dark /\ dark \subseteq held
  /\ swept \subseteq raced
  /\ \A a \in InTable \cup lost \cup (held \ swept) : text[a] # NONE
  /\ \A k \in DOMAIN calls :
       calls[k].step = "grow" =>
         /\ calls[k].result \in Addr
         /\ calls[k].raced => calls[k].result \in raced
         /\ ~calls[k].raced => calls[k].result \in InTable
         /\ calls[k].result \in swept \/ text[calls[k].result] = calls[k].str

\* The strings that a sweep would leave, were it to run now.
Settled == IF collecting THEN count - Cardinality(InTable \ dark) ELSE count

\* The table is as long as its strings need, or the call that waits makes it so.
Load ==
  /\ Cardinality(InTable) <= count
  /\ calls = <<>> => count <= size * MaxLoad
  /\ \A k \in DOMAIN calls :
       /\ calls[k].step = "create" /\ ~calls[k].deinit =>
            /\ Settled <= calls[k].size * MaxLoad
            /\ size >= calls[k].size \/ Settled + 1 <= size * MaxLoad
       /\ Len(calls) = 1 /\ calls[k].step = "create" /\ calls[k].deinit =>
            count <= calls[k].size * MaxLoad
       /\ Len(calls) = 1 /\ calls[k].step = "grow" => count <= 2 * calls[k].size * MaxLoad

\* The strings no collection has come between are in the chains, each text once,
\* and each in its bucket.
Exact ==
  /\ lost \subseteq raced /\ lost \cap InTable = {}
  /\ count = Cardinality(InTable \cup lost)
  /\ held \ raced \subseteq InTable
  /\ \A a, b \in InTable \ raced : text[a] = text[b] => a = b
  /\ \A i \in 0 .. size - 1 : \A a \in table[i] \ raced : Bucket(text[a], size) = i
  /\ \A k \in DOMAIN calls :
       ~calls[k].raced =>
         /\ Fresh(calls[k])
         /\ collecting => calls[k].deinit
         /\ calls[k].step = "create" => \A a \in InTable \ raced : text[a] # calls[k].str

IInv == TypeOK /\ Stack /\ Kept /\ Load /\ Exact

----------------------------------------------------------------------------
(* Lemmas about buckets, chains and the stack of calls. *)

LEMMA BucketInRange ==
  ASSUME NEW t \in Text, NEW n \in Nat \ {0}
  PROVE  Bucket(t, n) \in 0 .. n - 1
  <1>1. Hash[t] \in Nat
    BY StrtabAssumption
  <1> QED
    BY <1>1 DEF Bucket

\* What the chains hold are strings, a finite number of them.
LEMMA ChainsHoldStrings ==
  ASSUME TypeOK
  PROVE  /\ InTable \subseteq Addr
         /\ IsFiniteSet(InTable)
         /\ Cardinality(InTable) \in Nat
         /\ \A i \in 0 .. size - 1 : table[i] \subseteq InTable
  <1>1. InTable \subseteq Addr /\ \A i \in 0 .. size - 1 : table[i] \subseteq InTable
    BY DEF TypeOK, InTable
  <1>2. IsFiniteSet(InTable)
    BY <1>1, StrtabAssumption, FS_Subset
  <1> QED
    BY <1>1, <1>2, FS_CardinalityType

\* Moving every string to its bucket loses none and puts each in its bucket.
LEMMA RehashedProperties ==
  ASSUME TypeOK, Kept, NEW n \in Nat \ {0}
  PROVE  /\ Rehashed(n) \in [0 .. n - 1 -> SUBSET Addr]
         /\ UNION {Rehashed(n)[i] : i \in 0 .. n - 1} = InTable
         /\ \A i \in 0 .. n - 1 : \A a \in Rehashed(n)[i] :
              a \in InTable /\ Bucket(text[a], n) = i
  <1>1. InTable \subseteq Addr
    BY ChainsHoldStrings
  <1>2. \A i \in 0 .. n - 1 : Rehashed(n)[i] = {a \in InTable : Bucket(text[a], n) = i}
    BY DEF Rehashed
  <1>3. Rehashed(n) \in [0 .. n - 1 -> SUBSET Addr]
    BY <1>1 DEF Rehashed
  <1>4. ASSUME NEW a \in InTable
        PROVE  Bucket(text[a], n) \in 0 .. n - 1 /\ a \in Rehashed(n)[Bucket(text[a], n)]
    <2>1. text[a] \in Text
      BY <1>1 DEF TypeOK, Kept
    <2>2. Bucket(text[a], n) \in 0 .. n - 1
      BY <2>1, BucketInRange
    <2> QED
      BY <1>2, <2>2
  <1>5. UNION {Rehashed(n)[i] : i \in 0 .. n - 1} = InTable
    BY <1>2, <1>4
  <1> QED
    BY <1>2, <1>3, <1>5

LEMMA Monotonic ==
  ASSUME NEW i \in Nat, NEW j \in Nat, NEW k \in Nat, i <= j
  PROVE  i * k <= j * k
  OBVIOUS

\* A call on top of the others.
LEMMA PushProperties ==
  ASSUME NEW s \in Seq(Frame), NEW c \in Frame
  PROVE  /\ <<c>> \o s \in Seq(Frame)
         /\ Len(<<c>> \o s) = Len(s) + 1
         /\ (<<c>> \o s)[1] = c
         /\ \A k \in 1 .. Len(s) : (<<c>> \o s)[k + 1] = s[k]
         /\ <<c>> \o s # <<>>
  <1>1. /\ <<c>> \o s \in Seq(Frame)
        /\ Len(s) \in Nat
        /\ Len(<<c>> \o s) = Len(s) + 1
        /\ \A k \in 1 .. Len(s) + 1 : (<<c>> \o s)[k] = IF k = 1 THEN c ELSE s[k - 1]
    OBVIOUS
  <1> QED
    BY <1>1

\* The top of a stack of at most two.
LEMMA TopProperties ==
  ASSUME TypeOK, Stack, calls # <<>>
  PROVE  /\ Len(calls) \in {1, 2}
         /\ DOMAIN calls = 1 .. Len(calls)
         /\ Head(calls) = calls[1]
         /\ calls[1] \in Frame
         /\ 1 \in DOMAIN calls
         /\ Tail(calls) \in Seq(Frame)
         /\ Len(Tail(calls)) = Len(calls) - 1
         /\ Len(calls) = 2 => Tail(calls)[1] = calls[2] /\ calls[2] \in Frame
         /\ Len(calls) = 1 => Tail(calls) = <<>>
  <1>1. calls \in Seq(Frame) /\ Len(calls) <= 2 /\ calls # <<>>
    BY DEF TypeOK, Stack
  <1>2. Len(calls) \in {1, 2} /\ DOMAIN calls = 1 .. Len(calls)
    <2>1. Len(calls) \in Nat \ {0}
      BY <1>1, EmptySeq
    <2>2. DOMAIN calls = 1 .. Len(calls)
      BY <1>1
    <2> QED
      BY <1>1, <2>1, <2>2
  <1>3. /\ Head(calls) = calls[1]
        /\ calls[1] \in Frame
        /\ Tail(calls) \in Seq(Frame)
        /\ Len(Tail(calls)) = Len(calls) - 1
        /\ \A k \in 1 .. Len(calls) - 1 : Tail(calls)[k] = calls[k + 1]
    BY <1>1, HeadTailProperties
  <1>4. Len(calls) = 1 => Tail(calls) = <<>>
    <2>1. Tail(calls) # <<>> => Len(Tail(calls)) \in Nat \ {0}
      BY <1>3, EmptySeq
    <2> QED
      BY <1>3, <2>1
  <1>5. Len(calls) = 2 => Tail(calls)[1] = calls[2] /\ calls[2] \in Frame
    BY <1>1, <1>2, <1>3
  <1> QED
    BY <1>2, <1>3, <1>4, <1>5

----------------------------------------------------------------------------
(* Steps of the program outside of newshortstr's allocation. *)

LEMMA FoundKeepsIInv ==
  ASSUME IInv, NEW t \in Text, Found(t)
  PROVE  IInv'
  <1>1. /\ TypeOK /\ Stack /\ Kept /\ Load /\ Exact
        /\ ~collecting
        /\ UNCHANGED <<size, count, table, text, lost, collecting, dark, calls, raced, swept>>
    BY DEF IInv, Found
  <1>2. PICK a \in table[Bucket(t, size)] : held' = held \cup {a}
    BY DEF Found
  <1>3. Bucket(t, size) \in 0 .. size - 1
    BY <1>1, BucketInRange DEF TypeOK
  <1>4. a \in InTable /\ a \in Addr
    BY <1>1, <1>3, ChainsHoldStrings
  <1>5. InTable' = InTable
    BY <1>1 DEF InTable
  <1>6. TypeOK'
    BY <1>1, <1>2, <1>4 DEF TypeOK
  <1>7. Stack'
    BY <1>1 DEF Stack, Fresh
  <1>8. Kept'
    BY <1>1, <1>2, <1>4, <1>5 DEF Kept
  <1>9. Load'
    BY <1>1, <1>5 DEF Load, Settled
  <1>10. Exact'
    BY <1>1, <1>2, <1>4, <1>5 DEF Exact, Fresh
  <1> QED
    BY <1>6, <1>7, <1>8, <1>9, <1>10 DEF IInv

LEMMA DropKeepsIInv ==
  ASSUME IInv, NEW a \in Addr, Drop(a)
  PROVE  IInv'
  <1>1. /\ TypeOK /\ Stack /\ Kept /\ Load /\ Exact
        /\ ~collecting
        /\ held' = held \ {a}
        /\ UNCHANGED <<size, count, table, text, lost, collecting, dark, calls, raced, swept>>
    BY DEF IInv, Drop
  <1>2. InTable' = InTable
    BY <1>1 DEF InTable
  <1>3. TypeOK'
    BY <1>1 DEF TypeOK
  <1>4. Stack'
    BY <1>1 DEF Stack, Fresh
  <1>5. Kept'
    BY <1>1, <1>2 DEF Kept
  <1>6. Load'
    BY <1>1, <1>2 DEF Load, Settled
  <1>7. Exact'
    BY <1>1, <1>2 DEF Exact, Fresh
  <1> QED
    BY <1>3, <1>4, <1>5, <1>6, <1>7 DEF IInv

\* A collection marks what the program holds.  The calls it comes into know of it.
LEMMA CollectKeepsIInv ==
  ASSUME IInv, Collect
  PROVE  IInv'
  <1>1. /\ TypeOK /\ Stack /\ Kept /\ Load /\ Exact
        /\ ~collecting /\ collecting' = TRUE /\ dark' = held
        /\ calls' = Calls_raced
        /\ raced' = raced \cup Linked
        /\ UNCHANGED <<size, count, table, text, held, lost, swept>>
    BY DEF IInv, Collect
  <1>2. InTable' = InTable
    BY <1>1 DEF InTable
  <1>3. Len(calls) # 2 /\ \A k \in DOMAIN calls : ~calls[k].deinit
    <2>1. \A k \in DOMAIN calls : ~calls[k].deinit
      BY <1>1 DEF Stack
    <2>2. Len(calls) = 2 => 1 \in DOMAIN calls /\ calls # <<>>
      BY <1>1 DEF TypeOK
    <2> QED
      BY <1>1, <2>1, <2>2 DEF Stack
  <1>4. \A k \in DOMAIN calls : k = 1 /\ calls # <<>>
    <2>1. Len(calls) <= 2 /\ Len(calls) \in Nat /\ DOMAIN calls = 1 .. Len(calls)
      BY <1>1 DEF TypeOK, Stack
    <2> QED
      BY <1>1, <1>3, <2>1 DEF TypeOK
  <1>5. /\ calls' \in Seq(Frame) /\ DOMAIN calls' = DOMAIN calls /\ Len(calls') = Len(calls)
        /\ calls' = <<>> <=> calls = <<>>
        /\ \A k \in DOMAIN calls :
             /\ calls[k] \in Frame
             /\ calls'[k].size = calls[k].size /\ calls'[k].step = calls[k].step
             /\ calls'[k].deinit = calls[k].deinit /\ calls'[k].result = calls[k].result
             /\ calls'[k].str = calls[k].str /\ calls'[k].raced
    <2>1. calls \in Seq(Frame)
      BY <1>1 DEF TypeOK
    <2>2. calls' = [k \in DOMAIN calls |-> [calls[k] EXCEPT !.raced = TRUE]]
      BY <1>1 DEF Calls_raced
    <2>3. ASSUME NEW k \in DOMAIN calls
          PROVE  /\ calls[k] \in Frame /\ calls'[k] \in Frame
                 /\ calls'[k].size = calls[k].size /\ calls'[k].step = calls[k].step
                 /\ calls'[k].deinit = calls[k].deinit /\ calls'[k].result = calls[k].result
                 /\ calls'[k].str = calls[k].str /\ calls'[k].raced
      <3>1. calls[k] \in Frame /\ calls'[k] = [calls[k] EXCEPT !.raced = TRUE]
        BY <2>1, <2>2
      <3> QED
        BY <3>1 DEF Frame
    <2>4. DOMAIN calls = 1 .. Len(calls) /\ Len(calls) \in Nat /\ DOMAIN calls' = DOMAIN calls
      BY <2>1, <2>2
    <2>5. calls' \in Seq(Frame) /\ Len(calls') = Len(calls)
      BY <2>2, <2>3, <2>4
    <2>6. calls' = <<>> <=> calls = <<>>
      BY <2>1, <2>5, EmptySeq
    <2> QED
      BY <2>3, <2>4, <2>5, <2>6
  <1>6. Linked \subseteq Addr /\ \A k \in DOMAIN calls : calls[k].step = "grow" => calls[k].result \in Linked
    BY <1>1 DEF Linked, Kept
  <1>7. TypeOK'
    BY <1>1, <1>5, <1>6 DEF TypeOK
  <1>8. Stack'
    BY <1>1, <1>3, <1>4, <1>5 DEF Stack, Fresh
  <1>9. Kept'
    <2>1. swept' \subseteq raced' /\ held' \ swept' \subseteq dark' /\ dark' \subseteq held'
      BY <1>1 DEF Kept
    <2>2. \A a \in InTable' \cup lost' \cup (held' \ swept') : text'[a] # NONE
      BY <1>1, <1>2 DEF Kept
    <2>3. ASSUME NEW k \in DOMAIN calls', calls'[k].step = "grow"
          PROVE  /\ calls'[k].result \in Addr
                 /\ calls'[k].raced /\ calls'[k].result \in raced'
                 /\ calls'[k].result \in swept' \/ text'[calls'[k].result] = calls'[k].str
      BY <1>1, <1>5, <1>6, <2>3 DEF Kept
    <2> QED
      BY <2>1, <2>2, <2>3 DEF Kept
  <1>10. Load'
    <2>1. Settled = count
      BY <1>1 DEF Settled
    <2>2. Settled' <= count /\ Settled' \in Int /\ count \in Nat
      <3>1. IsFiniteSet(InTable \ held)
        BY <1>1, ChainsHoldStrings, FS_Subset
      <3>2. Cardinality(InTable \ held) \in Nat
        BY <3>1, FS_CardinalityType
      <3>3. Settled' = count - Cardinality(InTable \ held)
        BY <1>1, <1>2 DEF Settled
      <3> QED
        BY <1>1, <3>2, <3>3 DEF TypeOK
    <2>3. size * MaxLoad \in Nat
      BY <1>1, StrtabAssumption DEF TypeOK
    <2>4. ASSUME NEW k \in DOMAIN calls PROVE calls[k].size * MaxLoad \in Nat
      <3>1. calls[k].size \in Nat
        BY <1>5 DEF Frame
      <3> QED
        BY <3>1, StrtabAssumption
    <2>5. \A k \in DOMAIN calls : calls[k].step = "create" =>
             /\ Settled' <= calls[k].size * MaxLoad
             /\ size >= calls[k].size \/ Settled' + 1 <= size * MaxLoad
      BY <1>1, <1>3, <1>4, <2>1, <2>2, <2>3, <2>4 DEF Load
    <2>6. Cardinality(InTable') <= count' /\ (calls' = <<>> => count' <= size' * MaxLoad)
      BY <1>1, <1>2, <1>5 DEF Load
    <2>7. \A k \in DOMAIN calls : Len(calls) = 1 /\ calls[k].step = "grow" =>
            count <= 2 * calls[k].size * MaxLoad
      BY <1>1 DEF Load
    <2> QED
      BY <1>1, <1>3, <1>5, <2>5, <2>6, <2>7 DEF Load
  <1>11. Exact'
    BY <1>1, <1>2, <1>5 DEF Exact, Bucket
  <1> QED
    BY <1>7, <1>8, <1>9, <1>10, <1>11 DEF IInv

\* A call that does not find its text remembers a bucket of the table as it is.
LEMMA NotFoundKeepsIInv ==
  ASSUME IInv, NEW t \in Text, NotFound(t)
  PROVE  IInv'
  <1>0. PICK c : c = [str |-> t, size |-> size, bucket |-> Bucket(t, size), stale |-> FALSE,
                      step |-> "create", result |-> NONE, deinit |-> collecting,
                      raced |-> FALSE]
    OBVIOUS
  <1>1. /\ TypeOK /\ Stack /\ Kept /\ Load /\ Exact
        /\ Running
        /\ \A a \in table[Bucket(t, size)] : text[a] # t
        /\ calls' = <<c>> \o calls
        /\ UNCHANGED <<size, count, table, text, held, lost, collecting, dark, raced, swept>>
    BY <1>0 DEF IInv, NotFound
  <1>2. Bucket(t, size) \in 0 .. size - 1
    BY <1>1, BucketInRange DEF TypeOK
  <1>3. c \in Frame
    BY <1>0, <1>1, <1>2 DEF TypeOK, Frame
  <1>4. /\ c.str = t /\ c.size = size /\ c.bucket = Bucket(t, size) /\ c.stale = FALSE
        /\ c.step = "create" /\ c.deinit = collecting /\ c.raced = FALSE
    BY <1>0
  <1>5. InTable' = InTable
    BY <1>1 DEF InTable
  <1>6. \/ calls = <<>>
        \/ collecting /\ Len(calls) = 1 /\ calls[1] \in Frame /\ ~calls[1].deinit
           /\ DOMAIN calls = 1 .. 1 /\ calls[1].step = "create"
    BY <1>1, TopProperties DEF Running, Stack
  <1>7. /\ calls' \in Seq(Frame) /\ calls' # <<>>
        /\ calls'[1] = c
        /\ \/ calls = <<>> /\ Len(calls') = 1 /\ DOMAIN calls' = {1}
           \/ /\ collecting /\ Len(calls) = 1 /\ Len(calls') = 2 /\ calls'[2] = calls[1]
              /\ ~calls[1].deinit /\ 1 \in DOMAIN calls /\ calls # <<>> /\ calls[1].step = "create"
              /\ DOMAIN calls' = {1, 2}
    <2>1. calls \in Seq(Frame)
      BY <1>1 DEF TypeOK
    <2>2. /\ calls' \in Seq(Frame)
          /\ Len(calls') = Len(calls) + 1
          /\ calls'[1] = c
          /\ \A k \in 1 .. Len(calls) : calls'[k + 1] = calls[k]
          /\ calls' # <<>>
      BY <1>1, <1>3, <2>1, PushProperties
    <2>3. CASE calls = <<>>
      <3>1. Len(calls') = 1
        BY <2>2, <2>3
      <3>2. DOMAIN calls' = {1}
        <4>1. DOMAIN calls' = 1 .. Len(calls')
          BY <2>2
        <4>2. 1 .. 1 = {1}
          OBVIOUS
        <4> QED
          BY <3>1, <4>1, <4>2
      <3> QED
        BY <2>2, <2>3, <3>1, <3>2
    <2>4. CASE collecting /\ Len(calls) = 1 /\ ~calls[1].deinit /\ calls[1].step = "create"
      <3>1. calls'[2] = calls[1] /\ Len(calls') = 2 /\ 1 \in DOMAIN calls /\ calls # <<>>
        <4>1. 1 \in 1 .. Len(calls) /\ 1 + 1 = 2 /\ Len(calls) + 1 = 2 /\ DOMAIN calls = 1 .. Len(calls)
          BY <2>1, <2>4
        <4>2. calls'[1 + 1] = calls[1]
          BY <2>2, <4>1
        <4>3. Len(<<>>) = 0
          OBVIOUS
        <4> QED
          BY <2>2, <2>4, <4>1, <4>2, <4>3
      <3>2. DOMAIN calls' = {1, 2}
        <4>1. DOMAIN calls' = 1 .. Len(calls')
          BY <2>2
        <4>2. 1 .. 2 = {1, 2}
          OBVIOUS
        <4> QED
          BY <3>1, <4>1, <4>2
      <3> QED
        BY <2>2, <2>4, <3>1, <3>2
    <2> QED
      BY <1>6, <2>3, <2>4
  <1>8. TypeOK'
    BY <1>1, <1>7 DEF TypeOK
  <1>9. Fresh(c)'
    BY <1>1, <1>4 DEF Fresh
  <1>10. Stack'
    <2>1. size > 0
      BY <1>1 DEF TypeOK
    <2>2. CASE calls = <<>> /\ Len(calls') = 1 /\ DOMAIN calls' = {1}
      BY <1>1, <1>4, <1>7, <1>9, <2>1, <2>2 DEF Stack
    <2>3. CASE collecting /\ Len(calls') = 2 /\ calls'[2] = calls[1] /\ ~calls[1].deinit
               /\ 1 \in DOMAIN calls /\ DOMAIN calls' = {1, 2} /\ calls[1].step = "create"
      <3>1. calls[1].size > 0 /\ calls[1].step = "create" /\ calls[1].raced
        BY <1>1, <2>3 DEF Stack
      <3>2. /\ calls'[1].size > 0 /\ calls'[1].deinit /\ collecting' /\ Fresh(calls[1])'
            /\ ~calls'[1].raced
            /\ calls'[2].size > 0 /\ ~calls'[2].deinit /\ calls'[2].step = "create" /\ calls'[2].raced
        <4>1. Fresh(calls[1])'
          BY <1>7, <1>9 DEF Fresh
        <4> QED
          BY <1>1, <1>4, <1>7, <2>1, <2>3, <3>1, <4>1
      <3> QED
        BY <2>3, <3>2 DEF Stack
    <2> QED
      BY <1>7, <2>2, <2>3
  <1>11. Kept'
    <2>1. calls'[1].step # "grow"
      BY <1>4, <1>7
    <2>2. \A k \in DOMAIN calls' : calls'[k].step # "grow"
      <3>1. CASE DOMAIN calls' = {1}
        BY <2>1, <3>1
      <3>2. CASE /\ collecting /\ calls'[2] = calls[1] /\ ~calls[1].deinit
                 /\ 1 \in DOMAIN calls /\ DOMAIN calls' = {1, 2} /\ calls[1].step = "create"
        BY <2>1, <3>2
      <3> QED
        BY <1>7, <3>1, <3>2
    <2> QED
      BY <1>1, <1>5, <2>2 DEF Kept
  <1>12. Settled' = Settled
    BY <1>1, <1>5 DEF Settled
  <1>13. Load'
    <2>1. CASE calls = <<>> /\ Len(calls') = 1 /\ DOMAIN calls' = {1}
      <3>1. count <= size * MaxLoad
        BY <1>1, <2>1 DEF Load
      <3>2. ~collecting => Settled = count
        BY DEF Settled
      <3>3. size >= size
        BY <1>1 DEF TypeOK
      <3> QED
        BY <1>1, <1>4, <1>5, <1>7, <1>12, <2>1, <3>1, <3>2, <3>3 DEF Load
    <2>2. CASE /\ collecting /\ Len(calls') = 2 /\ calls'[2] = calls[1]
               /\ ~calls[1].deinit /\ 1 \in DOMAIN calls /\ DOMAIN calls' = {1, 2}
               /\ calls[1].step = "create"
      <3>1. calls[1].step = "create"
        BY <2>2
      <3>2. /\ Settled <= calls[1].size * MaxLoad
            /\ size >= calls[1].size \/ Settled + 1 <= size * MaxLoad
        BY <1>1, <2>2, <3>1 DEF Load
      <3>3. /\ Cardinality(InTable') <= count' /\ calls' # <<>> /\ Len(calls') # 1
            /\ calls'[1].deinit /\ calls'[2] = calls[1] /\ size' = size
        BY <1>1, <1>4, <1>5, <1>7, <2>2 DEF Load
      <3> QED
        BY <1>12, <2>2, <3>2, <3>3 DEF Load
    <2> QED
      BY <1>7, <2>1, <2>2
  <1>14. Exact'
    <2>1. \A a \in InTable \ raced : text[a] # t
      BY <1>1 DEF InTable, Exact
    <2>2. ASSUME NEW k \in DOMAIN calls', ~calls'[k].raced
          PROVE  /\ Fresh(calls[k])'
                 /\ collecting' => calls'[k].deinit
                 /\ \A a \in InTable' \ raced' : text'[a] # calls'[k].str
      <3>1. k = 1
        <4>1. CASE DOMAIN calls' = {1}
          BY <4>1
        <4>2. CASE /\ collecting /\ Len(calls) = 1 /\ calls'[2] = calls[1]
                   /\ ~calls[1].deinit /\ 1 \in DOMAIN calls /\ DOMAIN calls' = {1, 2}
          BY <1>1, <2>2, <4>2 DEF Stack
        <4> QED
          BY <1>7, <4>1, <4>2
      <3> QED
        BY <1>1, <1>4, <1>5, <1>7, <1>9, <2>1, <3>1 DEF Fresh
    <2> QED
      BY <1>1, <1>5, <2>2 DEF Exact, Bucket
  <1> QED
    BY <1>8, <1>10, <1>11, <1>13, <1>14 DEF IInv

----------------------------------------------------------------------------
(* The sweep. *)

LEMMA DivisionBound ==
  ASSUME NEW s \in Nat, NEW k \in Nat, k >= 2
  PROVE  s \div k <= s \div 2
  <1>1. PICK q \in Nat : q = s \div k
    OBVIOUS
  <1>2. q * k <= s
    BY <1>1
  <1>3. q * 2 <= q * k
    OBVIOUS
  <1>4. q * k \in Int
    OBVIOUS
  <1>5. q * 2 <= s
    BY <1>2, <1>3, <1>4
  <1> QED
    BY <1>1, <1>5

\* be_gcstrtab frees what is not marked: no string the program holds, and of
\* those that calls have made only what becomes swept.
LEMMA SweepKeepsIInv ==
  ASSUME IInv, be_gcstrtab
  PROVE  IInv'
  <1>0. PICK freed : freed = InTable \ dark
    OBVIOUS
  <1>1. PICK n : n = count - Cardinality(freed)
    OBVIOUS
  <1>2. /\ TypeOK /\ Stack /\ Kept /\ Load /\ Exact
        /\ collecting /\ (calls # <<>> => ~Head(calls).deinit)
        /\ count' = n
        /\ text' = [a \in Addr |-> IF a \in freed THEN NONE ELSE text[a]]
        /\ size' = IF Halves(n) THEN size \div 2 ELSE size
        /\ table' = IF Halves(n)
                    THEN [i \in 0 .. size' - 1 |-> Rehashed(size')[i] \ freed]
                    ELSE [i \in 0 .. size - 1 |-> table[i] \ freed]
        /\ swept' = swept \cup (Linked \cap freed)
        /\ \E moved \in BOOLEAN : calls' = Calls_moved(moved)
        /\ collecting' = FALSE /\ dark' = {}
        /\ UNCHANGED <<held, lost, raced>>
    BY <1>0, <1>1 DEF IInv, be_gcstrtab
  <1>3. /\ InTable \subseteq Addr /\ IsFiniteSet(InTable) /\ Cardinality(InTable) \in Nat
        /\ \A i \in 0 .. size - 1 : table[i] \subseteq InTable
    BY <1>2, ChainsHoldStrings
  <1>4. freed \subseteq InTable /\ \A a \in held \ swept : a \notin freed
    BY <1>0, <1>2 DEF Kept
  <1>5. IsFiniteSet(freed) /\ Cardinality(freed) <= Cardinality(InTable)
        /\ Cardinality(freed) \in Nat
    BY <1>3, <1>4, FS_Subset, FS_CardinalityType
  <1>6. n \in Nat /\ n <= count /\ count \in Nat /\ size \in Nat \ {0} /\ Settled = n
    BY <1>0, <1>1, <1>2, <1>5, <1>3 DEF TypeOK, Load, Settled
  <1>7. /\ size' \in Nat \ {0}
        /\ Halves(n) => size' = size \div 2 /\ n + 1 <= size'
        /\ ~Halves(n) => size' = size
    <2>1. CASE Halves(n)
      <3>1. size > 1 /\ n < size \div MinLoad
        BY <1>6, <2>1, StrtabAssumption DEF Halves
      <3>2. size \div MinLoad <= size \div 2
        <4>1. MinLoad \in Nat /\ MinLoad >= 2 /\ size \in Nat
          BY <1>6, StrtabAssumption
        <4> QED
          BY <4>1, DivisionBound
      <3>3. size \div MinLoad \in Nat
        BY <1>6, StrtabAssumption
      <3> QED
        BY <1>2, <1>6, <2>1, <3>1, <3>2, <3>3
    <2>2. CASE ~Halves(n)
      BY <1>2, <1>6, <2>2
    <2> QED
      BY <2>1, <2>2
  <1>8. /\ table' \in [0 .. size' - 1 -> SUBSET Addr]
        /\ InTable' = InTable \ freed
        /\ \A i \in 0 .. size' - 1 : \A a \in table'[i] :
             /\ a \in InTable /\ a \notin freed
             /\ ~Halves(n) => a \in table[i]
             /\ Halves(n) => Bucket(text[a], size') = i
    <2>1. CASE Halves(n)
      <3>0. PICK m \in Nat \ {0} : m = size'
        BY <1>7
      <3>1. PICK new : new = Rehashed(m)
        OBVIOUS
      <3>2. /\ new \in [0 .. m - 1 -> SUBSET Addr]
            /\ UNION {new[i] : i \in 0 .. m - 1} = InTable
            /\ \A i \in 0 .. m - 1 : \A a \in new[i] : a \in InTable /\ Bucket(text[a], m) = i
        BY <1>2, <3>1, RehashedProperties
      <3>3. table' = [i \in 0 .. m - 1 |-> new[i] \ freed]
        BY <1>2, <2>1, <3>0, <3>1
      <3>4. InTable' = InTable \ freed
        <4>1. InTable' = UNION {table'[i] : i \in 0 .. m - 1}
          BY <3>0 DEF InTable
        <4>2. \A i \in 0 .. m - 1 : table'[i] = new[i] \ freed
          BY <3>3
        <4>3. \A x : x \in InTable <=> \E i \in 0 .. m - 1 : x \in new[i]
          BY <3>2
        <4>4. \A x : x \in InTable' <=> \E i \in 0 .. m - 1 : x \in new[i] /\ x \notin freed
          BY <4>1, <4>2
        <4> QED
          BY <4>3, <4>4
      <3> QED
        BY <2>1, <3>0, <3>2, <3>3, <3>4
    <2>2. CASE ~Halves(n)
      <3>1. table' = [i \in 0 .. size - 1 |-> table[i] \ freed] /\ size' = size
        BY <1>2, <2>2
      <3>2. InTable' = InTable \ freed
        BY <3>1 DEF InTable
      <3> QED
        BY <1>2, <1>3, <2>2, <3>1, <3>2 DEF TypeOK
    <2> QED
      BY <2>1, <2>2
  <1>9. \A a \in Addr : a \notin freed => text'[a] = text[a]
    BY <1>2
  <1>10. \A k \in DOMAIN calls : calls[k].raced /\ ~calls[k].deinit /\ k = 1
    <2>1. CASE calls = <<>>
      BY <2>1
    <2>2. CASE calls # <<>>
      <3>1. ~calls[1].deinit /\ Len(calls) = 1 /\ DOMAIN calls = 1 .. 1
        BY <1>2, <2>2, TopProperties DEF Stack
      <3> QED
        BY <1>2, <3>1 DEF Stack
    <2> QED
      BY <2>1, <2>2
  <1>11. /\ calls' \in Seq(Frame) /\ DOMAIN calls' = DOMAIN calls /\ Len(calls') = Len(calls)
         /\ calls' = <<>> <=> calls = <<>>
         /\ \A k \in DOMAIN calls : /\ calls'[k].size = calls[k].size
                                    /\ calls'[k].step = calls[k].step
                                    /\ calls'[k].deinit = calls[k].deinit
                                    /\ calls'[k].raced = calls[k].raced
                                    /\ calls'[k].result = calls[k].result
                                    /\ calls'[k].str = calls[k].str
    <2>1. PICK moved \in BOOLEAN : calls' = Calls_moved(moved)
      BY <1>2
    <2>2. calls \in Seq(Frame)
      BY <1>2 DEF TypeOK
    <2>3. calls' = [k \in DOMAIN calls |-> [calls[k] EXCEPT !.stale = @ \/ moved]]
      BY <2>1 DEF Calls_moved
    <2>4. ASSUME NEW k \in DOMAIN calls
          PROVE  /\ calls'[k] \in Frame
                 /\ calls'[k].size = calls[k].size
                 /\ calls'[k].step = calls[k].step
                 /\ calls'[k].deinit = calls[k].deinit
                 /\ calls'[k].raced = calls[k].raced
                 /\ calls'[k].result = calls[k].result
                 /\ calls'[k].str = calls[k].str
      <3>1. calls[k] \in Frame /\ calls'[k] = [calls[k] EXCEPT !.stale = @ \/ moved]
        BY <2>2, <2>3
      <3>2. (calls[k].stale \/ moved) \in BOOLEAN
        OBVIOUS
      <3> QED
        BY <3>1, <3>2 DEF Frame
    <2>5. DOMAIN calls = 1 .. Len(calls) /\ Len(calls) \in Nat /\ DOMAIN calls' = DOMAIN calls
      BY <2>2, <2>3
    <2>6. calls' \in Seq(Frame) /\ Len(calls') = Len(calls)
      BY <2>3, <2>4, <2>5
    <2>7. calls' = <<>> <=> calls = <<>>
      BY <2>2, <2>6, EmptySeq
    <2> QED
      BY <2>4, <2>5, <2>6, <2>7
  <1>12. TypeOK'
    <2>1. text' \in [Addr -> Text \cup {NONE}]
      BY <1>2 DEF TypeOK
    <2> QED
      BY <1>2, <1>3, <1>4, <1>6, <1>7, <1>8, <1>11, <2>1 DEF TypeOK
  <1>13. Stack'
    BY <1>2, <1>10, <1>11 DEF Stack
  <1>14. Kept'
    <2>1. \A a \in Addr : a \in InTable' \cup lost \cup (held \ swept) => text'[a] # NONE
      <3>1. \A a \in lost : a \notin freed
        BY <1>2, <1>4 DEF Exact
      <3> QED
        BY <1>2, <1>3, <1>4, <1>8, <1>9, <3>1 DEF Kept
    <2>2. InTable' \cup lost' \cup (held' \ swept') \subseteq Addr /\ held' \ swept' \subseteq held \ swept
      BY <1>2, <1>3, <1>8 DEF TypeOK
    <2>3. swept' \subseteq raced'
      BY <1>2, <1>10 DEF Kept, Linked
    <2>4. ASSUME NEW k \in DOMAIN calls', calls'[k].step = "grow"
          PROVE  /\ calls'[k].result \in Addr
                 /\ calls'[k].raced /\ calls'[k].result \in raced'
                 /\ calls'[k].result \in swept' \/ text'[calls'[k].result] = calls'[k].str
      <3>1. /\ k \in DOMAIN calls /\ calls[k].step = "grow" /\ calls[k].raced
            /\ calls'[k].result = calls[k].result /\ calls'[k].str = calls[k].str /\ calls'[k].raced
        BY <1>10, <1>11, <2>4
      <3>2. /\ calls[k].result \in Addr /\ calls[k].result \in raced
            /\ calls[k].result \in swept \/ text[calls[k].result] = calls[k].str
        BY <1>2, <3>1 DEF Kept
      <3>3. calls[k].result \in Linked
        BY <3>1 DEF Linked
      <3> QED
        BY <1>2, <1>9, <3>1, <3>2, <3>3
    <2> QED
      BY <1>2, <2>1, <2>2, <2>3, <2>4 DEF Kept
  <1>15. Load'
    <2>1. /\ size * MaxLoad \in Nat /\ size' * MaxLoad \in Nat
          /\ size' <= size' * MaxLoad /\ size' \in Nat
      <3>1. PICK m \in Nat : m = size'
        BY <1>7
      <3>2. PICK l \in Nat \ {0} : l = MaxLoad
        BY StrtabAssumption
      <3>3. m * l \in Nat /\ m <= m * l
        <4>1. m * 1 <= m * l
          OBVIOUS
        <4> QED
          BY <4>1
      <3>4. PICK s \in Nat : s = size
        BY <1>6
      <3>5. s * l \in Nat
        OBVIOUS
      <3> QED
        BY <3>1, <3>2, <3>3, <3>4, <3>5
    <2>2. Settled' = n
      BY <1>2 DEF Settled
    <2>3. Cardinality(InTable') <= n
      <3>1. Cardinality(InTable') = Cardinality(InTable) - Cardinality(InTable \cap freed)
        BY <1>3, <1>8, FS_Difference
      <3>2. InTable \cap freed = freed
        BY <1>4
      <3> QED
        <4>1. Cardinality(InTable') = Cardinality(InTable) - Cardinality(freed)
          BY <3>1, <3>2
        <4>2. Cardinality(InTable) <= count
          BY <1>2 DEF Load
        <4> QED
          BY <1>1, <1>3, <1>5, <1>6, <4>1, <4>2
    <2>4. calls = <<>> => n <= size' * MaxLoad
      BY <1>2, <1>6, <1>7, <2>1 DEF Load
    <2>5. ASSUME NEW k \in DOMAIN calls, calls[k].step = "create"
          PROVE  /\ n <= calls[k].size * MaxLoad
                 /\ size' >= calls[k].size \/ n + 1 <= size' * MaxLoad
      <3>1. /\ n <= calls[k].size * MaxLoad
            /\ size >= calls[k].size \/ n + 1 <= size * MaxLoad
        BY <1>2, <1>6, <1>10, <2>5 DEF Load
      <3> QED
        BY <1>6, <1>7, <2>1, <3>1
    <2>6. ASSUME NEW k \in DOMAIN calls, Len(calls) = 1, calls[k].step = "grow"
          PROVE  n <= 2 * calls[k].size * MaxLoad
      <3>1. count <= 2 * calls[k].size * MaxLoad /\ calls[k] \in Frame
        <4>1. Len(calls) = 1 /\ calls[k].step = "grow" => count <= 2 * calls[k].size * MaxLoad
          BY <1>2, Zenon DEF Load
        <4>2. calls \in Seq(Frame)
          BY <1>2, Zenon DEF TypeOK
        <4>3. calls[k] \in Frame
          BY <4>2
        <4> QED
          BY <4>1, <4>3, <2>6, Zenon
      <3>2. PICK m \in Nat : m = calls[k].size
        BY <3>1 DEF Frame
      <3>3. PICK l \in Nat : l = MaxLoad
        BY StrtabAssumption
      <3>4. 2 * m * l \in Int
        OBVIOUS
      <3> QED
        BY <1>6, <3>1, <3>2, <3>3, <3>4
    <2> QED
      BY <1>2, <1>10, <1>11, <2>2, <2>3, <2>4, <2>5, <2>6 DEF Load
  <1>16. Exact'
    <2>1. \A k \in DOMAIN calls' : calls'[k].raced
      BY <1>10, <1>11
    <2>2. lost' \subseteq raced' /\ lost' \cap InTable' = {} /\ held' \ raced' \subseteq InTable'
      BY <1>2, <1>4, <1>8 DEF Exact, Kept
    <2>3. count' = Cardinality(InTable' \cup lost')
      <3>1. InTable' \cup lost = (InTable \cup lost) \ freed /\ (InTable \cup lost) \cap freed = freed
        BY <1>2, <1>4, <1>8 DEF Exact
      <3>2. IsFiniteSet(InTable \cup lost)
        BY <1>2, <1>3, StrtabAssumption, FS_Subset, FS_Union DEF TypeOK
      <3>3. Cardinality((InTable \cup lost) \ freed) = Cardinality(InTable \cup lost) - Cardinality(freed)
        BY <3>1, <3>2, FS_Difference
      <3> QED
        BY <1>1, <1>2, <3>1, <3>3 DEF Exact
    <2>4. \A a, b \in InTable' \ raced' : text'[a] = text'[b] => a = b
      BY <1>2, <1>3, <1>8, <1>9 DEF Exact
    <2>5. ASSUME NEW i \in 0 .. size' - 1, NEW a \in table'[i] \ raced'
          PROVE  Bucket(text'[a], size') = i
      <3>1. text'[a] = text[a]
        BY <1>3, <1>8, <1>9
      <3> QED
        BY <1>2, <1>7, <1>8, <3>1 DEF Exact
    <2> QED
      BY <1>2, <2>1, <2>2, <2>3, <2>4, <2>5 DEF Exact, Bucket
  <1> QED
    BY <1>12, <1>13, <1>14, <1>15, <1>16 DEF IInv

----------------------------------------------------------------------------
(* The end of a call. *)

\* The table moved to twice the size the call remembers holds the same strings,
\* each in its bucket, unless its memory was gone; then all of them are raced.
LEMMA GrowKeepsIInv ==
  ASSUME IInv, Grow
  PROVE  IInv'
  <1>1. /\ TypeOK /\ Stack /\ Kept /\ Load /\ Exact
        /\ Proceeds /\ calls # <<>> /\ Head(calls).step = "grow"
        /\ size' = 2 * Head(calls).size
        /\ \E moved \in BOOLEAN : calls' = Tail(Calls_moved(moved))
        /\ held' = IF Head(calls).deinit THEN held ELSE held \cup {Head(calls).result}
        /\ UNCHANGED <<count, text, collecting, dark, swept>>
    BY DEF IInv, Grow, Proceeds
  <1>0. PICK gone \in IF Head(calls).stale THEN {{}, InTable} ELSE {{}} :
          /\ table' = [n \in 0 .. size' - 1 |-> Rehashed(size')[n] \ gone]
          /\ lost' = lost \cup gone
          /\ raced' = raced \cup gone
    BY DEF Grow
  <1>2. PICK c \in Frame : c = calls[1]
    BY <1>1, TopProperties
  <1>3. /\ Head(calls) = c /\ 1 \in DOMAIN calls /\ DOMAIN calls = 1 .. Len(calls)
        /\ Len(calls) \in {1, 2}
        /\ Len(calls) = 2 => calls[2] \in Frame
    BY <1>1, <1>2, TopProperties
  <1>4. /\ c.step = "grow" /\ c.size \in Nat \ {0}
        /\ c.result \in Addr /\ c.str \in Text
        /\ c.result \in swept \/ text[c.result] = c.str
        /\ c.result \in InTable \/ c.result \in raced
        /\ collecting => c.deinit
        /\ c.deinit => collecting /\ Fresh(c)
        /\ Len(calls) = 2 => /\ c.deinit /\ ~calls[2].deinit /\ calls[2].step = "create"
                             /\ calls[2].raced
    <2>1. c.size \in Nat /\ c.str \in Text
      BY DEF Frame
    <2>2. Len(calls) = 2 => 2 \in DOMAIN calls
      BY <1>3
    <2>3. /\ c.result \in Addr
          /\ c.result \in swept \/ text[c.result] = c.str
          /\ c.result \in InTable \/ c.result \in raced
      BY <1>1, <1>2, <1>3 DEF Kept
    <2> QED
      BY <1>1, <1>2, <1>3, <2>1, <2>2, <2>3 DEF Stack, Proceeds
  <1>14. /\ gone \subseteq InTable
         /\ collecting => gone = {}
    <2>1. gone = {} \/ (gone = InTable /\ c.stale)
      BY <1>0, <1>3
    <2>2. collecting => ~c.stale
      BY <1>4 DEF Fresh
    <2> QED
      BY <2>1, <2>2
  <1>5. size' = 2 * c.size /\ size' \in Nat \ {0}
    BY <1>1, <1>3, <1>4
  <1>6. /\ table' \in [0 .. size' - 1 -> SUBSET Addr]
        /\ InTable' = InTable \ gone
        /\ \A n \in 0 .. size' - 1 : \A a \in table'[n] : a \in InTable /\ Bucket(text[a], size') = n
    <2>1. PICK m \in Nat \ {0} : m = size'
      BY <1>5
    <2>2. PICK new : new = Rehashed(m)
      OBVIOUS
    <2>3. /\ new \in [0 .. m - 1 -> SUBSET Addr]
          /\ UNION {new[n] : n \in 0 .. m - 1} = InTable
          /\ \A n \in 0 .. m - 1 : \A a \in new[n] : a \in InTable /\ Bucket(text[a], m) = n
      BY <1>1, <2>2, RehashedProperties
    <2>4. table' = [n \in 0 .. m - 1 |-> new[n] \ gone]
      BY <1>0, <2>1, <2>2
    <2>5. InTable' = InTable \ gone
      <3>1. InTable' = UNION {table'[n] : n \in 0 .. m - 1}
        BY <2>1 DEF InTable
      <3>2. \A n \in 0 .. m - 1 : table'[n] = new[n] \ gone
        BY <2>4
      <3>3. \A x : x \in InTable <=> \E n \in 0 .. m - 1 : x \in new[n]
        BY <2>3
      <3>4. \A x : x \in InTable' <=> \E n \in 0 .. m - 1 : x \in new[n] /\ x \notin gone
        BY <3>1, <3>2
      <3> QED
        BY <3>3, <3>4
    <2> QED
      BY <2>1, <2>3, <2>4, <2>5
  <1>7. /\ calls' \in Seq(Frame)
        /\ Len(calls) = 1 => calls' = <<>> /\ DOMAIN calls' = {}
        /\ Len(calls) = 2 => /\ Len(calls') = 1 /\ DOMAIN calls' = {1} /\ calls' # <<>>
                             /\ calls'[1].size = calls[2].size
                             /\ calls'[1].step = "create" /\ ~calls'[1].deinit
                             /\ calls'[1].raced
    <2>1. PICK moved \in BOOLEAN : calls' = Tail(Calls_moved(moved))
      BY <1>1
    <2>2. PICK s : s = Calls_moved(moved)
      OBVIOUS
    <2>3. s = [k \in DOMAIN calls |-> [calls[k] EXCEPT !.stale = @ \/ moved]]
      BY <2>2 DEF Calls_moved
    <2>4. ASSUME NEW k \in DOMAIN calls
          PROVE  /\ s[k] \in Frame
                 /\ s[k].size = calls[k].size
                 /\ s[k].step = calls[k].step
                 /\ s[k].deinit = calls[k].deinit
                 /\ s[k].raced = calls[k].raced
      <3>1. calls[k] \in Frame /\ s[k] = [calls[k] EXCEPT !.stale = @ \/ moved]
        BY <1>1, <2>3 DEF TypeOK
      <3>2. (calls[k].stale \/ moved) \in BOOLEAN
        OBVIOUS
      <3> QED
        BY <3>1, <3>2 DEF Frame
    <2>5. s \in Seq(Frame) /\ Len(s) = Len(calls)
      BY <1>3, <2>3, <2>4
    <2>6. s # <<>> /\ calls' = Tail(s)
      BY <1>3, <2>1, <2>2, <2>5
    <2>7. /\ Tail(s) \in Seq(Frame) /\ Len(Tail(s)) = Len(calls) - 1
          /\ \A k \in 1 .. Len(calls) - 1 : Tail(s)[k] = s[k + 1]
      BY <2>5, <2>6, HeadTailProperties
    <2>8. CASE Len(calls) = 1
      <3>1. calls' = <<>>
        BY <2>6, <2>7, <2>8, EmptySeq
      <3> QED
        BY <2>8, <3>1
    <2>9. CASE Len(calls) = 2
      <3>1. Len(calls') = 1 /\ calls'[1] = s[2]
        <4>1. 1 \in 1 .. Len(calls) - 1 /\ Len(calls) - 1 = 1 /\ 1 + 1 = 2
          BY <2>9
        <4>2. Tail(s)[1] = s[1 + 1]
          BY <2>7, <4>1
        <4> QED
          BY <2>6, <2>7, <4>1, <4>2
      <3>2. DOMAIN calls' = 1 .. Len(calls')
        BY <2>6, <2>7
      <3>3. 1 .. 1 = {1}
        OBVIOUS
      <3>4. 2 \in DOMAIN calls
        BY <1>3, <2>9
      <3>5. calls' # <<>>
        BY <3>1
      <3> QED
        BY <1>4, <2>4, <2>6, <2>7, <2>9, <3>1, <3>2, <3>3, <3>4, <3>5
    <2> QED
      BY <1>3, <2>6, <2>7, <2>8, <2>9
  <1>8. TypeOK'
    <2>1. InTable \subseteq Addr
      BY <1>1, ChainsHoldStrings
    <2>2. lost' \subseteq Addr /\ raced' \subseteq Addr /\ held' \subseteq Addr
      BY <1>0, <1>1, <1>3, <1>4, <1>14, <2>1 DEF TypeOK
    <2> QED
      BY <1>1, <1>5, <1>6, <1>7, <2>2 DEF TypeOK
  <1>9. Stack'
    <2>1. CASE Len(calls) = 1
      BY <1>7, <2>1 DEF Stack
    <2>2. CASE Len(calls) = 2
      <3>1. calls[2].size > 0
        BY <1>1, <1>3, <2>2 DEF Stack
      <3>2. Len(calls') <= 2 /\ Len(calls') # 2
        <4>1. Len(calls') = 1
          BY <1>7, <2>2
        <4> QED
          BY <4>1
      <3>3. calls'[1].size > 0 /\ ~calls'[1].deinit /\ calls'[1].step = "create" /\ calls'[1].raced
        BY <1>7, <2>2, <3>1
      <3>4. DOMAIN calls' = {1}
        BY <1>7, <2>2
      <3>5. ASSUME NEW k \in DOMAIN calls'
            PROVE  calls'[k].size > 0 /\ ~calls'[k].deinit /\ calls'[k].raced
        <4>1. k = 1
          BY <3>4
        <4> QED
          BY <3>3, <4>1
      <3> QED
        BY <3>2, <3>5 DEF Stack
    <2> QED
      BY <1>3, <2>1, <2>2
  <1>10. Kept'
    <2>1. \A k \in DOMAIN calls' : calls'[k].step # "grow"
      BY <1>3, <1>7
    <2>2. c.result \notin swept => text[c.result] # NONE
      BY <1>4, StrtabAssumption
    <2>3. \A a \in InTable' \cup lost' \cup (held' \ swept') : text'[a] # NONE
      BY <1>0, <1>1, <1>3, <1>6, <1>14, <2>2 DEF Kept
    <2>4. collecting' => held' \ swept' \subseteq dark' /\ dark' \subseteq held'
      BY <1>1, <1>3, <1>4 DEF Kept
    <2>5. swept' \subseteq raced'
      BY <1>0, <1>1 DEF Kept
    <2> QED
      BY <2>1, <2>3, <2>4, <2>5 DEF Kept
  <1>11. Settled' = Settled
    BY <1>1, <1>6, <1>14 DEF Settled
  <1>15. Cardinality(InTable') <= count'
    <2>1. IsFiniteSet(InTable) /\ Cardinality(InTable) \in Nat /\ Cardinality(InTable) <= count /\ count \in Nat
      BY <1>1, ChainsHoldStrings DEF Load, TypeOK
    <2>2. Cardinality(InTable') <= Cardinality(InTable) /\ Cardinality(InTable') \in Nat
      BY <1>6, <2>1, FS_Subset, FS_CardinalityType
    <2> QED
      BY <1>1, <2>1, <2>2
  <1>12. Load'
    <2>1. CASE Len(calls) = 1
      <3>1. count <= 2 * c.size * MaxLoad
        BY <1>1, <1>2, <1>3, <1>4, <2>1 DEF Load
      <3> QED
        BY <1>1, <1>5, <1>7, <1>15, <2>1, <3>1 DEF Load
    <2>2. CASE Len(calls) = 2
      <3>1. 2 \in DOMAIN calls /\ ~calls[2].deinit /\ calls[2].step = "create"
        BY <1>3, <1>4, <2>2
      <3>2. /\ Settled <= calls[2].size * MaxLoad
            /\ size >= calls[2].size \/ Settled + 1 <= size * MaxLoad
        BY <1>1, <3>1 DEF Load
      <3>3. c.size = size
        BY <1>4, <2>2 DEF Fresh
      <3>4. size * MaxLoad <= size' * MaxLoad /\ size' >= size
        <4>1. PICK m \in Nat : m = size
          BY <1>1 DEF TypeOK
        <4>2. m * MaxLoad <= (2 * m) * MaxLoad
          <5>1. 2 * m \in Nat /\ m <= 2 * m /\ MaxLoad \in Nat
            BY StrtabAssumption
          <5> QED
            BY <5>1, Monotonic
        <4> QED
          BY <1>5, <3>3, <4>1, <4>2
      <3>5. /\ Settled \in Int /\ size * MaxLoad \in Int /\ size' * MaxLoad \in Int
            /\ size \in Int /\ size' \in Int /\ calls[2].size \in Int
        <4>1. IsFiniteSet(InTable \ dark)
          BY <1>1, ChainsHoldStrings, FS_Subset
        <4>2. Cardinality(InTable \ dark) \in Nat
          BY <4>1, FS_CardinalityType
        <4>3. Settled \in Int
          BY <1>1, <4>2 DEF Settled, TypeOK
        <4>4. calls[2].size \in Nat
          BY <1>3, <2>2 DEF Frame
        <4> QED
          BY <1>1, <1>5, <4>3, <4>4, StrtabAssumption DEF TypeOK
      <3>6. size' >= calls[2].size \/ Settled + 1 <= size' * MaxLoad
        BY <3>2, <3>4, <3>5
      <3>7. Cardinality(InTable') <= count'
        BY <1>15
      <3> QED
        BY <1>7, <1>11, <2>2, <3>2, <3>6, <3>7 DEF Load
    <2> QED
      BY <1>3, <2>1, <2>2
  <1>13. Exact'
    <2>1. lost' \subseteq raced' /\ lost' \cap InTable' = {}
      BY <1>0, <1>1, <1>6 DEF Exact
    <2>2. count' = Cardinality(InTable' \cup lost')
      <3>1. InTable' \cup lost' = InTable \cup lost
        BY <1>0, <1>6, <1>14
      <3> QED
        BY <1>1, <3>1 DEF Exact
    <2>3. held' \ raced' \subseteq InTable'
      BY <1>0, <1>1, <1>3, <1>4, <1>6 DEF Exact
    <2>4. \A a, b \in InTable' \ raced' : text'[a] = text'[b] => a = b
      BY <1>0, <1>1, <1>6 DEF Exact
    <2>5. \A n \in 0 .. size' - 1 : \A a \in table'[n] \ raced' : Bucket(text'[a], size') = n
      BY <1>1, <1>6
    <2>6. \A k \in DOMAIN calls' : calls'[k].raced
      BY <1>3, <1>7
    <2> QED
      BY <2>1, <2>2, <2>3, <2>4, <2>5, <2>6 DEF Exact, Bucket
  <1> QED
    BY <1>8, <1>9, <1>10, <1>12, <1>13 DEF IInv

\* A new string is on a chain, unless the bucket the call remembers is one of a
\* table that is gone; the call then ends, or goes on to grow the table.
LEMMA LinkKeepsIInv ==
  ASSUME IInv, NEW a \in Addr, Link(a)
  PROVE  IInv'
  <1>1. /\ TypeOK /\ Stack /\ Kept /\ Load /\ Exact
        /\ Proceeds /\ calls # <<>> /\ Head(calls).step = "create"
        /\ text[a] = NONE
        /\ raced' = IF Head(calls).raced THEN raced \cup {a} ELSE raced \ ({a} \ swept)
        /\ dark' = dark \ {a}
        /\ UNCHANGED <<size, collecting, swept>>
    BY DEF IInv, Link, Proceeds
  <1>2. PICK c \in Frame : c = calls[1]
    BY <1>1, TopProperties
  <1>3. /\ Head(calls) = c /\ 1 \in DOMAIN calls /\ DOMAIN calls = 1 .. Len(calls)
        /\ Len(calls) \in {1, 2}
        /\ Len(calls) = 2 => calls[2] \in Frame /\ 2 \in DOMAIN calls
    BY <1>1, <1>2, TopProperties
  <1>4. /\ text' = [text EXCEPT ![a] = c.str]
        /\ count' = count + 1
        /\ IF ~c.stale /\ c.bucket < size
           THEN table' = [table EXCEPT ![c.bucket] = @ \cup {a}] /\ lost' = lost
           ELSE table' = table /\ lost' = lost \cup {a}
        /\ \/ /\ count + 1 > c.size * MaxLoad
              /\ calls' = [calls EXCEPT ![1].step = "grow", ![1].result = a, ![1].stale = FALSE]
              /\ held' = held
           \/ /\ ~(count + 1 > c.size * MaxLoad)
              /\ calls' = Tail(calls)
              /\ held' = IF c.deinit THEN held ELSE held \cup {a}
    BY <1>3 DEF Link, Return
  <1>5. /\ c.raced \in BOOLEAN /\ (~c.raced => Fresh(c))
        /\ c.step = "create" /\ c.size \in Nat \ {0} /\ c.bucket \in Nat /\ c.str \in Text
        /\ c.stale \in BOOLEAN /\ c.deinit \in BOOLEAN
        /\ collecting => c.deinit
        /\ c.deinit => collecting /\ Fresh(c)
        /\ Len(calls) = 2 => /\ c.deinit /\ ~calls[2].deinit /\ calls[2].step = "create"
                             /\ calls[2].raced
    <2>1. /\ c.raced \in BOOLEAN /\ c.size \in Nat /\ c.bucket \in Nat /\ c.str \in Text
          /\ c.stale \in BOOLEAN /\ c.deinit \in BOOLEAN
      BY DEF Frame
    <2>2. collecting => c.deinit
      BY <1>1, <1>3 DEF Proceeds
    <2>3. ~c.raced => Fresh(c)
      BY <1>1, <1>2, <1>3 DEF Exact
    <2> QED
      BY <1>1, <1>2, <1>3, <2>1, <2>2, <2>3 DEF Stack
  <1>6. /\ InTable \subseteq Addr /\ IsFiniteSet(InTable) /\ Cardinality(InTable) \in Nat
        /\ a \notin InTable /\ a \notin lost /\ (a \in held => a \in swept)
        /\ size \in Nat \ {0} /\ count \in Nat /\ MaxLoad \in Nat \ {0}
    BY <1>1, ChainsHoldStrings, StrtabAssumption DEF Kept, TypeOK
  <1>7. /\ table' \in [0 .. size - 1 -> SUBSET Addr]
        /\ \/ InTable' = InTable /\ ~Fresh(c)
           \/ InTable' = InTable \cup {a}
        /\ Fresh(c) => \A i \in 0 .. size - 1 : \A x \in table'[i] :
                          x \in table[i] \/ (x = a /\ i = Bucket(c.str, size))
    <2>1. CASE ~c.stale /\ c.bucket < size
      <3>1. c.bucket \in 0 .. size - 1 /\ table' = [table EXCEPT ![c.bucket] = @ \cup {a}]
        BY <1>4, <1>5, <1>6, <2>1
      <3>2. /\ table' \in [0 .. size - 1 -> SUBSET Addr]
            /\ \A i \in 0 .. size - 1 :
                 table'[i] = IF i = c.bucket THEN table[i] \cup {a} ELSE table[i]
        BY <1>1, <3>1 DEF TypeOK
      <3>3. InTable' = InTable \cup {a}
        <4>1. InTable' = UNION {table'[i] : i \in 0 .. size - 1}
          BY <1>1 DEF InTable
        <4>2. \A x : x \in InTable' <=> \E i \in 0 .. size - 1 : x \in table'[i]
          BY <4>1
        <4>3. \A x : x \in InTable <=> \E i \in 0 .. size - 1 : x \in table[i]
          BY DEF InTable
        <4> QED
          BY <3>1, <3>2, <4>2, <4>3
      <3> QED
        BY <3>2, <3>3 DEF Fresh
    <2>2. CASE ~(~c.stale /\ c.bucket < size)
      <3>1. table' = table /\ InTable' = InTable
        BY <1>1, <1>4, <2>2 DEF InTable
      <3>2. ~Fresh(c)
        <4>1. Bucket(c.str, size) \in 0 .. size - 1
          BY <1>5, <1>6, BucketInRange
        <4> QED
          BY <1>5, <1>6, <2>2, <4>1 DEF Fresh
      <3> QED
        BY <1>1, <3>1, <3>2 DEF TypeOK
    <2> QED
      BY <2>1, <2>2
  <1>8. /\ InTable' \cup lost' = InTable \cup lost \cup {a}
        /\ InTable' \cap lost' = {}
        /\ lost' \subseteq raced'
        /\ count' = Cardinality(InTable' \cup lost')
        /\ Cardinality(InTable') <= count + 1
    <2>1. /\ InTable' \cup lost' = InTable \cup lost \cup {a}
          /\ InTable' \cap lost' = {}
      <3>1. CASE ~c.stale /\ c.bucket < size
        <4>1. lost' = lost /\ InTable' = InTable \cup {a}
          <5>1. lost' = lost /\ table' = [table EXCEPT ![c.bucket] = @ \cup {a}]
            BY <1>4, <3>1
          <5>2. c.bucket \in 0 .. size - 1 /\ a \in table'[c.bucket]
            BY <1>1, <1>5, <1>6, <3>1, <5>1 DEF TypeOK
          <5>3. a \in InTable'
            BY <1>1, <5>2 DEF InTable
          <5> QED
            BY <1>6, <1>7, <5>1, <5>3
        <4> QED
          BY <1>1, <1>6, <4>1 DEF Exact
      <3>2. CASE ~(~c.stale /\ c.bucket < size)
        <4>1. lost' = lost \cup {a} /\ table' = table
          BY <1>4, <3>2
        <4>2. InTable' = InTable
          BY <1>1, <4>1 DEF InTable
        <4> QED
          BY <1>1, <1>6, <4>1, <4>2 DEF Exact
      <3> QED
        BY <3>1, <3>2
    <2>2. lost' \subseteq raced'
      <3>1. CASE c.raced
        BY <1>1, <1>3, <1>4, <3>1 DEF Exact
      <3>2. CASE ~c.raced
        <4>1. ~c.stale /\ c.bucket < size
          <5>1. Bucket(c.str, size) \in 0 .. size - 1
            BY <1>5, <1>6, BucketInRange
          <5> QED
            BY <1>5, <1>6, <3>2, <5>1 DEF Fresh
        <4> QED
          BY <1>1, <1>3, <1>4, <1>6, <3>2, <4>1 DEF Exact
      <3> QED
        BY <1>5, <3>1, <3>2
    <2>3. IsFiniteSet(InTable \cup lost) /\ a \notin InTable \cup lost
      BY <1>1, <1>6, StrtabAssumption, FS_Subset, FS_Union DEF TypeOK
    <2>4. count' = Cardinality(InTable' \cup lost')
      <3>1. Cardinality(InTable \cup lost \cup {a}) = Cardinality(InTable \cup lost) + 1
        BY <2>3, FS_AddElement
      <3> QED
        BY <1>1, <1>4, <2>1, <3>1 DEF Exact
    <2>5. Cardinality(InTable') <= count + 1
      <3>1. IsFiniteSet(InTable' \cup lost') /\ InTable' \subseteq InTable' \cup lost'
        <4>1. IsFiniteSet(InTable \cup lost \cup {a})
          BY <2>3, FS_AddElement
        <4> QED
          BY <2>1, <4>1
      <3>2. Cardinality(InTable') <= Cardinality(InTable' \cup lost')
        BY <3>1, FS_Subset
      <3> QED
        BY <1>4, <2>4, <3>2
    <2> QED
      BY <2>1, <2>2, <2>4, <2>5
  <1>9. Settled \in Int /\ (collecting => Settled' = Settled)
    <2>1. PICK white : white = InTable \ dark
      OBVIOUS
    <2>2. IsFiniteSet(white) /\ Cardinality(white) \in Nat
      BY <1>6, <2>1, FS_Subset, FS_CardinalityType
    <2>3. Settled \in Int
      BY <1>6, <2>1, <2>2 DEF Settled
    <2>4. ASSUME collecting PROVE Settled' = Settled
      <3>1. Fresh(c)
        BY <1>5, <2>4
      <3>2. InTable' \ dark' = white \cup {a} /\ a \notin white
        BY <1>1, <1>6, <1>7, <2>1, <3>1
      <3>3. Cardinality(InTable' \ dark') = Cardinality(white) + 1
        BY <2>2, <3>2, FS_AddElement
      <3>4. Settled' = count + 1 - (Cardinality(white) + 1)
        <4>1. Settled' = count' - Cardinality(InTable' \ dark')
          BY <1>1, <2>4 DEF Settled
        <4> QED
          BY <1>4, <1>6, <2>2, <3>3, <4>1
      <3>5. Settled = count - Cardinality(white)
        BY <2>1, <2>4 DEF Settled
      <3>6. \A n \in Nat : count + 1 - (n + 1) = count - n
        BY <1>6
      <3> QED
        BY <2>2, <3>4, <3>5, <3>6
    <2> QED
      BY <2>3, <2>4
  <1>10. /\ text' \in [Addr -> Text \cup {NONE}]
         /\ text'[a] = c.str /\ text'[a] # NONE
         /\ \A x \in Addr : x # a => text'[x] = text[x]
    BY <1>1, <1>4, <1>5, StrtabAssumption DEF TypeOK
  <1>11. /\ held' \subseteq held \cup {a} /\ held' \subseteq Addr
         /\ collecting => held' = held
    BY <1>1, <1>4, <1>5 DEF TypeOK
  <1>12. /\ \A x \in InTable' \cup lost' \cup (held' \ swept') : text'[x] # NONE
         /\ collecting' => held' \ swept' \subseteq dark' /\ dark' \subseteq held'
         /\ swept' \subseteq raced'
    <2>1. \A x \in InTable' \cup lost' \cup (held' \ swept') : text'[x] # NONE
      <3>1. InTable' \cup lost' \cup (held' \ swept') \subseteq InTable \cup lost \cup (held \ swept) \cup {a}
        BY <1>1, <1>8, <1>11
      <3> QED
        BY <1>1, <1>10, <3>1 DEF Kept, TypeOK
    <2> QED
      BY <1>1, <1>6, <1>11, <2>1 DEF Kept
  <1>13. /\ held' \ raced' \subseteq InTable'
         /\ ~c.raced => a \in InTable'
         /\ \A x, y \in InTable' \ raced' : text'[x] = text'[y] => x = y
         /\ \A i \in 0 .. size - 1 : \A x \in table'[i] \ raced' : Bucket(text'[x], size) = i
    <2>1. \A x : x # a /\ x \notin raced' => x \notin raced
      BY <1>1
    <2>2. a \notin raced' => ~c.raced
      BY <1>1, <1>3
    <2>3. ~c.raced => InTable' = InTable \cup {a}
      BY <1>5, <1>7
    <2>4. held' \ raced' \subseteq InTable'
      BY <1>1, <1>7, <1>11, <2>1, <2>2, <2>3 DEF Exact
    <2>5. ~c.raced => \A x \in InTable \ raced : text[x] # c.str
      BY <1>1, <1>2, <1>3, <1>5 DEF Exact
    <2>6. \A x \in InTable' \ raced' : x # a => x \in InTable \ raced /\ text'[x] = text[x]
      BY <1>6, <1>7, <1>10, <2>1
    <2>7. \A x, y \in InTable \ raced : text[x] = text[y] => x = y
      BY <1>1 DEF Exact
    <2>8. ASSUME NEW x \in InTable' \ raced', NEW y \in InTable' \ raced', text'[x] = text'[y]
          PROVE  x = y
      <3>1. CASE x # a /\ y # a
        BY <2>6, <2>7, <2>8, <3>1
      <3>2. CASE x = a /\ y # a
        BY <1>10, <2>2, <2>5, <2>6, <2>8, <3>2
      <3>3. CASE x # a /\ y = a
        BY <1>10, <2>2, <2>5, <2>6, <2>8, <3>3
      <3> QED
        BY <3>1, <3>2, <3>3
    <2>9. ASSUME NEW i \in 0 .. size - 1, NEW x \in table'[i] \ raced'
          PROVE  Bucket(text'[x], size) = i
      <3>0. x \in InTable'
        BY <1>1 DEF InTable
      <3>1. CASE x # a
        <4>1. x \in table[i]
          <5>1. table'[i] \subseteq table[i] \cup {a}
            <6>1. CASE ~c.stale /\ c.bucket < size
              BY <1>1, <1>4, <6>1 DEF TypeOK
            <6>2. CASE ~(~c.stale /\ c.bucket < size)
              BY <1>4, <6>2
            <6> QED
              BY <6>1, <6>2
          <5> QED
            BY <3>1, <5>1
        <4> QED
          BY <1>1, <2>1, <2>6, <3>0, <3>1, <4>1 DEF Exact
      <3>2. CASE x = a
        <4>1. Fresh(c)
          BY <1>5, <2>2, <3>2
        <4>2. a \notin table[i]
          BY <1>1, <1>6, ChainsHoldStrings
        <4> QED
          BY <1>7, <1>10, <3>2, <4>1, <4>2
      <3> QED
        BY <3>1, <3>2
    <2> QED
      BY <2>3, <2>4, <2>8, <2>9
  <1>14. Len(calls) = 2 => /\ Settled <= calls[2].size * MaxLoad
                           /\ size >= calls[2].size \/ Settled + 1 <= size * MaxLoad
                           /\ calls[2].size > 0 /\ collecting /\ calls[2].raced
    BY <1>1, <1>3, <1>5 DEF Load, Stack
  <1>15. /\ c.size * MaxLoad \in Nat /\ size * MaxLoad \in Nat /\ c.size * MaxLoad >= 1
         /\ 2 * c.size * MaxLoad = 2 * (c.size * MaxLoad)
    <2>1. PICK m \in Nat \ {0} : m = c.size
      BY <1>5
    <2>2. PICK l \in Nat \ {0} : l = MaxLoad
      BY <1>6
    <2>3. PICK s \in Nat : s = size
      BY <1>6
    <2>4. m * l \in Nat /\ s * l \in Nat
      OBVIOUS
    <2>5. m * l >= 1
      <3>1. 1 * l <= m * l
        BY Monotonic
      <3> QED
        BY <3>1
    <2>6. 2 * m * l = 2 * (m * l)
      OBVIOUS
    <2> QED
      BY <2>1, <2>2, <2>3, <2>4, <2>5, <2>6
  <1>16. lost' \subseteq Addr
    BY <1>1, <1>4 DEF TypeOK

  <1>17. Cardinality(InTable') <= count' /\ count' \in Nat
    BY <1>4, <1>6, <1>8
  <1>18. count <= c.size * MaxLoad \/ Len(calls) = 2
    <2>1. CASE Len(calls) = 1 /\ c.deinit
      BY <1>1, <1>2, <1>3, <1>5, <2>1 DEF Load
    <2>2. CASE ~c.deinit
      <3>1. Settled = count
        BY <1>5, <2>2 DEF Settled
      <3> QED
        BY <1>1, <1>2, <1>3, <1>5, <2>2, <3>1 DEF Load
    <2> QED
      BY <1>3, <2>1, <2>2
  <1>19. CASE /\ count + 1 > c.size * MaxLoad
              /\ calls' = [calls EXCEPT ![1].step = "grow", ![1].result = a, ![1].stale = FALSE]
              /\ held' = held
    <2>1. PICK d : d = [c EXCEPT !.step = "grow", !.result = a, !.stale = FALSE]
      OBVIOUS
    <2>2. /\ d \in Frame /\ d.step = "grow" /\ d.result = a
          /\ d.size = c.size /\ d.bucket = c.bucket /\ d.str = c.str
          /\ d.stale = FALSE /\ d.deinit = c.deinit /\ d.raced = c.raced
      BY <2>1 DEF Frame
    <2>3. /\ calls' \in Seq(Frame) /\ DOMAIN calls' = DOMAIN calls /\ Len(calls') = Len(calls)
          /\ calls'[1] = d
          /\ \A k \in DOMAIN calls : k # 1 => calls'[k] = calls[k]
      <3>1. calls' = [calls EXCEPT ![1] = d]
        BY <1>1, <1>2, <1>3, <1>19, <2>1 DEF TypeOK
      <3>2. calls \in Seq(Frame)
        BY <1>1 DEF TypeOK
      <3> QED
        BY <1>3, <2>2, <3>1, <3>2
    <2>4. /\ DOMAIN calls' = 1 .. Len(calls') /\ Len(calls') \in {1, 2} /\ calls' # <<>>
          /\ Len(calls') = 2 => calls'[2] = calls[2]
      BY <1>3, <2>3
    <2>5. Fresh(c) => Fresh(d)'
      BY <1>1, <2>2 DEF Fresh
    <2>6. TypeOK'
      BY <1>1, <1>7, <1>10, <1>11, <1>16, <1>17, <2>3 DEF TypeOK
    <2>7. Stack'
      <3>1. /\ d.size > 0 /\ (d.deinit => collecting' /\ ~d.raced /\ Fresh(d)')
            /\ collecting' => d.deinit
        BY <1>1, <1>2, <1>3, <1>5, <2>2, <2>5 DEF Stack
      <3>2. Len(calls') = 2 => /\ calls'[1].deinit /\ ~calls'[2].deinit
                               /\ calls'[2].size > 0 /\ calls'[2].step = "create"
                               /\ calls'[2].raced
        BY <1>5, <1>14, <2>2, <2>3, <2>4
      <3>3. ASSUME NEW k \in DOMAIN calls'
            PROVE  /\ calls'[k].size > 0
                   /\ calls'[k].deinit => collecting' /\ ~calls'[k].raced /\ Fresh(calls[k])'
                   /\ collecting' /\ ~calls'[k].deinit => calls'[k].raced
        <4>1. CASE k = 1
          BY <2>3, <3>1, <4>1
        <4>2. CASE k = 2 /\ Len(calls') = 2
          BY <3>2, <4>2
        <4> QED
          BY <2>4, <4>1, <4>2
      <3>4. Len(calls') <= 2
        BY <2>4
      <3> QED
        BY <3>2, <3>3, <3>4 DEF Stack
    <2>8. Kept'
      <3>1. ASSUME NEW k \in DOMAIN calls', calls'[k].step = "grow"
            PROVE  /\ calls'[k].result \in Addr /\ text'[calls'[k].result] = calls'[k].str
                   /\ calls'[k].raced => calls'[k].result \in raced'
                   /\ ~calls'[k].raced => calls'[k].result \in InTable'
        <4>1. k = 1
          BY <1>5, <2>3, <2>4, <3>1
        <4> QED
          BY <1>1, <1>3, <1>10, <1>13, <2>2, <2>3, <4>1
      <3> QED
        BY <1>12, <3>1 DEF Kept
    <2>9. Load'
      <3>1. CASE Len(calls) = 1
        <4>1. count + 1 <= 2 * c.size * MaxLoad
          BY <1>6, <1>15, <1>18, <3>1
        <4>2. \A k \in DOMAIN calls' : k = 1
          BY <2>3, <2>4, <3>1
        <4>3. \A k \in DOMAIN calls' : calls'[k].step = "grow" /\ calls'[k].size = c.size
          BY <2>2, <2>3, <4>2
        <4> QED
          BY <1>4, <1>17, <2>4, <4>1, <4>3 DEF Load
      <3>2. CASE Len(calls) = 2
        <4>1. Len(calls') # 1 /\ calls'[2] = calls[2] /\ calls'[1].step # "create"
          BY <2>2, <2>3, <2>4, <3>2
        <4>2. \A k \in DOMAIN calls' : k = 1 \/ k = 2
          BY <2>3, <2>4, <3>2
        <4>3. Settled' = Settled
          BY <1>9, <1>14, <3>2
        <4>4. /\ Settled' <= calls'[2].size * MaxLoad
              /\ size' >= calls'[2].size \/ Settled' + 1 <= size' * MaxLoad
          BY <1>1, <1>14, <3>2, <4>1, <4>3
        <4> QED
          BY <1>17, <2>4, <4>1, <4>2, <4>4 DEF Load
      <3> QED
        BY <1>3, <3>1, <3>2
    <2>10. Exact'
      <3>1. ASSUME NEW k \in DOMAIN calls', ~calls'[k].raced
            PROVE  /\ Fresh(calls[k])'
                   /\ collecting' => calls'[k].deinit
                   /\ calls'[k].step # "create"
        <4>1. k = 1
          BY <1>14, <2>3, <2>4, <3>1
        <4> QED
          BY <1>1, <1>5, <2>2, <2>3, <2>5, <3>1, <4>1
      <3>2. \A i \in 0 .. size' - 1 : \A x \in table'[i] \ raced' : Bucket(text'[x], size') = i
        BY <1>1, <1>13
      <3> QED
        BY <1>8, <1>13, <3>1, <3>2 DEF Exact, Bucket
    <2> QED
      BY <2>6, <2>7, <2>8, <2>9, <2>10 DEF IInv
  <1>20. CASE /\ ~(count + 1 > c.size * MaxLoad)
              /\ calls' = Tail(calls)
              /\ held' = IF c.deinit THEN held ELSE held \cup {a}
    <2>1. /\ calls' \in Seq(Frame)
          /\ Len(calls) = 1 => calls' = <<>> /\ DOMAIN calls' = {}
          /\ Len(calls) = 2 => /\ Len(calls') = 1 /\ calls' # <<>> /\ DOMAIN calls' = {1}
                               /\ calls'[1] = calls[2]
      <3>1. /\ calls' \in Seq(Frame)
            /\ Len(calls') = Len(calls) - 1
            /\ Len(calls) = 2 => calls'[1] = calls[2]
            /\ Len(calls) = 1 => calls' = <<>>
        BY <1>1, <1>20, TopProperties
      <3>2. DOMAIN calls' = 1 .. Len(calls')
        BY <3>1
      <3>3. 1 .. 1 = {1}
        OBVIOUS
      <3>4. CASE Len(calls) = 1
        <4>1. calls' = <<>>
          BY <3>1, <3>4
        <4> QED
          BY <3>1, <3>4, <4>1
      <3>5. CASE Len(calls) = 2
        <4>1. Len(calls') = 1
          BY <3>1, <3>5
        <4>2. calls' # <<>>
          BY <4>1
        <4> QED
          BY <3>1, <3>2, <3>3, <3>5, <4>1, <4>2
      <3> QED
        BY <1>3, <3>1, <3>4, <3>5
    <2>2. TypeOK'
      BY <1>1, <1>7, <1>10, <1>11, <1>16, <1>17, <2>1 DEF TypeOK
    <2>3. ASSUME NEW k \in DOMAIN calls'
          PROVE  /\ k = 1 /\ Len(calls) = 2 /\ Len(calls') = 1
                 /\ calls'[k] = calls[2] /\ calls'[k].size > 0
                 /\ ~calls'[k].deinit /\ calls'[k].step = "create" /\ calls'[k].raced
      <3>1. Len(calls) = 2
        BY <1>3, <2>1, <2>3
      <3>2. k = 1
        BY <2>1, <2>3, <3>1
      <3> QED
        BY <1>5, <1>14, <2>1, <3>1, <3>2
    <2>4. Stack'
      <3>1. Len(calls') <= 2 /\ Len(calls') # 2
        <4>1. CASE Len(calls) = 1
          <5>1. calls' = <<>>
            BY <2>1, <4>1
          <5> QED
            BY <5>1
        <4>2. CASE Len(calls) = 2
          <5>1. Len(calls') = 1
            BY <2>1, <4>2
          <5> QED
            BY <5>1
        <4> QED
          BY <1>3, <4>1, <4>2
      <3> QED
        BY <2>3, <3>1 DEF Stack
    <2>5. Kept'
      <3>1. \A k \in DOMAIN calls' : calls'[k].step # "grow"
        BY <2>3
      <3> QED
        BY <1>12, <3>1 DEF Kept
    <2>6. Load'
      <3>1. calls' = <<>> => count' <= size' * MaxLoad
        <4> SUFFICES ASSUME Len(calls) = 1 PROVE count + 1 <= size * MaxLoad
          BY <1>1, <1>3, <1>4, <2>1
        <4>1. count + 1 <= c.size * MaxLoad
          BY <1>6, <1>15, <1>20
        <4>2. CASE c.deinit
          BY <1>5, <4>1, <4>2 DEF Fresh
        <4>3. CASE ~c.deinit
          <5>1. Settled = count
            BY <1>5, <4>3 DEF Settled
          <5>2. size >= c.size \/ count + 1 <= size * MaxLoad
            BY <1>1, <1>2, <1>3, <1>5, <4>3, <5>1 DEF Load
          <5>3. CASE size >= c.size
            <6>1. PICK m \in Nat : m = size
              BY <1>6
            <6>2. PICK n \in Nat : n = c.size
              BY <1>5
            <6>3. n * MaxLoad <= m * MaxLoad
              BY <1>6, <5>3, <6>1, <6>2, Monotonic
            <6> QED
              BY <1>6, <1>15, <4>1, <6>1, <6>2, <6>3
          <5> QED
            BY <5>2, <5>3
        <4> QED
          BY <4>2, <4>3
      <3>2. ASSUME NEW k \in DOMAIN calls'
            PROVE  /\ Settled' <= calls'[k].size * MaxLoad
                   /\ size' >= calls'[k].size \/ Settled' + 1 <= size' * MaxLoad
        <4>1. Len(calls) = 2 /\ calls'[k] = calls[2]
          BY <2>3, <3>2
        <4>2. Settled' = Settled
          BY <1>9, <1>14, <4>1
        <4> QED
          BY <1>1, <1>14, <4>1, <4>2
      <3> QED
        BY <1>17, <2>3, <3>1, <3>2 DEF Load
    <2>7. Exact'
      <3>1. \A i \in 0 .. size' - 1 : \A x \in table'[i] \ raced' : Bucket(text'[x], size') = i
        BY <1>1, <1>13
      <3> QED
        BY <1>8, <1>13, <2>3, <3>1 DEF Exact, Bucket
    <2> QED
      BY <2>2, <2>4, <2>5, <2>6, <2>7 DEF IInv
  <1> QED
    BY <1>4, <1>19, <1>20

----------------------------------------------------------------------------
(* The invariant, and what it gives. *)

LEMMA InitIInv ==
  ASSUME Init
  PROVE  IInv
  <1>1. /\ size = MinSize /\ count = 0
        /\ table = [i \in 0 .. MinSize - 1 |-> {}]
        /\ text = [a \in Addr |-> NONE]
        /\ held = {} /\ lost = {} /\ collecting = FALSE /\ dark = {}
        /\ calls = <<>> /\ raced = {} /\ swept = {}
    BY DEF Init
  <1>2. InTable = {} /\ Cardinality(InTable) = 0
    <2>1. InTable = {}
      BY <1>1 DEF InTable
    <2>2. Cardinality({}) = 0
      BY FS_EmptySet
    <2> QED
      BY <2>1, <2>2
  <1>3. <<>> \in Seq(Frame) /\ DOMAIN <<>> = {} /\ Len(<<>>) = 0
    OBVIOUS
  <1>4. TypeOK
    BY <1>1, <1>3, StrtabAssumption DEF TypeOK
  <1>5. Stack
    BY <1>1, <1>3 DEF Stack
  <1>6. Kept
    BY <1>1, <1>2, <1>3 DEF Kept
  <1>7. Load
    <2>1. 0 <= MinSize * MaxLoad
      BY StrtabAssumption
    <2> QED
      BY <1>1, <1>2, <1>3, <2>1 DEF Load
  <1>8. Exact
    <2>1. InTable \cup lost = {}
      BY <1>1, <1>2
    <2> QED
      BY <1>1, <1>2, <1>3, <2>1 DEF Exact
  <1> QED
    BY <1>4, <1>5, <1>6, <1>7, <1>8 DEF IInv

LEMMA NextKeepsIInv ==
  ASSUME IInv, [Next]_vars
  PROVE  IInv'
  <1>1. ASSUME NEW t \in Text, Found(t) PROVE IInv'
    BY <1>1, FoundKeepsIInv
  <1>2. ASSUME NEW t \in Text, NotFound(t) PROVE IInv'
    BY <1>2, NotFoundKeepsIInv
  <1>3. ASSUME NEW a \in Addr, Link(a) PROVE IInv'
    BY <1>3, LinkKeepsIInv
  <1>4. ASSUME NEW a \in Addr, Drop(a) PROVE IInv'
    BY <1>4, DropKeepsIInv
  <1>5. CASE Grow
    BY <1>5, GrowKeepsIInv
  <1>6. CASE Collect
    BY <1>6, CollectKeepsIInv
  <1>7. CASE be_gcstrtab
    BY <1>7, SweepKeepsIInv
  <1>8. CASE UNCHANGED vars
    <2>1. UNCHANGED <<size, count, table, text, held, lost, collecting, dark, calls, raced, swept>>
      BY <1>8 DEF vars
    <2>2. InTable' = InTable
      BY <2>1 DEF InTable
    <2>3. TypeOK' /\ Stack'
      BY <2>1 DEF IInv, TypeOK, Stack, Fresh
    <2>4. Kept'
      BY <2>1, <2>2 DEF IInv, Kept
    <2>5. Load'
      BY <2>1, <2>2 DEF IInv, Load, Settled
    <2>6. Exact'
      BY <2>1, <2>2 DEF IInv, Exact, Fresh
    <2> QED
      BY <2>3, <2>4, <2>5, <2>6 DEF IInv
  <1> QED
    BY <1>1, <1>2, <1>3, <1>4, <1>5, <1>6, <1>7, <1>8 DEF Next

\* The invariant that the results below rest on: stack of calls, marks, load and
\* chains of the table (be_string.c), whatever the texts, hashes and thresholds.
THEOREM StrtabInvariant == Spec => []IInv
  <1>1. Init => IInv
    BY InitIInv
  <1>2. IInv /\ [Next]_vars => IInv'
    BY NextKeepsIInv
  <1> QED
    BY <1>1, <1>2, PTL DEF Spec

\* Every variable of the table keeps its type; the table never has size 0, so
\* the mask of a lookup, hash & (size - 1), is one.
THEOREM StrtabTyped == Spec => []TypeOK
  <1>1. IInv => TypeOK
    BY DEF IInv
  <1> QED
    BY <1>1, StrtabInvariant, PTL

\* Two strings that the program holds and that say the same are one object,
\* unless a collection has come between the lookup and the insertion of one of
\* them: be_eqstr compares the pointers of short strings (be_string.c:71).
THEOREM UniqueAlways == Spec => []UniqueUnlessRaced
  <1>1. IInv => UniqueUnlessRaced
    <2> SUFFICES ASSUME IInv, NEW a \in held \ raced, NEW b \in held \ raced, text[a] = text[b]
                 PROVE  a = b
      BY DEF UniqueUnlessRaced
    <2>1. /\ held \ raced \subseteq InTable
          /\ \A x, y \in InTable \ raced : text[x] = text[y] => x = y
      BY DEF IInv, Exact
    <2> QED
      BY <2>1
  <1> QED
    BY <1>1, StrtabInvariant, PTL

\* The sweep frees no string that the program holds, nor one that a call has
\* linked and not yet returned, whenever it comes, except the string for which
\* the table is growing when the memory for that ends (be_gcstrtab, newshortstr).
THEOREM HeldAliveAlways == Spec => []HeldAlive
  <1>1. IInv => HeldAlive
    BY DEF IInv, Kept, HeldAlive
  <1> QED
    BY <1>1, StrtabInvariant, PTL

\* Every string no collection has come between is where a lookup of its text
\* searches; the counter that decides growth counts the strings there are; the
\* table is as long as they need between calls; and what is in use is alive
\* (resize, newshortstr, be_gcstrtab).
THEOREM TableExactAlways == Spec => []TableExact
  <1>1. IInv => Placed
    <2> SUFFICES ASSUME IInv, NEW i \in 0 .. size - 1, NEW a \in table[i]
                 PROVE  text[a] # NONE /\ (a \notin raced => Bucket(text[a], size) = i)
      BY DEF Placed
    <2>1. a \in InTable
      BY ChainsHoldStrings DEF IInv
    <2> QED
      BY <2>1 DEF IInv, Kept, Exact
  <1>2. IInv => CountExact /\ LoadBounded
    BY DEF IInv, Exact, CountExact, Load, LoadBounded
  <1>3. IInv => TableExact
    BY <1>1, <1>2 DEF TableExact, HeldAlive, IInv, Kept
  <1> QED
    BY <1>3, StrtabInvariant, PTL

----------------------------------------------------------------------------
(* Numbers. *)

\* A set of numbers that is not empty has a least one.
LEMMA Least ==
    ASSUME NEW S \in SUBSET Nat, S # {}
    PROVE  \E n \in S : \A k \in S : n <= k
  <1> DEFINE less == OpToRel(<, Nat)
  <1>1. \E n \in S : \A k \in S : <<k, n>> \notin less
    <2>1. IsWellFoundedOn(less, Nat)
      BY NatLessThanWellFounded
    <2> HIDE DEF less
    <2> QED
      BY <2>1, WFMin
  <1>2. PICK n \in S : \A k \in S : <<k, n>> \notin less
    BY <1>1
  <1>3. ASSUME NEW k \in S PROVE n <= k
    <2>1. <<k, n>> \in Nat \X Nat /\ <<k, n>> \notin {p \in Nat \X Nat : p[1] < p[2]}
      BY <1>2, Zenon DEF OpToRel
    <2> QED
      BY <2>1
  <1> QED
    BY <1>3

\* One up to n has a greatest.
LEMMA Greatest ==
    ASSUME NEW n \in Nat, NEW S \in SUBSET (0 .. n), S # {}
    PROVE  \E m \in S : \A k \in S : k <= m
  <1> DEFINE T == {n - k : k \in S}
  <1>0. \A k \in S : k \in Nat /\ n - k \in Nat
    OBVIOUS
  <1>1. T \in SUBSET Nat /\ T # {}
    BY <1>0
  <1>2. PICK d \in T : \A k \in T : d <= k
    <2> HIDE DEF T
    <2> QED
      BY <1>1, Least
  <1>3. PICK m \in S : d = n - m
    BY <1>2
  <1>4. ASSUME NEW k \in S PROVE k <= m
    <2>1. n - k \in T
      OBVIOUS
    <2>2. n - m <= n - k
      BY <2>1, <1>2, <1>3
    <2> QED
      BY <2>2, <1>0
  <1> QED
    BY <1>4

\* Induction up to n.
LEMMA UpTo ==
    ASSUME NEW n \in Nat, NEW P, 0 \in P,
           \A i \in 0 .. n : i < n /\ i \in P => i + 1 \in P
    PROVE  0 .. n \subseteq P
  <1> SUFFICES ASSUME (0 .. n) \ P # {} PROVE FALSE
    OBVIOUS
  <1>1. PICK m \in (0 .. n) \ P : \A k \in (0 .. n) \ P : m <= k
    <2>1. (0 .. n) \ P \in SUBSET Nat
      OBVIOUS
    <2> QED
      BY <2>1, Least
  <1>2. m - 1 \in 0 .. n /\ m - 1 \in P
    BY <1>1
  <1> QED
    BY <1>1, <1>2

LEMMA MaxIs ==
    ASSUME NEW n \in Nat, NEW S \in SUBSET (1 .. n), S # {}
    PROVE  Max(S) \in S /\ \A k \in S : k <= Max(S)
  <1>1. PICK m \in S : \A k \in S : k <= m
    <2>1. S \in SUBSET (0 .. n)
      OBVIOUS
    <2> QED
      BY <2>1, Greatest
  <1>2. \E x \in S : \A y \in S : x >= y
    BY <1>1
  <1>3. Max(S) \in S /\ \A y \in S : Max(S) >= y
    BY <1>2, Zenon DEF Max
  <1> QED
    BY <1>3

----------------------------------------------------------------------------
(* Loops. *)

\* What the loop around buf_add1 computes for the sets of indices up to m.
EachUpTo(g, s, a, m) ==
    g = [q \in SUBSET (1 .. m) |->
           IF q = {} THEN a ELSE buf_add(g[q \ {Max(q)}], <<s[Max(q)]>>)]

LEMMA EachUpToExist ==
    ASSUME NEW n \in Nat, NEW s, NEW a
    PROVE  \E g : EachUpTo(g, s, a, n)
  <1> DEFINE P == {m \in 0 .. n : \E g : EachUpTo(g, s, a, m)}
  <1>1. 0 \in P
    <2> DEFINE g == [q \in SUBSET (1 .. 0) |-> a]
    <2>1. \A q \in SUBSET (1 .. 0) : q = {}
      OBVIOUS
    <2>2. g = [q \in SUBSET (1 .. 0) |->
                 IF q = {} THEN a ELSE buf_add(g[q \ {Max(q)}], <<s[Max(q)]>>)]
      BY <2>1, Zenon
    <2> HIDE DEF g
    <2>3. EachUpTo(g, s, a, 0)
      BY <2>2 DEF EachUpTo
    <2> QED
      BY <2>3
  <1>2. ASSUME NEW m \in 0 .. n, m < n, m \in P PROVE m + 1 \in P
    <2>1. PICK g : EachUpTo(g, s, a, m)
      BY <1>2
    <2> DEFINE h == [q \in SUBSET (1 .. m + 1) |->
                       IF m + 1 \in q THEN buf_add(g[q \ {m + 1}], <<s[m + 1]>>) ELSE g[q]]
    <2>2. ASSUME NEW q \in SUBSET (1 .. m + 1)
          PROVE  h[q] = IF q = {} THEN a ELSE buf_add(h[q \ {Max(q)}], <<s[Max(q)]>>)
      <3>1. CASE m + 1 \in q
        <4>1. Max(q) = m + 1
          <5>1. m + 1 \in Nat /\ q # {}
            BY <3>1
          <5>2. Max(q) \in q /\ m + 1 <= Max(q)
            BY <5>1, <3>1, MaxIs
          <5>3. Max(q) \in 1 .. m + 1
            BY <5>2
          <5> QED
            BY <5>1, <5>2, <5>3
        <4>2. q \ {m + 1} \in SUBSET (1 .. m + 1) /\ m + 1 \notin q \ {m + 1}
          OBVIOUS
        <4>3. h[q \ {m + 1}] = g[q \ {m + 1}]
          BY <4>2
        <4>4. h[q] = buf_add(g[q \ {m + 1}], <<s[m + 1]>>)
          BY <3>1
        <4> HIDE DEF h
        <4> QED
          BY <4>1, <4>3, <4>4, <3>1
      <3>2. CASE m + 1 \notin q
        <4>1. q \in SUBSET (1 .. m)
          BY <3>2
        <4>2. h[q] = g[q]
          BY <3>2
        <4>3. g[q] = IF q = {} THEN a ELSE buf_add(g[q \ {Max(q)}], <<s[Max(q)]>>)
          BY <4>1, <2>1 DEF EachUpTo
        <4>4. q \ {Max(q)} \in SUBSET (1 .. m + 1) /\ m + 1 \notin q \ {Max(q)}
          BY <3>2
        <4>5. h[q \ {Max(q)}] = g[q \ {Max(q)}]
          BY <4>4
        <4> HIDE DEF h
        <4> QED
          BY <4>2, <4>3, <4>5
      <3> QED
        BY <3>1, <3>2
    <2>3. h = [q \in SUBSET (1 .. m + 1) |-> h[q]]
      OBVIOUS
    <2> HIDE DEF h
    <2>4. EachUpTo(h, s, a, m + 1)
      BY <2>2, <2>3 DEF EachUpTo
    <2>5. m + 1 \in 0 .. n
      BY <1>2
    <2> QED
      BY <2>4, <2>5
  <1> HIDE DEF P
  <1>3. n \in P
    BY <1>1, <1>2, UpTo
  <1> QED
    BY <1>3 DEF P

EachSteps(f, n, s, a) ==
    /\ f[0] = a
    /\ \A i \in 1 .. n : f[i] = buf_add(f[i - 1], <<s[i]>>)
    /\ buf_add_each(a, s) = f[n]

LEMMA EachGoes ==
    ASSUME NEW n \in Nat, NEW s, NEW a, DOMAIN s = 1 .. n
    PROVE  \E f : EachSteps(f, n, s, a)
  <1> DEFINE body(k) == [q \in SUBSET (DOMAIN s) |->
                           IF q = {} THEN a ELSE buf_add(k[q \ {Max(q)}], <<s[Max(q)]>>)]
             K == CHOOSE k : k = body(k)
             f == [i \in 0 .. n |-> K[1 .. i]]
  <1>1. buf_add_each(a, s) = K[DOMAIN s]
    BY DEF buf_add_each, FoldLeft, MapThenFoldSet
  <1>2. PICK g : EachUpTo(g, s, a, n)
    BY EachUpToExist
  <1>3. g = body(g)
    BY <1>2 DEF EachUpTo
  <1>4. K = body(K)
    <2> HIDE DEF body
    <2> QED
      BY <1>3, Zenon
  <1> HIDE DEF K
  <1>5. f[0] = a
    <2>1. f[0] = K[1 .. 0] /\ 1 .. 0 = {}
      OBVIOUS
    <2>2. K[{}] = a
      BY <1>4
    <2> HIDE DEF f
    <2> QED
      BY <2>1, <2>2
  <1>6. ASSUME NEW i \in 1 .. n PROVE f[i] = buf_add(f[i - 1], <<s[i]>>)
    <2>1. 1 .. i \in SUBSET (DOMAIN s) /\ 1 .. i # {} /\ i \in 1 .. i
      OBVIOUS
    <2>2. Max(1 .. i) = i
      <3>1. Max(1 .. i) \in 1 .. i /\ i <= Max(1 .. i)
        BY <2>1, MaxIs
      <3> QED
        BY <3>1
    <2>3. (1 .. i) \ {i} = 1 .. i - 1
      OBVIOUS
    <2>4. K[1 .. i] = buf_add(K[(1 .. i) \ {Max(1 .. i)}], <<s[Max(1 .. i)]>>)
      BY <1>4, <2>1, Zenon
    <2>5. f[i] = K[1 .. i] /\ f[i - 1] = K[1 .. i - 1]
      OBVIOUS
    <2> HIDE DEF f
    <2> QED
      BY <2>2, <2>3, <2>4, <2>5
  <1>8. f[n] = K[DOMAIN s]
    OBVIOUS
  <1>9. buf_add_each(a, s) = f[n]
    BY <1>1, <1>8
  <1> HIDE DEF f, K
  <1> QED
    BY <1>5, <1>6, <1>9, Zenon DEF EachSteps

Total(s) == FoldLeft(LAMBDA sum, x : sum + x, 0, s)

\* What a sum computes for the sets of indices up to m.
TotalUpTo(g, s, m) ==
    g = [q \in SUBSET (1 .. m) |->
           IF q = {} THEN 0 ELSE g[q \ {Max(q)}] + s[Max(q)]]

LEMMA TotalUpToExist ==
    ASSUME NEW n \in Nat, NEW s
    PROVE  \E g : TotalUpTo(g, s, n)
  <1> DEFINE P == {m \in 0 .. n : \E g : TotalUpTo(g, s, m)}
  <1>1. 0 \in P
    <2> DEFINE g == [q \in SUBSET (1 .. 0) |-> 0]
    <2>1. \A q \in SUBSET (1 .. 0) : q = {}
      OBVIOUS
    <2>2. g = [q \in SUBSET (1 .. 0) |->
                 IF q = {} THEN 0 ELSE g[q \ {Max(q)}] + s[Max(q)]]
      BY <2>1, Zenon
    <2> HIDE DEF g
    <2>3. TotalUpTo(g, s, 0)
      BY <2>2 DEF TotalUpTo
    <2> QED
      BY <2>3
  <1>2. ASSUME NEW m \in 0 .. n, m < n, m \in P PROVE m + 1 \in P
    <2>1. PICK g : TotalUpTo(g, s, m)
      BY <1>2
    <2> DEFINE h == [q \in SUBSET (1 .. m + 1) |->
                       IF m + 1 \in q THEN g[q \ {m + 1}] + s[m + 1] ELSE g[q]]
    <2>2. ASSUME NEW q \in SUBSET (1 .. m + 1)
          PROVE  h[q] = IF q = {} THEN 0 ELSE h[q \ {Max(q)}] + s[Max(q)]
      <3>1. CASE m + 1 \in q
        <4>1. Max(q) = m + 1
          <5>1. m + 1 \in Nat /\ q # {}
            BY <3>1
          <5>2. Max(q) \in q /\ m + 1 <= Max(q)
            BY <5>1, <3>1, MaxIs
          <5>3. Max(q) \in 1 .. m + 1
            BY <5>2
          <5> QED
            BY <5>1, <5>2, <5>3
        <4>2. q \ {m + 1} \in SUBSET (1 .. m + 1) /\ m + 1 \notin q \ {m + 1}
          OBVIOUS
        <4>3. h[q \ {m + 1}] = g[q \ {m + 1}]
          BY <4>2
        <4>4. h[q] = g[q \ {m + 1}] + s[m + 1]
          BY <3>1
        <4> HIDE DEF h
        <4> QED
          BY <4>1, <4>3, <4>4, <3>1
      <3>2. CASE m + 1 \notin q
        <4>1. q \in SUBSET (1 .. m)
          BY <3>2
        <4>2. h[q] = g[q]
          BY <3>2
        <4>3. g[q] = IF q = {} THEN 0 ELSE g[q \ {Max(q)}] + s[Max(q)]
          BY <4>1, <2>1 DEF TotalUpTo
        <4>4. q \ {Max(q)} \in SUBSET (1 .. m + 1) /\ m + 1 \notin q \ {Max(q)}
          BY <3>2
        <4>5. h[q \ {Max(q)}] = g[q \ {Max(q)}]
          BY <4>4
        <4> HIDE DEF h
        <4> QED
          BY <4>2, <4>3, <4>5
      <3> QED
        BY <3>1, <3>2
    <2>3. h = [q \in SUBSET (1 .. m + 1) |-> h[q]]
      OBVIOUS
    <2> HIDE DEF h
    <2>4. TotalUpTo(h, s, m + 1)
      BY <2>2, <2>3 DEF TotalUpTo
    <2>5. m + 1 \in 0 .. n
      BY <1>2
    <2> QED
      BY <2>4, <2>5
  <1> HIDE DEF P
  <1>3. n \in P
    BY <1>1, <1>2, UpTo
  <1> QED
    BY <1>3 DEF P

TotalSteps(f, n, s) ==
    /\ f[0] = 0
    /\ \A i \in 1 .. n : f[i] = f[i - 1] + s[i]
    /\ Total(s) = f[n]

LEMMA TotalGoes ==
    ASSUME NEW n \in Nat, NEW s, DOMAIN s = 1 .. n
    PROVE  \E f : TotalSteps(f, n, s)
  <1> DEFINE body(k) == [q \in SUBSET (DOMAIN s) |->
                           IF q = {} THEN 0 ELSE k[q \ {Max(q)}] + s[Max(q)]]
             K == CHOOSE k : k = body(k)
             f == [i \in 0 .. n |-> K[1 .. i]]
  <1>1. Total(s) = K[DOMAIN s]
    BY DEF Total, FoldLeft, MapThenFoldSet
  <1>2. PICK g : TotalUpTo(g, s, n)
    BY TotalUpToExist
  <1>3. g = body(g)
    BY <1>2 DEF TotalUpTo
  <1>4. K = body(K)
    <2> HIDE DEF body
    <2> QED
      BY <1>3, Zenon
  <1> HIDE DEF K
  <1>5. f[0] = 0
    <2>1. f[0] = K[1 .. 0] /\ 1 .. 0 = {}
      OBVIOUS
    <2>2. K[{}] = 0
      BY <1>4
    <2> HIDE DEF f
    <2> QED
      BY <2>1, <2>2
  <1>6. ASSUME NEW i \in 1 .. n PROVE f[i] = f[i - 1] + s[i]
    <2>1. 1 .. i \in SUBSET (DOMAIN s) /\ 1 .. i # {} /\ i \in 1 .. i
      OBVIOUS
    <2>2. Max(1 .. i) = i
      <3>1. Max(1 .. i) \in 1 .. i /\ i <= Max(1 .. i)
        BY <2>1, MaxIs
      <3> QED
        BY <3>1
    <2>3. (1 .. i) \ {i} = 1 .. i - 1
      OBVIOUS
    <2>4. K[1 .. i] = K[(1 .. i) \ {Max(1 .. i)}] + s[Max(1 .. i)]
      BY <1>4, <2>1, Zenon
    <2>5. f[i] = K[1 .. i] /\ f[i - 1] = K[1 .. i - 1]
      OBVIOUS
    <2> HIDE DEF f
    <2> QED
      BY <2>2, <2>3, <2>4, <2>5
  <1>8. f[n] = K[DOMAIN s]
    OBVIOUS
  <1>9. Total(s) = f[n]
    BY <1>1, <1>8
  <1> HIDE DEF f, K
  <1> QED
    BY <1>5, <1>6, <1>9, Zenon DEF TotalSteps

----------------------------------------------------------------------------
(* Copies of the attributes. *)

Byte == 0 .. 255
Cell == Byte \cup {JUNK}

Kinds == {"growing", "fixed", "mapped"}

Copy(a) ==
    /\ a = [buf |-> a.buf, len |-> a.len, kind |-> a.kind, moved |-> a.moved]
    /\ a.buf \in Seq(Cell) /\ a.len \in Nat

\* A copy of the attributes whose bytes are s.
Holds(a, s) ==
    /\ Copy(a) /\ s \in Seq(Byte)
    /\ a.len = Len(s) /\ a.len <= Len(a.buf)
    /\ \A i \in 1 .. a.len : a.buf[i] = s[i]

\* The kind stays, and whether the buffer may have moved.
Same(b, a) == b.kind = a.kind /\ b.moved = a.moved

LEMMA NewBuf ==
    ASSUME NEW a, Copy(a), NEW x
    PROVE  [a EXCEPT !.buf = x] = [buf |-> x, len |-> a.len, kind |-> a.kind, moved |-> a.moved]
  BY DEF Copy

LEMMA NewLen ==
    ASSUME NEW a, Copy(a), NEW x
    PROVE  [a EXCEPT !.len = x] = [buf |-> a.buf, len |-> x, kind |-> a.kind, moved |-> a.moved]
  BY DEF Copy

LEMMA NewMoved ==
    ASSUME NEW a, Copy(a), NEW x
    PROVE  [a EXCEPT !.moved = x] = [buf |-> a.buf, len |-> a.len, kind |-> a.kind, moved |-> x]
  BY DEF Copy

LEMMA NewLenBuf ==
    ASSUME NEW a, Copy(a), NEW n \in Nat, NEW x
    PROVE  [a EXCEPT !.len = n, !.buf = x] = [buf |-> x, len |-> n, kind |-> a.kind, moved |-> a.moved]
  <1> DEFINE b == [a EXCEPT !.len = n]
  <1>1. b = [buf |-> a.buf, len |-> n, kind |-> a.kind, moved |-> a.moved]
    BY NewLen
  <1>2. Copy(b) /\ b.len = n /\ b.kind = a.kind /\ b.moved = a.moved
    BY <1>1 DEF Copy
  <1> HIDE DEF b
  <1>3. [b EXCEPT !.buf = x] = [buf |-> x, len |-> n, kind |-> a.kind, moved |-> a.moved]
    BY <1>2, NewBuf
  <1> QED
    BY <1>3 DEF b

LEMMA NewMovedBuf ==
    ASSUME NEW a, Copy(a), NEW x
    PROVE  [a EXCEPT !.moved = TRUE, !.buf = x] = [buf |-> x, len |-> a.len, kind |-> a.kind, moved |-> TRUE]
  <1> DEFINE yes == TRUE
             b == [a EXCEPT !.moved = yes]
  <1> HIDE DEF yes
  <1>1. b = [buf |-> a.buf, len |-> a.len, kind |-> a.kind, moved |-> yes]
    BY NewMoved
  <1>2. Copy(b) /\ b.len = a.len /\ b.kind = a.kind /\ b.moved = yes
    BY <1>1 DEF Copy
  <1> HIDE DEF b
  <1>3. [b EXCEPT !.buf = x] = [buf |-> x, len |-> a.len, kind |-> a.kind, moved |-> yes]
    BY <1>2, NewBuf
  <1> QED
    BY <1>3, Zenon DEF b, yes

LEMMA DataIs ==
    ASSUME NEW a, NEW s, Holds(a, s)
    PROVE  Data(a) = s
  <1>1. Data(a) \in Seq(Cell) /\ Len(Data(a)) = a.len /\ \A i \in 1 .. a.len : Data(a)[i] = a.buf[i]
    BY DEF Data, Holds, Copy
  <1>2. Data(a) \in Seq(Cell) /\ s \in Seq(Byte) /\ Len(Data(a)) = Len(s) /\ \A i \in 1 .. Len(s) : Data(a)[i] = s[i]
    BY <1>1 DEF Holds
  <1> HIDE DEF Data
  <1> QED
    BY <1>2

\* The object as a copy: what it holds.
LEMMA HoldsData ==
    ASSUME NEW a, Copy(a), a.len <= Len(a.buf), \A i \in 1 .. a.len : a.buf[i] \in Byte
    PROVE  Holds(a, Data(a)) /\ Data(a) \in Seq(Byte) /\ Len(Data(a)) = a.len
  <1>1. Data(a) \in Seq(Cell) /\ Len(Data(a)) = a.len /\ \A i \in 1 .. a.len : Data(a)[i] = a.buf[i]
    BY DEF Data, Copy
  <1> HIDE DEF Data
  <1>2. Data(a) \in Seq(Byte)
    BY <1>1
  <1> QED
    BY <1>1, <1>2 DEF Holds

LEMMA SeqMade ==
    ASSUME NEW S, NEW n \in Nat, NEW x, x = [i \in 1 .. n |-> x[i]], \A i \in 1 .. n : x[i] \in S
    PROVE  x \in Seq(S) /\ Len(x) = n
  OBVIOUS

LEMMA JunkIs ==
    ASSUME NEW n \in Nat
    PROVE  Junk(n) \in Seq(Cell) /\ Len(Junk(n)) = n
  BY DEF Junk, Cell

\* What realloc keeps, and how much there is room for.
LEMMA ReallocIs ==
    ASSUME BytesAssumption, NEW a, Copy(a), NEW n \in Nat, n <= MaxSize
    PROVE  /\ Copy(bytes_realloc(a, n)) /\ bytes_realloc(a, n).len = a.len
           /\ bytes_realloc(a, n).kind = a.kind
           /\ n <= Len(bytes_realloc(a, n).buf)
           /\ a.kind # "growing" => Len(bytes_realloc(a, n).buf) = n
           /\ a.len <= n => a.len <= Len(bytes_realloc(a, n).buf)
           /\ \A i \in 1 .. Len(a.buf) : i <= n => bytes_realloc(a, n).buf[i] = a.buf[i]
  <1> DEFINE low  == IF a.kind = "growing" /\ n < 4 THEN 4 ELSE n
             room == IF low > MaxSize THEN MaxSize ELSE low
             x    == IF room <= Len(a.buf) THEN SubSeq(a.buf, 1, room) ELSE a.buf \o Junk(room - Len(a.buf))
             b    == bytes_realloc(a, n)
  <1>1. b = [buf |-> x, len |-> a.len, kind |-> a.kind, moved |-> TRUE]
    BY NewMovedBuf DEF bytes_realloc
  <1>2. /\ room \in Nat /\ n <= room
        /\ a.kind # "growing" => room = n
    BY DEF BytesAssumption
  <1>3. a.buf \in Seq(Cell) /\ a.len \in Nat
    BY DEF Copy
  <1> HIDE DEF room
  <1>4. /\ x \in Seq(Cell) /\ Len(x) = room
        /\ \A i \in 1 .. Len(a.buf) : i <= room => x[i] = a.buf[i]
    <2>1. CASE room <= Len(a.buf)
      <3>1. /\ SubSeq(a.buf, 1, room) \in Seq(Cell) /\ Len(SubSeq(a.buf, 1, room)) = room
            /\ \A i \in 1 .. room : SubSeq(a.buf, 1, room)[i] = a.buf[i]
        BY <1>2, <1>3, <2>1
      <3> QED
        BY <3>1, <2>1, <1>2
    <2>2. CASE ~(room <= Len(a.buf))
      <3> DEFINE j == Junk(room - Len(a.buf))
      <3>0. room - Len(a.buf) \in Nat
        BY <1>2, <1>3, <2>2
      <3>1. j \in Seq(Cell) /\ Len(j) = room - Len(a.buf)
        BY <3>0, JunkIs
      <3> HIDE DEF j
      <3>2. /\ a.buf \o j \in Seq(Cell) /\ Len(a.buf \o j) = room
            /\ \A i \in 1 .. Len(a.buf) : (a.buf \o j)[i] = a.buf[i]
        BY <3>1, <1>2, <1>3
      <3>3. x = a.buf \o j
        BY <2>2 DEF j
      <3> QED
        BY <3>2, <3>3, ZenonT(40)
    <2> QED
      BY <2>1, <2>2
  <1> HIDE DEF x, b
  <1>5. b.buf = x /\ b.len = a.len /\ b.kind = a.kind /\ b.moved = TRUE
    BY <1>1
  <1>6. Copy(b)
    BY <1>1, <1>3, <1>4, <1>5 DEF Copy
  <1>7. n <= Len(b.buf)
    BY <1>2, <1>4, <1>5
  <1>8. a.kind # "growing" => Len(b.buf) = n
    BY <1>2, <1>4, <1>5
  <1>9. a.len <= n => a.len <= Len(b.buf)
    BY <1>2, <1>3, <1>4, <1>5
  <1>10. \A i \in 1 .. Len(a.buf) : i <= n => b.buf[i] = a.buf[i]
    BY <1>2, <1>3, <1>4, <1>5
  <1> QED
    BY <1>5, <1>6, <1>7, <1>8, <1>9, <1>10 DEF b

\* Room for n bytes, and what was in the first n stays.
LEMMA ResizeIs ==
    ASSUME BytesAssumption, NEW a, Copy(a), NEW n \in Nat, n <= MaxSize,
           a.kind = "mapped" => n <= Len(a.buf)
    PROVE  /\ Copy(bytes_resize(a, n)) /\ bytes_resize(a, n).len = a.len
           /\ bytes_resize(a, n).kind = a.kind
           /\ n <= Len(bytes_resize(a, n).buf)
           /\ \A i \in 1 .. Len(a.buf) : i <= n => bytes_resize(a, n).buf[i] = a.buf[i]
  <1>0. a.buf \in Seq(Cell) /\ KeepSize \in Nat
    BY DEF Copy, BytesAssumption
  <1>1. CASE \/ a.kind = "mapped"
             \/ Len(a.buf) >= n /\ (Len(a.buf) <= KeepSize \/ Len(a.buf) < 2 * n)
    <2>1. bytes_resize(a, n) = a
      BY <1>1 DEF bytes_resize
    <2>2. n <= Len(a.buf)
      BY <1>0, <1>1
    <2> QED
      BY <2>1, <2>2
  <1>2. CASE ~(\/ a.kind = "mapped"
               \/ Len(a.buf) >= n /\ (Len(a.buf) <= KeepSize \/ Len(a.buf) < 2 * n))
    <2>1. bytes_resize(a, n) = bytes_realloc(a, n)
      BY <1>2 DEF bytes_resize
    <2> QED
      BY <2>1, ReallocIs
  <1> QED
    BY <1>1, <1>2

\* With at least as much room, the bytes stay.
LEMMA ResizeHolds ==
    ASSUME BytesAssumption, NEW a, NEW s, Holds(a, s), NEW n \in Nat, n <= MaxSize, Len(s) <= n,
           a.kind = "mapped" => n <= Len(a.buf)
    PROVE  /\ Holds(bytes_resize(a, n), s) /\ n <= Len(bytes_resize(a, n).buf)
           /\ bytes_resize(a, n).kind = a.kind
  <1> DEFINE b == bytes_resize(a, n)
  <1>0. Copy(a) /\ a.len = Len(s) /\ a.len \in Nat /\ a.buf \in Seq(Cell) /\ a.len <= Len(a.buf) /\ s \in Seq(Byte)
    BY DEF Holds, Copy
  <1>1. /\ Copy(b) /\ b.len = a.len /\ b.kind = a.kind /\ n <= Len(b.buf)
        /\ \A i \in 1 .. Len(a.buf) : i <= n => b.buf[i] = a.buf[i]
    BY <1>0, ResizeIs
  <1> HIDE DEF b
  <1>2. \A i \in 1 .. a.len : b.buf[i] = s[i]
    <2> TAKE i \in 1 .. a.len
    <2>1. i \in 1 .. Len(a.buf) /\ i <= n
      BY <1>0
    <2> QED
      BY <2>1, <1>1 DEF Holds
  <1>3. b.buf \in Seq(Cell)
    BY <1>1 DEF Copy
  <1>4. b.len <= Len(b.buf)
    BY <1>0, <1>1, <1>3
  <1>5. Holds(b, s)
    BY <1>0, <1>1, <1>2, <1>4 DEF Holds
  <1> QED
    BY <1>1, <1>5 DEF b

\* The bytes are written behind those that there are, when there is room.
LEMMA AddHolds ==
    ASSUME NEW a, NEW s, Holds(a, s), NEW t \in Seq(Byte), Len(s) + Len(t) <= Len(a.buf)
    PROVE  /\ Holds(buf_add(a, t), s \o t) /\ Len(buf_add(a, t).buf) = Len(a.buf)
           /\ Same(buf_add(a, t), a)
  <1> DEFINE x == [i \in DOMAIN a.buf |-> IF i \in a.len + 1 .. a.len + Len(t) THEN t[i - a.len] ELSE a.buf[i]]
             b == buf_add(a, t)
             u == s \o t
  <1>0. /\ Copy(a) /\ a.len = Len(s) /\ a.len \in Nat /\ a.buf \in Seq(Cell) /\ a.len <= Len(a.buf) /\ s \in Seq(Byte)
        /\ \A i \in 1 .. a.len : a.buf[i] = s[i]
    BY DEF Holds, Copy
  <1>1. b = [a EXCEPT !.len = a.len + Len(t), !.buf = x]
    BY <1>0 DEF buf_add, Copy
  <1>2. b = [buf |-> x, len |-> a.len + Len(t), kind |-> a.kind, moved |-> a.moved]
    BY <1>0, <1>1, NewLenBuf, ZenonT(40)
  <1>3. x \in Seq(Cell) /\ Len(x) = Len(a.buf)
    <2>1. DOMAIN a.buf = 1 .. Len(a.buf) /\ Len(a.buf) \in Nat
      BY <1>0
    <2>2. \A i \in 1 .. Len(a.buf) : x[i] \in Cell
      BY <1>0 DEF Cell
    <2>3. x = [i \in 1 .. Len(a.buf) |-> x[i]]
      BY <2>1
    <2> HIDE DEF x
    <2> QED
      BY <2>1, <2>2, <2>3, SeqMade
  <1>4. u \in Seq(Byte) /\ Len(u) = a.len + Len(t)
    BY <1>0
  <1>5. \A i \in 1 .. a.len + Len(t) : x[i] = u[i]
    <2> TAKE i \in 1 .. a.len + Len(t)
    <2>1. i \in DOMAIN a.buf
      BY <1>0
    <2>2. CASE i <= a.len
      BY <2>1, <2>2, <1>0
    <2>3. CASE i > a.len
      BY <2>1, <2>3, <1>0
    <2> QED
      BY <2>2, <2>3, <1>0
  <1> HIDE DEF x, b, u
  <1>6. b.buf = x /\ b.len = a.len + Len(t) /\ b.kind = a.kind /\ b.moved = a.moved
    BY <1>2
  <1>7. Copy(b)
    BY <1>0, <1>2, <1>3, <1>6 DEF Copy
  <1>8. Holds(b, u)
    BY <1>0, <1>3, <1>4, <1>5, <1>6, <1>7 DEF Holds
  <1> QED
    BY <1>3, <1>6, <1>8 DEF b, u, Same

\* Shortened, or with zeros behind.
Cut(s, n) == IF n <= Len(s) THEN SubSeq(s, 1, n) ELSE s \o [i \in 1 .. n - Len(s) |-> 0]

LEMMA CutIs ==
    ASSUME NEW s \in Seq(Byte), NEW n \in Nat
    PROVE  /\ Cut(s, n) \in Seq(Byte) /\ Len(Cut(s, n)) = n
           /\ \A i \in 1 .. n : Cut(s, n)[i] = IF i <= Len(s) THEN s[i] ELSE 0
  <1>1. CASE n <= Len(s)
    BY <1>1 DEF Cut
  <1>2. CASE ~(n <= Len(s))
    <2> DEFINE z == [i \in 1 .. n - Len(s) |-> 0]
    <2>1. n - Len(s) \in Nat
      BY <1>2
    <2>2. z \in Seq(Byte) /\ Len(z) = n - Len(s) /\ \A i \in 1 .. n - Len(s) : z[i] = 0
      BY <2>1 DEF Byte
    <2>3. Cut(s, n) = s \o z
      BY <1>2 DEF Cut
    <2> HIDE DEF z
    <2> QED
      BY <2>1, <2>2, <2>3
  <1> QED
    BY <1>1, <1>2

\* A copy of the attributes whose first n bytes are those of s, as after a resize.
Starts(a, s, n) ==
    /\ Copy(a) /\ s \in Seq(Byte) /\ a.len = Len(s)
    /\ \A i \in 1 .. a.len : i <= n => a.buf[i] = s[i]

LEMMA SetLenHolds ==
    ASSUME NEW a, NEW s, NEW n \in Nat, Starts(a, s, n), n <= Len(a.buf)
    PROVE  /\ Holds(buf_set_len(a, n), Cut(s, n)) /\ Len(buf_set_len(a, n).buf) = Len(a.buf)
           /\ Same(buf_set_len(a, n), a)
  <1> DEFINE x == [i \in DOMAIN a.buf |-> IF i \in a.len + 1 .. n THEN 0 ELSE a.buf[i]]
             b == buf_set_len(a, n)
             u == Cut(s, n)
  <1>0. /\ Copy(a) /\ a.len = Len(s) /\ a.len \in Nat /\ a.buf \in Seq(Cell) /\ s \in Seq(Byte)
        /\ \A i \in 1 .. a.len : i <= n => a.buf[i] = s[i]
    BY DEF Starts, Copy
  <1>1. b = [a EXCEPT !.len = n, !.buf = x]
    BY <1>0 DEF buf_set_len, Copy
  <1>2. b = [buf |-> x, len |-> n, kind |-> a.kind, moved |-> a.moved]
    BY <1>0, <1>1, NewLenBuf
  <1>3. x \in Seq(Cell) /\ Len(x) = Len(a.buf)
    <2>1. DOMAIN a.buf = 1 .. Len(a.buf) /\ Len(a.buf) \in Nat
      BY <1>0
    <2>2. \A i \in 1 .. Len(a.buf) : x[i] \in Cell
      <3> TAKE i \in 1 .. Len(a.buf)
      <3>0. 0 \in Cell
        BY DEF Cell, Byte
      <3>1. a.buf[i] \in Cell /\ 0 \in Cell
        BY <1>0, <3>0
      <3>2. x[i] = IF i \in a.len + 1 .. n THEN 0 ELSE a.buf[i]
        BY <2>1
      <3> HIDE DEF x
      <3> QED
        BY <3>1, <3>2
    <2>3. x = [i \in 1 .. Len(a.buf) |-> x[i]]
      BY <2>1
    <2> HIDE DEF x
    <2> QED
      BY <2>1, <2>2, <2>3, SeqMade
  <1>4. u \in Seq(Byte) /\ Len(u) = n /\ \A i \in 1 .. n : u[i] = IF i <= Len(s) THEN s[i] ELSE 0
    BY <1>0, CutIs
  <1> HIDE DEF u
  <1>5. \A i \in 1 .. n : x[i] = u[i]
    <2> TAKE i \in 1 .. n
    <2>1. i \in DOMAIN a.buf /\ i \in 1 .. Len(a.buf)
      BY <1>0
    <2>2. CASE i <= a.len
      BY <2>1, <2>2, <1>0, <1>4
    <2>3. CASE i > a.len
      BY <2>1, <2>3, <1>0, <1>4
    <2> QED
      BY <2>2, <2>3, <1>0
  <1> HIDE DEF x, b
  <1>6. b.buf = x /\ b.len = n /\ b.kind = a.kind /\ b.moved = a.moved
    BY <1>2
  <1>7. Copy(b)
    BY <1>0, <1>2, <1>3, <1>6 DEF Copy
  <1>8. Holds(b, u)
    BY <1>0, <1>3, <1>4, <1>5, <1>6, <1>7 DEF Holds
  <1> QED
    BY <1>3, <1>6, <1>8 DEF b, u, Same

\* Bytes overwritten from index k on.
Over(s, k, t) == [i \in DOMAIN s |-> IF i \in k + 1 .. k + Len(t) THEN t[i - k] ELSE s[i]]

LEMMA SetHolds ==
    ASSUME NEW a, NEW s, Holds(a, s), NEW t \in Seq(Byte), NEW k \in Nat
    PROVE  /\ Holds(buf_set(a, k, t), IF k + Len(t) <= Len(s) THEN Over(s, k, t) ELSE s)
           /\ Same(buf_set(a, k, t), a)
  <1> DEFINE x == [i \in DOMAIN a.buf |-> IF i \in k + 1 .. k + Len(t) THEN t[i - k] ELSE a.buf[i]]
             b == buf_set(a, k, t)
             u == Over(s, k, t)
  <1>0. /\ Copy(a) /\ a.len = Len(s) /\ a.len \in Nat /\ a.buf \in Seq(Cell) /\ a.len <= Len(a.buf) /\ s \in Seq(Byte)
        /\ \A i \in 1 .. a.len : a.buf[i] = s[i]
    BY DEF Holds, Copy
  <1>1. CASE k + Len(t) <= Len(s)
    <2>1. b = [a EXCEPT !.buf = x]
      BY <1>0, <1>1 DEF buf_set, Copy
    <2>2. b = [buf |-> x, len |-> a.len, kind |-> a.kind, moved |-> a.moved]
      BY <1>0, <2>1, NewBuf
    <2>3. x \in Seq(Cell) /\ Len(x) = Len(a.buf)
      <3>1. DOMAIN a.buf = 1 .. Len(a.buf) /\ Len(a.buf) \in Nat
        BY <1>0
      <3>2. \A i \in 1 .. Len(a.buf) : x[i] \in Cell
        BY <1>0 DEF Cell
      <3>3. x = [i \in 1 .. Len(a.buf) |-> x[i]]
        BY <3>1
      <3> HIDE DEF x
      <3> QED
        BY <3>1, <3>2, <3>3, SeqMade
    <2>4. u \in Seq(Byte) /\ Len(u) = Len(s) /\ \A i \in 1 .. Len(s) : u[i] = IF i \in k + 1 .. k + Len(t) THEN t[i - k] ELSE s[i]
      <3>1. DOMAIN s = 1 .. Len(s) /\ Len(s) \in Nat
        BY <1>0
      <3>2. \A i \in 1 .. Len(s) : u[i] = IF i \in k + 1 .. k + Len(t) THEN t[i - k] ELSE s[i]
        BY <3>1 DEF Over
      <3>3. ASSUME NEW i \in 1 .. Len(s) PROVE u[i] \in Byte
        <4>1. CASE i \in k + 1 .. k + Len(t)
          <5>1. i - k \in 1 .. Len(t)
            BY <3>1, <4>1
          <5> QED
            BY <3>2, <4>1, <5>1
        <4>2. CASE i \notin k + 1 .. k + Len(t)
          BY <1>0, <3>2, <4>2
        <4> QED
          BY <4>1, <4>2
      <3>4. u = [i \in 1 .. Len(s) |-> u[i]]
        BY <3>1 DEF Over
      <3> HIDE DEF u
      <3> QED
        BY <3>1, <3>2, <3>3, <3>4, SeqMade
    <2>5. \A i \in 1 .. a.len : x[i] = u[i]
      <3> TAKE i \in 1 .. a.len
      <3>1. i \in DOMAIN a.buf /\ i \in 1 .. Len(s)
        BY <1>0
      <3>2. x[i] = IF i \in k + 1 .. k + Len(t) THEN t[i - k] ELSE a.buf[i]
        BY <3>1
      <3> HIDE DEF x, u
      <3> QED
        BY <3>1, <3>2, <2>4, <1>0
    <2> HIDE DEF x, b, u
    <2>6. b.buf = x /\ b.len = a.len /\ b.kind = a.kind /\ b.moved = a.moved
      BY <2>2
    <2>7. Copy(b)
      BY <1>0, <2>2, <2>3, <2>6 DEF Copy
    <2>8. Holds(b, u)
      BY <1>0, <2>3, <2>4, <2>5, <2>6, <2>7 DEF Holds
    <2> QED
      BY <2>6, <2>8, <1>1 DEF b, u, Same
  <1>2. CASE ~(k + Len(t) <= Len(s))
    <2>1. b = a
      BY <1>0, <1>2 DEF buf_set
    <2> QED
      BY <2>1, <1>2 DEF Same
  <1> QED
    BY <1>1, <1>2

----------------------------------------------------------------------------
(* One byte after the other. *)

LEMMA EachHolds ==
    ASSUME NEW a, NEW s, Holds(a, s), NEW t \in Seq(Byte), Len(s) + Len(t) <= Len(a.buf)
    PROVE  /\ Holds(buf_add_each(a, t), s \o t) /\ Len(buf_add_each(a, t).buf) = Len(a.buf)
           /\ Same(buf_add_each(a, t), a)
  <1> DEFINE n == Len(t)
             Done(b, i) == /\ Holds(b, s \o SubSeq(t, 1, i))
                           /\ Len(b.buf) = Len(a.buf) /\ Same(b, a)
  <1>0. n \in Nat /\ DOMAIN t = 1 .. n /\ s \in Seq(Byte) /\ a.buf \in Seq(Cell) /\ a.len = Len(s)
    BY DEF Holds, Copy
  <1> HIDE DEF n
  <1>10. PICK f : EachSteps(f, n, t, a)
    BY <1>0, EachGoes
  <1>1. /\ f[0] = a
        /\ \A i \in 1 .. n : f[i] = buf_add(f[i - 1], <<t[i]>>)
        /\ buf_add_each(a, t) = f[n]
    BY <1>10 DEF EachSteps
  <1> DEFINE P == {i \in 0 .. n : Done(f[i], i)}
  <1>2. 0 \in P
    <2>1. SubSeq(t, 1, 0) = << >> /\ s \o << >> = s
      BY <1>0
    <2>2. Done(f[0], 0)
      BY <1>1, <2>1 DEF Same
    <2> HIDE DEF Done
    <2> QED
      BY <1>0, <2>2
  <1>3. ASSUME NEW i \in 0 .. n, i < n, i \in P PROVE i + 1 \in P
    <2> DEFINE u == s \o SubSeq(t, 1, i)
               w == <<t[i + 1]>>
               b == f[i]
    <2>1. Holds(b, u) /\ Len(b.buf) = Len(a.buf) /\ Same(b, a)
      BY <1>3
    <2>2. i \in Nat /\ i + 1 \in 1 .. n /\ i + 1 - 1 = i
      BY <1>0, <1>3
    <2>3. w \in Seq(Byte) /\ Len(w) = 1
      BY <1>0, <2>2
    <2>4. Len(u) = Len(s) + i
      <3>1. Len(SubSeq(t, 1, i)) = i /\ SubSeq(t, 1, i) \in Seq(Byte)
        BY <1>0, <2>2 DEF n
      <3> QED
        BY <1>0, <3>1
    <2>5. Len(u) + Len(w) <= Len(b.buf)
      BY <2>1, <2>2, <2>3, <2>4, <1>0 DEF n
    <2>6. u \o w = s \o SubSeq(t, 1, i + 1)
      <3>1. SubSeq(t, 1, i + 1) = SubSeq(t, 1, i) \o w
        BY <1>0, <2>2 DEF n
      <3>2. SubSeq(t, 1, i) \in Seq(Byte)
        BY <1>0, <2>2 DEF n
      <3> DEFINE v == SubSeq(t, 1, i)
      <3>4. v \in Seq(Byte) /\ w \in Seq(Byte) /\ s \in Seq(Byte)
        BY <1>0, <2>3, <3>2
      <3> HIDE DEF v, w
      <3>3. (s \o v) \o w = s \o (v \o w)
        BY <3>4, ConcatAssociative
      <3> QED
        BY <3>1, <3>3 DEF v
    <2>7. f[i + 1] = buf_add(b, w)
      BY <1>1, <2>2
    <2> HIDE DEF u, w, b
    <2>8. Holds(buf_add(b, w), u \o w) /\ Len(buf_add(b, w).buf) = Len(b.buf) /\ Same(buf_add(b, w), b)
      BY <2>1, <2>3, <2>5, AddHolds
    <2>9. Done(f[i + 1], i + 1)
      BY <2>1, <2>6, <2>7, <2>8 DEF Same
    <2> HIDE DEF Done
    <2> QED
      BY <2>2, <2>9
  <1> HIDE DEF P
  <1>4. n \in P
    <2>1. \A i \in 0 .. n : i < n /\ i \in P => i + 1 \in P
      BY <1>3
    <2>2. 0 .. n \subseteq P
      BY <1>0, <1>2, <2>1, UpTo, Zenon
    <2>3. n \in 0 .. n
      BY <1>0
    <2> QED
      BY <2>2, <2>3
  <1>5. Done(f[n], n)
    BY <1>4 DEF P
  <1>6. SubSeq(t, 1, n) = t
    BY <1>0 DEF n
  <1> QED
    BY <1>1, <1>5, <1>6

LEMMA HalvesOf ==
    ASSUME NEW x \in 0 .. 255
    PROVE  x \div 16 \in 0 .. 15 /\ x % 16 \in 0 .. 15 /\ 16 * (x \div 16) + (x % 16) = x
  OBVIOUS

LEMMA HexDigit ==
    ASSUME NEW d \in 0 .. 15
    PROVE  asc2byte(Digit(d)) = d
  <1>1. CASE d < 10
    <2>1. Digit(d) = 48 + d /\ 48 + d \in 48 .. 57
      BY <1>1 DEF Digit
    <2> QED
      BY <2>1 DEF asc2byte
  <1>2. CASE ~(d < 10)
    <2>1. Digit(d) = 55 + d /\ 55 + d \in 65 .. 70 /\ 55 + d \notin 48 .. 57
      BY <1>2 DEF Digit
    <2> QED
      BY <2>1 DEF asc2byte
  <1> QED
    BY <1>1, <1>2

\* What is read from the text of some bytes are these bytes.
LEMMA HexIs ==
    ASSUME NEW t \in Seq(Byte)
    PROVE  /\ Len(tohex(t)) = 2 * Len(t) /\ Len(tohex(t)) \div 2 = Len(t)
           /\ \A a : buf_add_hex(a, tohex(t)) = buf_add_each(a, t)
  <1> DEFINE x == tohex(t)
             n == Len(t)
             u == [i \in 1 .. Len(x) \div 2 |-> 16 * asc2byte(x[2 * i - 1]) + asc2byte(x[2 * i])]
  <1>0. n \in Nat /\ \A i \in 1 .. n : t[i] \in Byte
    OBVIOUS
  <1>1. x = [i \in 1 .. 2 * n |-> IF i % 2 = 1 THEN Digit(t[(i + 1) \div 2] \div 16) ELSE Digit(t[i \div 2] % 16)]
    BY DEF tohex
  <1> HIDE DEF x, n
  <1>2. Len(x) = 2 * n /\ Len(x) \div 2 = n
    <2>1. 2 * n \in Nat
      BY <1>0
    <2>2. Len(x) = 2 * n
      BY <1>1, <2>1
    <2> QED
      BY <1>0, <2>2
  <1>3. \A i \in 1 .. n : 16 * asc2byte(x[2 * i - 1]) + asc2byte(x[2 * i]) = t[i]
    <2> TAKE i \in 1 .. n
    <2>1. /\ 2 * i - 1 \in 1 .. 2 * n /\ 2 * i \in 1 .. 2 * n
          /\ (2 * i - 1) % 2 = 1 /\ (2 * i) % 2 = 0
          /\ (2 * i - 1 + 1) \div 2 = i /\ (2 * i) \div 2 = i
      BY <1>0
    <2>2. x[2 * i - 1] = Digit(t[i] \div 16) /\ x[2 * i] = Digit(t[i] % 16)
      BY <1>1, <2>1
    <2>3. t[i] \in 0 .. 255
      BY <1>0 DEF Byte
    <2>4. t[i] \div 16 \in 0 .. 15 /\ t[i] % 16 \in 0 .. 15 /\ 16 * (t[i] \div 16) + (t[i] % 16) = t[i]
      BY <2>3, HalvesOf
    <2> QED
      BY <2>2, <2>4, HexDigit
  <1>4. u = [i \in 1 .. n |-> t[i]]
    BY <1>2, <1>3
  <1>5. t = [i \in 1 .. n |-> t[i]]
    BY <1>0 DEF n
  <1>6. u = t
    BY <1>4, <1>5
  <1>7. ASSUME NEW a PROVE buf_add_hex(a, x) = buf_add_each(a, t)
    BY <1>6 DEF buf_add_hex
  <1> QED
    BY <1>2, <1>7 DEF x, n

----------------------------------------------------------------------------
(* Base64. *)

LEMMA SixBits ==
    ASSUME NEW v \in 0 .. 63
    PROVE  base64_to_binary(binary_to_base64(v)) = v
  <1>1. CASE v < 26
    <2>1. binary_to_base64(v) = v + 65 /\ v + 65 \in 65 .. 90
      BY <1>1 DEF binary_to_base64
    <2> QED
      BY <2>1 DEF base64_to_binary
  <1>2. CASE v >= 26 /\ v < 52
    <2>1. binary_to_base64(v) = v + 71 /\ v + 71 \in 97 .. 122 /\ v + 71 \notin 65 .. 90
      BY <1>2 DEF binary_to_base64
    <2> QED
      BY <2>1 DEF base64_to_binary
  <1>3. CASE v >= 52 /\ v < 62
    <2>1. binary_to_base64(v) = v - 4 /\ v - 4 \in 48 .. 57 /\ v - 4 \notin 65 .. 90 /\ v - 4 \notin 97 .. 122
      BY <1>3 DEF binary_to_base64
    <2> QED
      BY <2>1 DEF base64_to_binary
  <1>4. CASE v = 62
    <2>1. binary_to_base64(v) = 43
      BY <1>4 DEF binary_to_base64
    <2> QED
      BY <2>1, <1>4 DEF base64_to_binary
  <1>5. CASE v = 63
    <2>1. binary_to_base64(v) = 47
      BY <1>5 DEF binary_to_base64
    <2> QED
      BY <2>1, <1>5 DEF base64_to_binary
  <1> QED
    BY <1>1, <1>2, <1>3, <1>4, <1>5

LEMMA NoDigit == base64_to_binary(61) = 255
  BY DEF base64_to_binary

\* Three bytes as four times six bits.
Packs(x, y, z) ==
    /\ x \div 4 \in 0 .. 63 /\ (x % 4) * 16 + (y \div 16) \in 0 .. 63
    /\ (y % 16) * 4 + (z \div 64) \in 0 .. 63 /\ z % 64 \in 0 .. 63
    /\ (x \div 4) * 4 + (((x % 4) * 16 + (y \div 16)) \div 16) = x
    /\ ((((x % 4) * 16 + (y \div 16)) * 16) % 256) + (((y % 16) * 4 + (z \div 64)) \div 4) = y
    /\ ((((y % 16) * 4 + (z \div 64)) * 64) % 256) + (z % 64) = z

LEMMA ThreeBytes ==
    ASSUME NEW x \in 0 .. 255, NEW y \in 0 .. 255, NEW z \in 0 .. 255
    PROVE  Packs(x, y, z)
  <1>1. PICK x4 \in 0 .. 63, xr \in 0 .. 3 : x \div 4 = x4 /\ x % 4 = xr /\ x = 4 * x4 + xr
    OBVIOUS
  <1>2. PICK y16 \in 0 .. 15, yr \in 0 .. 15 : y \div 16 = y16 /\ y % 16 = yr /\ y = 16 * y16 + yr
    OBVIOUS
  <1>3. PICK z64 \in 0 .. 3, zr \in 0 .. 63 : z \div 64 = z64 /\ z % 64 = zr /\ z = 64 * z64 + zr
    OBVIOUS
  <1>4. (xr * 16 + y16) \div 16 = xr /\ ((xr * 16 + y16) * 16) % 256 = y16 * 16
    OBVIOUS
  <1>5. (yr * 4 + z64) \div 4 = yr /\ ((yr * 4 + z64) * 64) % 256 = z64 * 64
    OBVIOUS
  <1> QED
    BY <1>1, <1>2, <1>3, <1>4, <1>5 DEF Packs

Filled(s, i) == IF i <= Len(s) THEN s[i] ELSE 0

\* The six bits of character r of group q.
Six(s, q, r) ==
    CASE r = 1 -> Filled(s, 3 * q + 1) \div 4
      [] r = 2 -> (Filled(s, 3 * q + 1) % 4) * 16 + (Filled(s, 3 * q + 2) \div 16)
      [] r = 3 -> (Filled(s, 3 * q + 2) % 16) * 4 + (Filled(s, 3 * q + 3) \div 64)
      [] r = 0 -> Filled(s, 3 * q + 3) % 64

LEMMA SixAre ==
    ASSUME NEW s \in Seq(Byte), NEW q \in Nat
    PROVE  /\ \A r \in 0 .. 3 : Six(s, q, r) \in 0 .. 63
           /\ Six(s, q, 1) * 4 + (Six(s, q, 2) \div 16) = Filled(s, 3 * q + 1)
           /\ ((Six(s, q, 2) * 16) % 256) + (Six(s, q, 3) \div 4) = Filled(s, 3 * q + 2)
           /\ ((Six(s, q, 3) * 64) % 256) + Six(s, q, 0) = Filled(s, 3 * q + 3)
  <1> DEFINE x == Filled(s, 3 * q + 1)
             y == Filled(s, 3 * q + 2)
             z == Filled(s, 3 * q + 3)
  <1>1. x \in 0 .. 255 /\ y \in 0 .. 255 /\ z \in 0 .. 255
    <2>1. \A i \in 1 .. Len(s) : s[i] \in 0 .. 255
      <3>1. \A i \in 1 .. Len(s) : s[i] \in Byte
        OBVIOUS
      <3> QED
        BY <3>1 DEF Byte
    <2>2. ASSUME NEW i \in Nat, i > 0 PROVE Filled(s, i) \in 0 .. 255
      BY <2>1, <2>2 DEF Filled
    <2>3. 3 * q + 1 \in Nat /\ 3 * q + 2 \in Nat /\ 3 * q + 3 \in Nat /\ 3 * q + 1 > 0 /\ 3 * q + 2 > 0 /\ 3 * q + 3 > 0
      OBVIOUS
    <2> QED
      BY <2>2, <2>3
  <1>2. /\ Six(s, q, 1) = x \div 4
        /\ Six(s, q, 2) = (x % 4) * 16 + (y \div 16)
        /\ Six(s, q, 3) = (y % 16) * 4 + (z \div 64)
        /\ Six(s, q, 0) = z % 64
    BY DEF Six
  <1> HIDE DEF x, y, z
  <1>3. \A r \in 0 .. 3 : r = 0 \/ r = 1 \/ r = 2 \/ r = 3
    OBVIOUS
  <1>4. /\ x \div 4 \in 0 .. 63 /\ (x % 4) * 16 + (y \div 16) \in 0 .. 63
        /\ (y % 16) * 4 + (z \div 64) \in 0 .. 63 /\ z % 64 \in 0 .. 63
        /\ (x \div 4) * 4 + (((x % 4) * 16 + (y \div 16)) \div 16) = x
        /\ ((((x % 4) * 16 + (y \div 16)) * 16) % 256) + (((y % 16) * 4 + (z \div 64)) \div 4) = y
        /\ ((((y % 16) * 4 + (z \div 64)) * 64) % 256) + (z % 64) = z
    <2>1. Packs(x, y, z)
      BY <1>1, ThreeBytes
    <2> QED
      BY <2>1 DEF Packs
  <1>5. \A r \in 0 .. 3 : Six(s, q, r) \in 0 .. 63
    BY <1>2, <1>3, <1>4
  <1> QED
    BY <1>2, <1>4, <1>5 DEF x, y, z

\* The text of L bytes: digits, and filling.
LEMMA Encoded64 ==
    ASSUME NEW s
    PROVE  encode_base64(s) =
             [j \in 1 .. 4 * ((Len(s) + 2) \div 3) |->
                IF j <= (4 * Len(s) + 2) \div 3
                THEN binary_to_base64(Six(s, (j - 1) \div 4, j % 4)) ELSE 61]
  BY DEF encode_base64, Six, Filled

LEMMA DigitCount ==
    ASSUME NEW n \in Nat, NEW m, m = (4 * n + 2) \div 3
    PROVE  /\ m \in Nat /\ m <= 4 * ((n + 2) \div 3) /\ 4 * ((n + 2) \div 3) \in Nat
           /\ (m \div 4) * 3 + (CASE m % 4 = 2 -> 1 [] m % 4 = 3 -> 2 [] OTHER -> 0) = n
  <1>1. PICK q \in Nat, r \in 0 .. 2 : n = 3 * q + r
    <2>1. n \div 3 \in Nat /\ n % 3 \in 0 .. 2 /\ n = 3 * (n \div 3) + (n % 3)
      OBVIOUS
    <2> QED
      BY <2>1
  <1>2. CASE r = 0
    <2>1. m = 4 * q /\ m \div 4 = q /\ m % 4 = 0 /\ (n + 2) \div 3 = q
      BY <1>1, <1>2
    <2> QED
      BY <2>1, <1>1, <1>2
  <1>3. CASE r = 1
    <2>1. m = 4 * q + 2 /\ m \div 4 = q /\ m % 4 = 2 /\ (n + 2) \div 3 = q + 1
      BY <1>1, <1>3
    <2> QED
      BY <2>1, <1>1, <1>3
  <1>4. CASE r = 2
    <2>1. m = 4 * q + 3 /\ m \div 4 = q /\ m % 4 = 3 /\ (n + 2) \div 3 = q + 1
      BY <1>1, <1>4
    <2> QED
      BY <2>1, <1>1, <1>4
  <1> QED
    BY <1>1, <1>2, <1>3, <1>4

\* Up to the first filling, the text is read as the bytes it was written from.
LEMMA Base64Is ==
    ASSUME NEW s \in Seq(Byte)
    PROVE  /\ decode_base64_length(encode_base64(s)) = Len(s)
           /\ decode_base64(encode_base64(s)) = s
  <1> DEFINE n == Len(s)
             m == (4 * n + 2) \div 3
             full == 4 * ((n + 2) \div 3)
             x == encode_base64(s)
             bad == {i \in 1 .. Len(x) : base64_to_binary(x[i]) >= 64}
  <1>1. n \in Nat
    OBVIOUS
  <1>2. x = [j \in 1 .. full |-> IF j <= m THEN binary_to_base64(Six(s, (j - 1) \div 4, j % 4)) ELSE 61]
    BY Encoded64
  <1> HIDE DEF n, x
  <1>3. /\ m \in Nat /\ m <= full /\ full \in Nat
        /\ (m \div 4) * 3 + (CASE m % 4 = 2 -> 1 [] m % 4 = 3 -> 2 [] OTHER -> 0) = n
    BY <1>1, DigitCount
  <1> HIDE DEF m, full
  <1>4. Len(x) = full
    BY <1>2, <1>3
  <1>5. \A j \in 1 .. m : base64_to_binary(x[j]) = Six(s, (j - 1) \div 4, j % 4) /\ base64_to_binary(x[j]) \in 0 .. 63
    <2> TAKE j \in 1 .. m
    <2>1. j \in 1 .. full /\ (j - 1) \div 4 \in Nat /\ j % 4 \in 0 .. 3
      BY <1>3, SMTT(30)
    <2>2. x[j] = binary_to_base64(Six(s, (j - 1) \div 4, j % 4))
      BY <1>2, <2>1
    <2>3. Six(s, (j - 1) \div 4, j % 4) \in 0 .. 63
      BY <2>1, SixAre
    <2> QED
      BY <2>2, <2>3, SixBits
  <1>6. \A j \in 1 .. full : j > m => base64_to_binary(x[j]) = 255
    BY <1>2, <1>3, NoDigit
  <1>7. bad = (m + 1) .. full
    <2>1. ASSUME NEW i \in 1 .. full PROVE base64_to_binary(x[i]) >= 64 <=> i > m
      <3>1. CASE i > m
        BY <1>6, <3>1
      <3>2. CASE i <= m
        <4>1. i \in 1 .. m
          BY <1>3, <3>2
        <4>2. base64_to_binary(x[i]) \in 0 .. 63
          BY <1>5, <4>1
        <4> QED
          <5> DEFINE z == base64_to_binary(x[i])
          <5>1. z \in 0 .. 63
            BY <4>2
          <5> HIDE DEF z
          <5>2. ~(z >= 64)
            BY <5>1
          <5>3. ~(i > m)
            BY <3>2, <1>3
          <5> QED
            BY <5>2, <5>3 DEF z
      <3> QED
        BY <3>1, <3>2, <1>3
    <2>2. bad = {i \in 1 .. full : i > m}
      BY <1>4, <2>1
    <2> HIDE DEF bad
    <2> QED
      BY <2>2, <1>3
  <1>8. decode_base64_length(x) = n
    <2> DEFINE end == SelectInSeq(x, LAMBDA c : base64_to_binary(c) >= 64)
               k == IF end = 0 THEN Len(x) ELSE end - 1
    <2>1. decode_base64_length(x) = (k \div 4) * 3 + CASE k % 4 = 2 -> 1 [] k % 4 = 3 -> 2 [] OTHER -> 0
      BY DEF decode_base64_length
    <2>2. end = IF bad # {} THEN Min(bad) ELSE 0
      BY DEF SelectInSeq
    <2> HIDE DEF bad, end
    <2>3. CASE m = full
      <3>1. bad = {}
        BY <1>7, <1>3, <2>3
      <3> QED
        BY <2>1, <2>2, <2>3, <3>1, <1>3, <1>4
    <2>4. CASE m < full
      <3>1. m + 1 \in bad /\ bad # {} /\ \A y \in bad : m + 1 <= y
        BY <1>7, <1>3, <2>4
      <3>2. \A y \in bad : y \in Int
        BY <1>7, <1>3
      <3>3. Min(bad) = m + 1
        <4>1. \E y \in bad : \A z \in bad : y <= z
          BY <3>1
        <4>2. Min(bad) \in bad /\ \A z \in bad : Min(bad) <= z
          BY <4>1, Zenon DEF Min
        <4> QED
          BY <4>2, <3>1, <3>2, <1>3
      <3>4. end = m + 1 /\ k = m
        BY <2>2, <3>1, <3>3, <1>3
      <3> HIDE DEF k
      <3> QED
        BY <2>1, <3>4, <1>3
    <2> QED
      BY <1>3, <2>3, <2>4
  <1>9. decode_base64(x) = s
    <2> DEFINE v(i) == base64_to_binary(x[i])
               byte(j) == LET q == 4 * ((j - 1) \div 3)
                          IN CASE j % 3 = 1 -> v(q + 1) * 4 + (v(q + 2) \div 16)
                               [] j % 3 = 2 -> ((v(q + 2) * 16) % 256) + (v(q + 3) \div 4)
                               [] j % 3 = 0 -> ((v(q + 3) * 64) % 256) + v(q + 4)
    <2>1. decode_base64(x) = [j \in 1 .. n |-> byte(j)]
      BY <1>8 DEF decode_base64
    <2>2. ASSUME NEW j \in 1 .. n PROVE byte(j) = s[j]
      <3> DEFINE q == (j - 1) \div 3
      <3>1. q \in Nat /\ 3 * q + 1 <= j /\ j <= 3 * q + 3
        BY <1>1
      <3>2. PICK p \in Nat : p = q
        BY <3>1
      <3>3. \/ j = 3 * p + 1 /\ j % 3 = 1
            \/ j = 3 * p + 2 /\ j % 3 = 2
            \/ j = 3 * p + 3 /\ j % 3 = 0
        BY <3>1, <3>2
      <3>4. byte(j) = CASE j % 3 = 1 -> v(4 * p + 1) * 4 + (v(4 * p + 2) \div 16)
                        [] j % 3 = 2 -> ((v(4 * p + 2) * 16) % 256) + (v(4 * p + 3) \div 4)
                        [] j % 3 = 0 -> ((v(4 * p + 3) * 64) % 256) + v(4 * p + 4)
        BY <3>2
      <3> HIDE DEF q, byte
      <3>5. /\ 3 * p + 1 <= n => 4 * p + 2 <= m
            /\ 3 * p + 2 <= n => 4 * p + 3 <= m
            /\ 3 * p + 3 <= n => 4 * p + 4 <= m
        BY <1>1, <3>2 DEF m
      <3>6. /\ 4 * p + 1 \in Nat /\ (4 * p + 1 - 1) \div 4 = p /\ (4 * p + 1) % 4 = 1
            /\ 4 * p + 2 \in Nat /\ (4 * p + 2 - 1) \div 4 = p /\ (4 * p + 2) % 4 = 2
            /\ 4 * p + 3 \in Nat /\ (4 * p + 3 - 1) \div 4 = p /\ (4 * p + 3) % 4 = 3
            /\ 4 * p + 4 \in Nat /\ (4 * p + 4 - 1) \div 4 = p /\ (4 * p + 4) % 4 = 0
        BY <3>2
      <3>7. /\ 4 * p + 1 <= m => v(4 * p + 1) = Six(s, p, 1)
            /\ 4 * p + 2 <= m => v(4 * p + 2) = Six(s, p, 2)
            /\ 4 * p + 3 <= m => v(4 * p + 3) = Six(s, p, 3)
            /\ 4 * p + 4 <= m => v(4 * p + 4) = Six(s, p, 0)
        <4> HIDE DEF v
        <4>1. \A i \in 1 .. m : v(i) = Six(s, (i - 1) \div 4, i % 4)
          BY <1>5 DEF v
        <4>2. 4 * p + 1 <= m => v(4 * p + 1) = Six(s, p, 1)
          <5>1. 4 * p + 1 <= m => 4 * p + 1 \in 1 .. m
            BY <3>2, <1>3
          <5> QED
            BY <4>1, <5>1, <3>6
        <4>3. 4 * p + 2 <= m => v(4 * p + 2) = Six(s, p, 2)
          <5>1. 4 * p + 2 <= m => 4 * p + 2 \in 1 .. m
            BY <3>2, <1>3, SMTT(30)
          <5> QED
            BY <4>1, <5>1, <3>6
        <4>4. 4 * p + 3 <= m => v(4 * p + 3) = Six(s, p, 3)
          <5>1. 4 * p + 3 <= m => 4 * p + 3 \in 1 .. m
            BY <3>2, <1>3
          <5> QED
            BY <4>1, <5>1, <3>6
        <4>5. 4 * p + 4 <= m => v(4 * p + 4) = Six(s, p, 0)
          <5>1. 4 * p + 4 <= m => 4 * p + 4 \in 1 .. m
            BY <3>2, <1>3
          <5> QED
            BY <4>1, <5>1, <3>6
        <4> QED
          BY <4>2, <4>3, <4>4, <4>5
      <3> HIDE DEF v
      <3>8. /\ Six(s, p, 1) * 4 + (Six(s, p, 2) \div 16) = Filled(s, 3 * p + 1)
            /\ ((Six(s, p, 2) * 16) % 256) + (Six(s, p, 3) \div 4) = Filled(s, 3 * p + 2)
            /\ ((Six(s, p, 3) * 64) % 256) + Six(s, p, 0) = Filled(s, 3 * p + 3)
        BY SixAre
      <3>9. j <= n /\ j \in Nat /\ Filled(s, j) = s[j]
        BY <1>1 DEF Filled, n
      <3>10. CASE j = 3 * p + 1 /\ j % 3 = 1
        <4>1. byte(j) = v(4 * p + 1) * 4 + (v(4 * p + 2) \div 16)
          BY <3>4, <3>10
        <4>2. v(4 * p + 1) = Six(s, p, 1) /\ v(4 * p + 2) = Six(s, p, 2)
          <5>1. 4 * p + 2 <= m /\ 4 * p + 1 <= m
            BY <3>5, <3>9, <3>10, <1>3
          <5> QED
            BY <5>1, <3>7
        <4> QED
          BY <4>1, <4>2, <3>8, <3>9, <3>10
      <3>11. CASE j = 3 * p + 2 /\ j % 3 = 2
        <4>1. byte(j) = ((v(4 * p + 2) * 16) % 256) + (v(4 * p + 3) \div 4)
          BY <3>4, <3>11
        <4>2. v(4 * p + 2) = Six(s, p, 2) /\ v(4 * p + 3) = Six(s, p, 3)
          <5>1. 4 * p + 3 <= m /\ 4 * p + 2 <= m
            BY <3>5, <3>9, <3>11, <1>3, SMTT(30)
          <5> QED
            BY <5>1, <3>7
        <4> QED
          BY <4>1, <4>2, <3>8, <3>9, <3>11
      <3>12. CASE j = 3 * p + 3 /\ j % 3 = 0
        <4>1. byte(j) = ((v(4 * p + 3) * 64) % 256) + v(4 * p + 4)
          BY <3>4, <3>12
        <4>2. v(4 * p + 3) = Six(s, p, 3) /\ v(4 * p + 4) = Six(s, p, 0)
          <5>1. 4 * p + 4 <= m /\ 4 * p + 3 <= m
            BY <3>5, <3>9, <3>12, <1>3
          <5> QED
            BY <5>1, <3>7
        <4> QED
          BY <4>1, <4>2, <3>8, <3>9, <3>12
      <3> QED
        BY <3>3, <3>10, <3>11, <3>12
    <2> HIDE DEF byte
    <2>3. decode_base64(x) = [j \in 1 .. n |-> s[j]]
      BY <2>1, <2>2
    <2>4. s = [j \in 1 .. n |-> s[j]]
      BY DEF n
    <2> QED
      BY <2>3, <2>4
  <1> QED
    BY <1>8, <1>9 DEF x, n

----------------------------------------------------------------------------
(* Fields of bits: of up to 14, the largest that the model reads and writes. *)

LEMMA Powers ==
    /\ 2 ^ 0 = 1
    /\ 2 ^ 1 = 2
    /\ 2 ^ 2 = 4
    /\ 2 ^ 3 = 8
    /\ 2 ^ 4 = 16
    /\ 2 ^ 5 = 32
    /\ 2 ^ 6 = 64
    /\ 2 ^ 7 = 128
    /\ 2 ^ 8 = 256
    /\ 2 ^ 9 = 512
    /\ 2 ^ 10 = 1024
    /\ 2 ^ 11 = 2048
    /\ 2 ^ 12 = 4096
    /\ 2 ^ 13 = 8192
    /\ 2 ^ 14 = 16384
  OBVIOUS

LEMMA PowStep ==
    ASSUME NEW i \in 0 .. 13
    PROVE  2 ^ (i + 1) = 2 * 2 ^ i /\ 2 ^ i \in Nat /\ 2 ^ i >= 1 /\ 2 ^ (i + 1) \in Nat /\ 2 ^ (i + 1) >= 1
  <1>1. i \in {0, 1, 2, 3, 4, 5, 6, 7, 8, 9, 10, 11, 12, 13}
    OBVIOUS
  <1>2. CASE i = 0
    BY <1>2, Powers
  <1>3. CASE i = 1
    BY <1>3, Powers
  <1>4. CASE i = 2
    BY <1>4, Powers
  <1>5. CASE i = 3
    BY <1>5, Powers
  <1>6. CASE i = 4
    BY <1>6, Powers
  <1>7. CASE i = 5
    BY <1>7, Powers
  <1>8. CASE i = 6
    BY <1>8, Powers
  <1>9. CASE i = 7
    BY <1>9, Powers
  <1>10. CASE i = 8
    BY <1>10, Powers
  <1>11. CASE i = 9
    BY <1>11, Powers
  <1>12. CASE i = 10
    BY <1>12, Powers
  <1>13. CASE i = 11
    BY <1>13, Powers
  <1>14. CASE i = 12
    BY <1>14, Powers
  <1>15. CASE i = 13
    BY <1>15, Powers
  <1> QED
    BY <1>1, <1>2, <1>3, <1>4, <1>5, <1>6, <1>7, <1>8, <1>9, <1>10, <1>11, <1>12, <1>13, <1>14, <1>15

LEMMA PowIs ==
    ASSUME NEW i \in 0 .. 14
    PROVE  2 ^ i \in Nat /\ 2 ^ i >= 1
  <1>1. CASE i = 14
    BY <1>1, Powers
  <1>2. CASE i # 14
    <2>1. i \in 0 .. 13
      BY <1>2
    <2> QED
      BY <2>1, PowStep
  <1> QED
    BY <1>1, <1>2

LEMMA Swap ==
    ASSUME NEW x \in Nat, NEW y \in Nat
    PROVE  x * (2 * y) = 2 * (x * y)
  OBVIOUS

\* A sum of exponents.
LEMMA PowSum ==
    ASSUME NEW d \in Nat, NEW t \in 0 .. 8, d + t <= 14
    PROVE  2 ^ (d + t) = 2 ^ d * 2 ^ t
  <1> DEFINE P == {i \in 0 .. t : 2 ^ (d + i) = 2 ^ d * 2 ^ i}
  <1>1. 0 \in P
    <2>1. d + 0 = d /\ d \in 0 .. 14
      OBVIOUS
    <2> QED
      BY <2>1, Powers, PowIs
  <1>2. ASSUME NEW i \in 0 .. t, i < t, i \in P PROVE i + 1 \in P
    <2>1. d + i \in 0 .. 13 /\ i \in 0 .. 13 /\ d \in 0 .. 14 /\ d + (i + 1) = (d + i) + 1 /\ i + 1 \in 0 .. t
      BY <1>2
    <2>2. 2 ^ (d + i) = 2 ^ d * 2 ^ i
      BY <1>2
    <2>3. 2 ^ ((d + i) + 1) = 2 * 2 ^ (d + i) /\ 2 ^ (i + 1) = 2 * 2 ^ i /\ 2 ^ d \in Nat /\ 2 ^ i \in Nat
      BY <2>1, PowStep, PowIs
    <2>4. 2 ^ d * (2 * 2 ^ i) = 2 * (2 ^ d * 2 ^ i)
      BY <2>3, Swap
    <2> QED
      BY <2>1, <2>2, <2>3, <2>4
  <1> HIDE DEF P
  <1>3. t \in P
    <2>1. t \in Nat /\ t \in 0 .. t
      OBVIOUS
    <2>2. \A i \in 0 .. t : i < t /\ i \in P => i + 1 \in P
      BY <1>2
    <2>3. 0 .. t \subseteq P
      BY <1>1, <2>1, <2>2, UpTo, Zenon
    <2> QED
      BY <2>1, <2>3
  <1> QED
    BY <1>3 DEF P

Slice(x, off, t) == (x \div 2 ^ off) % 2 ^ t
Bit(x, i) == (x \div 2 ^ i) % 2

\* Numbers below 2^8: one bit more.
LEMMA SliceLow ==
    ASSUME NEW u \in Nat, NEW t \in 0 .. 7
    PROVE  u % 2 ^ (t + 1) = (u % 2 ^ t) + ((u \div 2 ^ t) % 2) * 2 ^ t
  <1>0. t \in {0, 1, 2, 3, 4, 5, 6, 7}
    OBVIOUS
  <1>1. CASE t = 0
    <2>1. u % 2 = (u % 1) + ((u \div 1) % 2) * 1
      OBVIOUS
    <2> QED
      BY <1>1, <2>1, Powers
  <1>2. CASE t = 1
    <2>1. u % 4 = (u % 2) + ((u \div 2) % 2) * 2
      OBVIOUS
    <2> QED
      BY <1>2, <2>1, Powers
  <1>3. CASE t = 2
    <2>1. u % 8 = (u % 4) + ((u \div 4) % 2) * 4
      OBVIOUS
    <2> QED
      BY <1>3, <2>1, Powers
  <1>4. CASE t = 3
    <2>1. u % 16 = (u % 8) + ((u \div 8) % 2) * 8
      OBVIOUS
    <2> QED
      BY <1>4, <2>1, Powers
  <1>5. CASE t = 4
    <2>1. u % 32 = (u % 16) + ((u \div 16) % 2) * 16
      OBVIOUS
    <2> QED
      BY <1>5, <2>1, Powers
  <1>6. CASE t = 5
    <2>1. u % 64 = (u % 32) + ((u \div 32) % 2) * 32
      OBVIOUS
    <2> QED
      BY <1>6, <2>1, Powers
  <1>7. CASE t = 6
    <2>1. u % 128 = (u % 64) + ((u \div 64) % 2) * 64
      OBVIOUS
    <2> QED
      BY <1>7, <2>1, Powers
  <1>8. CASE t = 7
    <2>1. u % 256 = (u % 128) + ((u \div 128) % 2) * 128
      OBVIOUS
    <2> QED
      BY <1>8, <2>1, Powers
  <1> QED
    BY <1>0, <1>1, <1>2, <1>3, <1>4, <1>5, <1>6, <1>7, <1>8

LEMMA Times ==
    ASSUME NEW p \in Nat, NEW z \in Nat, NEW q \in Int, z <= q
    PROVE  p * z <= p * q
  OBVIOUS

LEMMA Apart ==
    ASSUME NEW p \in Nat, NEW q \in Nat
    PROVE  p * (q - 1) = p * q - p
  OBVIOUS

LEMMA Inside ==
    ASSUME NEW p \in Nat, NEW q \in Nat, NEW y \in Nat, NEW z \in Nat
    PROVE  p * (q * y + z) = (p * q) * y + p * z
  OBVIOUS

LEMMA Quotient ==
    ASSUME NEW m \in Nat, m >= 1, NEW y \in Nat, NEW w \in Nat, w <= m - 1
    PROVE  (m * y + w) \div m = y
  OBVIOUS

LEMMA DivDiv ==
    ASSUME NEW u \in Nat, NEW p \in Nat, p >= 1, NEW q \in Nat, q >= 1
    PROVE  (u \div p) \div q = u \div (p * q)
  <1> DEFINE x == u \div p
             r == u % p
             y == x \div q
             z == x % q
  <1>1. x \in Nat /\ r \in Nat /\ r <= p - 1 /\ u = p * x + r
    OBVIOUS
  <1> HIDE DEF x, r
  <1>2. y \in Nat /\ z \in Nat /\ z <= q - 1 /\ x = q * y + z
    BY <1>1
  <1> HIDE DEF y, z
  <1> DEFINE m == p * q
             w == p * z + r
  <1>3. m \in Nat /\ m >= 1 /\ w \in Nat
    BY <1>1, <1>2
  <1>4. w <= m - 1
    <2>1. p * z <= p * (q - 1)
      BY <1>2, Times
    <2>2. p * (q - 1) = p * q - p
      BY Apart
    <2>3. p * z \in Nat /\ p * q \in Nat
      BY <1>2
    <2> QED
      BY <1>1, <2>1, <2>2, <2>3
  <1>5. u = m * y + w
    <2>1. p * (q * y + z) = (p * q) * y + p * z
      BY <1>2, Inside
    <2>2. u = p * (q * y + z) + r
      BY <1>1, <1>2
    <2>3. (p * q) * y \in Nat /\ p * z \in Nat
      BY <1>2
    <2> QED
      BY <2>1, <2>2, <2>3, <1>1
  <1> HIDE DEF m, w
  <1>6. u \div m = y
    BY <1>2, <1>3, <1>4, <1>5, Quotient
  <1> QED
    BY <1>6 DEF m, x, y

LEMMA DivIn ==
    ASSUME NEW u \in Nat, NEW p \in Nat, p >= 1
    PROVE  u \div p \in Nat
  OBVIOUS

LEMMA Shifted ==
    ASSUME NEW u \in Nat, NEW d \in Nat, NEW t \in 0 .. 8, d + t <= 14
    PROVE  (u \div 2 ^ d) \div 2 ^ t = u \div 2 ^ (d + t)
  <1> DEFINE p == 2 ^ d
             q == 2 ^ t
  <1>1. p \in Nat /\ p >= 1 /\ q \in Nat /\ q >= 1
    <2>1. d \in 0 .. 14 /\ t \in 0 .. 14
      OBVIOUS
    <2> QED
      BY <2>1, PowIs
  <1>2. 2 ^ (d + t) = p * q
    BY PowSum
  <1> HIDE DEF p, q
  <1>3. (u \div p) \div q = u \div (p * q)
    BY <1>1, DivDiv
  <1> QED
    BY <1>2, <1>3 DEF p, q

LEMMA ShiftIn ==
    ASSUME NEW u \in Nat, NEW d \in 0 .. 14
    PROVE  u \div 2 ^ d \in Nat
  <1>1. 2 ^ d \in Nat /\ 2 ^ d >= 1
    BY PowIs
  <1> QED
    BY <1>1, DivIn

LEMMA SliceNext ==
    ASSUME NEW x \in Nat, NEW off \in Nat, NEW t \in 0 .. 7, off + t <= 14
    PROVE  /\ Slice(x, off, 0) = 0
           /\ Slice(x, off, t + 1) = Slice(x, off, t) + Bit(x, off + t) * 2 ^ t
  <1> DEFINE u == x \div 2 ^ off
  <1>0. off \in 0 .. 14 /\ off \in Nat /\ t \in 0 .. 8 /\ off + t <= 14
    OBVIOUS
  <1>1. u \in Nat
    BY <1>0, ShiftIn
  <1>2. u \div 2 ^ t = x \div 2 ^ (off + t)
    BY <1>0, Shifted
  <1> HIDE DEF u
  <1>3. u % 2 ^ 0 = 0
    BY <1>1, Powers
  <1>4. u % 2 ^ (t + 1) = (u % 2 ^ t) + ((u \div 2 ^ t) % 2) * 2 ^ t
    BY <1>1, SliceLow
  <1> QED
    BY <1>2, <1>3, <1>4 DEF Slice, Bit, u

\* The blocks cover the field, one after the other, each within a byte.
Tiles(b, last, k, n) ==
    /\ last \in Nat /\ last >= 1 /\ DOMAIN b = 1 .. last
    /\ b[1].done = 0 /\ b[last].done + b[last].bits = n
    /\ \A i \in 1 .. last :
          /\ b[i].at = (k \div 8) + i - 1 /\ b[i].off \in 0 .. 7
          /\ b[i].bits \in 0 .. 8 - b[i].off /\ b[i].done \in Nat
          /\ 8 * b[i].at + b[i].off = k + b[i].done /\ b[i].done + b[i].bits <= n
          /\ (n > 0 => b[i].bits > 0) /\ (i > 1 => b[i].off = 0)
    /\ \A i \in 1 .. last : i < last => b[i + 1].done = b[i].done + b[i].bits

LEMMA BlocksTile ==
    ASSUME NEW k \in Nat, NEW n \in Nat
    PROVE  \E last : Tiles(Blocks(k, n), last, k, n) /\ Blocks(k, n) = [i \in 1 .. last |-> Blocks(k, n)[i]]
  <1> DEFINE first == IF 8 - (k % 8) > n THEN n ELSE 8 - (k % 8)
             rest  == (n - first + 7) \div 8
             b     == Blocks(k, n)
             q     == k \div 8
             r     == k % 8
             done(i) == IF i = 1 THEN 0 ELSE first + 8 * (i - 2)
             bits(i) == IF i = 1 THEN first ELSE IF n - done(i) > 8 THEN 8 ELSE n - done(i)
             off(i)  == IF i = 1 THEN r ELSE 0
  <1>1. b = [i \in 1 .. rest + 1 |->
               IF i = 1 THEN [at |-> k \div 8, off |-> k % 8, bits |-> first, done |-> 0]
               ELSE [at |-> (k \div 8) + i - 1, off |-> 0, done |-> first + 8 * (i - 2),
                     bits |-> IF n - (first + 8 * (i - 2)) > 8 THEN 8 ELSE n - (first + 8 * (i - 2))]]
    BY DEF Blocks
  <1>2. q \in Nat /\ r \in 0 .. 7 /\ k = 8 * q + r
    OBVIOUS
  <1>3. first \in 0 .. 8 - r /\ first <= n /\ (first = n \/ first = 8 - r)
    BY <1>2
  <1> HIDE DEF first
  <1>4. rest \in Nat /\ 8 * rest <= n - first + 7 /\ n - first <= 8 * rest
    BY <1>3
  <1> HIDE DEF rest
  <1>5. ASSUME NEW i \in 1 .. rest + 1
        PROVE  b[i].at = q + i - 1 /\ b[i].off = off(i) /\ b[i].bits = bits(i) /\ b[i].done = done(i)
    <2> HIDE DEF b
    <2>1. CASE i = 1
      <3>1. b[i] = [at |-> k \div 8, off |-> k % 8, bits |-> first, done |-> 0]
        BY <1>1, <2>1
      <3>2. q = q + i - 1
        BY <1>2, <2>1
      <3> QED
        BY <2>1, <3>1, <3>2
    <2>2. CASE i # 1
      <3>1. b[i] = [at |-> (k \div 8) + i - 1, off |-> 0, done |-> first + 8 * (i - 2),
                    bits |-> IF n - (first + 8 * (i - 2)) > 8 THEN 8 ELSE n - (first + 8 * (i - 2))]
        BY <1>1, <2>2
      <3> QED
        BY <2>2, <3>1
    <2> QED
      BY <2>1, <2>2
  <1>6. DOMAIN b = 1 .. rest + 1 /\ b = [i \in 1 .. rest + 1 |-> b[i]]
    BY <1>1
  <1> HIDE DEF b, q, r
  <1>7. ASSUME NEW i \in 1 .. rest + 1
        PROVE  /\ off(i) \in 0 .. 7 /\ bits(i) \in 0 .. 8 - off(i) /\ done(i) \in Nat
               /\ 8 * (q + i - 1) + off(i) = k + done(i) /\ done(i) + bits(i) <= n
               /\ (n > 0 => bits(i) > 0) /\ (i > 1 => off(i) = 0)
               /\ i < rest + 1 => done(i + 1) = done(i) + bits(i)
               /\ i = rest + 1 => done(i) + bits(i) = n
    <2>1. CASE i = 1
      <3>1. done(i) = 0 /\ bits(i) = first /\ off(i) = r
        BY <2>1
      <3>2. done(i + 1) = first
        BY <2>1, <1>3
      <3>3. rest = 0 => first = n
        BY <1>3, <1>4
      <3> HIDE DEF done, bits, off
      <3> QED
        BY <2>1, <3>1, <3>2, <3>3, <1>2, <1>3, <1>4
    <2>2. CASE i # 1
      <3>1. rest >= 1 /\ first = 8 - r
        BY <2>2, <1>2, <1>3, <1>4
      <3>2. done(i) = first + 8 * (i - 2) /\ done(i + 1) = first + 8 * (i - 1) /\ off(i) = 0
        BY <2>2, <1>3
      <3>3. bits(i) = IF n - done(i) > 8 THEN 8 ELSE n - done(i)
        BY <2>2
      <3>4. i < rest + 1 => n - done(i) >= 9
        BY <3>1, <3>2, <1>3, <1>4
      <3>5. i = rest + 1 => n - done(i) <= 8
        BY <3>1, <3>2, <1>3, <1>4
      <3>6. n - done(i) >= 0 /\ done(i) \in Nat
        BY <3>1, <3>2, <1>3, <1>4, <2>2
      <3> HIDE DEF done, bits, off
      <3>7. 8 * (q + i - 1) = k + done(i)
        BY <3>1, <3>2, <1>2
      <3>8. n - done(i) > 0
        BY <3>1, <3>2, <1>3, <1>4, <2>2
      <3> QED
        BY <3>1, <3>2, <3>3, <3>4, <3>5, <3>6, <3>7, <3>8, <1>2, <1>3, <1>4
    <2> QED
      BY <2>1, <2>2
  <1>8. 1 \in 1 .. rest + 1 /\ rest + 1 \in 1 .. rest + 1 /\ rest + 1 \in Nat /\ rest + 1 >= 1
    BY <1>4
  <1>9. done(1) = 0
    OBVIOUS
  <1> HIDE DEF done, bits, off
  <1>10. b[1].done = 0 /\ b[rest + 1].done + b[rest + 1].bits = n
    BY <1>5, <1>7, <1>8, <1>9
  <1>11. ASSUME NEW i \in 1 .. rest + 1
         PROVE  /\ b[i].at = q + i - 1 /\ b[i].off \in 0 .. 7
                /\ b[i].bits \in 0 .. 8 - b[i].off /\ b[i].done \in Nat
                /\ 8 * b[i].at + b[i].off = k + b[i].done /\ b[i].done + b[i].bits <= n
                /\ (n > 0 => b[i].bits > 0) /\ (i > 1 => b[i].off = 0)
    BY <1>5, <1>7
  <1>12. ASSUME NEW i \in 1 .. rest + 1, i < rest + 1 PROVE b[i + 1].done = b[i].done + b[i].bits
    <2>1. i + 1 \in 1 .. rest + 1
      BY <1>4, <1>12
    <2> QED
      BY <2>1, <1>5, <1>7, <1>12
  <1>13. Tiles(b, rest + 1, k, n)
    BY <1>6, <1>8, <1>10, <1>11, <1>12 DEF Tiles, q
  <1> QED
    BY <1>6, <1>13 DEF b

LEMMA SliceIn ==
    ASSUME NEW x \in Nat, NEW off \in Nat, NEW t \in 0 .. 8, off + t <= 14
    PROVE  Slice(x, off, t) \in Nat /\ Slice(x, off, t) <= 2 ^ t - 1
  <1> DEFINE u == x \div 2 ^ off
             p == 2 ^ t
  <1>0. off \in 0 .. 14 /\ t \in 0 .. 14
    OBVIOUS
  <1>1. u \in Nat /\ p \in Nat /\ p >= 1
    BY <1>0, ShiftIn, PowIs
  <1> HIDE DEF u, p
  <1>2. u % p \in Nat /\ u % p <= p - 1
    BY <1>1
  <1> QED
    BY <1>2 DEF Slice, u, p

LEMMA BitIn ==
    ASSUME NEW x \in Nat, NEW i \in 0 .. 14
    PROVE  Bit(x, i) \in 0 .. 1
  <1> DEFINE u == x \div 2 ^ i
  <1>1. u \in Nat
    BY ShiftIn
  <1> HIDE DEF u
  <1>2. u % 2 \in 0 .. 1
    BY <1>1
  <1> QED
    BY <1>2 DEF Bit, u

LEMMA Spread ==
    ASSUME NEW y \in Nat, NEW c \in 0 .. 1, NEW p \in Nat, NEW q \in Nat
    PROVE  (y + c * p) * q = y * q + c * (q * p)
  <1>1. CASE c = 0
    BY <1>1
  <1>2. CASE c = 1
    <2>1. (y + p) * q = y * q + q * p
      OBVIOUS
    <2> QED
      BY <1>2, <2>1
  <1> QED
    BY <1>1, <1>2

\* The sums f count the m bits of x from off on, from d on.
Counts(f, x, off, d, m) ==
    /\ f[d] \in Nat
    /\ \A t \in 0 .. m - 1 : f[d + t + 1] = f[d + t] + Bit(x, off + t) * 2 ^ (d + t)

Field(x, off, d, m) ==
    x \in Nat /\ off \in Nat /\ d \in Nat /\ m \in 0 .. 8 /\ off + m <= 14 /\ d + m <= 14

Summed(f, x, off, d, m) == f[d + m] = f[d] + Slice(x, off, m) * 2 ^ d

LEMMA Run ==
    ASSUME NEW f, NEW x, NEW off, NEW d, NEW m, Field(x, off, d, m), Counts(f, x, off, d, m)
    PROVE  Summed(f, x, off, d, m)
  <1> USE DEF Field, Counts
  <1> DEFINE P == {t \in 0 .. m : f[d + t] = f[d] + Slice(x, off, t) * 2 ^ d}
  <1>0. d \in 0 .. 14 /\ 2 ^ d \in Nat
    <2>1. d \in 0 .. 14
      OBVIOUS
    <2> QED
      BY <2>1, PowIs
  <1>1. 0 \in P
    <2>1. 0 \in 0 .. 7 /\ off + 0 <= 14 /\ d + 0 = d /\ 0 \in 0 .. m
      OBVIOUS
    <2>2. Slice(x, off, 0) = 0
      BY <2>1, SliceNext
    <2>3. f[d] = f[d] + 0 * 2 ^ d
      BY <1>0
    <2> QED
      BY <2>1, <2>2, <2>3
  <1>2. ASSUME NEW t \in 0 .. m, t < m, t \in P PROVE t + 1 \in P
    <2>1. /\ t \in 0 .. 7 /\ t \in 0 .. 8 /\ off + t <= 14 /\ d + t <= 14 /\ t \in 0 .. m - 1
          /\ d + (t + 1) = d + t + 1 /\ t + 1 \in 0 .. m /\ off + t \in 0 .. 14 /\ t \in 0 .. 14
      BY <1>2
    <2>2. f[d + t] = f[d] + Slice(x, off, t) * 2 ^ d
      BY <1>2
    <2>3. f[d + t + 1] = f[d + t] + Bit(x, off + t) * 2 ^ (d + t)
      BY <2>1
    <2>4. Slice(x, off, t + 1) = Slice(x, off, t) + Bit(x, off + t) * 2 ^ t
      BY <2>1, SliceNext
    <2>5. 2 ^ (d + t) = 2 ^ d * 2 ^ t
      BY <2>1, PowSum
    <2>6. Slice(x, off, t) \in Nat /\ Bit(x, off + t) \in 0 .. 1 /\ 2 ^ t \in Nat
      BY <2>1, SliceIn, BitIn, PowIs
    <2>7. (Slice(x, off, t) + Bit(x, off + t) * 2 ^ t) * 2 ^ d = Slice(x, off, t) * 2 ^ d + Bit(x, off + t) * (2 ^ d * 2 ^ t)
      BY <1>0, <2>6, Spread
    <2>8. Slice(x, off, t) * 2 ^ d \in Nat /\ Bit(x, off + t) * (2 ^ d * 2 ^ t) \in Nat
      <3>1. \A y, z \in Nat : y * z \in Nat
        OBVIOUS
      <3>2. Bit(x, off + t) \in Nat /\ 2 ^ d * 2 ^ t \in Nat
        BY <2>6, <1>0, <3>1
      <3> QED
        BY <2>6, <1>0, <3>1, <3>2
    <2> DEFINE y == Slice(x, off, t) * 2 ^ d
               z == Bit(x, off + t) * (2 ^ d * 2 ^ t)
    <2>9. f[d + t + 1] = (f[d] + y) + z
      BY <2>2, <2>3, <2>5, Zenon
    <2>10. Slice(x, off, t + 1) * 2 ^ d = y + z
      BY <2>4, <2>7, Zenon
    <2>11. y \in Nat /\ z \in Nat
      BY <2>8
    <2> HIDE DEF y, z
    <2>12. f[d + t + 1] = f[d] + (y + z)
      BY <2>9, <2>11
    <2> QED
      BY <2>1, <2>10, <2>12
  <1> HIDE DEF P
  <1>3. m \in P
    <2>1. m \in Nat /\ m \in 0 .. m
      OBVIOUS
    <2>2. \A t \in 0 .. m : t < m /\ t \in P => t + 1 \in P
      BY <1>2
    <2>3. 0 .. m \subseteq P
      BY <1>1, <2>1, <2>2, UpTo, Zenon
    <2> QED
      BY <2>1, <2>3
  <1> QED
    BY <1>3 DEF P, Summed

LEMMA NumberIs ==
    ASSUME NEW bit, NEW n
    PROVE  AbstractB!Number(bit, n) = Total([i \in 1 .. n |-> bit[i] * 2 ^ (i - 1)])
  BY DEF AbstractB!Number, AbstractB!FoldLeft, AbstractB!MapThenFoldSet, AbstractB!Max, Total, FoldLeft, MapThenFoldSet, Max

\* Bit B of a sequence, as bit r of its byte q.
LEMMA BitAt ==
    ASSUME NEW s, NEW q \in Nat, NEW r \in 0 .. 7
    PROVE  AbstractB!BitOf(s, 8 * q + r) = Bit(s[q + 1], r)
  <1>1. (8 * q + r) \div 8 = q /\ (8 * q + r) % 8 = r
    OBVIOUS
  <1> DEFINE i == 8 * q + r
  <1>2. i \div 8 = q /\ i % 8 = r
    BY <1>1
  <1> HIDE DEF i
  <1>3. AbstractB!BitOf(s, i) = Bit(s[q + 1], r)
    BY <1>2 DEF AbstractB!BitOf, Bit
  <1> QED
    BY <1>3 DEF i

\* getbits reads the field of n bits from bit k on.
LEMMA GetBitsIs ==
    ASSUME NEW a, NEW s, Holds(a, s), NEW k \in Nat, NEW n \in 1 .. 14, k + n <= 8 * Len(s)
    PROVE  getbits(a, k, n) = AbstractB!Number([i \in 1 .. n |-> AbstractB!BitOf(s, k + i - 1)], n)
  <1> DEFINE bit == [i \in 1 .. n |-> AbstractB!BitOf(s, k + i - 1)]
             w == [i \in 1 .. n |-> bit[i] * 2 ^ (i - 1)]
             b == Blocks(k, n)
             z == [i \in DOMAIN b |->
                     ((a.buf[b[i].at + 1] \div 2 ^ b[i].off) % 2 ^ b[i].bits) * 2 ^ b[i].done]
  <1>1. AbstractB!Number(bit, n) = Total(w)
    BY NumberIs
  <1>2. getbits(a, k, n) = Total(z)
    BY DEF getbits, Total
  <1>0. n \in Nat /\ n > 0
    OBVIOUS
  <1>3. PICK last : Tiles(b, last, k, n)
    BY <1>0, BlocksTile, Zenon
  <1>4. PICK f : TotalSteps(f, n, w)
    <2>1. DOMAIN w = 1 .. n /\ n \in Nat
      OBVIOUS
    <2> HIDE DEF w
    <2> QED
      BY <2>1, TotalGoes
  <1>5. last \in Nat /\ last >= 1 /\ DOMAIN b = 1 .. last /\ b[1].done = 0 /\ b[last].done + b[last].bits = n
    BY <1>3 DEF Tiles
  <1>6. PICK g : TotalSteps(g, last, z)
    <2>1. DOMAIN z = 1 .. last
      BY <1>5
    <2> HIDE DEF z
    <2> QED
      BY <1>5, <2>1, TotalGoes
  <1>7. /\ f[0] = 0 /\ Total(w) = f[n]
        /\ \A i \in 1 .. n : f[i] = f[i - 1] + w[i]
    BY <1>4 DEF TotalSteps
  <1>8. /\ g[0] = 0 /\ Total(z) = g[last]
        /\ \A i \in 1 .. last : g[i] = g[i - 1] + z[i]
    BY <1>6 DEF TotalSteps
  <1>9. /\ a.len = Len(s) /\ a.len \in Nat /\ s \in Seq(Byte)
        /\ \A i \in 1 .. a.len : a.buf[i] = s[i]
    BY DEF Holds, Copy
  <1>10. ASSUME NEW i \in 1 .. last
         PROVE  /\ b[i].at \in Nat /\ b[i].off \in 0 .. 7 /\ b[i].bits \in 0 .. 8 - b[i].off /\ b[i].bits > 0
                /\ b[i].done \in Nat /\ 8 * b[i].at + b[i].off = k + b[i].done /\ b[i].done + b[i].bits <= n
                /\ i > 1 => b[i].done = b[i - 1].done + b[i - 1].bits
    <2> HIDE DEF b
    <2>0. b[i].at = (k \div 8) + i - 1 /\ k \div 8 \in Nat
      BY <1>3 DEF Tiles
    <2>1. b[i].at = (k \div 8) + i - 1 /\ k \div 8 \in Nat
      BY <2>0
    <2>2. /\ b[i].off \in 0 .. 7 /\ b[i].bits \in 0 .. 8 - b[i].off /\ b[i].bits > 0
          /\ b[i].done \in Nat /\ 8 * b[i].at + b[i].off = k + b[i].done /\ b[i].done + b[i].bits <= n
      BY <1>0, <1>3, Zenon DEF Tiles
    <2>3. ASSUME i > 1 PROVE b[i].done = b[i - 1].done + b[i - 1].bits
      <3>1. i - 1 \in 1 .. last /\ i - 1 < last /\ (i - 1) + 1 = i
        BY <1>5, <2>3
      <3>2. b[(i - 1) + 1].done = b[i - 1].done + b[i - 1].bits
        BY <3>1, <1>3 DEF Tiles
      <3> QED
        BY <3>1, <3>2
    <2>4. b[i].at \in Nat
      BY <2>1
    <2> QED
      BY <2>2, <2>3, <2>4
  <1> HIDE DEF b
  <1>11. ASSUME NEW i \in 1 .. last
         PROVE  b[i].at + 1 \in 1 .. Len(s) /\ a.buf[b[i].at + 1] = s[b[i].at + 1] /\ s[b[i].at + 1] \in Nat
    <2> DEFINE q == b[i].at
               r == b[i].off
               m == b[i].bits
               d == b[i].done
    <2>1. q \in Nat /\ r \in 0 .. 7 /\ m \in 0 .. 8 - r /\ m > 0 /\ d \in Nat /\ 8 * q + r = k + d /\ d + m <= n
      BY <1>10
    <2> HIDE DEF q, r, m, d
    <2>2. q + 1 \in 1 .. Len(s) /\ q + 1 \in 1 .. a.len
      BY <2>1, <1>9
    <2>3. s[q + 1] \in Byte /\ a.buf[q + 1] = s[q + 1]
      BY <2>2, <1>9
    <2> QED
      <3>0. \A y \in Byte : y \in Nat
        BY DEF Byte
      <3>1. s[q + 1] \in Nat
        BY <2>3, <3>0, Zenon
      <3> QED
        BY <2>2, <2>3, <3>1, Zenon DEF q
  <1>12. ASSUME NEW i \in 1 .. last
         PROVE  z[i] = Slice(s[b[i].at + 1], b[i].off, b[i].bits) * 2 ^ b[i].done
    BY <1>5, <1>11 DEF Slice
  <1>13. ASSUME NEW i \in 1 .. last, NEW t \in 0 .. b[i].bits - 1
         PROVE  f[b[i].done + t + 1] = f[b[i].done + t] + Bit(s[b[i].at + 1], b[i].off + t) * 2 ^ (b[i].done + t)
    <2> DEFINE d == b[i].done
               q == b[i].at
               r == b[i].off + t
    <2> DEFINE off == b[i].off
               m == b[i].bits
    <2>0. /\ q \in Nat /\ off \in 0 .. 7 /\ m \in 0 .. 8 - off /\ d \in Nat
          /\ 8 * q + off = k + d /\ d + m <= n /\ t \in 0 .. m - 1 /\ r = off + t
      BY <1>10
    <2>1. /\ q \in Nat /\ r \in 0 .. 7 /\ d \in Nat /\ d + t + 1 \in 1 .. n /\ t \in Nat
          /\ k + (d + t + 1) - 1 = 8 * q + r /\ (d + t + 1) - 1 = d + t
      <3> HIDE DEF d, q, off, m, r
      <3> QED
        BY <2>0
    <2> HIDE DEF d, q, r
    <2>2. bit[d + t + 1] = Bit(s[q + 1], r)
      <3>1. bit[d + t + 1] = AbstractB!BitOf(s, 8 * q + r)
        BY <2>1
      <3> QED
        BY <3>1, <2>1, BitAt
    <2>3. w[d + t + 1] = bit[d + t + 1] * 2 ^ (d + t)
      <3> HIDE DEF bit
      <3> QED
        BY <2>1
    <2> HIDE DEF w, bit
    <2>4. f[d + t + 1] = f[(d + t + 1) - 1] + w[d + t + 1]
      BY <2>1, <1>7
    <2>5. f[d + t + 1] = f[d + t] + Bit(s[q + 1], r) * 2 ^ (d + t)
      BY <2>1, <2>2, <2>3, <2>4
    <2> QED
      BY <2>5 DEF d, q, r
  <1> DEFINE end(i) == IF i = 0 THEN 0 ELSE b[i].done + b[i].bits
             P == {i \in 0 .. last : f[end(i)] = g[i] /\ g[i] \in Nat}
  <1> HIDE DEF w, z
  <1>14. 0 \in P
    BY <1>5, <1>7, <1>8
  <1>15. ASSUME NEW i \in 0 .. last, i < last, i \in P PROVE i + 1 \in P
    <2> DEFINE j == i + 1
               d == b[j].done
               m == b[j].bits
               off == b[j].off
               x == s[b[j].at + 1]
    <2>1. j \in 1 .. last /\ j \in 0 .. last /\ j - 1 = i /\ j # 0 /\ (j > 1 <=> i # 0)
      BY <1>15, <1>5
    <2>2. f[end(i)] = g[i] /\ g[i] \in Nat
      BY <1>15
    <2>3. d = end(i)
      <3>1. CASE i = 0
        BY <2>1, <1>5, <3>1
      <3>2. CASE i # 0
        <4>1. b[j].done = b[j - 1].done + b[j - 1].bits
          BY <2>1, <1>10, <3>2
        <4>2. end(i) = b[i].done + b[i].bits
          BY <3>2
        <4> QED
          BY <2>1, <4>1, <4>2, Zenon
      <3> QED
        BY <3>1, <3>2
    <2>4. end(j) = d + m
      BY <2>1
    <2>14. x \in Nat /\ off \in 0 .. 7 /\ m \in 0 .. 8 - off /\ d \in Nat /\ d + m <= n
      BY <2>1, <1>10, <1>11, Zenon
    <2>5. x \in Nat /\ off \in Nat /\ d \in Nat /\ m \in 0 .. 8 /\ off + m <= 14 /\ d + m <= 14 /\ d \in 0 .. 14
      <3> HIDE DEF x, off, m, d
      <3> QED
        BY <2>14
    <2>6. \A t \in 0 .. m - 1 : f[d + t + 1] = f[d + t] + Bit(x, off + t) * 2 ^ (d + t)
      BY <2>1, <1>13
    <2>7. z[j] = Slice(x, off, m) * 2 ^ d
      BY <2>1, <1>12
    <2>8. g[j] = g[j - 1] + z[j]
      BY <2>1, <1>8
    <2> HIDE DEF j, d, m, off, x, end
    <2>9. f[d] \in Nat
      BY <2>2, <2>3
    <2>10. f[d + m] = f[d] + Slice(x, off, m) * 2 ^ d
      <3>1. Field(x, off, d, m) /\ Counts(f, x, off, d, m)
        BY <2>5, <2>6, <2>9 DEF Field, Counts
      <3> QED
        BY <3>1, Run DEF Summed
    <2>11. Slice(x, off, m) * 2 ^ d \in Nat
      <3>1. Slice(x, off, m) \in Nat
        BY <2>5, SliceIn
      <3>2. 2 ^ d \in Nat
        BY <2>5, PowIs
      <3> QED
        BY <3>1, <3>2
    <2>12. f[end(j)] = g[j] /\ g[j] \in Nat
      BY <2>1, <2>2, <2>3, <2>4, <2>7, <2>8, <2>10, <2>11
    <2>13. j \in P
      BY <2>1, <2>12
    <2> QED
      BY <2>13 DEF j
  <1> HIDE DEF P
  <1>16. last \in P
    <2>1. last \in 0 .. last
      BY <1>5
    <2>2. \A i \in 0 .. last : i < last /\ i \in P => i + 1 \in P
      BY <1>15
    <2>3. 0 .. last \subseteq P
      BY <1>5, <1>14, <2>2, UpTo, Zenon
    <2> QED
      BY <2>1, <2>3
  <1>17. f[n] = g[last]
    <2>1. f[end(last)] = g[last]
      BY <1>16 DEF P
    <2>2. end(last) = n
      BY <1>5
    <2> QED
      BY <2>1, <2>2
  <1> HIDE DEF bit
  <1>18. AbstractB!Number(bit, n) = getbits(a, k, n)
    BY <1>1, <1>2, <1>7, <1>8, <1>17
  <1> QED
    BY <1>18 DEF bit

\* The sums of the 8 bits e of a byte.
EightSteps(f, e) ==
    /\ f[0] = 0
    /\ \A i \in 0 .. 7 : f[i + 1] = f[i] + e[i + 1] * 2 ^ i
    /\ \A i \in 0 .. 8 : f[i] \in Nat
    /\ AbstractB!Number(e, 8) = f[8]
    /\ AbstractB!Number(e, 8) \in Byte

LEMMA Less ==
    ASSUME NEW c \in 0 .. 1, NEW p \in Nat, NEW y \in Nat, y <= p - 1
    PROVE  y + c * p \in Nat /\ y + c * p <= 2 * p - 1
  <1>1. CASE c = 0
    BY <1>1
  <1>2. CASE c = 1
    BY <1>2
  <1> QED
    BY <1>1, <1>2

LEMMA EightGoes ==
    ASSUME NEW e, \A i \in 1 .. 8 : e[i] \in 0 .. 1
    PROVE  \E f : EightSteps(f, e)
  <1> DEFINE w == [i \in 1 .. 8 |-> e[i] * 2 ^ (i - 1)]
  <1>1. AbstractB!Number(e, 8) = Total(w)
    BY NumberIs
  <1>2. PICK f : TotalSteps(f, 8, w)
    <2>1. DOMAIN w = 1 .. 8 /\ 8 \in Nat
      OBVIOUS
    <2> HIDE DEF w
    <2> QED
      BY <2>1, TotalGoes
  <1>3. /\ f[0] = 0 /\ Total(w) = f[8]
        /\ \A i \in 1 .. 8 : f[i] = f[i - 1] + w[i]
    BY <1>2 DEF TotalSteps
  <1>4. ASSUME NEW i \in 0 .. 7 PROVE f[i + 1] = f[i] + e[i + 1] * 2 ^ i
    <2>1. i + 1 \in 1 .. 8 /\ (i + 1) - 1 = i
      OBVIOUS
    <2>2. w[i + 1] = e[i + 1] * 2 ^ i
      BY <2>1
    <2> HIDE DEF w
    <2> QED
      BY <2>1, <2>2, <1>3
  <1> HIDE DEF w
  <1> DEFINE P == {i \in 0 .. 8 : f[i] \in Nat /\ f[i] <= 2 ^ i - 1}
  <1>5. 0 \in P
    BY <1>3, Powers
  <1>6. ASSUME NEW i \in 0 .. 8, i < 8, i \in P PROVE i + 1 \in P
    <2>1. i \in 0 .. 7 /\ i \in 0 .. 13 /\ i + 1 \in 0 .. 8 /\ i + 1 \in 1 .. 8
      BY <1>6
    <2>2. f[i + 1] = f[i] + e[i + 1] * 2 ^ i /\ e[i + 1] \in 0 .. 1
      BY <2>1, <1>4
    <2>3. 2 ^ (i + 1) = 2 * 2 ^ i /\ 2 ^ i \in Nat
      BY <2>1, PowStep
    <2>4. f[i] \in Nat /\ f[i] <= 2 ^ i - 1
      BY <1>6
    <2>5. f[i] + e[i + 1] * 2 ^ i \in Nat /\ f[i] + e[i + 1] * 2 ^ i <= 2 * 2 ^ i - 1
      BY <2>2, <2>3, <2>4, Less
    <2> QED
      BY <2>1, <2>2, <2>3, <2>5
  <1> HIDE DEF P
  <1>7. 0 .. 8 \subseteq P
    <2>1. \A i \in 0 .. 8 : i < 8 /\ i \in P => i + 1 \in P
      BY <1>6
    <2>2. 8 \in Nat
      OBVIOUS
    <2> QED
      BY <1>5, <2>1, <2>2, UpTo, Zenon
  <1>8. \A i \in 0 .. 8 : f[i] \in Nat
    BY <1>7 DEF P
  <1>9. f[8] \in Byte
    <2>1. 8 \in P
      BY <1>7
    <2> QED
      BY <2>1, Powers DEF P, Byte
  <1>10. EightSteps(f, e)
    BY <1>1, <1>3, <1>4, <1>8, <1>9 DEF EightSteps
  <1> QED
    BY <1>10

\* What lies above bit c of a byte.
LEMMA HighIs ==
    ASSUME NEW y \in Byte, NEW c \in 0 .. 8
    PROVE  Slice(y, c, 8 - c) = y \div 2 ^ c
  <1>0. y \in 0 .. 255 /\ c \in {0, 1, 2, 3, 4, 5, 6, 7, 8}
    BY DEF Byte
  <1>1. CASE c = 0
    <2>1. (y \div 1) % 256 = y \div 1 /\ 8 - 0 = 8
      BY <1>0
    <2> QED
      BY <1>1, <2>1, Powers DEF Slice
  <1>2. CASE c = 1
    <2>1. (y \div 2) % 128 = y \div 2 /\ 8 - 1 = 7
      BY <1>0
    <2> QED
      BY <1>2, <2>1, Powers DEF Slice
  <1>3. CASE c = 2
    <2>1. (y \div 4) % 64 = y \div 4 /\ 8 - 2 = 6
      BY <1>0
    <2> QED
      BY <1>3, <2>1, Powers DEF Slice
  <1>4. CASE c = 3
    <2>1. (y \div 8) % 32 = y \div 8 /\ 8 - 3 = 5
      BY <1>0
    <2> QED
      BY <1>4, <2>1, Powers DEF Slice
  <1>5. CASE c = 4
    <2>1. (y \div 16) % 16 = y \div 16 /\ 8 - 4 = 4
      BY <1>0
    <2> QED
      BY <1>5, <2>1, Powers DEF Slice
  <1>6. CASE c = 5
    <2>1. (y \div 32) % 8 = y \div 32 /\ 8 - 5 = 3
      BY <1>0
    <2> QED
      BY <1>6, <2>1, Powers DEF Slice
  <1>7. CASE c = 6
    <2>1. (y \div 64) % 4 = y \div 64 /\ 8 - 6 = 2
      BY <1>0
    <2> QED
      BY <1>7, <2>1, Powers DEF Slice
  <1>8. CASE c = 7
    <2>1. (y \div 128) % 2 = y \div 128 /\ 8 - 7 = 1
      BY <1>0
    <2> QED
      BY <1>8, <2>1, Powers DEF Slice
  <1>9. CASE c = 8
    <2>1. (y \div 256) % 1 = y \div 256 /\ 8 - 8 = 0
      BY <1>0
    <2> QED
      BY <1>9, <2>1, Powers DEF Slice
  <1> QED
    BY <1>0, <1>1, <1>2, <1>3, <1>4, <1>5, <1>6, <1>7, <1>8, <1>9

LEMMA InByte ==
    ASSUME NEW y \in Byte
    PROVE  y \in Nat /\ Slice(y, 0, 8) = y /\ \A i \in 0 .. 7 : Bit(y, i) \in 0 .. 1
  <1>1. y \in Nat
    BY DEF Byte
  <1>2. Slice(y, 0, 8) = y
    <2>1. (y \div 1) % 256 = y
      BY DEF Byte
    <2> QED
      BY <2>1, Powers DEF Slice
  <1>3. ASSUME NEW i \in 0 .. 7 PROVE Bit(y, i) \in 0 .. 1
    <2>1. i \in 0 .. 14
      OBVIOUS
    <2> QED
      BY <1>1, <2>1, BitIn
  <1> QED
    BY <1>1, <1>2, <1>3

\* A byte of which no bit changes.
LEMMA ByteKept ==
    ASSUME NEW y \in Byte, NEW e, \A i \in 0 .. 7 : e[i + 1] = Bit(y, i)
    PROVE  AbstractB!Number(e, 8) = y
  <1>1. \A i \in 1 .. 8 : e[i] \in 0 .. 1
    <2> TAKE i \in 1 .. 8
    <2>1. i - 1 \in 0 .. 7 /\ (i - 1) + 1 = i
      OBVIOUS
    <2>2. e[(i - 1) + 1] = Bit(y, i - 1) /\ Bit(y, i - 1) \in 0 .. 1
      BY <2>1, InByte
    <2> QED
      BY <2>1, <2>2
  <1>2. PICK f : EightSteps(f, e)
    BY <1>1, EightGoes
  <1>3. f[0] = 0 /\ AbstractB!Number(e, 8) = f[8] /\ \A i \in 0 .. 7 : f[i + 1] = f[i] + e[i + 1] * 2 ^ i
    BY <1>2 DEF EightSteps
  <1>4. Counts(f, y, 0, 0, 8)
    <2>1. f[0] \in Nat
      BY <1>3
    <2>2. ASSUME NEW t \in 0 .. 8 - 1 PROVE f[0 + t + 1] = f[0 + t] + Bit(y, 0 + t) * 2 ^ (0 + t)
      <3>1. t \in 0 .. 7 /\ 0 + t = t /\ 0 + t + 1 = t + 1
        OBVIOUS
      <3> QED
        BY <3>1, <1>3
    <2> QED
      BY <2>1, <2>2 DEF Counts
  <1>5. Field(y, 0, 0, 8)
    BY InByte DEF Field
  <1>6. f[0 + 8] = f[0] + Slice(y, 0, 8) * 2 ^ 0
    <2>1. Summed(f, y, 0, 0, 8)
      BY <1>4, <1>5, Run
    <2> QED
      BY <2>1, Zenon DEF Summed
  <1>7. y * 2 ^ 0 = y /\ y \in Nat
    BY InByte, Powers
  <1>8. f[8] = 0 + y * 2 ^ 0
    <2>1. f[0 + 8] = f[8]
      OBVIOUS
    <2> QED
      BY <2>1, <1>3, <1>6, InByte, Zenon
  <1> QED
    BY <1>3, <1>7, <1>8

\* What setbits makes of a byte y: m bits from bit off on are those of v from
\* bit d on.
Patched(y, v, off, m, d) ==
    (y \div 2 ^ (off + m)) * 2 ^ (off + m) + Slice(v, d, m) * 2 ^ off + (y % 2 ^ off)

LEMMA ByteSet ==
    ASSUME NEW y \in Byte, NEW v \in Nat, NEW off \in 0 .. 7, NEW m \in 0 .. 8 - off,
           NEW d \in Nat, d + m <= 14, NEW e,
           \A i \in 0 .. 7 : e[i + 1] = IF i \in off .. off + m - 1 THEN Bit(v, d + (i - off)) ELSE Bit(y, i)
    PROVE  AbstractB!Number(e, 8) = Patched(y, v, off, m, d) /\ Patched(y, v, off, m, d) \in Byte
  <1> DEFINE c == off + m
             h == 8 - c
  <1>0. c \in 0 .. 8 /\ h \in 0 .. 8 /\ c + h = 8 /\ off \in Nat /\ m \in 0 .. 8 /\ off \in 0 .. 14 /\ c \in 0 .. 14
    OBVIOUS
  <1>1. \A i \in 1 .. 8 : e[i] \in 0 .. 1
    <2> TAKE i \in 1 .. 8
    <2>1. i - 1 \in 0 .. 7 /\ (i - 1) + 1 = i
      OBVIOUS
    <2>2. CASE i - 1 \in off .. off + m - 1
      <3>1. e[(i - 1) + 1] = Bit(v, d + ((i - 1) - off)) /\ d + ((i - 1) - off) \in 0 .. 14
        BY <2>1, <2>2
      <3>2. Bit(v, d + ((i - 1) - off)) \in 0 .. 1
        BY <3>1, BitIn
      <3> QED
        BY <2>1, <3>1, <3>2
    <2>3. CASE ~(i - 1 \in off .. off + m - 1)
      <3>1. e[(i - 1) + 1] = Bit(y, i - 1)
        BY <2>1, <2>3
      <3>2. Bit(y, i - 1) \in 0 .. 1
        BY <2>1, InByte
      <3> QED
        BY <2>1, <3>1, <3>2
    <2> QED
      BY <2>2, <2>3
  <1>2. PICK f : EightSteps(f, e)
    BY <1>1, EightGoes
  <1>3. /\ f[0] = 0 /\ AbstractB!Number(e, 8) = f[8] /\ f[8] \in Byte
        /\ \A i \in 0 .. 7 : f[i + 1] = f[i] + e[i + 1] * 2 ^ i
        /\ \A i \in 0 .. 8 : f[i] \in Nat
    BY <1>2, Zenon DEF EightSteps
  <1>4. y \in Nat
    BY InByte
  <1> HIDE DEF c, h
  <1>5. f[0 + off] = f[0] + Slice(y, 0, off) * 2 ^ 0
    <2>1. Field(y, 0, 0, off)
      BY <1>4 DEF Field
    <2>2. ASSUME NEW t \in 0 .. off - 1 PROVE f[0 + t + 1] = f[0 + t] + Bit(y, 0 + t) * 2 ^ (0 + t)
      <3>1. t \in 0 .. 7 /\ 0 + t = t /\ 0 + t + 1 = t + 1 /\ ~(t \in off .. off + m - 1)
        OBVIOUS
      <3>2. e[t + 1] = Bit(y, t)
        BY <3>1
      <3> QED
        BY <3>1, <3>2, <1>3
    <2>3. f[0] \in Nat
      BY <1>3
    <2>4. Counts(f, y, 0, 0, off)
      BY <2>2, <2>3 DEF Counts
    <2>9. Summed(f, y, 0, 0, off)
      BY <2>1, <2>4, Run
    <2> QED
      BY <2>9, Zenon DEF Summed
  <1>6. f[off + m] = f[off] + Slice(v, d, m) * 2 ^ off
    <2>1. Field(v, d, off, m)
      BY DEF Field
    <2>2. ASSUME NEW t \in 0 .. m - 1 PROVE f[off + t + 1] = f[off + t] + Bit(v, d + t) * 2 ^ (off + t)
      <3>1. off + t \in 0 .. 7 /\ off + t \in off .. off + m - 1 /\ d + ((off + t) - off) = d + t
        OBVIOUS
      <3>2. e[(off + t) + 1] = Bit(v, d + t)
        BY <3>1
      <3>3. f[(off + t) + 1] = f[off + t] + e[(off + t) + 1] * 2 ^ (off + t)
        BY <3>1, <1>3
      <3> QED
        BY <3>2, <3>3
    <2>3. off \in 0 .. 8
      OBVIOUS
    <2>4. f[off] \in Nat
      BY <1>3, <2>3
    <2>5. Counts(f, v, d, off, m)
      BY <2>2, <2>4 DEF Counts
    <2>9. Summed(f, v, d, off, m)
      BY <2>1, <2>5, Run
    <2> QED
      BY <2>9, Zenon DEF Summed
  <1>7. f[c + h] = f[c] + Slice(y, c, h) * 2 ^ c
    <2>1. Field(y, c, c, h)
      BY <1>0, <1>4 DEF Field
    <2>2. ASSUME NEW t \in 0 .. h - 1 PROVE f[c + t + 1] = f[c + t] + Bit(y, c + t) * 2 ^ (c + t)
      <3>1. c + t \in 0 .. 7 /\ ~(c + t \in off .. off + m - 1)
        BY <1>0 DEF c
      <3>2. e[(c + t) + 1] = Bit(y, c + t)
        BY <3>1
      <3>3. f[(c + t) + 1] = f[c + t] + e[(c + t) + 1] * 2 ^ (c + t)
        BY <3>1, <1>3
      <3> QED
        BY <3>2, <3>3
    <2>3. f[c] \in Nat
      BY <1>0, <1>3
    <2>4. Counts(f, y, c, c, h)
      BY <2>2, <2>3 DEF Counts
    <2>9. Summed(f, y, c, c, h)
      BY <2>1, <2>4, Run
    <2> QED
      BY <2>9, Zenon DEF Summed
  <1>8. Slice(y, c, h) = y \div 2 ^ c
    BY <1>0, HighIs DEF h
  <1>9. f[off] = y % 2 ^ off
    <2>1. 0 + off = off /\ y \div 2 ^ 0 = y
      BY <1>4, Powers
    <2>2. Slice(y, 0, off) = y % 2 ^ off
      BY <2>1 DEF Slice
    <2>3. Slice(y, 0, off) \in Nat
      <3>1. off \in 0 .. 8 /\ 0 \in Nat /\ 0 + off <= 14
        OBVIOUS
      <3> QED
        BY <3>1, <1>4, SliceIn
    <2>4. f[off] = 0 + Slice(y, 0, off) * 1
      BY <2>1, <1>3, <1>5, Powers
    <2> QED
      BY <2>2, <2>3, <2>4
  <1>10. f[8] = ((y % 2 ^ off) + Slice(v, d, m) * 2 ^ off) + (y \div 2 ^ c) * 2 ^ c
    <2>1. f[8] = f[c] + Slice(y, c, h) * 2 ^ c
      BY <1>0, <1>7
    <2>2. f[c] = f[off] + Slice(v, d, m) * 2 ^ off
      BY <1>6 DEF c
    <2> QED
      BY <2>1, <2>2, <1>8, <1>9, Zenon
  <1>11. /\ y % 2 ^ off \in Nat /\ Slice(v, d, m) * 2 ^ off \in Nat /\ (y \div 2 ^ c) * 2 ^ c \in Nat
    <2>0. \A p, q \in Nat : p * q \in Nat
      OBVIOUS
    <2>1. off \in 0 .. 8
      OBVIOUS
    <2>2. f[off] \in Nat
      BY <1>3, <2>1
    <2>3. Slice(v, d, m) \in Nat
      BY <1>0, SliceIn
    <2>4. 2 ^ off \in Nat /\ 2 ^ c \in Nat /\ y \div 2 ^ c \in Nat
      BY <1>0, <1>4, PowIs, ShiftIn
    <2> QED
      BY <2>0, <2>2, <2>3, <2>4, <1>9
  <1> DEFINE p1 == y % 2 ^ off
             p2 == Slice(v, d, m) * 2 ^ off
             p3 == (y \div 2 ^ c) * 2 ^ c
  <1>12. f[8] = p3 + p2 + p1
    <2>1. f[8] = (p1 + p2) + p3 /\ p1 \in Nat /\ p2 \in Nat /\ p3 \in Nat
      BY <1>10, <1>11
    <2> HIDE DEF p1, p2, p3
    <2> QED
      BY <2>1
  <1>13. Patched(y, v, off, m, d) = f[8]
    <2>1. Patched(y, v, off, m, d) = p3 + p2 + p1
      BY DEF Patched, c
    <2> HIDE DEF p1, p2, p3
    <2> QED
      BY <2>1, <1>12
  <1> QED
    BY <1>3, <1>13

\* Byte j of a field: no bit of it, or the bits of block i.
Outside(k, n, j) == \A r \in 0 .. 7 : ~(8 * (j - 1) + r \in k .. k + n - 1)

Covers(x, k, n, j) ==
    /\ x.off \in 0 .. 7 /\ x.bits \in 0 .. 8 - x.off /\ x.done \in Nat /\ x.done + x.bits <= n
    /\ \A r \in 0 .. 7 : (8 * (j - 1) + r \in k .. k + n - 1) <=> (r \in x.off .. x.off + x.bits - 1)
    /\ \A r \in x.off .. x.off + x.bits - 1 : 8 * (j - 1) + r - k = x.done + (r - x.off)

LEMMA HitIs ==
    ASSUME NEW k \in Nat, NEW n \in Nat, NEW b, NEW last, Tiles(b, last, k, n), NEW j \in Nat, j >= 1,
           NEW hit, hit = {i \in DOMAIN b : b[i].at = j - 1 /\ b[i].bits > 0}
    PROVE  \/ hit = {} /\ Outside(k, n, j)
           \/ \E i \in hit : hit = {i} /\ Covers(b[i], k, n, j)
  <1>1. last \in Nat /\ last >= 1 /\ DOMAIN b = 1 .. last /\ b[1].done = 0 /\ b[last].done + b[last].bits = n
    BY DEF Tiles
  <1>2. ASSUME NEW i \in 1 .. last
        PROVE  /\ b[i].at = (k \div 8) + i - 1 /\ b[i].off \in 0 .. 7
               /\ b[i].bits \in 0 .. 8 - b[i].off /\ b[i].done \in Nat
               /\ 8 * b[i].at + b[i].off = k + b[i].done /\ b[i].done + b[i].bits <= n
               /\ (n > 0 => b[i].bits > 0) /\ (i > 1 => b[i].off = 0)
    BY Zenon DEF Tiles
  <1>3. \A i \in 1 .. last : i < last => b[i + 1].done = b[i].done + b[i].bits
    BY DEF Tiles
  <1>4. k \div 8 \in Nat /\ 8 * (k \div 8) <= k
    OBVIOUS
  <1> DEFINE q == k \div 8
             p == j - q
  <1>5. ASSUME p \in 1 .. last, n > 0 PROVE \E i \in hit : hit = {i} /\ Covers(b[i], k, n, j)
    <2> DEFINE at == b[p].at
               off == b[p].off
               m == b[p].bits
               d == b[p].done
    <2>1. /\ at = q + p - 1 /\ off \in 0 .. 7 /\ m \in 0 .. 8 - off /\ d \in Nat
          /\ 8 * at + off = k + d /\ d + m <= n /\ m > 0 /\ (p > 1 => off = 0)
      BY <1>2, <1>5
    <2>2. p = 1 => d = 0
      BY <1>1
    <2>3. p = last => d + m = n
      BY <1>1
    <2>4. p < last => off + m = 8
      <3> SUFFICES ASSUME p < last PROVE off + m = 8
        OBVIOUS
      <3>1. p + 1 \in 1 .. last /\ p + 1 > 1
        BY <1>5, <1>1
      <3>2. b[p + 1].done = d + m
        BY <1>5, <1>3
      <3>3. b[p + 1].at = q + (p + 1) - 1 /\ b[p + 1].off = 0 /\ 8 * b[p + 1].at + b[p + 1].off = k + b[p + 1].done
        BY <3>1, <1>2
      <3> DEFINE at2 == b[p + 1].at
                 off2 == b[p + 1].off
                 d2 == b[p + 1].done
      <3>4. d2 = d + m /\ at2 = q + (p + 1) - 1 /\ off2 = 0 /\ 8 * at2 + off2 = k + d2
        BY <3>2, <3>3
      <3>5. q \in Nat /\ p \in Nat
        BY <1>4, <1>5, <1>1
      <3> HIDE DEF at, off, m, d, at2, off2, d2, p, q
      <3> QED
        BY <2>1, <3>4, <3>5
    <2>5. q \in Nat /\ p \in 1 .. last /\ p = j - q /\ at = j - 1
      BY <1>4, <1>5, <2>1
    <2>6. hit = {p}
      <3>1. p \in hit
        BY <1>1, <1>5, <2>1, <2>5
      <3>2. ASSUME NEW i \in hit PROVE i = p
        <4>1. i \in 1 .. last /\ b[i].at = j - 1
          BY <1>1
        <4>2. b[i].at = q + i - 1
          BY <4>1, <1>2
        <4> HIDE DEF p, q
        <4> QED
          BY <4>1, <4>2, <2>5
      <3> QED
        BY <3>1, <3>2
    <2>7. Covers(b[p], k, n, j)
      <3> HIDE DEF at, off, m, d, p, q
      <3>1. ASSUME NEW r \in 0 .. 7
            PROVE  (8 * (j - 1) + r \in k .. k + n - 1) <=> (r \in off .. off + m - 1)
        <4>1. CASE r < off
          <5>1. off # 0
            BY <4>1, <2>1
          <5>2. p = 1
            BY <5>1, <2>1, <2>5, <1>1
          <5>3. d = 0 /\ 8 * at + off = k
            BY <5>2, <2>1, <2>2
          <5>4. at = j - 1 /\ 8 * (j - 1) + r < k
            BY <5>3, <4>1, <2>1, <2>5
          <5> QED
            BY <5>4, <4>1, <2>1
        <4>2. CASE r >= off + m
          <5>1. CASE p = last
            BY <5>1, <4>2, <2>1, <2>3, <2>5, <1>1
          <5>2. CASE p < last
            BY <5>2, <4>2, <2>1, <2>4, <2>5, <1>1
          <5> QED
            BY <5>1, <5>2, <2>5, <1>1
        <4>3. CASE r >= off /\ r < off + m
          BY <4>3, <2>1, <2>5
        <4> QED
          BY <4>1, <4>2, <4>3, <2>1
      <3>2. ASSUME NEW r \in off .. off + m - 1 PROVE 8 * (j - 1) + r - k = d + (r - off)
        <4>1. r \in Int /\ at \in Int /\ j - 1 = at
          BY <2>1, <2>5
        <4>2. 8 * at + r - k = d + (r - off)
          BY <4>1, <2>1
        <4> QED
          BY <4>1, <4>2
      <3>3. off \in 0 .. 7 /\ m \in 0 .. 8 - off /\ d \in Nat /\ d + m <= n
        BY <2>1
      <3> QED
        BY <3>1, <3>2, <3>3, Zenon DEF Covers, off, m, d
    <2> QED
      BY <2>6, <2>7
  <1>6. ASSUME ~(p \in 1 .. last) \/ n = 0 PROVE hit = {} /\ Outside(k, n, j)
    <2>1. ASSUME NEW i \in hit PROVE FALSE
      <3>1. i \in 1 .. last /\ b[i].at = j - 1 /\ b[i].bits > 0
        BY <1>1
      <3>2. b[i].at = q + i - 1 /\ b[i].done \in Nat /\ b[i].done + b[i].bits <= n /\ b[i].bits \in 0 .. 8 - b[i].off /\ b[i].off \in 0 .. 7
        BY <3>1, <1>2
      <3> DEFINE at == b[i].at
                 m == b[i].bits
                 d == b[i].done
                 off == b[i].off
      <3>3. /\ at = j - 1 /\ m > 0 /\ at = q + i - 1 /\ d \in Nat /\ d + m <= n /\ m \in 0 .. 8 - off /\ off \in 0 .. 7
            /\ i \in 1 .. last /\ q \in Nat
        BY <3>1, <3>2, <1>4
      <3> HIDE DEF at, m, d, off, q
      <3> QED
        BY <3>3, <1>6
    <2>2. Outside(k, n, j)
      <3> SUFFICES ASSUME NEW r \in 0 .. 7, 8 * (j - 1) + r \in k .. k + n - 1 PROVE FALSE
        BY DEF Outside
      <3>1. CASE n = 0
        BY <3>1
      <3>2. CASE n > 0
        <4>1. last \in 1 .. last
          BY <1>1
        <4> DEFINE at == b[last].at
                   off == b[last].off
                   m == b[last].bits
                   d == b[last].done
        <4>2. at = q + last - 1 /\ 8 * at + off = k + d /\ d + m = n /\ off \in 0 .. 7 /\ m \in 0 .. 8 - off /\ d \in Nat
          BY <4>1, <1>1, <1>2
        <4>3. j <= q \/ j > q + last
          BY <1>1, <1>4, <1>6, <3>2, SMTT(30)
        <4>4. q \in Nat /\ k <= 8 * q + 7 /\ 8 * q <= k
          OBVIOUS
        <4> HIDE DEF at, off, m, d, q
        <4>5. CASE j <= q
          BY <4>4, <4>5
        <4>6. CASE j > q + last
          BY <4>2, <4>4, <4>6, <1>1
        <4> QED
          BY <4>3, <4>5, <4>6
      <3> QED
        BY <3>1, <3>2
    <2> QED
      BY <2>1, <2>2
  <1> HIDE DEF p
  <1> QED
    BY <1>5, <1>6

\* Byte j of BitsSet(s, k, n, v), bit by bit.
Bits(s, k, n, v, j) ==
    [i \in 1 .. 8 |-> LET b == 8 * (j - 1) + i - 1
                      IN IF b \in k .. k + n - 1 THEN (v \div 2 ^ (b - k)) % 2 ELSE AbstractB!BitOf(s, b)]

BitIs(s, k, n, v, j, r) ==
    LET b == 8 * (j - 1) + r
    IN Bits(s, k, n, v, j)[r + 1] = IF b \in k .. k + n - 1 THEN Bit(v, b - k) ELSE Bit(s[j], r)

LEMMA BitsAre ==
    ASSUME NEW s, NEW k, NEW n, NEW v, NEW j \in Nat, j >= 1, NEW r \in 0 .. 7
    PROVE  BitIs(s, k, n, v, j, r)
  <1> DEFINE b == 8 * (j - 1) + r
  <1>1. r + 1 \in 1 .. 8 /\ 8 * (j - 1) + (r + 1) - 1 = b /\ j - 1 \in Nat /\ (j - 1) + 1 = j
    OBVIOUS
  <1>2. AbstractB!BitOf(s, b) = Bit(s[j], r)
    <2>1. AbstractB!BitOf(s, 8 * (j - 1) + r) = Bit(s[(j - 1) + 1], r)
      BY <1>1, BitAt
    <2> QED
      BY <1>1, <2>1
  <1> HIDE DEF b
  <1>3. Bits(s, k, n, v, j)[r + 1] = IF b \in k .. k + n - 1 THEN (v \div 2 ^ (b - k)) % 2 ELSE AbstractB!BitOf(s, b)
    BY <1>1 DEF Bits
  <1>4. Bits(s, k, n, v, j)[r + 1] = IF b \in k .. k + n - 1 THEN Bit(v, b - k) ELSE Bit(s[j], r)
    BY <1>2, <1>3, Zenon DEF Bit
  <1> QED
    BY <1>4, Zenon DEF b, BitIs

LEMMA BitsSetIs ==
    ASSUME NEW s, NEW k, NEW n, NEW v
    PROVE  AbstractB!BitsSet(s, k, n, v) = [j \in DOMAIN s |-> AbstractB!Number(Bits(s, k, n, v, j), 8)]
  BY Zenon DEF AbstractB!BitsSet, Bits

\* A byte the field does not reach.
LEMMA OutsideIs ==
    ASSUME NEW s \in Seq(Byte), NEW k \in Nat, NEW n \in Nat, NEW v, NEW j \in 1 .. Len(s), Outside(k, n, j)
    PROVE  AbstractB!Number(Bits(s, k, n, v, j), 8) = s[j]
  <1>1. j \in Nat /\ j >= 1 /\ s[j] \in Byte
    OBVIOUS
  <1>2. ASSUME NEW r \in 0 .. 7 PROVE Bits(s, k, n, v, j)[r + 1] = Bit(s[j], r)
    <2>1. ~(8 * (j - 1) + r \in k .. k + n - 1)
      BY DEF Outside
    <2>2. BitIs(s, k, n, v, j, r)
      BY <1>1, BitsAre
    <2> QED
      BY <2>1, <2>2, Zenon DEF BitIs
  <1> DEFINE e == Bits(s, k, n, v, j)
             y == s[j]
  <1>3. \A r \in 0 .. 7 : e[r + 1] = Bit(y, r)
    BY <1>2
  <1> HIDE DEF e, y
  <1>4. AbstractB!Number(e, 8) = y
    <2>1. y \in Byte
      BY <1>1 DEF y
    <2> QED
      BY <1>3, <2>1, ByteKept
  <1> QED
    BY <1>4 DEF e, y

\* A byte the field reaches with block x.
LEMMA CoversIs ==
    ASSUME NEW s \in Seq(Byte), NEW k \in Nat, NEW n \in 0 .. 14, NEW v \in Nat, NEW j \in 1 .. Len(s),
           NEW x, Covers(x, k, n, j)
    PROVE  /\ AbstractB!Number(Bits(s, k, n, v, j), 8) = Patched(s[j], v, x.off, x.bits, x.done)
           /\ Patched(s[j], v, x.off, x.bits, x.done) \in Byte
  <1>1. j \in Nat /\ j >= 1 /\ s[j] \in Byte
    OBVIOUS
  <1> DEFINE e == Bits(s, k, n, v, j)
             y == s[j]
             off == x.off
             m == x.bits
             d == x.done
  <1>2. /\ off \in 0 .. 7 /\ m \in 0 .. 8 - off /\ d \in Nat /\ d + m <= n
        /\ \A r \in 0 .. 7 : (8 * (j - 1) + r \in k .. k + n - 1) <=> (r \in off .. off + m - 1)
        /\ \A r \in off .. off + m - 1 : 8 * (j - 1) + r - k = d + (r - off)
    BY Zenon DEF Covers
  <1>3. \A r \in 0 .. 7 : e[r + 1] = IF 8 * (j - 1) + r \in k .. k + n - 1 THEN Bit(v, 8 * (j - 1) + r - k) ELSE Bit(y, r)
    <2> TAKE r \in 0 .. 7
    <2>1. BitIs(s, k, n, v, j, r)
      BY <1>1, BitsAre
    <2> QED
      BY <2>1 DEF BitIs
  <1>4. y \in Byte
    BY <1>1
  <1> HIDE DEF e, y, off, m, d
  <1>5. \A r \in 0 .. 7 : e[r + 1] = IF r \in off .. off + m - 1 THEN Bit(v, d + (r - off)) ELSE Bit(y, r)
    <2> TAKE r \in 0 .. 7
    <2>1. CASE r \in off .. off + m - 1
      <3>1. 8 * (j - 1) + r \in k .. k + n - 1 /\ 8 * (j - 1) + r - k = d + (r - off)
        BY <1>2, <2>1, Zenon
      <3>2. e[r + 1] = Bit(v, 8 * (j - 1) + r - k)
        BY <1>3, <3>1, Zenon
      <3> QED
        BY <2>1, <3>1, <3>2, Zenon
    <2>2. CASE ~(r \in off .. off + m - 1)
      <3>1. ~(8 * (j - 1) + r \in k .. k + n - 1)
        BY <1>2, <2>2, Zenon
      <3>2. e[r + 1] = Bit(y, r)
        BY <1>3, <3>1, Zenon
      <3> QED
        BY <2>2, <3>2, Zenon
    <2> QED
      BY <2>1, <2>2, Zenon
  <1>6. d + m <= 14
    BY <1>2
  <1>7. AbstractB!Number(e, 8) = Patched(y, v, off, m, d) /\ Patched(y, v, off, m, d) \in Byte
    BY <1>2, <1>4, <1>5, <1>6, ByteSet
  <1> QED
    BY <1>7 DEF e, y, off, m, d

\* setbits writes the field of n bits from bit k on, as far as the bytes reach.
LEMMA SetBitsHolds ==
    ASSUME NEW a, NEW s, Holds(a, s), NEW k \in Nat, NEW n \in 0 .. 14, NEW v \in Nat
    PROVE  /\ Holds(setbits(a, k, n, v), AbstractB!BitsSet(s, k, n, v))
           /\ Same(setbits(a, k, n, v), a)
  <1> DEFINE b == Blocks(k, n)
             hit(j) == {i \in DOMAIN b : b[i].at = j - 1 /\ b[i].bits > 0}
             new(j) == LET x == b[CHOOSE i \in hit(j) : TRUE] IN Patched(a.buf[j], v, x.off, x.bits, x.done)
             y == [j \in DOMAIN a.buf |-> IF hit(j) = {} \/ j > a.len THEN a.buf[j] ELSE new(j)]
             u == AbstractB!BitsSet(s, k, n, v)
             c == setbits(a, k, n, v)
  <1>1. /\ Copy(a) /\ a.len = Len(s) /\ a.len \in Nat /\ s \in Seq(Byte) /\ a.buf \in Seq(Cell) /\ a.len <= Len(a.buf)
        /\ \A i \in 1 .. a.len : a.buf[i] = s[i]
    BY DEF Holds, Copy
  <1>2. c = [a EXCEPT !.buf = y]
    BY <1>1 DEF setbits, Patched, Slice, Copy
  <1>3. c = [buf |-> y, len |-> a.len, kind |-> a.kind, moved |-> a.moved]
    <2> HIDE DEF y, c
    <2> QED
      BY <1>1, <1>2, NewBuf
  <1>4. u = [j \in 1 .. Len(s) |-> AbstractB!Number(Bits(s, k, n, v, j), 8)]
    <2>1. DOMAIN s = 1 .. Len(s)
      BY <1>1
    <2> QED
      BY <2>1, BitsSetIs
  <1>0. n \in Nat
    OBVIOUS
  <1>5. PICK last : Tiles(b, last, k, n)
    BY <1>0, BlocksTile, Zenon
  <1> HIDE DEF b, c, u
  <1>6. ASSUME NEW j \in 1 .. Len(s)
        PROVE  y[j] = AbstractB!Number(Bits(s, k, n, v, j), 8) /\ AbstractB!Number(Bits(s, k, n, v, j), 8) \in Byte
    <2>1. j \in Nat /\ j >= 1 /\ ~(j > a.len) /\ j \in DOMAIN a.buf /\ a.buf[j] = s[j] /\ s[j] \in Byte
      BY <1>1
    <2>2. y[j] = IF hit(j) = {} THEN s[j] ELSE new(j)
      BY <2>1
    <2>3. \/ hit(j) = {} /\ Outside(k, n, j)
          \/ \E i \in hit(j) : hit(j) = {i} /\ Covers(b[i], k, n, j)
      BY <1>0, <1>5, <2>1, HitIs
    <2> HIDE DEF y
    <2>4. CASE hit(j) = {} /\ Outside(k, n, j)
      <3>1. AbstractB!Number(Bits(s, k, n, v, j), 8) = s[j]
        BY <2>4, <1>0, <1>1, OutsideIs
      <3>2. y[j] = s[j]
        BY <2>2, <2>4
      <3> QED
        BY <3>1, <3>2, <2>1
    <2>5. ASSUME NEW i \in hit(j), hit(j) = {i}, Covers(b[i], k, n, j)
          PROVE  y[j] = AbstractB!Number(Bits(s, k, n, v, j), 8) /\ AbstractB!Number(Bits(s, k, n, v, j), 8) \in Byte
      <3>1. (CHOOSE q \in hit(j) : TRUE) = i
        <4> HIDE DEF hit
        <4> QED
          BY <2>5
      <3>2. new(j) = Patched(s[j], v, b[i].off, b[i].bits, b[i].done)
        <4> HIDE DEF hit
        <4> QED
          BY <2>1, <3>1
      <3>3. hit(j) # {}
        <4> HIDE DEF hit
        <4> QED
          BY <2>5
      <3> HIDE DEF hit, new
      <3>4. y[j] = Patched(s[j], v, b[i].off, b[i].bits, b[i].done)
        BY <2>2, <3>2, <3>3
      <3>5. /\ AbstractB!Number(Bits(s, k, n, v, j), 8) = Patched(s[j], v, b[i].off, b[i].bits, b[i].done)
            /\ Patched(s[j], v, b[i].off, b[i].bits, b[i].done) \in Byte
        BY <2>5, <1>1, CoversIs
      <3> QED
        BY <3>4, <3>5
    <2> QED
      BY <2>3, <2>4, <2>5
  <1>7. y \in Seq(Cell) /\ Len(y) = Len(a.buf)
    <2>1. DOMAIN a.buf = 1 .. Len(a.buf) /\ Len(a.buf) \in Nat
      BY <1>1
    <2>2. y = [j \in 1 .. Len(a.buf) |-> y[j]]
      BY <2>1
    <2>3. ASSUME NEW j \in 1 .. Len(a.buf) PROVE y[j] \in Cell
      <3>1. CASE j > a.len
        <4>1. y[j] = a.buf[j]
          BY <2>1, <3>1
        <4> QED
          BY <4>1, <1>1, SMTT(30)
      <3>2. CASE j <= a.len
        <4>1. j \in 1 .. Len(s)
          BY <3>2, <1>1
        <4>2. y[j] \in Byte
          BY <4>1, <1>6
        <4> QED
          BY <4>2 DEF Cell
      <3> QED
        BY <3>1, <3>2, <1>1
    <2> HIDE DEF y
    <2> QED
      BY <2>1, <2>2, <2>3, SeqMade
  <1>8. u \in Seq(Byte) /\ Len(u) = Len(s)
    <2>1. Len(s) \in Nat /\ u = [j \in 1 .. Len(s) |-> u[j]]
      BY <1>1, <1>4
    <2>2. \A j \in 1 .. Len(s) : u[j] \in Byte
      BY <1>4, <1>6
    <2> QED
      BY <2>1, <2>2, SeqMade
  <1>9. \A j \in 1 .. Len(s) : y[j] = u[j]
    BY <1>4, <1>6, SMTT(30)
  <1> HIDE DEF y
  <1>10. c.buf = y /\ c.len = a.len /\ c.kind = a.kind /\ c.moved = a.moved
    BY <1>3
  <1>11. Copy(c)
    BY <1>1, <1>3, <1>7 DEF Copy
  <1>12. Holds(c, u)
    BY <1>1, <1>7, <1>8, <1>9, <1>10, <1>11 DEF Holds
  <1>13. Same(c, a)
    BY <1>10 DEF Same
  <1> QED
    BY <1>12, <1>13 DEF c, u

\* A field of no bits, or beyond the bytes, changes nothing.
LEMMA SetNoBits ==
    ASSUME NEW s \in Seq(Byte), NEW k \in Nat, NEW n \in 0 .. 14, NEW v, n = 0 \/ k >= 8 * Len(s)
    PROVE  AbstractB!BitsSet(s, k, n, v) = s
  <1>1. n \in Nat
    OBVIOUS
  <1>2. ASSUME NEW j \in 1 .. Len(s) PROVE AbstractB!Number(Bits(s, k, n, v, j), 8) = s[j]
    <2>1. Outside(k, n, j)
      <3> SUFFICES ASSUME NEW r \in 0 .. 7 PROVE ~(8 * (j - 1) + r \in k .. k + n - 1)
        BY DEF Outside
      <3>1. CASE n = 0
        BY <3>1
      <3>2. CASE k >= 8 * Len(s)
        <4>1. 8 * (j - 1) + r < 8 * Len(s)
          OBVIOUS
        <4> QED
          BY <4>1, <3>2
      <3> QED
        BY <3>1, <3>2
    <2> QED
      BY <1>1, <2>1, OutsideIs
  <1>3. DOMAIN s = 1 .. Len(s) /\ s = [j \in 1 .. Len(s) |-> s[j]]
    OBVIOUS
  <1> DEFINE u == AbstractB!BitsSet(s, k, n, v)
  <1>4. u = [j \in 1 .. Len(s) |-> AbstractB!Number(Bits(s, k, n, v, j), 8)]
    BY <1>3, BitsSetIs
  <1> HIDE DEF u
  <1>5. u = [j \in 1 .. Len(s) |-> s[j]]
    BY <1>2, <1>4
  <1> QED
    BY <1>3, <1>5 DEF u

-----------------------------------------------------------------------------
(* The object. *)

\* The object is a buffer with a length that fits in it; its first len cells are
\* bytes, and its buffer is there (be_byteslib.c).
BytesInv ==
    /\ object = [buf |-> object.buf, len |-> object.len, kind |-> object.kind]
    /\ object.buf \in Seq(Cell) /\ object.len \in Nat
    /\ object.len <= Len(object.buf) /\ object.len <= MaxLen
    /\ object.kind \in Kinds
    /\ \A i \in 1 .. object.len : object.buf[i] \in Byte
    /\ ~dangling

Makes == {"init", "map", "merge", "copy"}

\* Whether the length is fixed after a call.
FixedAfter(c) ==
    CASE c.op = "init" -> c.fixed
      [] c.op = "map" -> TRUE
      [] c.op \in {"merge", "copy"} -> FALSE
      [] OTHER -> object.kind # "growing"

LEMMA SelfIs ==
    ASSUME BytesInv
    PROVE  /\ Holds(Self, Data(object)) /\ Copy(Self)
           /\ Data(object) \in Seq(Byte) /\ Len(Data(object)) = object.len
           /\ \A i \in 1 .. object.len : Data(object)[i] = object.buf[i]
           /\ Self.buf = object.buf /\ Self.len = object.len /\ Self.kind = object.kind /\ Self.moved = FALSE
  <1>1. /\ Self = [buf |-> object.buf, len |-> object.len, kind |-> object.kind, moved |-> FALSE]
        /\ Self.buf = object.buf /\ Self.len = object.len /\ Self.kind = object.kind /\ Self.moved = FALSE
    BY DEF Self, m_read_attributes
  <1> HIDE DEF Self
  <1>2. Copy(Self) /\ Self.len <= Len(Self.buf) /\ \A i \in 1 .. Self.len : Self.buf[i] \in Byte
    BY <1>1 DEF BytesInv, Copy
  <1>3. Data(Self) = Data(object)
    BY <1>1 DEF Data
  <1>4. Holds(Self, Data(object)) /\ Data(object) \in Seq(Byte) /\ Len(Data(object)) = object.len
    BY <1>1, <1>2, <1>3, HoldsData
  <1>5. \A i \in 1 .. object.len : Data(object)[i] = object.buf[i]
    BY <1>1, <1>4 DEF Holds
  <1> QED
    BY <1>1, <1>2, <1>4, <1>5

\* The attributes a call writes back and what it returns.
Says(c, a, t, r) ==
    /\ Holds(a, t) /\ a.kind \in Kinds
    /\ AbstractB!Changed(c, Data(object)) = t
    /\ AbstractB!Returned(c, Data(object)) = r
    /\ (a.kind # "growing") = FixedAfter(c)

LEMMA WriteIs ==
    ASSUME BytesInv, NEW c, NEW a, NEW t, NEW r, Says(c, a, t, r), m_write_attributes(c, a, r)
    PROVE  AbstractB!Next /\ BytesInv'
  <1>1. /\ bytesCall' = c /\ bytesResult' = r /\ dangling' = dangling /\ a.len <= MaxLen
        /\ object' = [buf |-> a.buf, len |-> a.len, kind |-> a.kind]
    BY DEF m_write_attributes, Counted
  <1>2. /\ Copy(a) /\ t \in Seq(Byte) /\ a.len = Len(t) /\ a.len <= Len(a.buf)
        /\ \A i \in 1 .. a.len : a.buf[i] = t[i]
    BY DEF Says, Holds
  <1>3. object'.buf = a.buf /\ object'.len = a.len /\ object'.kind = a.kind
    BY <1>1
  <1>4. Data(object)' = t
    <2>1. Data(object)' = Data(a)
      BY <1>3 DEF Data
    <2>2. Data(a) = t
      BY DataIs DEF Says
    <2> QED
      BY <2>1, <2>2
  <1>5. \A i \in 1 .. a.len : a.buf[i] \in Byte
    BY <1>2
  <1>6. BytesInv'
    <2>1. (object = [buf |-> object.buf, len |-> object.len, kind |-> object.kind])'
      BY <1>1, <1>3
    <2>2. a.buf \in Seq(Cell) /\ a.len \in Nat /\ a.kind \in Kinds
      BY <1>2 DEF Copy, Says
    <2> QED
      BY <1>1, <1>2, <1>3, <1>5, <2>1, <2>2 DEF BytesInv
  <1>7. AbstractB!Next
    <2>1. (object.kind # "growing")' = FixedAfter(c)
      BY <1>3 DEF Says
    <2>2. Data(object)' = AbstractB!Changed(bytesCall', Data(object)) /\ bytesResult' = AbstractB!Returned(bytesCall', Data(object))
      BY <1>1, <1>4 DEF Says
    <2> QED
      BY <1>1, <2>1, <2>2 DEF AbstractB!Next, FixedAfter
  <1> QED
    BY <1>6, <1>7

LEMMA NotWrittenIs ==
    ASSUME BytesInv, NEW c, NEW a, NEW r, NotWritten(c, a, r), ~a.moved, c.op \notin Makes,
           AbstractB!Changed(c, Data(object)) = Data(object), AbstractB!Returned(c, Data(object)) = r
    PROVE  AbstractB!Next /\ BytesInv'
  <1>1. bytesCall' = c /\ bytesResult' = r /\ object' = object /\ (dangling' <=> dangling \/ a.moved)
    BY DEF NotWritten, Counted
  <1>2. BytesInv'
    BY <1>1 DEF BytesInv
  <1>3. Data(object)' = Data(object) /\ (object.kind # "growing")' = (object.kind # "growing")
    BY <1>1
  <1>4. FixedAfter(c) = (object.kind # "growing")
    BY DEF FixedAfter, Makes
  <1>5. AbstractB!Next
    BY <1>1, <1>3, <1>4 DEF AbstractB!Next, FixedAfter
  <1> QED
    BY <1>2, <1>5

\* A call that answers, or one that raises an error.
LEMMA AnswerIs ==
    ASSUME BytesInv, NEW c, NEW r, Answer(c, r) \/ NotWritten(c, Self, r), c.op \notin Makes,
           AbstractB!Changed(c, Data(object)) = Data(object), AbstractB!Returned(c, Data(object)) = r
    PROVE  AbstractB!Next /\ BytesInv'
  <1>1. NotWritten(c, Self, r) /\ ~Self.moved
    BY SelfIs DEF Answer, Self
  <1> QED
    BY <1>1, NotWrittenIs

\* The kind of a copy that a call which makes no object has written back.
LEMMA KindKept ==
    ASSUME NEW c, c.op \notin Makes
    PROVE  FixedAfter(c) = (object.kind # "growing")
  BY DEF FixedAfter, Makes

LEMMA itemIs ==
    ASSUME BytesInv, NEW k \in Int, m_item(k) PROVE AbstractB!Next /\ BytesInv'
  <1> DEFINE c == [op |-> "item", k |-> k]
             s == Data(object)
             i == IF k < 0 THEN k + object.len ELSE k
             r == IF i \in 0 .. object.len - 1 THEN <<"byte", object.buf[i + 1]>> ELSE <<"index_error">>
  <1>1. Answer(c, r) \/ NotWritten(c, Self, r)
    BY DEF m_item, Raise
  <1>2. Len(s) = object.len /\ \A j \in 1 .. object.len : s[j] = object.buf[j]
    BY SelfIs
  <1>3. object.len \in Nat
    BY DEF BytesInv
  <1>4. AbstractB!At(s, k) = i
    BY <1>2, <1>3 DEF AbstractB!At
  <1>5. i \in 0 .. object.len - 1 => object.buf[i + 1] = s[i + 1]
    <2>1. i \in 0 .. object.len - 1 => i + 1 \in 1 .. object.len
      BY <1>3
    <2> QED
      BY <2>1, <1>2
  <1> HIDE DEF s, i
  <1>6. AbstractB!Changed(c, s) = s
    BY DEF AbstractB!Changed, AbstractB!Refused
  <1>7. AbstractB!Returned(c, s) = r
    BY <1>2, <1>4, <1>5 DEF AbstractB!Returned, AbstractB!Refused
  <1>8. c.op \notin Makes
    BY DEF Makes
  <1> HIDE DEF c, r
  <1> QED
    BY <1>1, <1>6, <1>7, <1>8, AnswerIs DEF s

LEMMA setitemIs ==
    ASSUME BytesInv, NEW k \in Int, NEW v, v[1] \in Byte, m_setitem(k, v) PROVE AbstractB!Next /\ BytesInv'
  <1> DEFINE c == [op |-> "setitem", k |-> k, v |-> v]
             s == Data(object)
             one == <<v[1]>>
             a == buf_set(Self, k, one)
             t == [s EXCEPT ![k + 1] = v[1]]
  <1>1. Holds(Self, s) /\ s \in Seq(Byte) /\ Len(s) = object.len /\ object.len \in Nat /\ Self.kind = object.kind
    BY SelfIs DEF BytesInv
  <1>2. AbstractB!Inside(s, k, 1) <=> k \in 0 .. object.len - 1
    BY <1>1 DEF AbstractB!Inside, AbstractB!Width
  <1>3. c.op \notin Makes
    BY DEF Makes
  <1>4. CASE k \in 0 .. object.len - 1
    <2>1. m_write_attributes(c, a, <<"done">>)
      BY <1>4 DEF m_setitem
    <2>2. one \in Seq(Byte) /\ Len(one) = 1 /\ one[1] = v[1]
      OBVIOUS
    <2> HIDE DEF one
    <2>3. k \in Nat /\ k + Len(one) <= Len(s)
      BY <1>1, <1>4, <2>2
    <2>4. Holds(a, Over(s, k, one)) /\ Same(a, Self)
      BY <1>1, <2>2, <2>3, SetHolds
    <2>5. Over(s, k, one) = t
      <3>1. \A i \in DOMAIN s : (i \in k + 1 .. k + Len(one)) <=> i = k + 1
        BY <1>1, <1>4, <2>2
      <3>2. (k + 1) - k = 1
        BY <1>4
      <3>3. Over(s, k, one) = [i \in DOMAIN s |-> IF i = k + 1 THEN v[1] ELSE s[i]]
        BY <2>2, <3>1, <3>2 DEF Over
      <3>4. t = [i \in DOMAIN s |-> IF i = k + 1 THEN v[1] ELSE s[i]]
        <4> HIDE DEF s
        <4> QED
          BY <1>1
      <3> HIDE DEF t
      <3> QED
        BY <3>3, <3>4
    <2> HIDE DEF a, s
    <2>6. AbstractB!Changed(c, s) = t
      BY <1>2, <1>4 DEF AbstractB!Changed, AbstractB!Refused
    <2>7. AbstractB!Returned(c, s) = <<"done">>
      BY <1>2, <1>4 DEF AbstractB!Returned, AbstractB!Refused
    <2> HIDE DEF c, t
    <2>8. a.kind \in Kinds /\ (a.kind # "growing") = FixedAfter(c)
      BY <1>1, <1>3, <2>4, KindKept DEF Same, BytesInv
    <2>9. Says(c, a, t, <<"done">>)
      BY <2>4, <2>5, <2>6, <2>7, <2>8 DEF Says, s
    <2> QED
      BY <2>1, <2>9, WriteIs
  <1>5. CASE ~(k \in 0 .. object.len - 1)
    <2>1. NotWritten(c, Self, <<"index_error">>)
      BY <1>5 DEF m_setitem, Raise
    <2> HIDE DEF s
    <2>2. AbstractB!Changed(c, s) = s
      BY <1>2, <1>5 DEF AbstractB!Changed, AbstractB!Refused
    <2>3. AbstractB!Returned(c, s) = <<"index_error">>
      BY <1>2, <1>5 DEF AbstractB!Returned, AbstractB!Refused
    <2> HIDE DEF c
    <2> QED
      BY <1>3, <2>1, <2>2, <2>3, AnswerIs DEF s
  <1> QED
    BY <1>4, <1>5

LEMMA clearIs ==
    ASSUME BytesInv, m_clear PROVE AbstractB!Next /\ BytesInv'
  <1> DEFINE c == [op |-> "clear"]
             s == Data(object)
             a == [Self EXCEPT !.len = 0]
  <1>1. Copy(Self) /\ Self.kind = object.kind
    BY SelfIs
  <1>2. c.op \notin Makes
    BY DEF Makes
  <1>3. CASE Fixed(Self)
    <2>1. NotWritten(c, Self, <<"attribute_error">>)
      BY <1>3 DEF m_clear, Raise
    <2>2. object.kind # "growing"
      BY <1>1, <1>3 DEF Fixed
    <2> HIDE DEF s
    <2>3. AbstractB!Changed(c, s) = s
      BY <2>2 DEF AbstractB!Changed, AbstractB!Refused
    <2>4. AbstractB!Returned(c, s) = <<"attribute_error">>
      BY <2>2 DEF AbstractB!Returned, AbstractB!Refused
    <2> HIDE DEF c
    <2> QED
      BY <1>2, <2>1, <2>3, <2>4, AnswerIs DEF s
  <1>4. CASE ~Fixed(Self)
    <2>1. m_write_attributes(c, a, <<"done">>)
      BY <1>4 DEF m_clear
    <2>2. object.kind = "growing"
      BY <1>1, <1>4 DEF Fixed
    <2>3. a = [buf |-> Self.buf, len |-> 0, kind |-> Self.kind, moved |-> Self.moved]
      <3> DEFINE nought == 0
      <3> HIDE DEF nought
      <3>1. [Self EXCEPT !.len = nought] = [buf |-> Self.buf, len |-> nought, kind |-> Self.kind, moved |-> Self.moved]
        BY <1>1, NewLen
      <3> QED
        BY <3>1 DEF nought
    <2> HIDE DEF a
    <2>4. Holds(a, << >>)
      BY <1>1, <2>3 DEF Holds, Copy
    <2> HIDE DEF s
    <2>5. AbstractB!Changed(c, s) = << >>
      BY <2>2 DEF AbstractB!Changed, AbstractB!Refused
    <2>6. AbstractB!Returned(c, s) = <<"done">>
      BY <2>2 DEF AbstractB!Returned, AbstractB!Refused
    <2> HIDE DEF c
    <2>7. a.kind \in Kinds /\ (a.kind # "growing") = FixedAfter(c)
      BY <1>1, <1>2, <2>3, KindKept DEF BytesInv
    <2>8. Says(c, a, << >>, <<"done">>)
      BY <2>4, <2>5, <2>6, <2>7 DEF Says, s
    <2> QED
      BY <2>1, <2>8, WriteIs
  <1> QED
    BY <1>3, <1>4

\* A call that changes the object, which stays of its kind.
LEMMA InPlaceIs ==
    ASSUME BytesInv, NEW c, NEW a, NEW t, NEW r, m_write_attributes(c, a, r), Holds(a, t), a.kind = object.kind,
           c.op \notin Makes,
           AbstractB!Changed(c, Data(object)) = t, AbstractB!Returned(c, Data(object)) = r
    PROVE  AbstractB!Next /\ BytesInv'
  <1>1. a.kind \in Kinds /\ (a.kind # "growing") = FixedAfter(c)
    BY KindKept DEF BytesInv
  <1>2. Says(c, a, t, r)
    BY <1>1 DEF Says
  <1> QED
    BY <1>2, WriteIs

\* The numbers that add, set and get are called with.
Word(v) == v \in [1 .. 4 -> Byte]

\* The parts of a word.
LEMMA WordIs ==
    ASSUME NEW v, Word(v)
    PROVE  /\ v = <<v[1], v[2], v[3], v[4]>> /\ v[1] \in Byte /\ v[2] \in Byte /\ v[3] \in Byte /\ v[4] \in Byte
           /\ v \in Seq(Byte) /\ Len(v) = 4
           /\ SubSeq(v, 1, 0) = << >> /\ SubSeq(v, 1, 1) = <<v[1]>> /\ SubSeq(v, 1, 2) = <<v[1], v[2]>>
           /\ SubSeq(v, 1, 4) = v
  <1>1. v = <<v[1], v[2], v[3], v[4]>> /\ v[1] \in Byte /\ v[2] \in Byte /\ v[3] \in Byte /\ v[4] \in Byte
    BY DEF Word
  <1>2. v \in Seq(Byte) /\ Len(v) = 4
    <2>1. v = [i \in 1 .. 4 |-> v[i]] /\ \A i \in 1 .. 4 : v[i] \in Byte
      BY DEF Word
    <2>2. 4 \in Nat
      OBVIOUS
    <2> QED
      BY <2>1, <2>2, SeqMade
  <1>3. ASSUME NEW m \in 0 .. 4
        PROVE  SubSeq(v, 1, m) \in Seq(Byte) /\ Len(SubSeq(v, 1, m)) = m /\ \A i \in 1 .. m : SubSeq(v, 1, m)[i] = v[i]
    BY <1>2
  <1>4. SubSeq(v, 1, 0) = << >>
    <2> DEFINE w == SubSeq(v, 1, 0)
    <2>1. w \in Seq(Byte) /\ Len(w) = 0
      BY <1>3
    <2> HIDE DEF w
    <2>2. w = << >>
      BY <2>1
    <2> QED
      BY <2>2 DEF w
  <1>5. SubSeq(v, 1, 1) = <<v[1]>>
    <2> DEFINE w == SubSeq(v, 1, 1)
    <2>1. w \in Seq(Byte) /\ Len(w) = 1 /\ w[1] = v[1]
      BY <1>3
    <2> HIDE DEF w
    <2>2. w = <<v[1]>>
      BY <2>1
    <2> QED
      BY <2>2 DEF w
  <1>6. SubSeq(v, 1, 2) = <<v[1], v[2]>>
    <2> DEFINE w == SubSeq(v, 1, 2)
    <2>1. w \in Seq(Byte) /\ Len(w) = 2 /\ w[1] = v[1] /\ w[2] = v[2]
      BY <1>3
    <2> HIDE DEF w
    <2>2. w = <<v[1], v[2]>>
      BY <2>1
    <2> QED
      BY <2>2 DEF w
  <1>7. SubSeq(v, 1, 4) = v
    <2> DEFINE w == SubSeq(v, 1, 4)
    <2>1. w \in Seq(Byte) /\ Len(w) = 4 /\ \A i \in 1 .. 4 : w[i] = v[i]
      BY <1>3
    <2> HIDE DEF w
    <2>2. w = v
      BY <1>2, <2>1
    <2> QED
      BY <2>2 DEF w
  <1> QED
    BY <1>1, <1>2, <1>4, <1>5, <1>6, <1>7

\* The bytes that a width selects.
LEMMA EncodedIs ==
    ASSUME NEW v, Word(v), NEW n \in -4 .. 4, Accepted(n)
    PROVE  /\ AbstractB!Encoded(v, n) = Selected(v, n) /\ Selected(v, n) \in Seq(Byte)
           /\ Len(Selected(v, n)) = Width(n) /\ Width(n) \in 0 .. 4
  <1>1. v = <<v[1], v[2], v[3], v[4]>> /\ v[1] \in Byte /\ v[2] \in Byte /\ v[3] \in Byte /\ v[4] \in Byte
    BY WordIs
  <1>2. v \in Seq(Byte) /\ Len(v) = 4
    BY WordIs
  <1>3. n \in {-4, -2, -1, 0, 1, 2, 4}
    BY DEF Accepted
  <1>4. /\ SubSeq(v, 1, 0) = << >> /\ SubSeq(v, 1, 1) = <<v[1]>> /\ SubSeq(v, 1, 2) = <<v[1], v[2]>>
        /\ SubSeq(v, 1, 4) = v
    BY WordIs
  <1>5. CASE n = 0
    BY <1>2, <1>4, <1>5 DEF AbstractB!Encoded, Selected, Width
  <1>6. CASE n = 1
    BY <1>1, <1>2, <1>4, <1>6 DEF AbstractB!Encoded, Selected, Width
  <1>7. CASE n = 2
    BY <1>1, <1>2, <1>4, <1>7 DEF AbstractB!Encoded, Selected, Width
  <1>8. CASE n = 4
    BY <1>1, <1>2, <1>4, <1>8 DEF AbstractB!Encoded, Selected, Width
  <1>9. CASE n = -1
    <2>0. ~(n >= 0) /\ -n = 1 /\ n # 0 /\ n < 0 /\ n \notin {1, 2, 4}
      <3>1. -n = 0 - n
        OBVIOUS
      <3>2. ~(n >= 0) /\ 0 - n = 1 /\ n # 0 /\ n < 0 /\ n \notin {1, 2, 4}
        BY <1>9
      <3> QED
        BY <3>1, <3>2, Zenon
    <2>1. AbstractB!Encoded(v, n) = AbstractB!Reverse(<<v[1]>>)
      BY <1>4, <2>0 DEF AbstractB!Encoded
    <2>2. AbstractB!Reverse(<<v[1]>>) = <<v[1]>>
      BY DEF AbstractB!Reverse
    <2>3. Selected(v, n) = <<v[1]>> /\ Width(n) = 1
      BY <1>9, <2>0 DEF Selected, Width
    <2> QED
      BY <1>1, <2>1, <2>2, <2>3
  <1>10. CASE n = -2
    <2>0. ~(n >= 0) /\ -n = 2 /\ n # 0 /\ n < 0 /\ n \notin {1, 2, 4, -1}
      <3>1. -n = 0 - n
        OBVIOUS
      <3>2. ~(n >= 0) /\ 0 - n = 2 /\ n # 0 /\ n < 0 /\ n \notin {1, 2, 4, -1}
        BY <1>10
      <3> QED
        BY <3>1, <3>2, Zenon
    <2>1. AbstractB!Encoded(v, n) = AbstractB!Reverse(<<v[1], v[2]>>)
      BY <1>4, <2>0 DEF AbstractB!Encoded
    <2>2. AbstractB!Reverse(<<v[1], v[2]>>) = <<v[2], v[1]>>
      BY DEF AbstractB!Reverse
    <2>3. Selected(v, n) = <<v[2], v[1]>> /\ Width(n) = 2
      BY <1>10, <2>0 DEF Selected, Width
    <2> QED
      BY <1>1, <2>1, <2>2, <2>3
  <1>11. CASE n = -4
    <2>0. ~(n >= 0) /\ -n = 4 /\ n # 0 /\ n < 0 /\ n \notin {1, 2, 4, -1, -2}
      <3>1. -n = 0 - n
        OBVIOUS
      <3>2. ~(n >= 0) /\ 0 - n = 4 /\ n # 0 /\ n < 0 /\ n \notin {1, 2, 4, -1, -2}
        BY <1>11
      <3> QED
        BY <3>1, <3>2, Zenon
    <2>1. AbstractB!Encoded(v, n) = AbstractB!Reverse(v)
      BY <1>4, <2>0 DEF AbstractB!Encoded
    <2>2. AbstractB!Reverse(v) = <<v[4], v[3], v[2], v[1]>>
      BY <1>1, <1>2 DEF AbstractB!Reverse
    <2>3. Selected(v, n) = <<v[4], v[3], v[2], v[1]>> /\ Width(n) = 4
      BY <1>11, <2>0 DEF Selected, Width
    <2> QED
      BY <1>1, <2>1, <2>2, <2>3
  <1> QED
    BY <1>3, <1>5, <1>6, <1>7, <1>8, <1>9, <1>10, <1>11

LEMMA addIs ==
    ASSUME BytesAssumption, Rare = {}, BytesInv, NEW v, Word(v), NEW n \in -4 .. 4, m_add(v, n)
    PROVE  AbstractB!Next /\ BytesInv'
  <1> DEFINE c == [op |-> "add", v |-> v, n |-> n]
             s == Data(object)
             a == IF Self.len + 4 > Len(Self.buf) THEN bytes_resize(Self, Self.len + 4) ELSE Self
             e == Selected(v, n)
  <1>1. Holds(Self, s) /\ s \in Seq(Byte) /\ Len(s) = Self.len /\ Self.kind = object.kind /\ ~Self.moved
    BY SelfIs
  <1>2. c.op \notin Makes
    BY DEF Makes
  <1>3. AbstractB!Widths = {-4, -2, -1, 0, 1, 2, 4}
    BY DEF AbstractB!Widths
  <1>4. CASE Fixed(Self)
    <2>1. NotWritten(c, Self, <<"attribute_error">>)
      BY <1>4 DEF m_add, Raise
    <2>2. object.kind # "growing"
      BY <1>1, <1>4 DEF Fixed
    <2> HIDE DEF s
    <2>3. AbstractB!Changed(c, s) = s
      BY <2>2 DEF AbstractB!Changed, AbstractB!Refused
    <2>4. AbstractB!Returned(c, s) = <<"attribute_error">>
      BY <2>2 DEF AbstractB!Returned, AbstractB!Refused
    <2> HIDE DEF c
    <2> QED
      BY <1>2, <2>1, <2>3, <2>4, AnswerIs DEF s
  <1>5. CASE ~Fixed(Self) /\ ~Accepted(n)
    <2>1. NotWritten(c, a, <<"type_error">>)
      BY <1>5 DEF m_add, Raise
    <2>2. ~a.moved
      BY <2>1 DEF NotWritten
    <2>3. object.kind = "growing" /\ n \notin AbstractB!Widths
      BY <1>1, <1>3, <1>5 DEF Fixed, Accepted
    <2> HIDE DEF s, a
    <2>4. AbstractB!Changed(c, s) = s
      BY <2>3 DEF AbstractB!Changed, AbstractB!Refused
    <2>5. AbstractB!Returned(c, s) = <<"type_error">>
      BY <2>3 DEF AbstractB!Returned, AbstractB!Refused
    <2> HIDE DEF c
    <2> QED
      BY <1>2, <2>1, <2>2, <2>4, <2>5, NotWrittenIs DEF s
  <1>6. CASE ~Fixed(Self) /\ Accepted(n)
    <2>1. Fits(Self.len + 4) /\ m_write_attributes(c, buf_add(a, e), <<"done">>)
      BY <1>6 DEF m_add
    <2>2. object.kind = "growing" /\ n \in AbstractB!Widths
      BY <1>1, <1>3, <1>6 DEF Fixed, Accepted
    <2>3. Self.len + 4 \in Nat /\ Self.len + 4 <= MaxSize /\ Len(s) <= Self.len + 4
      BY <1>1, <2>1 DEF Fits
    <2>4. Holds(a, s) /\ Len(s) + 4 <= Len(a.buf) /\ a.kind = object.kind
      <3>1. CASE Self.len + 4 > Len(Self.buf)
        <4>1. Self.kind # "mapped"
          BY <1>1, <2>2
        <4>2. Holds(bytes_resize(Self, Self.len + 4), s) /\ Self.len + 4 <= Len(bytes_resize(Self, Self.len + 4).buf)
              /\ bytes_resize(Self, Self.len + 4).kind = Self.kind
          BY <1>1, <2>3, <4>1, ResizeHolds
        <4>3. a = bytes_resize(Self, Self.len + 4)
          BY <3>1
        <4> HIDE DEF a
        <4> QED
          BY <1>1, <4>2, <4>3
      <3>2. CASE ~(Self.len + 4 > Len(Self.buf))
        <4>1. a = Self
          BY <3>2
        <4>2. Self.buf \in Seq(Cell)
          BY SelfIs DEF Copy
        <4> HIDE DEF a
        <4> QED
          BY <1>1, <3>2, <4>1, <4>2
      <3> QED
        BY <3>1, <3>2
    <2>5. e \in Seq(Byte) /\ Len(e) \in 0 .. 4 /\ AbstractB!Encoded(v, n) = e
      BY <1>6, EncodedIs, ZenonT(40)
    <2> HIDE DEF s, a, e
    <2>6. Len(s) + Len(e) <= Len(a.buf)
      <3>1. a.buf \in Seq(Cell)
        BY <2>4 DEF Holds, Copy
      <3> DEFINE m == Len(e)
      <3>5. m \in 0 .. 4
        BY <2>5
      <3> HIDE DEF m
      <3>6. m <= 4 /\ m \in Nat
        BY <3>5
      <3>2. Len(e) <= 4 /\ Len(e) \in Nat
        BY <3>6 DEF m
      <3>3. Len(s) \in Nat
        BY <1>1
      <3>4. Len(a.buf) \in Nat
        BY <3>1
      <3> QED
        BY <2>4, <3>2, <3>3, <3>4
    <2> DEFINE b == buf_add(a, e)
    <2>7. Holds(b, s \o e) /\ b.kind = object.kind
      BY <2>4, <2>5, <2>6, AddHolds DEF Same
    <2> HIDE DEF b
    <2>8. AbstractB!Changed(c, s) = s \o e
      BY <2>2, <2>5 DEF AbstractB!Changed, AbstractB!Refused
    <2>9. AbstractB!Returned(c, s) = <<"done">>
      BY <2>2 DEF AbstractB!Returned, AbstractB!Refused
    <2> HIDE DEF c
    <2>10. m_write_attributes(c, b, <<"done">>)
      BY <2>1 DEF b
    <2> QED
      BY <1>2, <2>7, <2>8, <2>9, <2>10, InPlaceIs DEF s
  <1> QED
    BY <1>4, <1>5, <1>6

LEMMA setIs ==
    ASSUME Rare = {}, BytesInv, NEW v, Word(v), NEW n \in -4 .. 4, NEW k \in Int, m_set(k, v, n)
    PROVE  AbstractB!Next /\ BytesInv'
  <1> DEFINE c == [op |-> "set", k |-> k, v |-> v, n |-> n]
             s == Data(object)
             e == Selected(v, n)
  <1>1. Holds(Self, s) /\ s \in Seq(Byte) /\ Len(s) = Self.len /\ Self.kind = object.kind
    BY SelfIs
  <1>2. c.op \notin Makes
    BY DEF Makes
  <1>3. AbstractB!Widths = {-4, -2, -1, 0, 1, 2, 4}
    BY DEF AbstractB!Widths
  <1>4. k \in Nat
    BY DEF m_set
  <1>5. CASE ~Accepted(n)
    <2>1. NotWritten(c, Self, <<"type_error">>)
      BY <1>5 DEF m_set, Raise
    <2>2. n \notin AbstractB!Widths
      BY <1>3, <1>5 DEF Accepted
    <2> HIDE DEF s
    <2>3. AbstractB!Changed(c, s) = s
      BY <2>2 DEF AbstractB!Changed, AbstractB!Refused
    <2>4. AbstractB!Returned(c, s) = <<"type_error">>
      BY <2>2 DEF AbstractB!Returned, AbstractB!Refused
    <2> HIDE DEF c
    <2> QED
      BY <1>2, <2>1, <2>3, <2>4, AnswerIs DEF s
  <1>6. CASE Accepted(n)
    <2> DEFINE b == buf_set(Self, k, e)
               t == IF k + Len(e) <= Len(s) THEN Over(s, k, e) ELSE s
    <2>1. m_write_attributes(c, b, <<"done">>)
      BY <1>6 DEF m_set
    <2>2. n \in AbstractB!Widths
      BY <1>3, <1>6 DEF Accepted
    <2>3. e \in Seq(Byte) /\ Len(e) = Width(n) /\ AbstractB!Encoded(v, n) = e
      BY <1>6, EncodedIs
    <2> HIDE DEF e
    <2>4. Holds(b, t) /\ b.kind = object.kind
      BY <1>1, <1>4, <2>3, SetHolds DEF Same
    <2>5. AbstractB!Inside(s, k, n) <=> k + Len(e) <= Len(s)
      BY <1>4, <2>3 DEF AbstractB!Inside, AbstractB!Width, Width
    <2>6. AbstractB!Overwritten(s, k, e) = Over(s, k, e)
      BY DEF AbstractB!Overwritten, Over
    <2> HIDE DEF s, b
    <2>8. AbstractB!Changed(c, s) = t
      BY <2>2, <2>3, <2>5, <2>6 DEF AbstractB!Changed, AbstractB!Refused
    <2>9. AbstractB!Returned(c, s) = <<"done">>
      BY <2>2 DEF AbstractB!Returned, AbstractB!Refused
    <2> HIDE DEF c, t
    <2> QED
      BY <1>2, <2>1, <2>4, <2>8, <2>9, InPlaceIs DEF s
  <1> QED
    BY <1>5, <1>6

\* Words of 1, 2 and 4 bytes, filled up with 0.
LEMMA FilledUp ==
    ASSUME NEW x \in Byte, NEW y \in Byte, NEW z \in Byte, NEW w \in Byte
    PROVE  /\ <<x>> \o [i \in 1 .. 4 - 1 |-> 0] = <<x, 0, 0, 0>>
           /\ <<x, y>> \o [i \in 1 .. 4 - 2 |-> 0] = <<x, y, 0, 0>>
           /\ <<x, y, z, w>> \o [i \in 1 .. 4 - 4 |-> 0] = <<x, y, z, w>>
  <1>1. [i \in 1 .. 4 - 1 |-> 0] = <<0, 0, 0>>
    OBVIOUS
  <1>2. [i \in 1 .. 4 - 2 |-> 0] = <<0, 0>>
    OBVIOUS
  <1>3. [i \in 1 .. 4 - 4 |-> 0] = << >>
    OBVIOUS
  <1>0. 0 \in Byte
    BY DEF Byte
  <1>4. <<x>> \o <<0, 0, 0>> = <<x, 0, 0, 0>>
    <2> DEFINE u == <<x>> \o <<0, 0, 0>>
    <2>1. u \in Seq(Byte) /\ Len(u) = 4 /\ u[1] = x /\ u[2] = 0 /\ u[3] = 0 /\ u[4] = 0
      BY <1>0
    <2> HIDE DEF u
    <2>2. u = <<x, 0, 0, 0>>
      BY <2>1
    <2> QED
      BY <2>2 DEF u
  <1>5. <<x, y>> \o <<0, 0>> = <<x, y, 0, 0>>
    <2> DEFINE u == <<x, y>> \o <<0, 0>>
    <2>1. u \in Seq(Byte) /\ Len(u) = 4 /\ u[1] = x /\ u[2] = y /\ u[3] = 0 /\ u[4] = 0
      BY <1>0
    <2> HIDE DEF u
    <2>2. u = <<x, y, 0, 0>>
      BY <2>1
    <2> QED
      BY <2>2 DEF u
  <1>6. <<x, y, z, w>> \o << >> = <<x, y, z, w>>
    OBVIOUS
  <1> QED
    BY <1>1, <1>2, <1>3, <1>4, <1>5, <1>6

LEMMA Reversed ==
    ASSUME NEW x, NEW y, NEW z, NEW w
    PROVE  /\ AbstractB!Reverse(<<x>>) = <<x>>
           /\ AbstractB!Reverse(<<x, y>>) = <<y, x>>
           /\ AbstractB!Reverse(<<x, y, z, w>>) = <<w, z, y, x>>
  BY DEF AbstractB!Reverse

\* The bytes of a sequence from k on.
LEMMA WindowIs ==
    ASSUME NEW s \in Seq(Byte), NEW k \in Nat, NEW m \in {1, 2, 4}, k + m <= Len(s)
    PROVE  /\ m = 1 => SubSeq(s, k + 1, k + m) = <<s[k + 1]>> /\ s[k + 1] \in Byte
           /\ m = 2 => SubSeq(s, k + 1, k + m) = <<s[k + 1], s[k + 2]>> /\ s[k + 1] \in Byte /\ s[k + 2] \in Byte
           /\ m = 4 => /\ SubSeq(s, k + 1, k + m) = <<s[k + 1], s[k + 2], s[k + 3], s[k + 4]>>
                       /\ s[k + 1] \in Byte /\ s[k + 2] \in Byte /\ s[k + 3] \in Byte /\ s[k + 4] \in Byte
  <1> DEFINE w == SubSeq(s, k + 1, k + m)
  <1>1. w \in Seq(Byte) /\ Len(w) = m /\ \A i \in 1 .. m : w[i] = s[k + i] /\ s[k + i] \in Byte
    <2>1. Len(s) \in Nat /\ k + 1 \in 1 .. Len(s) /\ k + m \in 1 .. Len(s) /\ (k + m) - (k + 1) + 1 = m
      OBVIOUS
    <2>2. w \in Seq(Byte) /\ Len(w) = (k + m) - (k + 1) + 1
      BY <2>1
    <2>3. ASSUME NEW i \in 1 .. m PROVE w[i] = s[k + i] /\ s[k + i] \in Byte
      <3>1. (k + 1) + i - 1 = k + i /\ k + i \in 1 .. Len(s)
        BY <2>1
      <3> QED
        BY <2>1, <3>1
    <2> QED
      BY <2>1, <2>2, <2>3
  <1> HIDE DEF w
  <1>2. CASE m = 1
    <2>1. w = <<w[1]>> /\ w[1] = s[k + 1] /\ s[k + 1] \in Byte
      BY <1>1, <1>2
    <2> QED
      BY <1>2, <2>1 DEF w
  <1>3. CASE m = 2
    <2>1. w = <<w[1], w[2]>> /\ w[1] = s[k + 1] /\ w[2] = s[k + 2] /\ s[k + 1] \in Byte /\ s[k + 2] \in Byte
      BY <1>1, <1>3
    <2> QED
      BY <1>3, <2>1 DEF w
  <1>4. CASE m = 4
    <2>1. /\ w = <<w[1], w[2], w[3], w[4]>>
          /\ w[1] = s[k + 1] /\ w[2] = s[k + 2] /\ w[3] = s[k + 3] /\ w[4] = s[k + 4]
          /\ s[k + 1] \in Byte /\ s[k + 2] \in Byte /\ s[k + 3] \in Byte /\ s[k + 4] \in Byte
      BY <1>1, <1>4
    <2> QED
      BY <1>4, <2>1 DEF w
  <1> QED
    BY <1>2, <1>3, <1>4

\* What buf_get reads inside the bytes.
Reads(a, s, k, n) ==
    /\ AbstractB!Part(s, k, n) \in Seq(Byte) /\ Len(AbstractB!Part(s, k, n)) = Width(n)
    /\ buf_get(a, k, n) = AbstractB!Part(s, k, n) \o [i \in 1 .. 4 - Width(n) |-> 0]

LEMMA GetIs ==
    ASSUME NEW a, NEW s, Holds(a, s), NEW k \in Nat, NEW n \in {-4, -2, -1, 1, 2, 4}, k + Width(n) <= Len(s)
    PROVE  Reads(a, s, k, n)
  <1>0. n \in Int
    OBVIOUS
  <1>1. AbstractB!Width(n) = Width(n) /\ -n = 0 - n
    BY <1>0 DEF AbstractB!Width, Width
  <1> DEFINE m == Width(n)
             p == SubSeq(s, k + 1, k + m)
             at(i) == a.buf[k + i]
  <1>2. m = IF n < 0 THEN 0 - n ELSE n
    BY <1>1 DEF Width
  <1>3. m \in {1, 2, 4}
    BY <1>2
  <1>4. /\ a.len = Len(s) /\ s \in Seq(Byte) /\ \A i \in 1 .. a.len : a.buf[i] = s[i]
    BY DEF Holds
  <1>5. AbstractB!Part(s, k, n) = IF n >= 0 THEN p ELSE AbstractB!Reverse(p)
    BY <1>1 DEF AbstractB!Part
  <1>6. ~(k + m > a.len \/ k < 0)
    BY <1>3, <1>4
  <1>7. buf_get(a, k, n) = CASE m = 1 -> <<at(1), 0, 0, 0>>
                             [] n = 2 -> <<at(1), at(2), 0, 0>>
                             [] n = -2 -> <<at(2), at(1), 0, 0>>
                             [] n = 4 -> <<at(1), at(2), at(3), at(4)>>
                             [] n = -4 -> <<at(4), at(3), at(2), at(1)>>
    BY <1>6 DEF buf_get
  <1>8. \A i \in 1 .. m : at(i) = s[k + i]
    <2> TAKE i \in 1 .. m
    <2>1. k + i \in 1 .. a.len
      BY <1>3, <1>4, <1>6
    <2> QED
      BY <1>4, <2>1
  <1> HIDE DEF m, p, at
  <1>9. ASSUME n \in {1, -1}
        PROVE  AbstractB!Part(s, k, n) = <<s[k + 1]>> /\ s[k + 1] \in Byte /\ m = 1 /\ buf_get(a, k, n) = <<s[k + 1], 0, 0, 0>>
    <2>1. m = 1
      BY <1>2, <1>9
    <2>2. p = <<s[k + 1]>> /\ s[k + 1] \in Byte
      BY <1>3, <1>4, <2>1, WindowIs DEF p, m
    <2>3. at(1) = s[k + 1]
      BY <1>8, <2>1
    <2>4. AbstractB!Part(s, k, n) = <<s[k + 1]>>
      BY <1>5, <2>2, Reversed
    <2> QED
      <3>1. n # 2 /\ n # -2 /\ n # 4 /\ n # -4
        BY <1>9
      <3>2. buf_get(a, k, n) = <<at(1), 0, 0, 0>>
        BY <1>7, <2>1, <3>1
      <3> QED
        BY <2>1, <2>2, <2>3, <2>4, <3>2
  <1>10. ASSUME n \in {2, -2}
         PROVE  \E x, y \in Byte : /\ AbstractB!Part(s, k, n) = <<x, y>> /\ m = 2
                                   /\ buf_get(a, k, n) = <<x, y, 0, 0>>
    <2>1. m = 2
      BY <1>2, <1>10
    <2>2. p = <<s[k + 1], s[k + 2]>> /\ s[k + 1] \in Byte /\ s[k + 2] \in Byte
      BY <1>3, <1>4, <2>1, WindowIs DEF p, m
    <2>3. at(1) = s[k + 1] /\ at(2) = s[k + 2]
      BY <1>8, <2>1
    <2>4. CASE n = 2
      <3>1. AbstractB!Part(s, k, n) = <<s[k + 1], s[k + 2]>>
        BY <1>5, <2>2, <2>4
      <3>2. buf_get(a, k, n) = <<s[k + 1], s[k + 2], 0, 0>>
        BY <1>7, <2>1, <2>3, <2>4
      <3> QED
        BY <2>1, <2>2, <3>1, <3>2
    <2>5. CASE n = -2
      <3>0. ~(n >= 0) /\ n # 2
        BY <2>5
      <3>1. AbstractB!Part(s, k, n) = <<s[k + 2], s[k + 1]>>
        BY <1>5, <2>2, <3>0, Reversed
      <3>2. buf_get(a, k, n) = <<s[k + 2], s[k + 1], 0, 0>>
        BY <1>7, <2>1, <2>3, <2>5
      <3> QED
        BY <2>1, <2>2, <3>1, <3>2
    <2> QED
      BY <1>10, <2>4, <2>5
  <1>11. ASSUME n \in {4, -4}
         PROVE  \E x, y, z, w \in Byte : /\ AbstractB!Part(s, k, n) = <<x, y, z, w>> /\ m = 4
                                         /\ buf_get(a, k, n) = <<x, y, z, w>>
    <2>1. m = 4
      BY <1>2, <1>11
    <2>2. /\ p = <<s[k + 1], s[k + 2], s[k + 3], s[k + 4]>>
          /\ s[k + 1] \in Byte /\ s[k + 2] \in Byte /\ s[k + 3] \in Byte /\ s[k + 4] \in Byte
      BY <1>3, <1>4, <2>1, WindowIs DEF p, m
    <2>3. at(1) = s[k + 1] /\ at(2) = s[k + 2] /\ at(3) = s[k + 3] /\ at(4) = s[k + 4]
      BY <1>8, <2>1
    <2>4. CASE n = 4
      <3>1. AbstractB!Part(s, k, n) = <<s[k + 1], s[k + 2], s[k + 3], s[k + 4]>>
        BY <1>5, <2>2, <2>4
      <3>2. buf_get(a, k, n) = <<s[k + 1], s[k + 2], s[k + 3], s[k + 4]>>
        BY <1>7, <2>1, <2>3, <2>4
      <3> QED
        BY <2>1, <2>2, <3>1, <3>2
    <2>5. CASE n = -4
      <3>0. ~(n >= 0) /\ n # 2 /\ n # 4 /\ n # -2
        BY <2>5
      <3>3. AbstractB!Reverse(p) = <<s[k + 4], s[k + 3], s[k + 2], s[k + 1]>>
        <4> DEFINE x == s[k + 1]
                   y == s[k + 2]
                   z == s[k + 3]
                   w == s[k + 4]
        <4>1. p = <<x, y, z, w>>
          BY <2>2
        <4> HIDE DEF x, y, z, w
        <4>2. AbstractB!Reverse(<<x, y, z, w>>) = <<w, z, y, x>>
          BY DEF AbstractB!Reverse
        <4>3. AbstractB!Reverse(p) = <<w, z, y, x>>
          BY <4>1, <4>2, Zenon
        <4> QED
          BY <4>3 DEF x, y, z, w
      <3>1. AbstractB!Part(s, k, n) = <<s[k + 4], s[k + 3], s[k + 2], s[k + 1]>>
        BY <1>5, <3>3, <3>0
      <3>2. buf_get(a, k, n) = <<s[k + 4], s[k + 3], s[k + 2], s[k + 1]>>
        BY <1>7, <2>1, <2>3, <2>5, <3>0
      <3> QED
        BY <2>1, <2>2, <3>1, <3>2
    <2> QED
      BY <1>11, <2>4, <2>5
  <1> DEFINE part == AbstractB!Part(s, k, n)
  <1>12. part \in Seq(Byte) /\ Len(part) = m /\ buf_get(a, k, n) = part \o [i \in 1 .. 4 - m |-> 0]
    <2>1. CASE n \in {1, -1}
      <3>1. part = <<s[k + 1]>> /\ s[k + 1] \in Byte /\ m = 1 /\ buf_get(a, k, n) = <<s[k + 1], 0, 0, 0>>
        BY <1>9, <2>1
      <3> HIDE DEF part
      <3>2. part \in Seq(Byte) /\ Len(part) = 1
        BY <3>1
      <3> QED
        BY <3>1, <3>2, FilledUp
    <2>2. CASE n \in {2, -2}
      <3>1. PICK x, y \in Byte : part = <<x, y>> /\ m = 2 /\ buf_get(a, k, n) = <<x, y, 0, 0>>
        BY <1>10, <2>2
      <3> HIDE DEF part
      <3>2. part \in Seq(Byte) /\ Len(part) = 2
        BY <3>1
      <3> QED
        BY <3>1, <3>2, FilledUp
    <2>3. CASE n \in {4, -4}
      <3>1. PICK x, y, z, w \in Byte : part = <<x, y, z, w>> /\ m = 4 /\ buf_get(a, k, n) = <<x, y, z, w>>
        BY <1>11, <2>3
      <3> HIDE DEF part
      <3>2. part \in Seq(Byte) /\ Len(part) = 4
        BY <3>1
      <3> QED
        BY <3>1, <3>2, FilledUp
    <2> QED
      BY <2>1, <2>2, <2>3
  <1> QED
    BY <1>12, Zenon DEF m, Reads

\* The number read: with its sign or without.
Signed(v, w, signed) ==
    IF signed /\ w < 4 /\ v[w] >= 128 THEN SubSeq(v, 1, w) \o [i \in 1 .. 4 - w |-> 255] ELSE v

LEMMA DecodedIs ==
    ASSUME NEW p \in Seq(Byte), NEW w \in {1, 2, 4}, Len(p) = w, NEW signed \in BOOLEAN
    PROVE  Signed(p \o [i \in 1 .. 4 - w |-> 0], w, signed) = AbstractB!Decoded(p, signed /\ w < 4)
  <1> DEFINE z == [i \in 1 .. 4 - w |-> 0]
             f == [i \in 1 .. 4 - w |-> 255]
             v == p \o z
  <1>0. 4 - w \in Nat /\ w \in Nat /\ w >= 1
    OBVIOUS
  <1>1. z \in Seq(Byte) /\ Len(z) = 4 - w
    <2>1. \A i \in 1 .. 4 - w : z[i] \in Byte
      BY DEF Byte
    <2>2. z = [i \in 1 .. 4 - w |-> z[i]]
      OBVIOUS
    <2> HIDE DEF z
    <2> QED
      BY <1>0, <2>1, <2>2, SeqMade
  <1>2. AbstractB!Last(p) = p[w]
    BY DEF AbstractB!Last
  <1>3. AbstractB!Decoded(p, signed /\ w < 4) = p \o [i \in 1 .. 4 - w |-> IF (signed /\ w < 4) /\ p[w] >= 128 THEN 255 ELSE 0]
    BY <1>2 DEF AbstractB!Decoded
  <1> HIDE DEF z
  <1>4. v[w] = p[w] /\ SubSeq(v, 1, w) = p
    <2>1. v \in Seq(Byte) /\ Len(v) = 4 /\ \A i \in 1 .. w : v[i] = p[i]
      BY <1>0, <1>1
    <2> HIDE DEF v
    <2> DEFINE u == SubSeq(v, 1, w)
    <2>2. u \in Seq(Byte) /\ Len(u) = w /\ \A i \in 1 .. w : u[i] = p[i]
      BY <1>0, <2>1
    <2> HIDE DEF u
    <2>3. u = p
      BY <2>2
    <2>4. w \in 1 .. w
      BY <1>0
    <2> QED
      BY <2>1, <2>3, <2>4 DEF u
  <1> HIDE DEF v
  <1>5. CASE (signed /\ w < 4) /\ p[w] >= 128
    <2>1. Signed(v, w, signed) = p \o f
      BY <1>4, <1>5, Zenon DEF Signed
    <2>2. AbstractB!Decoded(p, signed /\ w < 4) = p \o f
      BY <1>3, <1>5, Zenon
    <2> QED
      BY <2>1, <2>2 DEF v, z
  <1>6. CASE ~((signed /\ w < 4) /\ p[w] >= 128)
    <2>1. Signed(v, w, signed) = v
      BY <1>4, <1>6, Zenon DEF Signed
    <2>2. AbstractB!Decoded(p, signed /\ w < 4) = p \o z
      BY <1>3, <1>6, Zenon DEF z
    <2> QED
      BY <2>1, <2>2 DEF v, z
  <1> QED
    BY <1>5, <1>6

LEMMA getIs ==
    ASSUME Rare = {}, BytesInv, NEW n \in -4 .. 4, NEW k \in Int, NEW signed \in BOOLEAN, m_get(k, n, signed)
    PROVE  AbstractB!Next /\ BytesInv'
  <1> DEFINE c == [op |-> "get", k |-> k, n |-> n, signed |-> signed]
             s == Data(object)
             v == buf_get(Self, k, n)
             w == Width(n)
  <1>1. Holds(Self, s) /\ s \in Seq(Byte) /\ Len(s) = Self.len /\ Self.len \in Nat
    BY SelfIs DEF BytesInv
  <1>2. c.op \notin Makes
    BY DEF Makes
  <1>3. AbstractB!Widths = {-4, -2, -1, 0, 1, 2, 4}
    BY DEF AbstractB!Widths
  <1> HIDE DEF s
  <1>4. AbstractB!Changed(c, s) = s
    BY DEF AbstractB!Changed, AbstractB!Refused
  <1>5. CASE ~Accepted(n)
    <2>1. NotWritten(c, Self, <<"type_error">>)
      <3>1. n # 0
        BY <1>5 DEF Accepted
      <3> QED
        BY <1>5, <3>1 DEF m_get, Raise
    <2>2. n \notin AbstractB!Widths
      BY <1>3, <1>5 DEF Accepted
    <2>3. AbstractB!Returned(c, s) = <<"type_error">>
      BY <2>2 DEF AbstractB!Returned, AbstractB!Refused
    <2> HIDE DEF c
    <2> QED
      BY <1>2, <1>4, <2>1, <2>3, AnswerIs DEF s
  <1>6. CASE n = 0
    <2>1. Answer(c, <<"nil">>)
      BY <1>6 DEF m_get, Accepted
    <2>2. n \in AbstractB!Widths
      BY <1>3, <1>6
    <2>3. AbstractB!Returned(c, s) = <<"nil">>
      BY <1>6, <2>2 DEF AbstractB!Returned, AbstractB!Refused
    <2> HIDE DEF c
    <2> QED
      BY <1>2, <1>4, <2>1, <2>3, AnswerIs DEF s
  <1>7. CASE Accepted(n) /\ n # 0
    <2>1. Answer(c, <<"int", Signed(v, w, signed)>>)
      BY <1>7 DEF m_get, Signed
    <2>2. n \in AbstractB!Widths /\ n \in {-4, -2, -1, 1, 2, 4}
      BY <1>3, <1>7 DEF Accepted
    <2>3. AbstractB!Width(n) = w /\ w \in {1, 2, 4}
      <3>1. -n = 0 - n
        OBVIOUS
      <3>2. w = IF n < 0 THEN 0 - n ELSE n
        BY <3>1 DEF Width
      <3>3. AbstractB!Width(n) = w
        BY DEF AbstractB!Width, Width
      <3> HIDE DEF w
      <3>4. w \in {1, 2, 4}
        BY <2>2, <3>2
      <3> QED
        BY <3>3, <3>4
    <2>4. AbstractB!Inside(s, k, n) <=> k >= 0 /\ k + w <= Len(s)
      BY <2>3 DEF AbstractB!Inside
    <2>5. AbstractB!Returned(c, s) =
            IF AbstractB!Inside(s, k, n) THEN <<"int", AbstractB!Decoded(AbstractB!Part(s, k, n), signed /\ AbstractB!Width(n) < 4)>>
            ELSE <<"int", AbstractB!Zero(4)>>
      BY <2>2 DEF AbstractB!Returned, AbstractB!Refused
    <2> HIDE DEF w
    <2>6. AbstractB!Returned(c, s) = <<"int", Signed(v, w, signed)>>
      <3>1. CASE k >= 0 /\ k + w <= Len(s)
        <4> DEFINE p == AbstractB!Part(s, k, n)
        <4>1. p \in Seq(Byte) /\ Len(p) = w /\ v = p \o [i \in 1 .. 4 - w |-> 0]
          <5>1. k \in Nat /\ k + Width(n) <= Len(s)
            BY <3>1 DEF w
          <5>2. Reads(Self, s, k, n)
            BY <1>1, <2>2, <5>1, GetIs
          <5> QED
            BY <5>2, Zenon DEF Reads, w
        <4> HIDE DEF p, v
        <4>2. Signed(v, w, signed) = AbstractB!Decoded(p, signed /\ w < 4)
          BY <2>3, <4>1, DecodedIs
        <4>3. AbstractB!Returned(c, s) = <<"int", AbstractB!Decoded(p, signed /\ AbstractB!Width(n) < 4)>>
          BY <2>4, <2>5, <3>1, Zenon DEF p
        <4> HIDE DEF c
        <4> QED
          BY <2>3, <4>2, <4>3, Zenon
      <3>2. CASE ~(k >= 0 /\ k + w <= Len(s))
        <4>1. v = <<0, 0, 0, 0>>
          <5>1. k + Width(n) > Self.len \/ k < 0
            BY <1>1, <2>3, <3>2 DEF w
          <5> QED
            BY <5>1 DEF buf_get
        <4>2. AbstractB!Zero(4) = <<0, 0, 0, 0>>
          BY DEF AbstractB!Zero
        <4> HIDE DEF v
        <4>3. Signed(v, w, signed) = v
          <5>1. ~(v[w] >= 128)
            BY <2>3, <4>1
          <5> QED
            BY <5>1, Zenon DEF Signed
        <4>4. AbstractB!Returned(c, s) = <<"int", AbstractB!Zero(4)>>
          BY <2>4, <2>5, <3>2, Zenon
        <4> HIDE DEF c
        <4> QED
          BY <4>1, <4>2, <4>3, <4>4, Zenon
      <3> QED
        BY <3>1, <3>2
    <2> HIDE DEF c, v
    <2> QED
      BY <1>2, <1>4, <2>1, <2>6, AnswerIs DEF s
  <1> QED
    BY <1>5, <1>6, <1>7

LEMMA getbitsIs ==
    ASSUME BytesInv, NEW k \in Nat, NEW n \in 0 .. 14, m_getbits(k, n)
    PROVE  AbstractB!Next /\ BytesInv'
  <1> DEFINE c == [op |-> "getbits", k |-> k, n |-> n]
             s == Data(object)
  <1>1. Holds(Self, s) /\ s \in Seq(Byte) /\ Len(s) = object.len /\ object.len \in Nat
    BY SelfIs DEF BytesInv
  <1>2. c.op \notin Makes
    BY DEF Makes
  <1> HIDE DEF s
  <1>3. AbstractB!Changed(c, s) = s
    BY DEF AbstractB!Changed, AbstractB!Refused
  <1>4. CASE n = 0
    <2>1. NotWritten(c, Self, <<"value_error">>)
      BY <1>4 DEF m_getbits, Raise
    <2>2. AbstractB!Returned(c, s) = <<"value_error">>
      BY <1>4 DEF AbstractB!Returned, AbstractB!Refused
    <2> HIDE DEF c
    <2> QED
      BY <1>2, <1>3, <2>1, <2>2, AnswerIs DEF s
  <1>5. CASE n > 0 /\ k + n > 8 * object.len
    <2>1. NotWritten(c, Self, <<"index_error">>)
      BY <1>5 DEF m_getbits, Raise
    <2>2. ~(k + n <= 8 * Len(s))
      BY <1>1, <1>5
    <2>3. AbstractB!Returned(c, s) = <<"index_error">>
      BY <1>5, <2>2 DEF AbstractB!Returned, AbstractB!Refused
    <2> HIDE DEF c
    <2> QED
      BY <1>2, <1>3, <2>1, <2>3, AnswerIs DEF s
  <1>6. CASE n > 0 /\ ~(k + n > 8 * object.len)
    <2> DEFINE b == getbits(Self, k, n)
               m == AbstractB!Number([i \in 1 .. n |-> AbstractB!BitOf(s, k + i - 1)], n)
    <2>1. Answer(c, <<"number", b>>)
      BY <1>6 DEF m_getbits
    <2>2. k + n <= 8 * Len(s) /\ n \in 1 .. 14
      BY <1>1, <1>6
    <2>3. b = m
      BY <1>1, <2>2, GetBitsIs
    <2>4. AbstractB!Returned(c, s) = <<"number", m>>
      BY <1>6, <2>2 DEF AbstractB!Returned, AbstractB!Refused
    <2> HIDE DEF b, m, c
    <2> QED
      BY <1>2, <1>3, <2>1, <2>3, <2>4, AnswerIs DEF s
  <1> QED
    BY <1>4, <1>5, <1>6

LEMMA setbitsIs ==
    ASSUME Rare = {}, BytesInv, NEW k \in Nat, NEW n \in 0 .. 14, NEW v \in Nat, m_setbits(k, n, v)
    PROVE  AbstractB!Next /\ BytesInv'
  <1> DEFINE c == [op |-> "setbits", k |-> k, n |-> n, v |-> v]
             s == Data(object)
             a == setbits(Self, k, n, v)
             t == AbstractB!BitsSet(s, k, n, v)
             r == IF n = 0 \/ k + n <= 8 * object.len THEN <<"done">> ELSE <<"index_error">>
  <1>1. Holds(Self, s) /\ s \in Seq(Byte) /\ Len(s) = object.len /\ object.len \in Nat /\ Self.kind = object.kind
    BY SelfIs DEF BytesInv
  <1>2. c.op \notin Makes
    BY DEF Makes
  <1>3. m_write_attributes(c, a, r)
    BY DEF m_setbits
  <1>4. n = 0 \/ k + n <= 8 * object.len \/ k >= 8 * object.len
    BY DEF m_setbits
  <1>5. Holds(a, t) /\ a.kind = object.kind
    BY <1>1, SetBitsHolds, ZenonT(40) DEF Same
  <1>6. n = 0 \/ k >= 8 * object.len => t = s
    BY <1>1, SetNoBits
  <1> HIDE DEF s, a, t
  <1>7. AbstractB!Changed(c, s) = t
    <2>1. CASE k + n <= 8 * Len(s)
      BY <2>1 DEF AbstractB!Changed, AbstractB!Refused, t
    <2>2. CASE ~(k + n <= 8 * Len(s))
      <3>1. t = s
        BY <1>1, <1>4, <1>6, <2>2
      <3>2. AbstractB!Changed(c, s) = s
        BY <2>2 DEF AbstractB!Changed, AbstractB!Refused
      <3> QED
        BY <3>1, <3>2
    <2> QED
      BY <2>1, <2>2
  <1>8. AbstractB!Returned(c, s) = r
    <2>1. CASE n = 0 \/ k + n <= 8 * object.len
      <3>1. ~(n > 0 /\ k + n > 8 * Len(s))
        BY <1>1, <2>1
      <3>2. AbstractB!Returned(c, s) = <<"done">>
        BY <3>1 DEF AbstractB!Returned, AbstractB!Refused
      <3> QED
        BY <2>1, <3>2
    <2>2. CASE ~(n = 0 \/ k + n <= 8 * object.len)
      <3>1. n > 0 /\ k + n > 8 * Len(s)
        BY <1>1, <2>2
      <3>2. AbstractB!Returned(c, s) = <<"index_error">>
        BY <3>1 DEF AbstractB!Returned, AbstractB!Refused
      <3> QED
        BY <2>2, <3>2
    <2> QED
      BY <2>1, <2>2
  <1> HIDE DEF c, r
  <1> QED
    BY <1>2, <1>3, <1>5, <1>7, <1>8, InPlaceIs DEF s

-----------------------------------------------------------------------------
(* New objects, and what replaces the contents. *)

\* A buffer that is allocated for n bytes, and capped.
LEMMA AllocatedIs ==
    ASSUME BytesAssumption, NEW n \in Nat, NEW kind \in Kinds,
           NEW a, a = bytes_realloc([buf |-> << >>, len |-> 0, kind |-> kind, moved |-> FALSE], n)
    PROVE  /\ Holds(a, << >>) /\ a.kind = kind
           /\ n <= Len(a.buf) \/ MaxSize <= Len(a.buf)
           /\ kind = "fixed" /\ n <= MaxSize => Len(a.buf) = n
  <1> DEFINE e == [buf |-> << >>, len |-> 0, kind |-> kind, moved |-> FALSE]
             low  == IF kind = "growing" /\ n < 4 THEN 4 ELSE n
             room == IF low > MaxSize THEN MaxSize ELSE low
             x    == IF room <= Len(e.buf) THEN SubSeq(e.buf, 1, room) ELSE e.buf \o Junk(room - Len(e.buf))
  <1>1. Copy(e) /\ e.kind = kind /\ e.buf = << >> /\ e.len = 0
    BY DEF Copy
  <1>2. a = [e EXCEPT !.moved = TRUE, !.buf = x]
    BY <1>1 DEF bytes_realloc
  <1>3. room \in Nat /\ (n <= room \/ MaxSize <= room) /\ (kind = "fixed" /\ n <= MaxSize => room = n)
    BY DEF BytesAssumption
  <1> HIDE DEF e, room
  <1>4. x \in Seq(Cell) /\ Len(x) = room
    <2>1. CASE room = 0
      <3>1. x = SubSeq(<< >>, 1, 0)
        BY <1>1, <2>1
      <3>2. << >> \in Seq(Cell)
        OBVIOUS
      <3> HIDE DEF x
      <3> QED
        BY <2>1, <3>1, <3>2
    <2>2. CASE room # 0
      <3>1. room - 0 \in Nat /\ room - 0 = room /\ ~(room <= 0)
        BY <1>3, <2>2
      <3>2. x = << >> \o Junk(room)
        BY <1>1, <3>1
      <3>3. Junk(room) \in Seq(Cell) /\ Len(Junk(room)) = room
        BY <1>3, JunkIs
      <3>4. x = Junk(room)
        <4> HIDE DEF x
        <4> QED
          BY <3>2, <3>3
      <3> QED
        BY <3>3, <3>4
    <2> QED
      BY <2>1, <2>2
  <1> HIDE DEF x
  <1>5. a = [buf |-> x, len |-> 0, kind |-> kind, moved |-> TRUE]
    BY <1>1, <1>2, NewMovedBuf
  <1>6. a.buf = x /\ a.len = 0 /\ a.kind = kind
    BY <1>5
  <1>7. Copy(a)
    BY <1>4, <1>5 DEF Copy
  <1>8. Holds(a, << >>)
    <2> DEFINE g == << >>
    <2>1. g \in Seq(Byte) /\ Len(g) = 0
      OBVIOUS
    <2> HIDE DEF g
    <2>2. Len(x) \in Nat
      BY <1>4
    <2>3. a.len = Len(g) /\ a.len <= Len(a.buf)
      BY <1>6, <2>1, <2>2
    <2>4. \A i \in 1 .. Len(g) : a.buf[i] = g[i]
      BY <2>1
    <2>5. Holds(a, g)
      BY <1>7, <2>1, <2>3, <2>4 DEF Holds
    <2> QED
      BY <2>5 DEF g
  <1> QED
    BY <1>3, <1>4, <1>6, <1>8

\* What m_init makes of a text and a size.
LEMMA InitialIs ==
    ASSUME BytesAssumption, NEW s \in Seq(Byte), NEW n \in Nat, n <= MaxSize, NEW fixed \in BOOLEAN,
           fixed => n > 0 /\ Len(s) <= n, Len(s) <= MaxSize
    PROVE  /\ Holds(Initial(s, n, fixed), s \o IF fixed THEN AbstractB!Zero(n - Len(s)) ELSE << >>)
           /\ Initial(s, n, fixed).kind = IF fixed THEN "fixed" ELSE "growing"
           /\ ~fixed => \/ n + Headroom <= Len(Initial(s, n, fixed).buf)
                        \/ (n = 0 /\ Headroom <= Len(Initial(s, n, fixed).buf))
                        \/ MaxSize <= Len(Initial(s, n, fixed).buf)
  <1> DEFINE kind == IF fixed THEN "fixed" ELSE "growing"
             room == IF fixed THEN n ELSE (IF n = 0 THEN DefaultSize ELSE n) + Headroom
             m    == IF Len(s) > room THEN Len(s) ELSE room
             a    == bytes_realloc([buf |-> << >>, len |-> 0, kind |-> kind, moved |-> FALSE], m)
             b    == buf_add_hex(a, tohex(s))
             d    == Initial(s, n, fixed)
  <1>1. /\ m \in Nat /\ room <= m /\ Len(s) <= m /\ Len(s) \in Nat /\ kind \in Kinds
        /\ (fixed => m = n)
        /\ (~fixed => n + Headroom <= m \/ (n = 0 /\ Headroom <= m))
    BY DEF BytesAssumption, Kinds
  <1>2. d = IF fixed THEN buf_set_len(b, Len(b.buf)) ELSE b
    BY DEF Initial
  <1> HIDE DEF m, kind, d
  <1>3. /\ Holds(a, << >>) /\ a.kind = kind
        /\ m <= Len(a.buf) \/ MaxSize <= Len(a.buf)
        /\ kind = "fixed" /\ m <= MaxSize => Len(a.buf) = m
    BY <1>1, AllocatedIs
  <1> HIDE DEF a
  <1>4. b = buf_add_each(a, s)
    BY HexIs
  <1> HIDE DEF b
  <1>5. MaxSize \in Nat /\ Headroom \in Nat /\ Len(a.buf) \in Nat
    BY <1>3 DEF BytesAssumption, Holds, Copy
  <1>6. Holds(b, s) /\ Len(b.buf) = Len(a.buf) /\ b.kind = kind
    <2>1. Len(<< >>) + Len(s) <= Len(a.buf)
      BY <1>1, <1>3, <1>5
    <2>2. Holds(buf_add_each(a, s), << >> \o s) /\ Len(buf_add_each(a, s).buf) = Len(a.buf) /\ Same(buf_add_each(a, s), a)
      BY <1>3, <2>1, EachHolds
    <2>3. << >> \o s = s
      OBVIOUS
    <2> QED
      BY <1>3, <1>4, <2>2, <2>3 DEF Same
  <1>7. CASE fixed
    <2> DEFINE z == AbstractB!Zero(n - Len(s))
    <2>1. kind = "fixed" /\ Len(b.buf) = n
      BY <1>1, <1>3, <1>6, <1>7 DEF kind
    <2>2. d = buf_set_len(b, n)
      BY <1>2, <1>7, <2>1
    <2>3. Starts(b, s, n)
      BY <1>6 DEF Starts, Holds
    <2>4. Holds(d, Cut(s, n)) /\ d.kind = kind
      <3>1. n <= Len(b.buf)
        BY <2>1
      <3> QED
        BY <1>6, <2>2, <2>3, <3>1, SetLenHolds DEF Same
    <2>5. Cut(s, n) = s \o z
      <3>1. z = [i \in 1 .. n - Len(s) |-> 0]
        BY DEF AbstractB!Zero
      <3>2. CASE n = Len(s)
        <4>1. z = << >>
          BY <3>1, <3>2
        <4>2. SubSeq(s, 1, Len(s)) = s
          OBVIOUS
        <4>3. s \o << >> = s
          OBVIOUS
        <4> HIDE DEF z
        <4> QED
          BY <3>2, <4>1, <4>2, <4>3 DEF Cut
      <3>3. CASE n # Len(s)
        <4>1. ~(n <= Len(s))
          BY <1>1, <1>7, <3>3
        <4> QED
          BY <3>1, <4>1 DEF Cut
      <3> QED
        BY <3>2, <3>3
    <2> HIDE DEF z
    <2>6. Holds(d, s \o IF fixed THEN z ELSE << >>)
      BY <1>7, <2>4, <2>5
    <2> QED
      BY <1>7, <2>1, <2>4, <2>6 DEF d, z
  <1>8. CASE ~fixed
    <2>1. d = b /\ kind = "growing"
      BY <1>2, <1>8 DEF kind
    <2>2. s \o << >> = s
      OBVIOUS
    <2>3. Holds(d, s \o << >>)
      BY <1>6, <2>1, <2>2
    <2>4. \/ n + Headroom <= Len(d.buf)
          \/ (n = 0 /\ Headroom <= Len(d.buf))
          \/ MaxSize <= Len(d.buf)
      BY <1>1, <1>3, <1>5, <1>6, <1>8, <2>1
    <2>5. d.kind = "growing"
      BY <1>6, <2>1
    <2> QED
      BY <1>8, <2>3, <2>4, <2>5 DEF d
  <1> QED
    BY <1>7, <1>8

\* A call that makes the object anew.
LEMMA MadeIs ==
    ASSUME BytesInv, NEW c, NEW a, NEW t, m_write_attributes(c, a, <<"done">>), Holds(a, t), a.kind \in Kinds,
           c.op \in Makes, (a.kind # "growing") = FixedAfter(c),
           AbstractB!Changed(c, Data(object)) = t
    PROVE  AbstractB!Next /\ BytesInv'
  <1>1. c.op \notin {"add", "connect", "clear", "resize", "fromhex", "fromb64", "fromstring", "set", "get", "item",
                     "setitem", "range", "getbits", "setbits", "size", "equal", "tohex", "tob64"}
    BY DEF Makes
  <1>2. AbstractB!Returned(c, Data(object)) = <<"done">>
    BY <1>1 DEF AbstractB!Returned, AbstractB!Refused
  <1>3. Says(c, a, t, <<"done">>)
    BY <1>2 DEF Says
  <1> QED
    BY <1>3, WriteIs

LEMMA initIs ==
    ASSUME BytesAssumption, Rare = {}, BytesInv, NEW s \in Seq(Byte), NEW n \in 0 .. MaxLen, NEW fixed \in BOOLEAN,
           m_init(s, n, fixed)
    PROVE  AbstractB!Next /\ BytesInv'
  <1> DEFINE c == [op |-> "init", s |-> s, n |-> n, fixed |-> fixed]
             a == Initial(s, n, fixed)
             t == s \o IF fixed THEN AbstractB!Zero(n - Len(s)) ELSE << >>
  <1>1. /\ fixed => n > 0 /\ Len(s) <= n
        /\ Fits(Len(s)) /\ m_write_attributes(c, a, <<"done">>)
    BY DEF m_init
  <1>2. n \in Nat /\ n <= MaxSize /\ Len(s) <= MaxSize
    BY <1>1 DEF BytesAssumption, Fits
  <1>3. Holds(a, t) /\ a.kind = IF fixed THEN "fixed" ELSE "growing"
    BY <1>1, <1>2, InitialIs
  <1>4. c.op \in Makes
    BY DEF Makes
  <1>5. FixedAfter(c) = fixed
    BY DEF FixedAfter
  <1>6. AbstractB!Changed(c, Data(object)) = t
    BY DEF AbstractB!Changed, AbstractB!Refused
  <1> HIDE DEF c, a, t
  <1>7. a.kind \in Kinds /\ (a.kind # "growing") = FixedAfter(c)
    <2>1. CASE fixed
      BY <1>3, <1>5, <2>1 DEF Kinds
    <2>2. CASE ~fixed
      BY <1>3, <1>5, <2>2 DEF Kinds
    <2> QED
      BY <2>1, <2>2
  <1> QED
    BY <1>1, <1>3, <1>4, <1>6, <1>7, MadeIs

LEMMA MapIs ==
    ASSUME BytesInv, NEW s \in Seq(Byte), Map(s) PROVE AbstractB!Next /\ BytesInv'
  <1> DEFINE c == [op |-> "map", s |-> s]
             no == FALSE
             a == [buf |-> s, len |-> Len(s), kind |-> "mapped", moved |-> no]
  <1>1. m_write_attributes(c, a, <<"done">>)
    BY DEF Map
  <1> HIDE DEF no
  <1>2. s \in Seq(Cell) /\ Len(s) \in Nat
    BY DEF Cell
  <1>3. Holds(a, s) /\ a.kind = "mapped"
    BY <1>2 DEF Holds, Copy
  <1>4. c.op \in Makes
    BY DEF Makes
  <1>5. FixedAfter(c) = TRUE
    BY DEF FixedAfter
  <1>6. AbstractB!Changed(c, Data(object)) = s
    BY DEF AbstractB!Changed, AbstractB!Refused
  <1> HIDE DEF c, a
  <1>7. a.kind \in Kinds /\ (a.kind # "growing") = FixedAfter(c)
    BY <1>3, <1>5 DEF Kinds
  <1> QED
    BY <1>1, <1>3, <1>4, <1>6, <1>7, MadeIs

\* A new growing object without contents, and its room.
Empty(a, n) ==
    /\ Holds(a, << >>) /\ a.kind = "growing"
    /\ n + Headroom <= Len(a.buf) \/ (n = 0 /\ Headroom <= Len(a.buf)) \/ MaxSize <= Len(a.buf)

LEMMA NoneIs ==
    ASSUME BytesAssumption, NEW n \in Nat, n <= MaxSize
    PROVE  Empty(Initial(<< >>, n, FALSE), n)
  <1> DEFINE e == << >>
             no == FALSE
             a == Initial(e, n, no)
  <1>1. e \in Seq(Byte) /\ Len(e) = 0 /\ no \in BOOLEAN /\ ~no /\ Len(e) <= MaxSize /\ e \o << >> = e
    BY DEF BytesAssumption
  <1> HIDE DEF e, no
  <1>2. /\ Holds(a, e \o IF no THEN AbstractB!Zero(n - Len(e)) ELSE << >>)
        /\ a.kind = IF no THEN "fixed" ELSE "growing"
        /\ ~no => \/ n + Headroom <= Len(a.buf)
                  \/ (n = 0 /\ Headroom <= Len(a.buf))
                  \/ MaxSize <= Len(a.buf)
    BY <1>1, InitialIs, ZenonT(40)
  <1> HIDE DEF a
  <1>3. /\ Holds(a, e) /\ a.kind = "growing"
        /\ n + Headroom <= Len(a.buf) \/ (n = 0 /\ Headroom <= Len(a.buf)) \/ MaxSize <= Len(a.buf)
    BY <1>1, <1>2
  <1>4. Empty(a, n)
    BY <1>1, <1>3 DEF Empty, e
  <1> QED
    BY <1>4 DEF a, e, no

LEMMA mergeIs ==
    ASSUME BytesAssumption, Rare = {}, BytesInv, NEW s \in Seq(Byte), m_merge(s)
    PROVE  AbstractB!Next /\ BytesInv'
  <1> DEFINE c == [op |-> "merge", s |-> s]
             u == Data(object)
             n == object.len + Len(s)
             e == Initial(<< >>, n, FALSE)
             a == buf_add(e, u)
             b == buf_add(a, s)
  <1>1. Fits(n + Headroom) /\ m_write_attributes(c, b, <<"done">>)
    BY DEF m_merge
  <1>2. u \in Seq(Byte) /\ Len(u) = object.len /\ object.len \in Nat /\ Len(s) \in Nat
    <2>1. u \in Seq(Byte) /\ Len(u) = object.len
      BY SelfIs
    <2>2. object.len \in Nat
      BY DEF BytesInv
    <2>3. Len(s) \in Nat
      OBVIOUS
    <2> QED
      BY <2>1, <2>2, <2>3, Zenon
  <1>3. Headroom \in Nat /\ MaxSize \in Nat
    BY DEF BytesAssumption
  <1>4. n \in Nat /\ n + Headroom <= MaxSize /\ n <= MaxSize
    BY <1>1, <1>2, <1>3 DEF Fits
  <1>5. /\ Holds(e, << >>) /\ e.kind = "growing"
        /\ n + Headroom <= Len(e.buf) \/ (n = 0 /\ Headroom <= Len(e.buf)) \/ MaxSize <= Len(e.buf)
    <2>1. Empty(e, n)
      BY <1>4, NoneIs
    <2> QED
      BY <2>1, Zenon DEF Empty
  <1>6. c.op \in Makes /\ FixedAfter(c) = FALSE
    BY DEF Makes, FixedAfter
  <1>7. AbstractB!Changed(c, u) = u \o s
    BY DEF AbstractB!Changed, AbstractB!Refused
  <1> HIDE DEF c, u, e
  <1>8. Len(e.buf) \in Nat /\ n <= Len(e.buf)
    <2>1. Len(e.buf) \in Nat
      BY <1>5 DEF Holds, Copy
    <2> QED
      BY <2>1, <1>3, <1>4, <1>5
  <1>9. Holds(a, u) /\ Len(a.buf) = Len(e.buf) /\ a.kind = "growing"
    <2>1. Len(<< >>) + Len(u) <= Len(e.buf) /\ << >> \o u = u
      BY <1>2, <1>8
    <2>2. Holds(buf_add(e, u), << >> \o u) /\ Len(buf_add(e, u).buf) = Len(e.buf) /\ Same(buf_add(e, u), e)
      BY <1>2, <1>5, <2>1, AddHolds
    <2> QED
      BY <1>5, <2>1, <2>2 DEF Same
  <1> HIDE DEF a
  <1>10. Holds(b, u \o s) /\ b.kind = "growing"
    <2>1. Len(u) + Len(s) <= Len(a.buf)
      BY <1>2, <1>8, <1>9
    <2> QED
      BY <1>9, <2>1, AddHolds DEF Same
  <1> HIDE DEF b, n
  <1>11. b.kind \in Kinds /\ (b.kind # "growing") = FixedAfter(c)
    BY <1>6, <1>10 DEF Kinds
  <1> QED
    BY <1>1, <1>6, <1>7, <1>10, <1>11, MadeIs DEF u

LEMMA copyIs ==
    ASSUME BytesAssumption, BytesInv, m_copy
    PROVE  AbstractB!Next /\ BytesInv'
  <1> DEFINE c == [op |-> "copy"]
             u == Data(object)
             n == object.len
             e == Initial(<< >>, n, FALSE)
             a == buf_add(e, u)
  <1>1. m_write_attributes(c, a, <<"done">>)
    BY DEF m_copy
  <1>2. u \in Seq(Byte) /\ Len(u) = n /\ n \in Nat
    BY SelfIs DEF BytesInv
  <1>3. Headroom \in Nat /\ MaxSize \in Nat
    BY DEF BytesAssumption
  <1>4. n <= MaxSize
    BY <1>2 DEF BytesInv, BytesAssumption
  <1>5. /\ Holds(e, << >>) /\ e.kind = "growing"
        /\ n + Headroom <= Len(e.buf) \/ (n = 0 /\ Headroom <= Len(e.buf)) \/ MaxSize <= Len(e.buf)
    <2>1. Empty(e, n)
      BY <1>2, <1>4, NoneIs
    <2> QED
      BY <2>1, Zenon DEF Empty
  <1>6. c.op \in Makes /\ FixedAfter(c) = FALSE
    BY DEF Makes, FixedAfter
  <1>7. AbstractB!Changed(c, u) = u
    BY DEF AbstractB!Changed, AbstractB!Refused
  <1> HIDE DEF c, u, e, n
  <1>8. Len(e.buf) \in Nat /\ n <= Len(e.buf)
    <2>1. Len(e.buf) \in Nat
      BY <1>5 DEF Holds, Copy
    <2> QED
      BY <2>1, <1>2, <1>3, <1>4, <1>5
  <1>9. Holds(a, u) /\ a.kind = "growing"
    <2>1. Len(<< >>) + Len(u) <= Len(e.buf) /\ << >> \o u = u
      BY <1>2, <1>8
    <2>2. Holds(buf_add(e, u), << >> \o u) /\ Same(buf_add(e, u), e)
      BY <1>2, <1>5, <2>1, AddHolds
    <2> QED
      BY <1>5, <2>1, <2>2 DEF Same
  <1> HIDE DEF a
  <1>10. a.kind \in Kinds /\ (a.kind # "growing") = FixedAfter(c)
    BY <1>6, <1>9 DEF Kinds
  <1> QED
    BY <1>1, <1>6, <1>7, <1>9, <1>10, MadeIs DEF u

LEMMA changeIs ==
    ASSUME BytesInv, NEW s \in Seq(Byte), m_change_buffer(s) PROVE AbstractB!Next /\ BytesInv'
  BY MapIs DEF m_change_buffer

\* The same cells of the buffer and of the bytes.
LEMMA SameWindow ==
    ASSUME NEW u, NEW s \in Seq(Byte), \A i \in 1 .. Len(s) : u[i] = s[i],
           NEW x \in Nat, NEW y \in Int, y <= Len(s)
    PROVE  /\ SubSeq(u, x + 1, y) = SubSeq(s, x + 1, y) /\ SubSeq(s, x + 1, y) \in Seq(Byte)
           /\ Len(SubSeq(s, x + 1, y)) = IF x < y THEN y - x ELSE 0
  <1> DEFINE m == x + 1
             p == SubSeq(u, m, y)
             q == SubSeq(s, m, y)
  <1>1. m \in Int /\ Len(s) \in Nat /\ (y - m) + 1 = y - x /\ (m <= y <=> x < y)
    OBVIOUS
  <1>2. ASSUME NEW i \in m .. y PROVE u[i] \in Byte /\ s[i] \in Byte
    <2>1. i \in 1 .. Len(s)
      OBVIOUS
    <2> QED
      BY <2>1
  <1> HIDE DEF m
  <1>3. /\ p \in Seq(Byte) /\ Len(p) = IF m <= y THEN y - m + 1 ELSE 0
        /\ \A i \in 1 .. y - m + 1 : p[i] = u[m + i - 1]
    BY <1>1, <1>2, SubSeqProperties
  <1>4. /\ q \in Seq(Byte) /\ Len(q) = IF m <= y THEN y - m + 1 ELSE 0
        /\ \A i \in 1 .. y - m + 1 : q[i] = s[m + i - 1]
    BY <1>1, <1>2, SubSeqProperties
  <1> HIDE DEF p, q
  <1>5. ASSUME NEW i \in 1 .. Len(p) PROVE p[i] = q[i]
    <2>1. i \in 1 .. y - m + 1
      BY <1>1, <1>3
    <2>2. m + i - 1 \in 1 .. Len(s)
      BY <2>1, <1>1 DEF m
    <2> QED
      BY <1>3, <1>4, <2>1, <2>2
  <1>6. p = q
    <2>1. Len(p) = Len(q)
      BY <1>3, <1>4
    <2> QED
      BY <1>3, <1>4, <1>5, <2>1, SeqEqual
  <1>7. q \in Seq(Byte) /\ Len(q) = IF x < y THEN y - x ELSE 0
    BY <1>1, <1>4
  <1> QED
    BY <1>6, <1>7 DEF p, q, m

LEMMA rangeIs ==
    ASSUME BytesAssumption, BytesInv, NEW j \in Int, NEW k \in Int, m_range(j, k)
    PROVE  AbstractB!Next /\ BytesInv'
  <1> DEFINE c     == [op |-> "range", j |-> j, k |-> k]
             s     == Data(object)
             upper == IF k < 0 THEN k + object.len ELSE k
             lower == IF j < 0 THEN j + object.len ELSE j
             last  == IF upper < object.len THEN upper ELSE object.len - 1
             first == IF lower < 0 THEN 0 ELSE lower
             n     == IF last > first THEN last - first ELSE 0
             e     == Initial(<< >>, n, FALSE)
             t     == SubSeq(object.buf, first + 1, last + 1)
             b     == buf_add_each(e, t)
  <1>1. Answer(c, <<"bytes", Data(b)>>)
    BY DEF m_range, Ranged
  <1>2. /\ s \in Seq(Byte) /\ Len(s) = object.len /\ object.len \in Nat
        /\ \A i \in 1 .. object.len : s[i] = object.buf[i]
    BY SelfIs DEF BytesInv
  <1>3. object.len <= MaxLen /\ MaxLen <= MaxSize /\ MaxSize \in Nat /\ MaxLen \in Nat /\ Headroom \in Nat /\ Headroom > 0
    BY DEF BytesInv, BytesAssumption
  <1> HIDE DEF s
  <1>4. first \in Nat /\ last \in Int /\ last + 1 \in Int /\ last + 1 <= Len(s)
    BY <1>2
  <1>5. AbstractB!Between(s, j, k) = SubSeq(s, first + 1, last + 1)
    <2> DEFINE f == IF AbstractB!At(s, j) < 0 THEN 0 ELSE AbstractB!At(s, j)
               g == IF AbstractB!At(s, k) < Len(s) THEN AbstractB!At(s, k) + 1 ELSE Len(s)
    <2>1. AbstractB!At(s, j) = lower /\ AbstractB!At(s, k) = upper /\ lower \in Int /\ upper \in Int
      BY <1>2 DEF AbstractB!At
    <2> HIDE DEF lower, upper
    <2>2. f = first
      BY <2>1
    <2>3. g = last + 1
      BY <2>1, <1>2
    <2>4. AbstractB!Between(s, j, k) = SubSeq(s, f + 1, g)
      BY DEF AbstractB!Between
    <2> HIDE DEF f, g, first, last
    <2> QED
      BY <2>2, <2>3, <2>4
  <1> HIDE DEF lower, upper, first, last
  <1>6. /\ t = SubSeq(s, first + 1, last + 1) /\ t \in Seq(Byte)
        /\ Len(t) = IF first < last + 1 THEN (last + 1) - first ELSE 0
    <2>1. \A i \in 1 .. Len(s) : object.buf[i] = s[i]
      BY <1>2
    <2> DEFINE y == last + 1
    <2>2. y \in Int /\ y <= Len(s)
      BY <1>4
    <2>3. /\ SubSeq(object.buf, first + 1, y) = SubSeq(s, first + 1, y) /\ SubSeq(s, first + 1, y) \in Seq(Byte)
          /\ Len(SubSeq(s, first + 1, y)) = IF first < y THEN y - first ELSE 0
      <3> HIDE DEF y
      <3> QED
        BY <1>2, <1>4, <2>1, <2>2, SameWindow
    <2> QED
      BY <2>3, Zenon
  <1>7. n \in Nat /\ n <= MaxSize
    BY <1>2, <1>3, <1>4
  <1>8. Empty(e, n)
    BY <1>7, NoneIs
  <1>9. /\ Holds(e, << >>) /\ e.kind = "growing"
        /\ n + Headroom <= Len(e.buf) \/ (n = 0 /\ Headroom <= Len(e.buf)) \/ MaxSize <= Len(e.buf)
    BY <1>8, Zenon DEF Empty
  <1> HIDE DEF e, t
  <1>10. Len(e.buf) \in Nat
    BY <1>9 DEF Holds, Copy
  <1>11. Len(t) \in Nat /\ Len(t) <= Len(e.buf)
    <2> DEFINE l == Len(t)
               z == Len(e.buf)
    <2>1. l = (IF first < last + 1 THEN (last + 1) - first ELSE 0) /\ l <= Len(s)
      BY <1>2, <1>4, <1>6
    <2>2. n + Headroom <= z \/ (n = 0 /\ Headroom <= z) \/ MaxSize <= z
      BY <1>9
    <2>3. z \in Nat
      BY <1>10
    <2>4. l \in Nat /\ l <= n + 1
      BY <2>1, <1>4
    <2> HIDE DEF l, z, n
    <2>5. l <= z
      BY <1>2, <1>3, <1>7, <2>1, <2>2, <2>3, <2>4
    <2> QED
      BY <2>4, <2>5 DEF l, z
  <1>12. Data(b) = t
    <2>1. Len(<< >>) + Len(t) <= Len(e.buf) /\ << >> \o t = t
      BY <1>6, <1>11
    <2>2. Holds(buf_add_each(e, t), << >> \o t)
      BY <1>6, <1>9, <2>1, EachHolds
    <2> QED
      BY <2>1, <2>2, DataIs
  <1>13. c.op \notin Makes
    BY DEF Makes
  <1> HIDE DEF b
  <1>14. AbstractB!Changed(c, s) = s
    BY DEF AbstractB!Changed, AbstractB!Refused
  <1>15. AbstractB!Returned(c, s) = <<"bytes", AbstractB!Between(s, j, k)>>
    BY DEF AbstractB!Returned, AbstractB!Refused
  <1>16. AbstractB!Returned(c, s) = <<"bytes", Data(b)>>
    BY <1>5, <1>6, <1>12, <1>15
  <1> HIDE DEF c
  <1> QED
    BY <1>1, <1>13, <1>14, <1>16, AnswerIs DEF s

LEMMA resizeIs ==
    ASSUME BytesAssumption, Rare = {}, BytesInv, NEW n \in Nat, m_resize(n)
    PROVE  AbstractB!Next /\ BytesInv'
  <1> DEFINE c == [op |-> "resize", n |-> n]
             s == Data(object)
             a == bytes_resize(Self, n)
             b == buf_set_len(a, n)
  <1>1. /\ Copy(Self) /\ s \in Seq(Byte) /\ Len(s) = Self.len /\ Self.len = object.len
        /\ Self.buf = object.buf /\ Self.kind = object.kind
        /\ \A i \in 1 .. object.len : s[i] = object.buf[i]
    BY SelfIs
  <1>2. object.buf \in Seq(Cell) /\ object.len \in Nat /\ object.len <= Len(object.buf)
    BY DEF BytesInv
  <1>3. c.op \notin Makes
    BY DEF Makes
  <1>4. CASE Fixed(Self) /\ n # object.len
    <2>1. NotWritten(c, Self, <<"attribute_error">>)
      BY <1>4 DEF m_resize, Raise
    <2>2. object.kind # "growing" /\ n # Len(s)
      BY <1>1, <1>4 DEF Fixed
    <2> HIDE DEF s
    <2>3. AbstractB!Changed(c, s) = s
      BY <2>2 DEF AbstractB!Changed, AbstractB!Refused
    <2>4. AbstractB!Returned(c, s) = <<"attribute_error">>
      BY <2>2 DEF AbstractB!Returned, AbstractB!Refused
    <2> HIDE DEF c
    <2> QED
      BY <1>3, <2>1, <2>3, <2>4, AnswerIs DEF s
  <1>5. CASE ~(Fixed(Self) /\ n # object.len)
    <2>1. Fits(n) /\ m_write_attributes(c, b, <<"done">>)
      BY <1>5 DEF m_resize
    <2>2. n <= MaxSize
      BY <2>1 DEF Fits
    <2>3. object.kind = "growing" \/ n = Len(s)
      BY <1>1, <1>5 DEF Fixed
    <2> HIDE DEF s
    <2>4. Self.kind = "mapped" => n <= Len(Self.buf)
      BY <1>1, <1>2, <2>3
    <2>5. /\ Copy(a) /\ a.len = Self.len /\ a.kind = Self.kind /\ n <= Len(a.buf)
          /\ \A i \in 1 .. Len(Self.buf) : i <= n => a.buf[i] = Self.buf[i]
      BY <1>1, <2>2, <2>4, ResizeIs
    <2> HIDE DEF a
    <2>6. Starts(a, s, n)
      <3>1. ASSUME NEW i \in 1 .. a.len, i <= n PROVE a.buf[i] = s[i]
        <4>1. i \in 1 .. object.len /\ i \in 1 .. Len(Self.buf)
          BY <1>1, <1>2, <2>5, <3>1
        <4> QED
          BY <1>1, <2>5, <3>1, <4>1
      <3> QED
        BY <1>1, <2>5, <3>1 DEF Starts
    <2>7. Holds(b, Cut(s, n)) /\ b.kind = object.kind
      BY <1>1, <2>5, <2>6, SetLenHolds DEF Same
    <2> HIDE DEF b
    <2>8. AbstractB!Changed(c, s) = Cut(s, n)
      <3>1. AbstractB!Changed(c, s) = AbstractB!Resized(s, n)
        BY <2>3 DEF AbstractB!Changed, AbstractB!Refused
      <3>2. AbstractB!Resized(s, n) = Cut(s, n)
        BY DEF AbstractB!Resized, AbstractB!Zero, Cut
      <3> QED
        BY <3>1, <3>2
    <2>9. AbstractB!Returned(c, s) = <<"done">>
      BY <2>3 DEF AbstractB!Returned, AbstractB!Refused
    <2> HIDE DEF c
    <2> QED
      BY <1>3, <2>1, <2>7, <2>8, <2>9, InPlaceIs DEF s
  <1> QED
    BY <1>4, <1>5

LEMMA connectIs ==
    ASSUME BytesAssumption, Rare = {}, BytesInv, NEW t \in Seq(Byte), NEW self \in BOOLEAN, m_connect(t, self)
    PROVE  AbstractB!Next /\ BytesInv'
  <1> DEFINE c == [op |-> "connect", s |-> t, self |-> self]
             s == Data(object)
             o == IF self THEN s ELSE t
             m == Self.len + Len(o)
             a == bytes_resize(Self, m)
             b == buf_add(a, o)
  <1>1. Holds(Self, s) /\ s \in Seq(Byte) /\ Len(s) = Self.len /\ Self.kind = object.kind
    BY SelfIs
  <1>2. c.op \notin Makes
    BY DEF Makes
  <1>3. CASE Fixed(Self)
    <2>1. NotWritten(c, Self, <<"attribute_error">>)
      BY <1>3 DEF m_connect, Raise
    <2>2. object.kind # "growing"
      BY <1>1, <1>3 DEF Fixed
    <2> HIDE DEF s
    <2>3. AbstractB!Changed(c, s) = s
      BY <2>2 DEF AbstractB!Changed, AbstractB!Refused
    <2>4. AbstractB!Returned(c, s) = <<"attribute_error">>
      BY <2>2 DEF AbstractB!Returned, AbstractB!Refused
    <2> HIDE DEF c
    <2> QED
      BY <1>2, <2>1, <2>3, <2>4, AnswerIs DEF s
  <1>4. CASE ~Fixed(Self)
    <2>1. /\ Fits(m) /\ ~(self /\ a.moved)
          /\ m_write_attributes(c, buf_add(a, IF self /\ a.moved THEN Junk(Len(o)) ELSE o), <<"done">>)
      BY <1>4 DEF m_connect
    <2>2. m_write_attributes(c, b, <<"done">>)
      BY <2>1
    <2>3. object.kind = "growing"
      BY <1>1, <1>4 DEF Fixed
    <2> HIDE DEF s
    <2>4. o \in Seq(Byte) /\ Len(o) \in Nat /\ Len(s) \in Nat
      BY <1>1
    <2>5. AbstractB!Changed(c, s) = s \o o
      BY <2>3 DEF AbstractB!Changed, AbstractB!Refused
    <2>6. AbstractB!Returned(c, s) = <<"done">>
      BY <2>3 DEF AbstractB!Returned, AbstractB!Refused
    <2> HIDE DEF c, o
    <2>7. m \in Nat /\ m <= MaxSize /\ Len(s) <= m /\ m = Len(s) + Len(o)
      BY <1>1, <2>1, <2>4 DEF Fits
    <2>8. Self.kind # "mapped"
      BY <1>1, <2>3
    <2> HIDE DEF m
    <2>9. Holds(a, s) /\ m <= Len(a.buf) /\ a.kind = Self.kind
      BY <1>1, <2>7, <2>8, ResizeHolds
    <2> HIDE DEF a
    <2>10. Holds(b, s \o o) /\ b.kind = object.kind
      BY <1>1, <2>4, <2>7, <2>9, AddHolds DEF Same
    <2> HIDE DEF b
    <2> QED
      BY <1>2, <2>2, <2>5, <2>6, <2>10, InPlaceIs DEF s
  <1> QED
    BY <1>3, <1>4

\* Contents replaced by s, of the same length when that is fixed.
Replaces(c, s) == c.op \in {"fromstring", "fromhex", "fromb64"} /\ c.s = s

\* A copy of the attributes that is empty and has room for n bytes.
Vacant(b, n) == Holds(b, << >>) /\ n <= Len(b.buf) /\ b.kind = object.kind

LEMMA ReplacedIs ==
    ASSUME BytesInv, NEW s \in Seq(Byte), NEW c, Replaces(c, s), ~(Fixed(Self) /\ object.len # Len(s)),
           NEW b, Holds(b, s), b.kind = object.kind, m_write_attributes(c, b, <<"done">>)
    PROVE  AbstractB!Next /\ BytesInv'
  <1> DEFINE d == Data(object)
  <1>1. Len(d) = object.len /\ Self.kind = object.kind
    BY SelfIs
  <1>2. c.op \notin Makes
    BY DEF Makes, Replaces
  <1> HIDE DEF d
  <1>3. ~AbstractB!Refused(c, d)
    BY <1>1 DEF AbstractB!Refused, Replaces, Fixed
  <1>4. AbstractB!Changed(c, d) = s
    BY <1>3 DEF AbstractB!Changed, Replaces
  <1>5. AbstractB!Returned(c, d) = <<"done">>
    BY <1>3 DEF AbstractB!Returned, Replaces
  <1> QED
    BY <1>2, <1>4, <1>5, InPlaceIs DEF d

LEMMA NotReplacedIs ==
    ASSUME BytesInv, NEW s \in Seq(Byte), NEW c, Replaces(c, s), Fixed(Self), object.len # Len(s),
           NotWritten(c, Self, <<"attribute_error">>)
    PROVE  AbstractB!Next /\ BytesInv'
  <1> DEFINE d == Data(object)
  <1>1. Len(d) = object.len /\ Self.kind = object.kind
    BY SelfIs
  <1>2. c.op \notin Makes
    BY DEF Makes, Replaces
  <1> HIDE DEF d
  <1>3. AbstractB!Refused(c, d)
    BY <1>1 DEF AbstractB!Refused, Replaces, Fixed
  <1>4. AbstractB!Changed(c, d) = d
    BY <1>3 DEF AbstractB!Changed, Replaces
  <1>5. AbstractB!Returned(c, d) = <<"attribute_error">>
    BY <1>3 DEF AbstractB!Returned, Replaces
  <1> QED
    BY <1>2, <1>4, <1>5, AnswerIs DEF d

LEMMA RoomIs ==
    ASSUME BytesAssumption, BytesInv, NEW n \in Nat, n <= MaxSize, ~(Fixed(Self) /\ object.len # n)
    PROVE  Vacant([bytes_resize(Self, n) EXCEPT !.len = 0], n)
  <1> DEFINE a == bytes_resize(Self, n)
             nought == 0
             b == [a EXCEPT !.len = nought]
             e == << >>
  <1>1. Copy(Self) /\ Self.len = object.len /\ Self.buf = object.buf /\ Self.kind = object.kind
    BY SelfIs
  <1>2. object.buf \in Seq(Cell) /\ object.len \in Nat /\ object.len <= Len(object.buf)
    BY DEF BytesInv
  <1>3. Self.kind = "mapped" => n <= Len(Self.buf)
    BY <1>1, <1>2 DEF Fixed
  <1>4. Copy(a) /\ a.kind = Self.kind /\ n <= Len(a.buf)
    BY <1>1, <1>3, ResizeIs
  <1> HIDE DEF a
  <1>5. nought = 0 /\ nought \in Nat
    OBVIOUS
  <1>6. e \in Seq(Byte) /\ Len(e) = 0
    OBVIOUS
  <1> HIDE DEF nought, e
  <1>7. b = [buf |-> a.buf, len |-> nought, kind |-> a.kind, moved |-> a.moved]
    BY <1>4, NewLen
  <1> HIDE DEF b
  <1>8. b.buf = a.buf /\ b.len = nought /\ b.kind = a.kind /\ b.moved = a.moved
    BY <1>7
  <1>9. Copy(b)
    BY <1>4, <1>5, <1>7, <1>8 DEF Copy
  <1>10. Len(a.buf) \in Nat
    BY <1>4 DEF Copy
  <1>11. b.len = Len(e) /\ b.len <= Len(b.buf) /\ \A i \in 1 .. b.len : b.buf[i] = e[i]
    BY <1>5, <1>6, <1>8, <1>10
  <1>12. Holds(b, e) /\ n <= Len(b.buf) /\ b.kind = object.kind
    BY <1>1, <1>4, <1>6, <1>8, <1>9, <1>11 DEF Holds
  <1>13. Vacant(b, n)
    BY <1>12, Zenon DEF Vacant, e
  <1> QED
    BY <1>13, Zenon DEF a, b, nought

LEMMA fromstringIs ==
    ASSUME BytesAssumption, Rare = {}, BytesInv, NEW s \in Seq(Byte), m_fromstring(s)
    PROVE  AbstractB!Next /\ BytesInv'
  <1> DEFINE c == [op |-> "fromstring", s |-> s]
             n == Len(s)
             a == [bytes_resize(Self, n) EXCEPT !.len = 0]
             b == buf_add(a, s)
  <1>1. Replaces(c, s)
    BY DEF Replaces
  <1>2. /\ Fixed(Self) /\ object.len # n => NotWritten(c, Self, <<"attribute_error">>)
        /\ ~(Fixed(Self) /\ object.len # n) => Fits(n) /\ m_write_attributes(c, b, <<"done">>)
    BY DEF m_fromstring, Replace, Raise
  <1> HIDE DEF c
  <1>3. CASE Fixed(Self) /\ object.len # n
    BY <1>1, <1>2, <1>3, NotReplacedIs
  <1>4. CASE ~(Fixed(Self) /\ object.len # n)
    <2>1. n \in Nat /\ n <= MaxSize
      BY <1>2, <1>4 DEF Fits
    <2> HIDE DEF n
    <2>2. Vacant(a, n)
      BY <1>4, <2>1, RoomIs
    <2> HIDE DEF a
    <2>3. Holds(a, << >>) /\ n <= Len(a.buf) /\ a.kind = object.kind
      BY <2>2, Zenon DEF Vacant
    <2>4. Len(<< >>) + Len(s) <= Len(a.buf) /\ << >> \o s = s
      BY <2>3 DEF n
    <2>5. Holds(b, s) /\ b.kind = object.kind
      <3>1. Holds(buf_add(a, s), << >> \o s) /\ Same(buf_add(a, s), a)
        BY <2>3, <2>4, AddHolds
      <3> QED
        BY <2>3, <2>4, <3>1 DEF Same
    <2> HIDE DEF b
    <2>6. ~(Fixed(Self) /\ object.len # Len(s))
      BY <1>4 DEF n
    <2>7. m_write_attributes(c, b, <<"done">>)
      BY <1>2, <1>4
    <2> HIDE DEF b
    <2> QED
      BY <1>1, <2>5, <2>6, <2>7, ReplacedIs
  <1> QED
    BY <1>3, <1>4

LEMMA fromhexIs ==
    ASSUME BytesAssumption, Rare = {}, BytesInv, NEW s \in Seq(Byte), m_fromhex(s)
    PROVE  AbstractB!Next /\ BytesInv'
  <1> DEFINE c == [op |-> "fromhex", s |-> s]
             n == Len(tohex(s)) \div 2
             a == [bytes_resize(Self, n) EXCEPT !.len = 0]
             b == buf_add_hex(a, tohex(s))
  <1>1. Replaces(c, s)
    BY DEF Replaces
  <1>2. /\ Fixed(Self) /\ object.len # n => NotWritten(c, Self, <<"attribute_error">>)
        /\ ~(Fixed(Self) /\ object.len # n) => Fits(n) /\ m_write_attributes(c, b, <<"done">>)
    BY DEF m_fromhex, Replace, Raise
  <1> HIDE DEF c
  <1>0. n = Len(s) /\ b = buf_add_each(a, s)
    BY HexIs
  <1> HIDE DEF n
  <1>3. CASE Fixed(Self) /\ object.len # n
    BY <1>0, <1>1, <1>2, <1>3, NotReplacedIs
  <1>4. CASE ~(Fixed(Self) /\ object.len # n)
    <2>1. n \in Nat /\ n <= MaxSize
      BY <1>0, <1>2, <1>4 DEF Fits
    <2>2. Vacant(a, n)
      BY <1>4, <2>1, RoomIs
    <2> HIDE DEF a, b
    <2>3. Holds(a, << >>) /\ n <= Len(a.buf) /\ a.kind = object.kind
      BY <2>2, Zenon DEF Vacant
    <2>4. Len(<< >>) + Len(s) <= Len(a.buf) /\ << >> \o s = s
      BY <1>0, <2>3
    <2>5. Holds(b, s) /\ b.kind = object.kind
      <3>1. Holds(buf_add_each(a, s), << >> \o s) /\ Same(buf_add_each(a, s), a)
        BY <2>3, <2>4, EachHolds
      <3> QED
        BY <1>0, <2>3, <2>4, <3>1 DEF Same
    <2>6. ~(Fixed(Self) /\ object.len # Len(s))
      BY <1>0, <1>4
    <2>7. m_write_attributes(c, b, <<"done">>)
      BY <1>2, <1>4
    <2> HIDE DEF b
    <2> QED
      BY <1>1, <2>5, <2>6, <2>7, ReplacedIs
  <1> QED
    BY <1>3, <1>4

LEMMA fromb64Is ==
    ASSUME BytesAssumption, Rare = {}, BytesInv, NEW s \in Seq(Byte), m_fromb64(s)
    PROVE  AbstractB!Next /\ BytesInv'
  <1> DEFINE c == [op |-> "fromb64", s |-> s]
             n == decode_base64_length(encode_base64(s))
             a == [bytes_resize(Self, n) EXCEPT !.len = 0]
             t == decode_base64(encode_base64(s))
             b == buf_add(a, t)
  <1>1. Replaces(c, s)
    BY DEF Replaces
  <1>2. /\ Fixed(Self) /\ object.len # n => NotWritten(c, Self, <<"attribute_error">>)
        /\ ~(Fixed(Self) /\ object.len # n) => Fits(n) /\ m_write_attributes(c, b, <<"done">>)
    BY DEF m_fromb64, Replace, Raise
  <1> HIDE DEF c
  <1>0. n = Len(s) /\ t = s
    BY Base64Is
  <1> HIDE DEF n, t
  <1>3. CASE Fixed(Self) /\ object.len # n
    BY <1>0, <1>1, <1>2, <1>3, NotReplacedIs
  <1>4. CASE ~(Fixed(Self) /\ object.len # n)
    <2>1. n \in Nat /\ n <= MaxSize
      BY <1>0, <1>2, <1>4 DEF Fits
    <2>2. Vacant(a, n)
      BY <1>4, <2>1, RoomIs
    <2> HIDE DEF a
    <2>3. Holds(a, << >>) /\ n <= Len(a.buf) /\ a.kind = object.kind
      BY <2>2, Zenon DEF Vacant
    <2>4. Len(<< >>) + Len(s) <= Len(a.buf) /\ << >> \o s = s
      BY <1>0, <2>3
    <2>5. Holds(b, s) /\ b.kind = object.kind
      <3>1. Holds(buf_add(a, s), << >> \o s) /\ Same(buf_add(a, s), a)
        BY <2>3, <2>4, AddHolds
      <3> QED
        BY <1>0, <2>3, <2>4, <3>1 DEF Same
    <2> HIDE DEF b
    <2>6. ~(Fixed(Self) /\ object.len # Len(s))
      BY <1>0, <1>4
    <2>7. m_write_attributes(c, b, <<"done">>)
      BY <1>2, <1>4
    <2> HIDE DEF b
    <2> QED
      BY <1>1, <2>5, <2>6, <2>7, ReplacedIs
  <1> QED
    BY <1>3, <1>4

\* The texts in hexadecimal and base64 read back as the bytes; the length and the
\* comparison are those of the bytes.
LEMMA TextsIs ==
    ASSUME BytesAssumption, BytesInv, Contents \subseteq Seq(Byte), Texts
    PROVE  AbstractB!Next /\ BytesInv'
  <1> DEFINE s == Data(object)
             e == Initial(<< >>, object.len, FALSE)
  <1>1. s \in Seq(Byte) /\ Len(s) = object.len
    BY SelfIs
  <1>2. object.len \in Nat /\ object.len <= MaxSize /\ MaxSize \in Nat /\ Headroom \in Nat
    BY DEF BytesInv, BytesAssumption
  <1>3. CASE Answer([op |-> "tohex"], <<"bytes", Data(buf_add_hex(e, tohex(s)))>>)
    <2> DEFINE c == [op |-> "tohex"]
               n == object.len
               b == buf_add_hex(e, tohex(s))
    <2>1. c.op \notin Makes
      BY DEF Makes
    <2> HIDE DEF s
    <2>2. AbstractB!Changed(c, s) = s /\ AbstractB!Returned(c, s) = <<"bytes", s>>
      BY DEF AbstractB!Changed, AbstractB!Returned, AbstractB!Refused
    <2> HIDE DEF c
    <2>3. Empty(e, n)
      BY <1>2, NoneIs
    <2>4. b = buf_add_each(e, s)
      BY <1>1, HexIs
    <2>5. /\ Holds(e, << >>)
          /\ n + Headroom <= Len(e.buf) \/ (n = 0 /\ Headroom <= Len(e.buf)) \/ MaxSize <= Len(e.buf)
      BY <2>3, Zenon DEF Empty
    <2> HIDE DEF e
    <2>6. Len(e.buf) \in Nat
      BY <2>5 DEF Holds, Copy
    <2>7. Len(<< >>) + Len(s) <= Len(e.buf) /\ << >> \o s = s
      BY <1>1, <1>2, <2>5, <2>6
    <2>8. Holds(buf_add_each(e, s), << >> \o s)
      BY <1>1, <2>5, <2>7, EachHolds
    <2>9. Data(b) = s
      BY <2>4, <2>7, <2>8, DataIs
    <2>10. Answer(c, <<"bytes", Data(b)>>)
      BY <1>3 DEF c
    <2> HIDE DEF b
    <2> QED
      BY <2>1, <2>2, <2>9, <2>10, AnswerIs DEF s
  <1>4. CASE Answer([op |-> "tob64"], <<"bytes", decode_base64(encode_base64(s))>>)
    <2> DEFINE c == [op |-> "tob64"]
               t == decode_base64(encode_base64(s))
    <2>1. c.op \notin Makes
      BY DEF Makes
    <2> HIDE DEF s
    <2>2. AbstractB!Changed(c, s) = s /\ AbstractB!Returned(c, s) = <<"bytes", s>>
      BY DEF AbstractB!Changed, AbstractB!Returned, AbstractB!Refused
    <2> HIDE DEF c
    <2>3. t = s
      BY <1>1, Base64Is
    <2>4. Answer(c, <<"bytes", t>>)
      BY <1>4 DEF c
    <2> HIDE DEF t
    <2> QED
      BY <2>1, <2>2, <2>3, <2>4, AnswerIs DEF s
  <1>5. CASE Answer([op |-> "size"], <<"number", object.len>>)
    <2> DEFINE c == [op |-> "size"]
    <2>1. c.op \notin Makes
      BY DEF Makes
    <2> HIDE DEF s
    <2>2. AbstractB!Changed(c, s) = s /\ AbstractB!Returned(c, s) = <<"number", object.len>>
      BY <1>1 DEF AbstractB!Changed, AbstractB!Returned, AbstractB!Refused
    <2>3. Answer(c, <<"number", object.len>>)
      BY <1>5
    <2> HIDE DEF c
    <2> QED
      BY <2>1, <2>2, <2>3, AnswerIs DEF s
  <1>6. ASSUME NEW x \in Contents, Answer([op |-> "equal", s |-> x], <<"bool", s = x>>)
        PROVE  AbstractB!Next /\ BytesInv'
    <2> DEFINE c == [op |-> "equal", s |-> x]
    <2>1. c.op \notin Makes
      BY DEF Makes
    <2> HIDE DEF s
    <2>2. AbstractB!Changed(c, s) = s /\ AbstractB!Returned(c, s) = <<"bool", s = x>>
      BY DEF AbstractB!Changed, AbstractB!Returned, AbstractB!Refused
    <2>3. Answer(c, <<"bool", s = x>>)
      BY <1>6
    <2> HIDE DEF c
    <2> QED
      BY <2>1, <2>2, <2>3, AnswerIs DEF s
  <1> QED
    BY <1>3, <1>4, <1>5, <1>6 DEF Texts

-----------------------------------------------------------------------------
(* The refinement. *)

LEMMA BytesStepIs ==
    ASSUME BytesAssumption, Rare = {}, BytesInv, BytesNext PROVE AbstractB!Next /\ BytesInv'
  <1>1. /\ Contents \subseteq Seq(Byte)
        /\ \A v \in Ints : Word(v) /\ v[1] \in Byte
        /\ Offsets \subseteq Int /\ 0 .. MaxLen \subseteq Nat /\ {0, 3, 8, 13} \subseteq Nat
        /\ {0, 1, 4, 9, 14} \subseteq 0 .. 14 /\ 10923 \in Nat
    <2>1. Contents \subseteq Seq(Byte)
      BY DEF BytesAssumption, Byte
    <2>2. \A v \in Ints : Word(v) /\ v[1] \in Byte
      BY DEF BytesAssumption, Byte, Word
    <2>3. Offsets \subseteq Int /\ 0 .. MaxLen \subseteq Nat
      BY DEF BytesAssumption, Offsets
    <2>4. /\ {0, 3, 8, 13} \subseteq Nat /\ {0, 1, 4, 9, 14} \subseteq 0 .. 14 /\ 10923 \in Nat
      OBVIOUS
    <2> QED
      BY <2>1, <2>2, <2>3, <2>4
  <1>2. CASE \E s \in Contents, n \in 0 .. MaxLen, fixed \in BOOLEAN : m_init(s, n, fixed)
    BY <1>1, <1>2, initIs
  <1>3. CASE \E s \in Contents : Map(s) \/ m_change_buffer(s) \/ m_merge(s)
    BY <1>1, <1>3, MapIs, changeIs, mergeIs
  <1>4. CASE \E v \in Ints, n \in -4 .. 4 : m_add(v, n)
    BY <1>1, <1>4, addIs
  <1>5. CASE \E v \in Ints, n \in -4 .. 4, k \in Offsets : m_set(k, v, n)
    BY <1>1, <1>5, setIs
  <1>6. CASE \E n \in -4 .. 4, k \in Offsets, signed \in BOOLEAN : m_get(k, n, signed)
    BY <1>1, <1>6, getIs
  <1>7. CASE \E k \in Offsets, v \in Ints : m_setitem(k, v)
    BY <1>1, <1>7, setitemIs
  <1>8. CASE \E k \in Offsets : m_item(k)
    BY <1>1, <1>8, itemIs
  <1>9. CASE \E j, k \in Offsets : m_range(j, k)
    BY <1>1, <1>9, rangeIs
  <1>10. CASE \E n \in 0 .. MaxLen : m_resize(n)
    BY <1>1, <1>10, resizeIs
  <1>11. CASE m_clear \/ m_copy
    BY <1>11, clearIs, copyIs
  <1>12. CASE \E s \in Contents, self \in BOOLEAN : m_connect(s, self)
    BY <1>1, <1>12, connectIs
  <1>13. CASE \E s \in Contents : m_fromstring(s) \/ m_fromhex(s) \/ m_fromb64(s)
    BY <1>1, <1>13, fromstringIs, fromhexIs, fromb64Is
  <1>14. CASE Texts
    BY <1>1, <1>14, TextsIs
  <1>15. CASE \E k \in {0, 3, 8, 13}, n \in {0, 1, 4, 9, 14} : m_getbits(k, n) \/ m_setbits(k, n, 10923)
    <2>1. PICK k \in {0, 3, 8, 13}, n \in {0, 1, 4, 9, 14} : m_getbits(k, n) \/ m_setbits(k, n, 10923)
      BY <1>15
    <2> DEFINE v == 10923
    <2>2. k \in Nat /\ n \in 0 .. 14 /\ v \in Nat
      BY <1>1
    <2>3. m_getbits(k, n) \/ m_setbits(k, n, v)
      BY <2>1
    <2> HIDE DEF v
    <2> QED
      BY <2>2, <2>3, getbitsIs, setbitsIs
  <1> QED
    BY <1>2, <1>3, <1>4, <1>5, <1>6, <1>7, <1>8, <1>9, <1>10, <1>11, <1>12, <1>13, <1>14, <1>15 DEF BytesNext

LEMMA BytesStepOrStays ==
    ASSUME BytesAssumption, Rare = {}, BytesInv, [BytesNext]_bytesVars
    PROVE  /\ BytesInv'
           /\ [AbstractB!Next]_<<bytesCall, Data(object), object.kind # "growing", bytesResult>>
  <1>1. CASE UNCHANGED bytesVars
    BY <1>1 DEF bytesVars, BytesInv, Data
  <1>2. CASE BytesNext
    BY <1>2, BytesStepIs
  <1> QED
    BY <1>1, <1>2

LEMMA BytesInitIs ==
    ASSUME BytesAssumption, BytesInit PROVE BytesInv /\ AbstractB!Init
  <1> DEFINE n == DefaultSize + Headroom
             x == Junk(n)
             nought == 0
             kind == "growing"
             no == FALSE
  <1>1. n \in Nat /\ MaxLen \in Nat /\ nought \in Nat /\ nought = 0 /\ kind \in Kinds
    BY DEF BytesAssumption, Kinds
  <1>2. object = [buf |-> x, len |-> nought, kind |-> kind] /\ dangling = no /\ bytesResult = <<"done">>
    BY DEF BytesInit
  <1>3. kind = "growing" /\ ~no
    OBVIOUS
  <1> HIDE DEF n
  <1>4. x \in Seq(Cell) /\ Len(x) = n
    BY <1>1, JunkIs
  <1> HIDE DEF x, nought, kind, no
  <1>5. object.buf = x /\ object.len = nought /\ object.kind = kind
    BY <1>2
  <1>6. object = [buf |-> object.buf, len |-> object.len, kind |-> object.kind]
    BY <1>2, <1>5
  <1>7. nought <= n /\ nought <= MaxLen
    BY <1>1
  <1>8. \A i \in 1 .. nought : x[i] \in Byte
    BY <1>1
  <1>9. BytesInv
    BY <1>1, <1>2, <1>3, <1>4, <1>5, <1>6, <1>7, <1>8 DEF BytesInv
  <1>10. Data(object) = << >>
    BY <1>1, <1>5, SubSeqEmpty DEF Data
  <1>11. (object.kind # "growing") = FALSE
    BY <1>3, <1>5
  <1> QED
    BY <1>2, <1>9, <1>10, <1>11 DEF AbstractB!Init

\* The bytes are in the buffer, which is there (be_byteslib.c), as long as none of
\* the rare events happens.
THEOREM BytesKept ==
    ASSUME Rare = {}
    PROVE  BytesSpec => []BytesInv
  <1>1. BytesInit => BytesInv
    BY BytesAssumption, BytesInitIs
  <1>2. BytesInv /\ [BytesNext]_bytesVars => BytesInv'
    BY BytesAssumption, BytesStepOrStays
  <1> QED
    BY <1>1, <1>2, PTL DEF BytesSpec

\* Bytes objects implement sequences of bytes, and never keep the address of a
\* buffer that is gone, as long as none of the rare events happens (be_byteslib.c).
THEOREM BytesAreSequences ==
    ASSUME Rare = {}
    PROVE  BytesSpec => BytesImplement
  <1>1. BytesInit => BytesInv /\ AbstractB!Init
    BY BytesAssumption, BytesInitIs
  <1>2. BytesInv /\ [BytesNext]_bytesVars => BytesInv'
    BY BytesAssumption, BytesStepOrStays
  <1>3. BytesInv /\ [BytesNext]_bytesVars
            => [AbstractB!Next]_<<bytesCall, Data(object), object.kind # "growing", bytesResult>>
    BY BytesAssumption, BytesStepOrStays
  <1>4. BytesInv => ~dangling
    BY DEF BytesInv
  <1> QED
    BY <1>1, <1>2, <1>3, <1>4, PTL DEF BytesSpec, BytesImplement, AbstractB!Spec

=============================================================================
