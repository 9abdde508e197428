------------------------ MODULE BerryClosures_proofs ------------------------
(***************************************************************************)
(* Proofs about closures and upvalues, for any number of variables,        *)
(* closures, upvalues, functions and blocks, and wherever the stack is.    *)
(***************************************************************************)
EXTENDS BerryClosures, FiniteSetTheorems, SequenceTheorems, WellFoundedInduction, TLAPS

----------------------------------------------------------------------------
(* Numbers. *)

\* A set of numbers that is not empty has a least one.
LEMMA Least ==
    ASSUME NEW S \in SUBSET Nat, S # {}
    PROVE  \E n \in S : \A k \in S : n <= k
  <1> DEFINE less == OpToRel(<, Nat)
  <1>1. \E n \in S : \A k \in S : <<k, n>> \notin less
    <2>1. IsWellFoundedOn(less, Nat)
      BY NatLessThanWellFounded
    <2> HIDE DEF less
    <2> QED
      BY <2>1, WFMin
  <1>2. PICK n \in S : \A k \in S : <<k, n>> \notin less
    BY <1>1
  <1>3. ASSUME NEW k \in S PROVE n <= k
    <2>1. <<k, n>> \in Nat \X Nat /\ <<k, n>> \notin {p \in Nat \X Nat : p[1] < p[2]}
      BY <1>2, Zenon DEF OpToRel
    <2> QED
      BY <2>1
  <1> QED
    BY <1>3

\* One up to n has a greatest.
LEMMA Greatest ==
    ASSUME NEW n \in Nat, NEW S \in SUBSET (0 .. n), S # {}
    PROVE  \E m \in S : \A k \in S : k <= m
  <1> DEFINE T == {n - k : k \in S}
  <1>0. \A k \in S : k \in Nat /\ n - k \in Nat
    OBVIOUS
  <1>1. T \in SUBSET Nat /\ T # {}
    BY <1>0
  <1>2. PICK d \in T : \A k \in T : d <= k
    <2> HIDE DEF T
    <2> QED
      BY <1>1, Least
  <1>3. PICK m \in S : d = n - m
    BY <1>2
  <1>4. ASSUME NEW k \in S PROVE k <= m
    <2>1. n - k \in T
      OBVIOUS
    <2>2. n - m <= n - k
      BY <2>1, <1>2, <1>3
    <2> QED
      BY <2>2, <1>0
  <1> QED
    BY <1>4

\* Induction up to n.
LEMMA UpTo ==
    ASSUME NEW n \in Nat, NEW P, 0 \in P,
           \A i \in 0 .. n : i < n /\ i \in P => i + 1 \in P
    PROVE  0 .. n \subseteq P
  <1> SUFFICES ASSUME (0 .. n) \ P # {} PROVE FALSE
    OBVIOUS
  <1>1. PICK m \in (0 .. n) \ P : \A k \in (0 .. n) \ P : m <= k
    <2>1. (0 .. n) \ P \in SUBSET Nat
      OBVIOUS
    <2> QED
      BY <2>1, Least
  <1>2. m - 1 \in 0 .. n /\ m - 1 \in P
    BY <1>1
  <1> QED
    BY <1>1, <1>2

----------------------------------------------------------------------------
(* The stack. *)

\* The slots below t, and no others, hold a variable.
Filled(s, t) == t \in 0 .. StackSize /\ \A p \in Position : s[p] # NONE <=> p < t

LEMMA FilledTop ==
    ASSUME NEW s, NEW t, Filled(s, t)
    PROVE  Cardinality({p \in Position : s[p] # NONE}) = t
  <1>1. StackSize \in Nat /\ t \in 0 .. StackSize /\ \A p \in Position : s[p] # NONE <=> p < t
    BY ClosuresAssumption DEF Filled
  <1>2. {p \in Position : s[p] # NONE} = 0 .. t - 1
    <2>1. ASSUME NEW p \in Position, s[p] # NONE PROVE p \in 0 .. t - 1
      BY <2>1, <1>1 DEF Position
    <2>2. ASSUME NEW p \in 0 .. t - 1 PROVE p \in Position /\ s[p] # NONE
      <3>1. p \in Position /\ p < t
        BY <1>1 DEF Position
      <3> QED
        BY <3>1, <1>1
    <2> QED
      BY <2>1, <2>2
  <1>3. Cardinality(0 .. t - 1) = IF 0 > t - 1 THEN 0 ELSE (t - 1) - 0 + 1
    <2>1. 0 \in Int /\ t - 1 \in Int
      BY <1>1
    <2> QED
      BY <2>1, FS_Interval
  <1>4. Cardinality(0 .. t - 1) = t
    BY <1>1, <1>3
  <1> QED
    BY <1>2, <1>4

Lower(t, from) == IF from < t THEN from ELSE t

LEMMA ClearedFilled ==
    ASSUME NEW t, Filled(slot, t), NEW from \in Nat
    PROVE  Filled(Cleared(from), Lower(t, from))
  <1>1. StackSize \in Nat /\ t \in 0 .. StackSize /\ \A p \in Position : slot[p] # NONE <=> p < t
    BY ClosuresAssumption DEF Filled
  <1>2. Lower(t, from) \in 0 .. StackSize
    BY <1>1 DEF Lower
  <1>3. ASSUME NEW p \in Position
        PROVE  Cleared(from)[p] # NONE <=> p < Lower(t, from)
    <2>1. Cleared(from)[p] = IF p >= from THEN NONE ELSE slot[p]
      BY DEF Cleared
    <2>2. p \in Nat
      BY <1>1 DEF Position
    <2> QED
      BY <2>1, <2>2, <1>1 DEF Lower
  <1> QED
    BY <1>2, <1>3 DEF Filled

----------------------------------------------------------------------------
(* The list of open upvalues. *)

\* t has the members of s at the positions I, in their order.
Sublist(t, s, I) ==
    /\ t \in Seq(Up)
    /\ \A j \in 1 .. Len(t) : \E m \in I : t[j] = s[m]
    /\ \A m \in I : \E j \in 1 .. Len(t) : t[j] = s[m]
    /\ \A j, k \in 1 .. Len(t) : j < k => \E m, l \in I : m < l /\ t[j] = s[m] /\ t[k] = s[l]

\* A walk that keeps the members of s at the positions I.
Walk(f, s, I, n) ==
    /\ f = [i \in 0 .. n |-> f[i]]
    /\ f[0] = <<>>
    /\ \A i \in 1 .. n : f[i] = IF i \in I THEN Append(f[i - 1], s[i]) ELSE f[i - 1]

LEMMA Walks ==
    ASSUME NEW s, NEW I, NEW n \in Nat
    PROVE  \E f : Walk(f, s, I, n)
  <1> DEFINE P == {k \in 0 .. n : \E f : Walk(f, s, I, k)}
  <1>1. 0 \in P
    <2>1. Walk([i \in 0 .. 0 |-> <<>>], s, I, 0)
      BY DEF Walk
    <2> QED
      BY <2>1
  <1>2. ASSUME NEW k \in 0 .. n, k < n, k \in P PROVE k + 1 \in P
    <2>1. PICK f : Walk(f, s, I, k)
      BY <1>2
    <2> DEFINE new == IF k + 1 \in I THEN Append(f[k], s[k + 1]) ELSE f[k]
               h == [i \in 0 .. k + 1 |-> IF i = k + 1 THEN new ELSE f[i]]
    <2>2. h = [i \in 0 .. k + 1 |-> h[i]] /\ h[0] = <<>>
      BY <2>1 DEF Walk
    <2>3. ASSUME NEW i \in 1 .. k + 1
          PROVE  h[i] = IF i \in I THEN Append(h[i - 1], s[i]) ELSE h[i - 1]
      <3>1. i - 1 \in 0 .. k /\ i \in 0 .. k + 1 /\ i - 1 \in 0 .. k + 1 /\ i - 1 # k + 1
        OBVIOUS
      <3>2. h[i - 1] = f[i - 1]
        BY <3>1
      <3>3. CASE i = k + 1
        <4>1. h[i] = new /\ i - 1 = k
          BY <3>1, <3>3
        <4> QED
          BY <4>1, <3>2, <3>3
      <3>4. CASE i # k + 1
        <4>1. i \in 1 .. k /\ h[i] = f[i]
          BY <3>1, <3>4
        <4> HIDE DEF h
        <4> QED
          BY <4>1, <3>2, <2>1 DEF Walk
      <3> QED
        BY <3>3, <3>4
    <2> HIDE DEF h
    <2>4. Walk(h, s, I, k + 1)
      BY <2>2, <2>3 DEF Walk
    <2> QED
      BY <2>4, <1>2
  <1> HIDE DEF P
  <1>3. n \in P
    BY <1>1, <1>2, UpTo
  <1> QED
    BY <1>3 DEF P

\* Where a walk ends are the members it has kept.
LEMMA WalkKeeps ==
    ASSUME NEW s \in Seq(Up), NEW I \in SUBSET (1 .. Len(s)), NEW f, Walk(f, s, I, Len(s))
    PROVE  Sublist(f[Len(s)], s, I)
  <1> DEFINE n == Len(s)
             Part(k) == {i \in I : i <= k}
             P == {k \in 0 .. n : Sublist(f[k], s, Part(k))}
  <1>0. n \in Nat /\ \A i \in I : i \in Nat /\ i >= 1 /\ i <= n
    OBVIOUS
  <1>1. 0 \in P
    <2>1. f[0] = <<>> /\ Part(0) = {}
      BY <1>0 DEF Walk
    <2>2. Sublist(<<>>, s, {})
      BY DEF Sublist
    <2>3. Sublist(f[0], s, Part(0))
      <3> HIDE DEF Part
      <3> QED
        BY <2>1, <2>2
    <2> HIDE DEF Part
    <2> QED
      BY <2>3, <1>0
  <1>2. ASSUME NEW k \in 0 .. n, k < n, k \in P PROVE k + 1 \in P
    <2>1. k + 1 \in 1 .. n /\ k + 1 - 1 = k /\ k + 1 \in 0 .. n /\ s[k + 1] \in Up
      BY <1>2, <1>0
    <2>2. Sublist(f[k], s, Part(k))
      BY <1>2
    <2>3. f[k + 1] = IF k + 1 \in I THEN Append(f[k], s[k + 1]) ELSE f[k]
      BY <2>1 DEF Walk
    <2>4. CASE k + 1 \notin I
      <3>0. \A i \in I : i <= k + 1 <=> i <= k
        BY <1>0, <2>1, <2>4
      <3>1. Part(k + 1) = Part(k) /\ f[k + 1] = f[k]
        BY <3>0, <2>3, <2>4
      <3> HIDE DEF Part
      <3> QED
        BY <3>1, <2>1, <2>2
    <2>5. CASE k + 1 \in I
      <3> DEFINE t == f[k]
                 u == Append(t, s[k + 1])
      <3>0. \A i \in I : i <= k + 1 <=> i <= k \/ i = k + 1
        BY <1>0, <2>1
      <3>1. f[k + 1] = u /\ Part(k + 1) = Part(k) \cup {k + 1}
        <4>1. k + 1 <= k + 1
          BY <2>1
        <4>2. Part(k + 1) = Part(k) \cup {k + 1}
          BY <4>1, <3>0, <2>5
        <4> QED
          BY <4>2, <2>3, <2>5
      <3>2. t \in Seq(Up) /\ Len(t) \in Nat
        BY <2>2 DEF Sublist
      <3>3. /\ u \in Seq(Up) /\ Len(u) = Len(t) + 1
            /\ u[Len(t) + 1] = s[k + 1] /\ \A j \in 1 .. Len(t) : u[j] = t[j]
        BY <3>2, <2>1
      <3>4. \A m \in Part(k) : m \in Int /\ m < k + 1
        OBVIOUS
      <3> HIDE DEF Part, t, u
      <3>5. ASSUME NEW j \in 1 .. Len(u) PROVE \E m \in Part(k + 1) : u[j] = s[m]
        <4>1. CASE j = Len(t) + 1
          BY <4>1, <3>1, <3>3
        <4>2. CASE j # Len(t) + 1
          <5>1. j \in 1 .. Len(t) /\ u[j] = t[j]
            BY <4>2, <3>2, <3>3
          <5> QED
            BY <5>1, <3>1, <2>2 DEF Sublist, t
        <4> QED
          BY <4>1, <4>2
      <3>6. ASSUME NEW m \in Part(k + 1) PROVE \E j \in 1 .. Len(u) : u[j] = s[m]
        <4>1. CASE m = k + 1
          <5>1. Len(t) + 1 \in 1 .. Len(u)
            BY <3>2, <3>3
          <5> QED
            BY <5>1, <4>1, <3>3
        <4>2. CASE m # k + 1
          <5>1. m \in Part(k)
            BY <4>2, <3>1
          <5>2. PICK j \in 1 .. Len(t) : t[j] = s[m]
            BY <5>1, <2>2 DEF Sublist, t
          <5>3. j \in 1 .. Len(u) /\ u[j] = t[j]
            BY <3>2, <3>3
          <5> QED
            BY <5>2, <5>3
        <4> QED
          BY <4>1, <4>2
      <3>7. ASSUME NEW i \in 1 .. Len(u), NEW j \in 1 .. Len(u), i < j
            PROVE  \E m, l \in Part(k + 1) : m < l /\ u[i] = s[m] /\ u[j] = s[l]
        <4>1. i \in 1 .. Len(t) /\ u[i] = t[i]
          BY <3>7, <3>2, <3>3
        <4>2. CASE j = Len(t) + 1
          <5>1. PICK m \in Part(k) : t[i] = s[m]
            BY <4>1, <2>2 DEF Sublist, t
          <5>2. m < k + 1 /\ m \in Part(k + 1) /\ k + 1 \in Part(k + 1)
            BY <3>1, <3>4
          <5> QED
            BY <5>1, <5>2, <4>1, <4>2, <3>3
        <4>3. CASE j # Len(t) + 1
          <5>1. j \in 1 .. Len(t) /\ u[j] = t[j]
            BY <4>3, <3>2, <3>3
          <5>2. \E m, l \in Part(k) : m < l /\ t[i] = s[m] /\ t[j] = s[l]
            BY <5>1, <4>1, <3>7, <2>2 DEF Sublist, t
          <5> QED
            BY <5>1, <5>2, <4>1, <3>1
        <4> QED
          BY <4>2, <4>3
      <3>8. Sublist(u, s, Part(k + 1))
        BY <3>3, <3>5, <3>6, <3>7 DEF Sublist
      <3> QED
        BY <3>1, <3>8, <2>1
    <2> QED
      BY <2>4, <2>5
  <1> HIDE DEF P
  <1>3. n \in P
    <2>1. 0 .. n \subseteq P
      <3> HIDE DEF n
      <3> QED
        BY <1>0, <1>1, <1>2, UpTo
    <2> QED
      BY <2>1, <1>0
  <1>4. Part(n) = I
    BY <1>0
  <1> HIDE DEF Part
  <1> QED
    BY <1>3, <1>4 DEF P

\* The members of the list that are below an address, and no others, stay.
BelowAt(level) == {m \in 1 .. Len(upvalist) : upval[upvalist[m]].value.addr < level}

LEMMA BelowKeeps ==
    ASSUME upvalist \in Seq(Up), NEW level
    PROVE  Sublist(Below(level), upvalist, BelowAt(level))
  <1> DEFINE n == Len(upvalist)
             I == BelowAt(level)
             body(k) == [i \in 0 .. Len(upvalist) |->
                           IF i = 0 THEN <<>>
                           ELSE IF upval[upvalist[i]].value.addr < level
                                THEN Append(k[i - 1], upvalist[i]) ELSE k[i - 1]]
             K == CHOOSE k : k = body(k)
  <1>0. n \in Nat
    OBVIOUS
  <1>1. PICK f : Walk(f, upvalist, I, n)
    <2> HIDE DEF I, n
    <2> QED
      BY <1>0, Walks
  <1>2. \A i \in 1 .. n : i \in I <=> upval[upvalist[i]].value.addr < level
    BY DEF BelowAt
  <1>3. f = body(f)
    <2>1. ASSUME NEW i \in 0 .. n
          PROVE  f[i] = IF i = 0 THEN <<>>
                        ELSE IF upval[upvalist[i]].value.addr < level
                             THEN Append(f[i - 1], upvalist[i]) ELSE f[i - 1]
      <3>1. CASE i = 0
        BY <3>1, <1>1 DEF Walk
      <3>2. CASE i # 0
        <4>1. i \in 1 .. n
          BY <3>2, <1>0
        <4> HIDE DEF I
        <4> QED
          BY <4>1, <3>2, <1>1, <1>2 DEF Walk
      <3> QED
        BY <3>1, <3>2
    <2>2. f = [i \in 0 .. n |-> f[i]]
      BY <1>1 DEF Walk
    <2> QED
      BY <2>1, <2>2
  <1>4. K = body(K)
    <2> HIDE DEF body
    <2> QED
      BY <1>3, Zenon
  <1>5. Below(level) = K[n]
    BY DEF Below
  <1>6. Walk(K, upvalist, I, n)
    <2> HIDE DEF K
    <2>1. K = [i \in 0 .. n |-> K[i]]
      BY <1>4
    <2>2. K[0] = <<>>
      BY <1>4, <1>0
    <2>3. ASSUME NEW i \in 1 .. n
          PROVE  K[i] = IF i \in I THEN Append(K[i - 1], upvalist[i]) ELSE K[i - 1]
      <3>1. i \in 0 .. n /\ i # 0
        BY <1>0
      <3>2. K[i] = IF upval[upvalist[i]].value.addr < level
                   THEN Append(K[i - 1], upvalist[i]) ELSE K[i - 1]
        BY <3>1, <1>4
      <3> HIDE DEF I
      <3> QED
        BY <3>2, <1>2
    <2> HIDE DEF I
    <2> QED
      BY <2>1, <2>2, <2>3 DEF Walk
  <1>7. I \in SUBSET (1 .. Len(upvalist))
    BY DEF BelowAt
  <1> HIDE DEF I, K
  <1>8. Sublist(K[Len(upvalist)], upvalist, I)
    BY <1>6, <1>7, WalkKeeps
  <1> QED
    BY <1>5, <1>8 DEF I

----------------------------------------------------------------------------
(* The inductive invariant. *)

BlockType ==
    [start : 0 .. StackSize, kind : {"func", "plain", "loop", "try"},
     hasupval : BOOLEAN, later : BOOLEAN]
FrameType == [func : Clo, blocks : Seq(BlockType)]
ClosureType == [upvals : Seq(Up), vars : Seq(Var)]
UpvalType == [value : Value, refcnt : Nat]

\* Below some position all slots hold a variable, the others none.
Stacked(st, sl) ==
    /\ st \in Addr
    /\ sl \in [Position -> Var \cup {NONE}]
    /\ \E t \in 0 .. StackSize : Filled(sl, t)

\* A function has its own block, and others in it.
Bodied(bs) == bs \in Seq(BlockType) /\ Len(bs) >= 1 /\ bs[1].kind = "func"
Framed(fr) ==
    /\ fr \in Seq(FrameType) /\ Len(fr) >= 1
    /\ \A n \in 1 .. Len(fr) : Bodied(fr[n].blocks)

Closures(cl) ==
    /\ cl \in [Clo -> ClosureType \cup {NONE}]
    /\ \A c \in Clo : cl[c] # NONE =>
         Len(cl[c].upvals) = Len(cl[c].vars) /\ Len(cl[c].upvals) <= MaxUpvals

Running(fr, cl) == \A n \in 1 .. Len(fr) : cl[fr[n].func] # NONE

\* The list has the open upvalues, each once, and these point into the stack.
IsOpen(up, u) == up[u] # NONE /\ Open(up[u].value)
Upvals(up) == up \in [Up -> UpvalType \cup {NONE}]
Listed(up, l) ==
    /\ l \in Seq(Up)
    /\ \A i \in 1 .. Len(l) : IsOpen(up, l[i])
    /\ \A u \in Up : IsOpen(up, u) => \E i \in 1 .. Len(l) : l[i] = u
    /\ \A i, j \in 1 .. Len(l) : l[i] = l[j] => i = j
Pos(up, st, u) == up[u].value.addr - st
Placed(up, st) == \A u \in Up : IsOpen(up, u) => Pos(up, st, u) \in Position

\* The closures that have an upvalue, and at which index.
Held(cl, u) ==
    {ci \in Clo \X (1 .. MaxUpvals) :
       /\ cl[ci[1]] # NONE
       /\ ci[2] \in DOMAIN cl[ci[1]].upvals
       /\ cl[ci[1]].upvals[ci[2]] = u}

\* The counter of an upvalue is right, and one that is freed is not held.
Counted(up, cl) ==
    \A u \in Up :
      /\ up[u] = NONE => Held(cl, u) = {}
      /\ up[u] # NONE => /\ up[u].refcnt = Cardinality(Held(cl, u))
                         /\ up[u].refcnt = 0 => Open(up[u].value)

\* Blocks begin above those around them, and no higher than the stack.
Depth(sl) == Cardinality({p \in Position : sl[p] # NONE})
Later(n, i, m, j) == n < m \/ (n = m /\ i < j)
Orderly(fr, sl) ==
    \A n, m \in 1 .. Len(fr) : \A i \in 1 .. Len(fr[n].blocks), j \in 1 .. Len(fr[m].blocks) :
      /\ Later(n, i, m, j) => fr[n].blocks[i].start <= fr[m].blocks[j].start
      /\ ~fr[n].blocks[i].later /\ fr[n].blocks[i].start <= Depth(sl)

\* An open upvalue points below the top of the stack, and the innermost block
\* around its position is known to have captured variables.
Around(fr, n, i, p) ==
    /\ n \in 1 .. Len(fr) /\ i \in 1 .. Len(fr[n].blocks)
    /\ fr[n].blocks[i].start <= p
    /\ \A m \in 1 .. Len(fr) : \A j \in 1 .. Len(fr[m].blocks) :
         Later(n, i, m, j) => p < fr[m].blocks[j].start
Marked(fr, p) ==
    \E n \in 1 .. Len(fr) : \E i \in 1 .. Len(fr[n].blocks) :
      Around(fr, n, i, p) /\ fr[n].blocks[i].hasupval
Emitted(up, st, sl, fr) ==
    \A u \in Up : IsOpen(up, u) =>
      Pos(up, st, u) < Depth(sl) /\ Marked(fr, Pos(up, st, u))

\* An upvalue leads to the variable that its closure has captured.
Leads(up, st, sl, u, v) ==
    IF Open(up[u].value) THEN sl[Pos(up, st, u)] = v ELSE up[u].value.var = v
Meant(up, st, sl, cl) ==
    \A c \in Clo : cl[c] # NONE =>
      \A i \in 1 .. Len(cl[c].upvals) : Leads(up, st, sl, cl[c].upvals[i], cl[c].vars[i])

\* A variable lives in one place.
Apart(up, sl) ==
    /\ \A p, q \in Position : sl[p] # NONE /\ sl[p] = sl[q] => p = q
    /\ \A u \in Up : up[u] # NONE /\ ~Open(up[u].value) =>
         \A p \in Position : sl[p] # NONE => sl[p] # up[u].value.var

\* In programs that capture in the order of the stack, the list is in that order,
\* and a variable has one upvalue.
Descending(up, l) ==
    \A i, j \in 1 .. Len(l) : i < j => up[l[j]].value.addr < up[l[i]].value.addr
Unique(cl) ==
    \A c, d \in Clo : cl[c] # NONE /\ cl[d] # NONE =>
      \A i \in 1 .. Len(cl[c].upvals), j \in 1 .. Len(cl[d].upvals) :
        cl[c].vars[i] = cl[d].vars[j] => cl[c].upvals[i] = cl[d].upvals[j]

Sound ==
    /\ program \in Programs
    /\ Stacked(stack, slot) /\ Framed(frames) /\ Closures(closure) /\ Running(frames, closure)
Accounted ==
    Upvals(upval) /\ Listed(upval, upvalist) /\ Placed(upval, stack) /\ Counted(upval, closure)
Scoped ==
    Plain => /\ Orderly(frames, slot) /\ Emitted(upval, stack, slot, frames)
             /\ Meant(upval, stack, slot, closure) /\ Apart(upval, slot)
Joined == Plain /\ program.ordered => Descending(upval, upvalist) /\ Unique(closure)

ClosuresInv == Sound /\ Accounted /\ Scoped /\ Joined

----------------------------------------------------------------------------
(* At first. *)

\* The names of the record types.
LEMMA Blocked ==
    ASSUME NEW s \in 0 .. StackSize, NEW k \in {"func", "plain", "loop", "try"}
    PROVE  Block(s, k) \in BlockType
  BY DEF Block, BlockType

LEMMA InitFrames ==
    ASSUME Init
    PROVE  Framed(frames) /\ Closures(closure) /\ Running(frames, closure) /\ Orderly(frames, slot)
  <1> DEFINE b == Block(0, "func")
             f == [func |-> Main, blocks |-> <<b>>]
             e == [upvals |-> <<>>, vars |-> <<>>]
  <1>1. Main \in Clo
    BY ClosuresAssumption DEF Main
  <1>2. b \in BlockType /\ b.kind = "func" /\ b.start = 0 /\ b.later = FALSE
    <2>1. 0 \in 0 .. StackSize
      BY ClosuresAssumption
    <2> QED
      BY <2>1, Blocked DEF Block
  <1> HIDE DEF b
  <1>3. <<b>> \in Seq(BlockType) /\ Len(<<b>>) = 1 /\ <<b>>[1] = b
    BY <1>2
  <1>4. f \in FrameType /\ f.blocks = <<b>> /\ f.func = Main
    BY <1>1, <1>3 DEF FrameType
  <1>5. frames = <<f>>
    BY DEF Init, b
  <1> HIDE DEF f
  <1>6. frames \in Seq(FrameType) /\ Len(frames) = 1 /\ frames[1] = f
    BY <1>4, <1>5
  <1>7. Framed(frames)
    <2>1. Bodied(f.blocks)
      BY <1>2, <1>3, <1>4 DEF Bodied
    <2> QED
      BY <2>1, <1>6 DEF Framed
  <1>8. closure = [c \in Clo |-> IF c = Main THEN e ELSE NONE]
    BY DEF Init
  <1>9. e \in ClosureType /\ Len(e.upvals) = 0 /\ Len(e.vars) = 0 /\ e # NONE
    <2>1. e \in ClosureType /\ Len(e.upvals) = 0 /\ Len(e.vars) = 0
      BY DEF ClosureType
    <2>2. NONE \notin ClosureType
      BY ClosuresAssumption DEF ClosureType
    <2> HIDE DEF e
    <2> QED
      BY <2>1, <2>2
  <1> HIDE DEF e
  <1>10. Closures(closure)
    BY <1>8, <1>9, ClosuresAssumption DEF Closures
  <1>11. Running(frames, closure)
    BY <1>1, <1>4, <1>6, <1>8, <1>9 DEF Running
  <1>12. Orderly(frames, slot)
    <2>1. Depth(slot) = 0
      <3>1. Filled(slot, 0)
        BY ClosuresAssumption DEF Init, Filled, Position
      <3> QED
        BY <3>1, FilledTop DEF Depth
    <2>2. ASSUME NEW n \in 1 .. Len(frames), NEW i \in 1 .. Len(frames[n].blocks)
          PROVE  n = 1 /\ i = 1 /\ frames[n].blocks[i] = b
      <3>1. n = 1
        BY <1>6
      <3>2. frames[n].blocks = <<b>>
        BY <3>1, <1>4, <1>6
      <3> QED
        BY <3>1, <3>2, <1>3
    <2>3. ASSUME NEW n \in 1 .. Len(frames), NEW m \in 1 .. Len(frames),
                 NEW i \in 1 .. Len(frames[n].blocks), NEW j \in 1 .. Len(frames[m].blocks)
          PROVE  /\ Later(n, i, m, j) => frames[n].blocks[i].start <= frames[m].blocks[j].start
                 /\ ~frames[n].blocks[i].later /\ frames[n].blocks[i].start <= Depth(slot)
      <3>1. n = 1 /\ i = 1 /\ m = 1 /\ j = 1 /\ frames[n].blocks[i] = b
        BY <2>2
      <3> QED
        BY <3>1, <2>1, <1>2 DEF Later
    <2> QED
      BY <2>3 DEF Orderly
  <1> QED
    BY <1>7, <1>10, <1>11, <1>12

LEMMA InitInv == Init => ClosuresInv
  <1> SUFFICES ASSUME Init PROVE ClosuresInv
    OBVIOUS
  <1> USE DEF Init
  <1>1. Sound
    <2>1. stack \in Addr
      BY ClosuresAssumption
    <2>2. slot \in [Position -> Var \cup {NONE}]
      OBVIOUS
    <2>3. 0 \in 0 .. StackSize /\ Filled(slot, 0)
      BY ClosuresAssumption DEF Filled, Position
    <2>4. Stacked(stack, slot)
      BY <2>1, <2>2, <2>3 DEF Stacked
    <2> QED
      BY <2>4, InitFrames DEF Sound
  <1>2. Accounted
    <2>1. ASSUME NEW u \in Up PROVE upval[u] = NONE
      OBVIOUS
    <2>2. upval \in [Up -> UpvalType \cup {NONE}]
      OBVIOUS
    <2>3. Listed(upval, upvalist)
      BY <2>1 DEF Listed, IsOpen
    <2>4. ASSUME NEW u \in Up PROVE Held(closure, u) = {}
      <3>1. \A c \in Clo : closure[c] # NONE => closure[c].upvals = <<>>
        OBVIOUS
      <3> HIDE DEF Init
      <3> QED
        BY <3>1 DEF Held
    <2> HIDE DEF Init
    <2>5. Counted(upval, closure) /\ Placed(upval, stack)
      BY <2>1, <2>4 DEF Counted, Placed, IsOpen
    <2> QED
      BY <2>2, <2>3, <2>5 DEF Accounted, Upvals
  <1>3. Scoped
    <2>1. ASSUME NEW u \in Up PROVE upval[u] = NONE
      OBVIOUS
    <2>2. \A p \in Position : slot[p] = NONE
      OBVIOUS
    <2>3. \A c \in Clo : closure[c] # NONE => Len(closure[c].upvals) = 0
      OBVIOUS
    <2>4. Orderly(frames, slot)
      BY InitFrames
    <2> HIDE DEF Init
    <2>5. Emitted(upval, stack, slot, frames)
      BY <2>1 DEF Emitted, IsOpen
    <2>6. Meant(upval, stack, slot, closure)
      BY <2>3 DEF Meant
    <2>7. Apart(upval, slot)
      BY <2>1, <2>2 DEF Apart
    <2> QED
      BY <2>4, <2>5, <2>6, <2>7 DEF Scoped
  <1>4. Joined
    <2>1. Descending(upval, upvalist)
      BY DEF Descending
    <2>2. \A c \in Clo : closure[c] # NONE => Len(closure[c].upvals) = 0
      OBVIOUS
    <2> HIDE DEF Init
    <2>3. Unique(closure)
      BY <2>2 DEF Unique
    <2> QED
      BY <2>1, <2>3 DEF Joined
  <1> QED
    BY <1>1, <1>2, <1>3, <1>4 DEF ClosuresInv

----------------------------------------------------------------------------
(* Upvalues that leave the list. *)

LEMMA OpenValue ==
    ASSUME NEW v \in Value, Open(v)
    PROVE  v.addr \in Nat /\ v = At(v.addr)
  <1>1. v \notin {Closed(x) : x \in Var \cup {NONE}}
    BY DEF Open, Closed
  <1>2. PICK a \in Addr, p \in Position : v = At(a + p)
    BY <1>1 DEF Value
  <1>3. a \in Nat /\ p \in Nat /\ v.addr = a + p
    BY <1>2, ClosuresAssumption DEF Position, At
  <1> QED
    BY <1>2, <1>3

LEMMA ClosedValue ==
    ASSUME NEW v \in Value, ~Open(v)
    PROVE  v.var \in Var \cup {NONE} /\ v = Closed(v.var)
  <1>1. v \notin {At(a + p) : a \in Addr, p \in Position}
    BY DEF Open, At
  <1>2. PICK x \in Var \cup {NONE} : v = Closed(x)
    BY <1>1 DEF Value
  <1> QED
    BY <1>2 DEF Closed

LEMMA Values ==
    /\ \A a \in Addr, p \in Position : At(a + p) \in Value /\ Open(At(a + p))
    /\ \A v \in Var \cup {NONE} : Closed(v) \in Value /\ ~Open(Closed(v))
  <1>1. \A a \in Addr, p \in Position : At(a + p) \in Value
    BY DEF Value
  <1>2. \A v \in Var \cup {NONE} : Closed(v) \in Value
    BY DEF Value
  <1>3. \A x : Open(At(x)) /\ ~Open(Closed(x))
    BY DEF At, Closed, Open
  <1> QED
    BY <1>1, <1>2, <1>3

\* What an upvalue is that is not free.
LEMMA UpvalIs ==
    ASSUME Upvals(upval), Placed(upval, stack), stack \in Addr, NEW u \in Up, upval[u] # NONE
    PROVE  /\ upval[u] \in UpvalType /\ upval[u].value \in Value /\ upval[u].refcnt \in Nat
           /\ IsOpen(upval, u) => /\ upval[u].value.addr \in Nat
                                  /\ Pos(upval, stack, u) \in Position
                                  /\ upval[u].value.addr = stack + Pos(upval, stack, u)
           /\ ~IsOpen(upval, u) => upval[u].value.var \in Var \cup {NONE}
  <1>1. upval[u] \in UpvalType
    BY DEF Upvals
  <1>2. upval[u].value \in Value /\ upval[u].refcnt \in Nat
    BY <1>1 DEF UpvalType
  <1>3. ASSUME IsOpen(upval, u)
        PROVE  /\ upval[u].value.addr \in Nat
               /\ Pos(upval, stack, u) \in Position
               /\ upval[u].value.addr = stack + Pos(upval, stack, u)
    <2>1. upval[u].value.addr \in Nat
      BY <1>2, <1>3, OpenValue DEF IsOpen
    <2>2. Pos(upval, stack, u) \in Position
      BY <1>3 DEF Placed
    <2>3. stack \in Nat
      BY ClosuresAssumption
    <2> QED
      BY <2>1, <2>2, <2>3 DEF Pos
  <1>4. ASSUME ~IsOpen(upval, u) PROVE upval[u].value.var \in Var \cup {NONE}
    BY <1>2, <1>4, ClosedValue DEF IsOpen
  <1> QED
    BY <1>1, <1>2, <1>3, <1>4

LEMMA PositionIs == Position \subseteq Nat /\ \A p \in Position : p < StackSize
  BY ClosuresAssumption DEF Position

\* The open upvalues at a position or above it leave the list.
Leaves(u, from) == IsOpen(upval, u) /\ from <= Pos(upval, stack, u)
CloseEffect(from) ==
    /\ upval' = [u \in Up |-> IF Leaves(u, from) THEN Detached(u) ELSE upval[u]]
    /\ Sublist(upvalist', upvalist, BelowAt(stack + from))

LEMMA CloseIs ==
    ASSUME Sound, Accounted, NEW from \in Nat, be_upvals_close(from)
    PROVE  CloseEffect(from)
  <1> DEFINE kept == Below(stack + from)
             I == BelowAt(stack + from)
  <1>1. upvalist' = kept /\ upval' = [u \in Up |->
          IF u \in Range(upvalist) \ Range(kept) THEN Detached(u) ELSE upval[u]]
    BY DEF be_upvals_close
  <1>2. Sublist(kept, upvalist, I)
    BY BelowKeeps DEF Accounted, Listed
  <1>3. ASSUME NEW u \in Up PROVE u \in Range(upvalist) \ Range(kept) <=> Leaves(u, from)
    <2>0. stack \in Nat /\ stack \in Addr
      BY ClosuresAssumption DEF Sound, Stacked
    <2>1. upvalist \in Seq(Up) /\ kept \in Seq(Up)
      BY <1>2 DEF Accounted, Listed, Sublist
    <2>2. u \in Range(upvalist) <=> \E i \in 1 .. Len(upvalist) : upvalist[i] = u
      BY <2>1 DEF Range
    <2>3. u \in Range(kept) <=> \E i \in 1 .. Len(kept) : kept[i] = u
      BY <2>1 DEF Range
    <2>4. u \in Range(upvalist) <=> IsOpen(upval, u)
      BY <2>2 DEF Accounted, Listed
    <2>5. u \in Range(kept) <=> \E m \in I : upvalist[m] = u
      <3> HIDE DEF kept, I
      <3>1. \A i \in 1 .. Len(kept) : \E m \in I : kept[i] = upvalist[m]
        BY <1>2 DEF Sublist
      <3>2. \A m \in I : \E i \in 1 .. Len(kept) : kept[i] = upvalist[m]
        BY <1>2 DEF Sublist
      <3> QED
        BY <2>3, <3>1, <3>2
    <2>6. (\E m \in I : upvalist[m] = u) <=> u \in Range(upvalist) /\ upval[u].value.addr < stack + from
      BY <2>2 DEF BelowAt
    <2>7. IsOpen(upval, u) => (upval[u].value.addr < stack + from <=> ~(from <= Pos(upval, stack, u)))
      <3>1. SUFFICES ASSUME IsOpen(upval, u)
                     PROVE  upval[u].value.addr < stack + from <=> ~(from <= Pos(upval, stack, u))
        OBVIOUS
      <3>2. upval[u].value.addr \in Nat /\ upval[u].value.addr = stack + Pos(upval, stack, u)
        BY <3>1, <2>0, UpvalIs DEF Accounted, IsOpen
      <3>3. Pos(upval, stack, u) \in Nat
        BY <3>1, PositionIs DEF Accounted, Placed
      <3> QED
        BY <3>2, <3>3, <2>0
    <2> HIDE DEF I, kept
    <2> QED
      BY <2>4, <2>5, <2>6, <2>7 DEF Leaves
  <1>4. upval' = [u \in Up |-> IF Leaves(u, from) THEN Detached(u) ELSE upval[u]]
    <2> HIDE DEF kept
    <2> QED
      BY <1>1, <1>3
  <1> QED
    BY <1>1, <1>2, <1>4 DEF CloseEffect

\* An upvalue that leaves is freed when no closure has it, and closed otherwise.
LEMMA Detaches ==
    ASSUME Sound, Accounted, NEW from \in Nat, NEW u \in Up, Leaves(u, from)
    PROVE  /\ upval[u].refcnt = 0 => Detached(u) = NONE
           /\ upval[u].refcnt # 0 =>
                /\ Detached(u) = [value |-> Closed(slot[Pos(upval, stack, u)]), refcnt |-> upval[u].refcnt]
                /\ Detached(u) \in UpvalType /\ Detached(u) # NONE
                /\ ~Open(Detached(u).value)
                /\ Detached(u).value.var = slot[Pos(upval, stack, u)]
                /\ Detached(u).refcnt = upval[u].refcnt
  <1>1. upval[u].refcnt = 0 => Detached(u) = NONE
    BY DEF Detached
  <1>2. ASSUME upval[u].refcnt # 0
        PROVE  /\ Detached(u) = [value |-> Closed(slot[Pos(upval, stack, u)]), refcnt |-> upval[u].refcnt]
               /\ Detached(u) \in UpvalType /\ Detached(u) # NONE
               /\ ~Open(Detached(u).value)
               /\ Detached(u).value.var = slot[Pos(upval, stack, u)]
               /\ Detached(u).refcnt = upval[u].refcnt
    <2> DEFINE v == slot[Pos(upval, stack, u)]
               d == [value |-> Closed(v), refcnt |-> upval[u].refcnt]
    <2>1. upval[u] \in UpvalType /\ upval[u].refcnt \in Nat /\ Pos(upval, stack, u) \in Position
      BY UpvalIs DEF Sound, Stacked, Accounted, Leaves, IsOpen
    <2>2. v \in Var \cup {NONE}
      BY <2>1 DEF Sound, Stacked
    <2>3. Closed(v) \in Value /\ ~Open(Closed(v)) /\ Closed(v).var = v
      BY <2>2, Values DEF Closed
    <2>4. Detached(u) = d
      BY <2>1, <1>2 DEF Detached, UpvalType, Pos
    <2>5. d \in UpvalType
      BY <2>1, <2>3 DEF UpvalType
    <2>6. d # NONE
      BY <2>5, ClosuresAssumption DEF UpvalType
    <2> HIDE DEF v
    <2> QED
      BY <2>1, <2>3, <2>4, <2>5, <2>6 DEF v
  <1> QED
    BY <1>1, <1>2

\* There are finitely many closures, with finitely many upvalues each.
LEMMA HeldFinite ==
    ASSUME NEW cl, NEW u
    PROVE  /\ IsFiniteSet(Held(cl, u)) /\ Cardinality(Held(cl, u)) \in Nat
           /\ Cardinality(Held(cl, u)) = 0 <=> Held(cl, u) = {}
  <1>1. IsFiniteSet(1 .. MaxUpvals)
    <2>1. MaxUpvals \in Int /\ 1 \in Int
      BY ClosuresAssumption
    <2> QED
      BY <2>1, FS_Interval
  <1>2. IsFiniteSet(Clo \X (1 .. MaxUpvals))
    BY <1>1, ClosuresAssumption, FS_Product
  <1>3. Held(cl, u) \subseteq Clo \X (1 .. MaxUpvals)
    BY DEF Held
  <1>4. IsFiniteSet(Held(cl, u))
    BY <1>2, <1>3, FS_Subset
  <1> QED
    BY <1>4, FS_CardinalityType, FS_EmptySet

\* The open upvalues are those that were and have not left.
LEMMA CloseOpens ==
    ASSUME Sound, Accounted, NEW from \in Nat, CloseEffect(from), NEW u \in Up
    PROVE  /\ IsOpen(upval', u) <=> IsOpen(upval, u) /\ ~Leaves(u, from)
           /\ ~Leaves(u, from) => upval'[u] = upval[u]
           /\ Leaves(u, from) => upval'[u] = Detached(u)
  <1>1. ~Leaves(u, from) => upval'[u] = upval[u]
    BY DEF CloseEffect
  <1>2. Leaves(u, from) => upval'[u] = Detached(u)
    BY DEF CloseEffect
  <1>3. ASSUME Leaves(u, from) PROVE ~IsOpen(upval', u)
    <2>1. upval[u] # NONE
      BY <1>3 DEF Leaves, IsOpen
    <2>2. Detached(u) = NONE \/ ~Open(Detached(u).value)
      BY <1>3, Detaches
    <2> QED
      BY <2>2, <1>2, <1>3 DEF IsOpen
  <1>4. ASSUME ~Leaves(u, from) PROVE IsOpen(upval', u) <=> IsOpen(upval, u)
    BY <1>1, <1>4 DEF IsOpen
  <1> QED
    BY <1>1, <1>2, <1>3, <1>4

LEMMA CloseLists ==
    ASSUME Sound, Accounted, NEW from \in Nat, CloseEffect(from)
    PROVE  Listed(upval', upvalist')
  <1> DEFINE I == BelowAt(stack + from)
  <1>1. Sublist(upvalist', upvalist, I)
    BY DEF CloseEffect
  <1>2. I \subseteq 1 .. Len(upvalist)
    BY DEF BelowAt
  <1>3. Listed(upval, upvalist)
    BY DEF Accounted
  <1>4. upvalist \in Seq(Up) /\ Len(upvalist) \in Nat
    BY <1>3 DEF Listed
  <1>5. ASSUME NEW m \in 1 .. Len(upvalist)
        PROVE  m \in I <=> ~Leaves(upvalist[m], from)
    <2>1. upvalist[m] \in Up /\ IsOpen(upval, upvalist[m])
      BY <1>3, <1>4 DEF Listed
    <2>2. /\ upval[upvalist[m]].value.addr = stack + Pos(upval, stack, upvalist[m])
          /\ Pos(upval, stack, upvalist[m]) \in Nat /\ stack \in Nat
      BY <2>1, UpvalIs, PositionIs, ClosuresAssumption DEF Accounted, Sound, Stacked, IsOpen
    <2> QED
      BY <2>1, <2>2 DEF BelowAt, Leaves
  <1> HIDE DEF I
  <1>6. upvalist' \in Seq(Up)
    BY <1>1 DEF Sublist
  <1>7. ASSUME NEW i \in 1 .. Len(upvalist') PROVE IsOpen(upval', upvalist'[i])
    <2>1. PICK m \in I : upvalist'[i] = upvalist[m]
      BY <1>1 DEF Sublist
    <2>2. upvalist[m] \in Up /\ IsOpen(upval, upvalist[m]) /\ ~Leaves(upvalist[m], from)
      BY <1>2, <1>3, <1>4, <1>5 DEF Listed
    <2> QED
      BY <2>1, <2>2, CloseOpens
  <1>8. ASSUME NEW u \in Up, IsOpen(upval', u) PROVE \E i \in 1 .. Len(upvalist') : upvalist'[i] = u
    <2>1. IsOpen(upval, u) /\ ~Leaves(u, from)
      BY <1>8, CloseOpens
    <2>2. PICK m \in 1 .. Len(upvalist) : upvalist[m] = u
      BY <2>1, <1>3 DEF Listed
    <2>3. m \in I
      BY <2>1, <2>2, <1>5
    <2> QED
      BY <2>2, <2>3, <1>1 DEF Sublist
  <1>9. ASSUME NEW i \in 1 .. Len(upvalist'), NEW j \in 1 .. Len(upvalist'), i < j
        PROVE  upvalist'[i] # upvalist'[j]
    <2>1. PICK m \in I, l \in I : m < l /\ upvalist'[i] = upvalist[m] /\ upvalist'[j] = upvalist[l]
      BY <1>1, <1>9 DEF Sublist
    <2>2. m \in 1 .. Len(upvalist) /\ l \in 1 .. Len(upvalist) /\ m # l
      BY <2>1, <1>2
    <2> QED
      BY <2>1, <2>2, <1>3 DEF Listed
  <1>10. ASSUME NEW i \in 1 .. Len(upvalist'), NEW j \in 1 .. Len(upvalist'), upvalist'[i] = upvalist'[j]
         PROVE  i = j
    <2>1. i < j \/ j < i \/ i = j
      OBVIOUS
    <2> QED
      BY <2>1, <1>9, <1>10
  <1> QED
    BY <1>6, <1>7, <1>8, <1>10 DEF Listed

LEMMA CloseAccounts ==
    ASSUME Sound, Accounted, NEW from \in Nat, CloseEffect(from), closure' = closure, stack' = stack
    PROVE  Accounted'
  <1>1. Upvals(upval')
    <2>1. upval' = [u \in Up |-> IF Leaves(u, from) THEN Detached(u) ELSE upval[u]]
      BY DEF CloseEffect
    <2>2. ASSUME NEW u \in Up
          PROVE  (IF Leaves(u, from) THEN Detached(u) ELSE upval[u]) \in UpvalType \cup {NONE}
      <3>1. CASE Leaves(u, from)
        BY <3>1, Detaches
      <3>2. CASE ~Leaves(u, from)
        BY <3>2 DEF Accounted, Upvals
      <3> QED
        BY <3>1, <3>2
    <2> QED
      BY <2>1, <2>2 DEF Upvals
  <1>2. Placed(upval', stack')
    <2>1. ASSUME NEW u \in Up, IsOpen(upval', u) PROVE Pos(upval', stack', u) \in Position
      <3>1. IsOpen(upval, u) /\ upval'[u] = upval[u]
        BY <2>1, CloseOpens
      <3> QED
        BY <3>1 DEF Accounted, Placed, Pos
    <2> QED
      BY <2>1 DEF Placed
  <1>3. Counted(upval', closure')
    <2>1. ASSUME NEW u \in Up
          PROVE  /\ upval'[u] = NONE => Held(closure, u) = {}
                 /\ upval'[u] # NONE => /\ upval'[u].refcnt = Cardinality(Held(closure, u))
                                        /\ upval'[u].refcnt = 0 => Open(upval'[u].value)
      <3>1. /\ upval[u] = NONE => Held(closure, u) = {}
            /\ upval[u] # NONE => /\ upval[u].refcnt = Cardinality(Held(closure, u))
                                  /\ upval[u].refcnt = 0 => Open(upval[u].value)
        BY DEF Accounted, Counted
      <3>2. CASE ~Leaves(u, from)
        <4>1. upval'[u] = upval[u]
          BY <3>2, CloseOpens
        <4> QED
          BY <4>1, <3>1
      <3>3. CASE Leaves(u, from)
        <4>1. upval'[u] = Detached(u) /\ upval[u] # NONE
          BY <3>3, CloseOpens DEF Leaves, IsOpen
        <4>2. CASE upval[u].refcnt = 0
          BY <4>1, <4>2, <3>1, <3>3, Detaches, HeldFinite
        <4>3. CASE upval[u].refcnt # 0
          BY <4>1, <4>3, <3>1, <3>3, Detaches
        <4> QED
          BY <4>2, <4>3
      <3> QED
        BY <3>2, <3>3
    <2> QED
      BY <2>1 DEF Counted
  <1> QED
    BY <1>1, <1>2, <1>3, CloseLists DEF Accounted

\* What is not touched stays in order.
LEMMA KeepAccounts ==
    ASSUME Accounted, UNCHANGED <<stack, closure, upval, upvalist>>
    PROVE  Accounted'
  BY DEF Accounted, Placed, Pos, Counted

----------------------------------------------------------------------------
(* The stack moves. *)

ResizeEffect(u, new) ==
    /\ ~IsOpen(upval, u) => upval'[u] = upval[u]
    /\ IsOpen(upval, u) =>
         /\ upval'[u] \in UpvalType /\ upval'[u] # NONE
         /\ upval'[u].value = At(new + Pos(upval, stack, u))
         /\ upval'[u].refcnt = upval[u].refcnt

LEMMA ResizeIs ==
    ASSUME Sound, Accounted, NEW new \in Addr, StackResize(new), NEW u \in Up
    PROVE  ResizeEffect(u, new)
  <1>1. upval' = [x \in Up |->
          IF x \in Range(upvalist) THEN [upval[x] EXCEPT !.value.addr = @ - stack + new] ELSE upval[x]]
    BY DEF StackResize
  <1>2. u \in Range(upvalist) <=> IsOpen(upval, u)
    <2>1. upvalist \in Seq(Up)
      BY DEF Accounted, Listed
    <2>2. u \in Range(upvalist) <=> \E i \in 1 .. Len(upvalist) : upvalist[i] = u
      BY <2>1 DEF Range
    <2> QED
      BY <2>2 DEF Accounted, Listed
  <1>3. ASSUME IsOpen(upval, u)
        PROVE  /\ upval'[u] \in UpvalType /\ upval'[u] # NONE
               /\ upval'[u].value = At(new + Pos(upval, stack, u))
               /\ upval'[u].refcnt = upval[u].refcnt
    <2> DEFINE p == Pos(upval, stack, u)
               d == [value |-> At(new + p), refcnt |-> upval[u].refcnt]
    <2>1. /\ upval[u] \in UpvalType /\ upval[u].value \in Value /\ upval[u].refcnt \in Nat
          /\ upval[u].value.addr \in Nat /\ p \in Position /\ p \in Nat
      BY <1>3, UpvalIs, PositionIs DEF Sound, Stacked, Accounted, IsOpen
    <2>2. upval[u].value = At(upval[u].value.addr)
      BY <1>3, <2>1, OpenValue DEF IsOpen
    <2>3. new \in Nat /\ stack \in Nat
      BY ClosuresAssumption DEF Sound, Stacked
    <2>4. upval[u].value.addr - stack + new = new + p
      BY <2>1, <2>3 DEF Pos
    <2>5. upval'[u] = [upval[u] EXCEPT !.value.addr = new + p]
      BY <1>1, <1>2, <1>3, <2>4
    <2>6. [upval[u].value EXCEPT !.addr = new + p] = At(new + p)
      BY <2>2 DEF At
    <2> HIDE DEF p
    <2>7. upval'[u] = d
      BY <2>1, <2>5, <2>6 DEF UpvalType
    <2>8. At(new + p) \in Value
      BY <2>1, Values
    <2>9. d \in UpvalType
      BY <2>1, <2>8 DEF UpvalType
    <2>10. d # NONE
      BY <2>9, ClosuresAssumption DEF UpvalType
    <2> QED
      BY <2>7, <2>9, <2>10 DEF p
  <1> QED
    BY <1>1, <1>2, <1>3 DEF ResizeEffect

\* Whether an upvalue is open does not change, nor the slot it points at.
LEMMA ResizeOpens ==
    ASSUME Sound, Accounted, NEW new \in Addr, StackResize(new), NEW u \in Up
    PROVE  /\ IsOpen(upval', u) <=> IsOpen(upval, u)
           /\ IsOpen(upval, u) => Pos(upval', stack', u) = Pos(upval, stack, u)
           /\ upval'[u] = NONE <=> upval[u] = NONE
           /\ upval[u] # NONE => upval'[u].refcnt = upval[u].refcnt
  <1>1. ResizeEffect(u, new)
    BY ResizeIs
  <1>2. CASE IsOpen(upval, u)
    <2>1. upval'[u] # NONE /\ upval'[u].refcnt = upval[u].refcnt /\ upval[u] # NONE
      BY <1>1, <1>2 DEF ResizeEffect, IsOpen
    <2>2. Open(upval'[u].value)
      BY <1>1, <1>2 DEF ResizeEffect, Open, At
    <2>3. Pos(upval, stack, u) \in Nat /\ new \in Nat /\ stack' = new
      BY <1>2, PositionIs, ClosuresAssumption DEF Accounted, Placed, StackResize
    <2>4. upval'[u].value.addr = new + Pos(upval, stack, u)
      BY <1>1, <1>2 DEF ResizeEffect, At
    <2>5. Pos(upval', stack', u) = upval'[u].value.addr - new
      BY <2>3 DEF Pos
    <2>6. Pos(upval', stack', u) = Pos(upval, stack, u)
      BY <2>3, <2>4, <2>5
    <2> QED
      BY <1>2, <2>1, <2>2, <2>6 DEF IsOpen
  <1>3. CASE ~IsOpen(upval, u)
    BY <1>1, <1>3 DEF ResizeEffect, IsOpen
  <1> QED
    BY <1>2, <1>3

LEMMA ResizeAccounts ==
    ASSUME Sound, Accounted, NEW new \in Addr, StackResize(new)
    PROVE  Accounted'
  <1>1. Upvals(upval')
    <2>1. ASSUME NEW u \in Up PROVE upval'[u] \in UpvalType \cup {NONE}
      BY ResizeIs DEF ResizeEffect, Accounted, Upvals
    <2>2. upval' = [u \in Up |-> upval'[u]]
      BY DEF StackResize
    <2> QED
      BY <2>1, <2>2 DEF Upvals
  <1>2. Listed(upval', upvalist')
    <2>1. upvalist' = upvalist
      BY DEF StackResize
    <2>2. \A i \in 1 .. Len(upvalist) : upvalist[i] \in Up
      BY DEF Accounted, Listed
    <2> QED
      BY <2>1, <2>2, ResizeOpens DEF Accounted, Listed
  <1>3. Placed(upval', stack')
    BY ResizeOpens DEF Accounted, Placed
  <1>4. Counted(upval', closure')
    <2>1. closure' = closure
      BY DEF StackResize
    <2>2. ASSUME NEW u \in Up
          PROVE  /\ upval'[u] = NONE => Held(closure, u) = {}
                 /\ upval'[u] # NONE => /\ upval'[u].refcnt = Cardinality(Held(closure, u))
                                        /\ upval'[u].refcnt = 0 => Open(upval'[u].value)
      BY ResizeOpens DEF Accounted, Counted, IsOpen
    <2> QED
      BY <2>1, <2>2 DEF Counted
  <1> QED
    BY <1>1, <1>2, <1>3, <1>4 DEF Accounted

----------------------------------------------------------------------------
(* Closures that come and go. *)

LEMMA Tagged ==
    ASSUME NEW c, NEW S, IsFiniteSet(S)
    PROVE  IsFiniteSet({c} \X S) /\ Cardinality({c} \X S) = Cardinality(S)
  <1>1. IsFiniteSet({c}) /\ Cardinality({c}) = 1
    BY FS_Singleton
  <1>2. IsFiniteSet({c} \X S) /\ Cardinality({c} \X S) = Cardinality({c}) * Cardinality(S)
    BY <1>1, FS_Product
  <1>3. Cardinality(S) \in Nat
    BY FS_CardinalityType
  <1> QED
    BY <1>1, <1>2, <1>3

HeldBy(cl, c, u) == {i \in DOMAIN cl[c].upvals : cl[c].upvals[i] = u}

\* With a closure, an upvalue is held as often as without it, and as it has it.
LEMMA HeldSplit ==
    ASSUME NEW cl, Closures(cl), NEW c \in Clo, cl[c] # NONE, NEW u \in Up
    PROVE  /\ Cardinality(HeldBy(cl, c, u)) \in Nat
           /\ Cardinality(HeldBy(cl, c, u)) = 0 <=> HeldBy(cl, c, u) = {}
           /\ Cardinality(Held(cl, u)) =
                Cardinality(Held([cl EXCEPT ![c] = NONE], u)) + Cardinality(HeldBy(cl, c, u))
  <1> DEFINE A == Held([cl EXCEPT ![c] = NONE], u)
             B == HeldBy(cl, c, u)
  <1>1. cl \in [Clo -> ClosureType \cup {NONE}] /\ Len(cl[c].upvals) <= MaxUpvals
    BY DEF Closures
  <1>2. cl[c] \in ClosureType
    BY <1>1
  <1>3. cl[c].upvals \in Seq(Up) /\ MaxUpvals \in Nat
    BY <1>2, ClosuresAssumption DEF ClosureType
  <1>4. DOMAIN cl[c].upvals = 1 .. Len(cl[c].upvals) /\ Len(cl[c].upvals) \in Nat
    BY <1>3
  <1>5. B \subseteq 1 .. MaxUpvals
    BY <1>1, <1>3, <1>4 DEF HeldBy
  <1>6. IsFiniteSet(1 .. MaxUpvals)
    <2>1. MaxUpvals \in Int /\ 1 \in Int
      BY <1>3
    <2> QED
      BY <2>1, FS_Interval
  <1>7. IsFiniteSet(B) /\ Cardinality(B) \in Nat /\ (Cardinality(B) = 0 <=> B = {})
    BY <1>5, <1>6, FS_Subset, FS_CardinalityType, FS_EmptySet
  <1>8. Held(cl, u) = A \cup ({c} \X B)
    <2>1. ASSUME NEW d \in Clo, NEW i \in 1 .. MaxUpvals
          PROVE  <<d, i>> \in Held(cl, u) <=> <<d, i>> \in A \/ <<d, i>> \in {c} \X B
      <3>1. CASE d = c
        <4>1. <<d, i>> \notin A
          BY <1>1, <3>1 DEF Held
        <4>2. <<d, i>> \in Held(cl, u) <=> i \in B
          BY <3>1 DEF Held, HeldBy
        <4> HIDE DEF A, B
        <4> QED
          BY <3>1, <4>1, <4>2
      <3>2. CASE d # c
        <4>1. [cl EXCEPT ![c] = NONE][d] = cl[d]
          BY <1>1, <3>2
        <4>2. <<d, i>> \in Held(cl, u) <=> <<d, i>> \in A
          BY <4>1 DEF Held
        <4> HIDE DEF A, B
        <4> QED
          BY <3>2, <4>2
      <3> QED
        BY <3>1, <3>2
    <2>2. Held(cl, u) \subseteq Clo \X (1 .. MaxUpvals) /\ A \subseteq Clo \X (1 .. MaxUpvals)
      BY DEF Held
    <2>3. {c} \X B \subseteq Clo \X (1 .. MaxUpvals)
      BY <1>5
    <2> HIDE DEF A, B
    <2> QED
      BY <2>1, <2>2, <2>3
  <1>9. A \cap ({c} \X B) = {}
    BY <1>1 DEF Held
  <1>10. IsFiniteSet(A) /\ Cardinality(A) \in Nat
    BY HeldFinite
  <1> HIDE DEF A, B
  <1>11. IsFiniteSet({c} \X B) /\ Cardinality({c} \X B) = Cardinality(B)
    BY <1>7, Tagged
  <1>12. Cardinality(A \cup ({c} \X B)) = Cardinality(A) + Cardinality({c} \X B) - Cardinality(A \cap ({c} \X B))
    BY <1>10, <1>11, FS_Union
  <1>13. Cardinality(A \cap ({c} \X B)) = 0
    BY <1>9, FS_EmptySet
  <1>14. Cardinality(Held(cl, u)) = Cardinality(A) + Cardinality(B)
    BY <1>7, <1>8, <1>10, <1>11, <1>12, <1>13
  <1> QED
    BY <1>7, <1>14 DEF A, B

\* A freed closure: its upvalues lose it, and those that no other has and that
\* are closed are gone.
FreeEffect(c, u) ==
    LET n == Cardinality(HeldBy(closure, c, u))
    IN  /\ upval[u] = NONE => upval'[u] = NONE
        /\ upval[u] # NONE /\ upval[u].refcnt = n /\ n # 0 /\ ~Open(upval[u].value) => upval'[u] = NONE
        /\ upval[u] # NONE /\ ~(upval[u].refcnt = n /\ n # 0 /\ ~Open(upval[u].value)) =>
             /\ upval'[u] # NONE /\ upval'[u] \in UpvalType
             /\ upval'[u].value = upval[u].value
             /\ upval'[u].refcnt = upval[u].refcnt - n

LEMMA FreeIs ==
    ASSUME Sound, Accounted, NEW c \in Clo, FreeClosure(c), NEW u \in Up
    PROVE  /\ closure[c] # NONE /\ closure' = [closure EXCEPT ![c] = NONE]
           /\ FreeEffect(c, u)
           /\ upval[u] # NONE => Cardinality(HeldBy(closure, c, u)) <= upval[u].refcnt
  <1> DEFINE n == Cardinality(HeldBy(closure, c, u))
  <1>1. closure[c] # NONE /\ closure' = [closure EXCEPT ![c] = NONE]
    BY DEF FreeClosure
  <1>2. References(c, u) = n
    BY DEF References, HeldBy
  <1>3. n \in Nat /\ Cardinality(Held(closure, u)) = Cardinality(Held(closure', u)) + n
    BY <1>1, HeldSplit DEF Sound
  <1>4. Cardinality(Held(closure', u)) \in Nat
    BY HeldFinite
  <1> HIDE DEF n
  <1>5. upval'[u] = IF upval[u] = NONE \/ n = 0 THEN upval[u]
                    ELSE IF upval[u].refcnt = n /\ ~Open(upval[u].value) THEN NONE
                    ELSE [upval[u] EXCEPT !.refcnt = @ - n]
    BY <1>2 DEF FreeClosure
  <1>6. ASSUME upval[u] # NONE
        PROVE  /\ upval[u] \in UpvalType /\ upval[u].refcnt \in Nat
               /\ upval[u].refcnt = Cardinality(Held(closure', u)) + n
               /\ n <= upval[u].refcnt
    <2>1. upval[u] \in UpvalType /\ upval[u].refcnt \in Nat
      BY <1>6, UpvalIs DEF Sound, Stacked, Accounted
    <2>2. upval[u].refcnt = Cardinality(Held(closure, u))
      BY <1>6 DEF Accounted, Counted
    <2> QED
      BY <2>1, <2>2, <1>3, <1>4
  <1>7. ASSUME upval[u] # NONE, ~(upval[u].refcnt = n /\ n # 0 /\ ~Open(upval[u].value))
        PROVE  /\ upval'[u] # NONE /\ upval'[u] \in UpvalType
               /\ upval'[u].value = upval[u].value
               /\ upval'[u].refcnt = upval[u].refcnt - n
    <2>1. CASE n = 0
      BY <2>1, <1>5, <1>6, <1>7
    <2>2. CASE n # 0
      <3> DEFINE d == [upval[u] EXCEPT !.refcnt = upval[u].refcnt - n]
      <3>1. upval'[u] = d
        BY <2>2, <1>5, <1>7
      <3>2. upval[u].refcnt - n \in Nat
        BY <1>3, <1>6, <1>7
      <3>3. d \in UpvalType /\ d.value = upval[u].value /\ d.refcnt = upval[u].refcnt - n
        BY <3>2, <1>6, <1>7 DEF UpvalType
      <3> HIDE DEF d
      <3>4. d # NONE
        BY <3>3, ClosuresAssumption DEF UpvalType
      <3> QED
        BY <3>1, <3>3, <3>4
    <2> QED
      BY <2>1, <2>2
  <1>8. upval[u] = NONE => upval'[u] = NONE
    BY <1>5
  <1>9. upval[u] # NONE /\ upval[u].refcnt = n /\ n # 0 /\ ~Open(upval[u].value) => upval'[u] = NONE
    BY <1>5
  <1>10. FreeEffect(c, u)
    BY <1>7, <1>8, <1>9 DEF FreeEffect, n
  <1> QED
    BY <1>1, <1>6, <1>10 DEF n

LEMMA FreeOpens ==
    ASSUME Sound, Accounted, NEW c \in Clo, FreeClosure(c), NEW u \in Up
    PROVE  /\ IsOpen(upval', u) <=> IsOpen(upval, u)
           /\ upval'[u] # NONE => upval[u] # NONE /\ upval'[u].value = upval[u].value
           /\ upval'[u] \in UpvalType \cup {NONE}
  <1>1. FreeEffect(c, u)
    BY FreeIs
  <1>2. CASE upval[u] = NONE
    BY <1>1, <1>2 DEF FreeEffect, IsOpen
  <1>3. CASE upval[u] # NONE
    BY <1>1, <1>3 DEF FreeEffect, IsOpen
  <1> QED
    BY <1>2, <1>3

LEMMA FreeAccounts ==
    ASSUME Sound, Accounted, NEW c \in Clo, FreeClosure(c)
    PROVE  Accounted'
  <1>0. UNCHANGED <<stack, slot, frames, upvalist>>
    BY DEF FreeClosure
  <1>1. Upvals(upval')
    <2>1. upval' = [u \in Up |-> upval'[u]]
      BY DEF FreeClosure
    <2> QED
      BY <2>1, FreeOpens DEF Upvals
  <1>2. Listed(upval', upvalist')
    <2>1. \A i \in 1 .. Len(upvalist) : upvalist[i] \in Up
      BY DEF Accounted, Listed
    <2> QED
      BY <1>0, <2>1, FreeOpens DEF Accounted, Listed
  <1>3. Placed(upval', stack')
    <2>1. ASSUME NEW u \in Up, IsOpen(upval', u) PROVE Pos(upval', stack, u) \in Position
      BY <2>1, FreeOpens DEF Accounted, Placed, Pos, IsOpen
    <2> QED
      BY <1>0, <2>1 DEF Placed
  <1>4. Counted(upval', closure')
    <2>1. ASSUME NEW u \in Up
          PROVE  /\ upval'[u] = NONE => Held(closure', u) = {}
                 /\ upval'[u] # NONE => /\ upval'[u].refcnt = Cardinality(Held(closure', u))
                                        /\ upval'[u].refcnt = 0 => Open(upval'[u].value)
      <3> DEFINE n == Cardinality(HeldBy(closure, c, u))
                 old == Cardinality(Held(closure, u))
                 new == Cardinality(Held(closure', u))
      <3>1. FreeEffect(c, u) /\ closure[c] # NONE /\ closure' = [closure EXCEPT ![c] = NONE]
        BY FreeIs
      <3>2. n \in Nat /\ old = new + n
        BY <3>1, HeldSplit DEF Sound
      <3>3. /\ new \in Nat /\ (new = 0 <=> Held(closure', u) = {})
            /\ old \in Nat /\ (old = 0 <=> Held(closure, u) = {})
        BY HeldFinite
      <3>4. /\ upval[u] = NONE => old = 0
            /\ upval[u] # NONE => upval[u].refcnt = old /\ (upval[u].refcnt = 0 => Open(upval[u].value))
        BY <3>3 DEF Accounted, Counted
      <3>5. /\ upval[u] = NONE => upval'[u] = NONE
            /\ upval[u] # NONE /\ upval[u].refcnt = n /\ n # 0 /\ ~Open(upval[u].value) => upval'[u] = NONE
            /\ upval[u] # NONE /\ ~(upval[u].refcnt = n /\ n # 0 /\ ~Open(upval[u].value)) =>
                 /\ upval'[u] # NONE
                 /\ upval'[u].value = upval[u].value
                 /\ upval'[u].refcnt = upval[u].refcnt - n
        BY <3>1 DEF FreeEffect
      <3> HIDE DEF n, old, new
      <3>6. CASE upval[u] = NONE
        BY <3>2, <3>3, <3>4, <3>5, <3>6
      <3>7. CASE upval[u] # NONE /\ upval[u].refcnt = n /\ n # 0 /\ ~Open(upval[u].value)
        BY <3>2, <3>3, <3>4, <3>5, <3>7
      <3>8. CASE upval[u] # NONE /\ ~(upval[u].refcnt = n /\ n # 0 /\ ~Open(upval[u].value))
        <4>1. upval'[u] # NONE /\ upval'[u].value = upval[u].value /\ upval'[u].refcnt = old - n
          BY <3>4, <3>5, <3>8
        <4>2. upval'[u].refcnt = new
          BY <4>1, <3>2, <3>3
        <4>3. ASSUME new = 0 PROVE Open(upval[u].value)
          <5>1. upval[u].refcnt = n
            BY <4>3, <3>2, <3>3, <3>4, <3>8
          <5> QED
            BY <5>1, <3>4, <3>8
        <4> QED
          BY <4>1, <4>2, <4>3 DEF new
      <3> QED
        BY <3>6, <3>7, <3>8
    <2> QED
      BY <2>1 DEF Counted
  <1> QED
    BY <1>1, <1>2, <1>3, <1>4 DEF Accounted

----------------------------------------------------------------------------
(* The upvalues of a new closure. *)

LEMMA MaxIs ==
    ASSUME NEW n \in Nat, NEW S \in SUBSET (1 .. n), S # {}
    PROVE  Max(S) \in S /\ \A k \in S : k <= Max(S)
  <1>1. PICK m \in S : \A k \in S : k <= m
    <2>1. S \in SUBSET (0 .. n)
      OBVIOUS
    <2> QED
      BY <2>1, Greatest
  <1>2. \E x \in S : \A y \in S : x >= y
    BY <1>1
  <1>3. Max(S) \in S /\ \A y \in S : Max(S) >= y
    BY <1>2, Zenon DEF Max
  <1> QED
    BY <1>3

\* A descriptor at a time.
Before == [made |-> <<>>, up |-> upval, list |-> upvalist]
Goes(f, descs, n) ==
    /\ f[0] = Before
    /\ \A i \in 1 .. n : f[i] = InitUpval(f[i - 1], descs[i])

\* What a fold computes for the sets of indices up to m.
Folds(g, descs, m) ==
    g = [s \in SUBSET (1 .. m) |->
           IF s = {} THEN Before ELSE InitUpval(g[s \ {Max(s)}], descs[Max(s)])]

LEMMA FoldExists ==
    ASSUME NEW descs, NEW n \in Nat
    PROVE  \E g : Folds(g, descs, n)
  <1> DEFINE P == {m \in 0 .. n : \E g : Folds(g, descs, m)}
  <1>1. 0 \in P
    <2> DEFINE g == [s \in SUBSET (1 .. 0) |-> Before]
    <2>1. \A s \in SUBSET (1 .. 0) : s = {}
      OBVIOUS
    <2>2. g = [s \in SUBSET (1 .. 0) |->
                 IF s = {} THEN Before ELSE InitUpval(g[s \ {Max(s)}], descs[Max(s)])]
      BY <2>1, Zenon
    <2> HIDE DEF g
    <2>3. Folds(g, descs, 0)
      BY <2>2 DEF Folds
    <2> QED
      BY <2>3
  <1>2. ASSUME NEW m \in 0 .. n, m < n, m \in P PROVE m + 1 \in P
    <2>1. PICK g : Folds(g, descs, m)
      BY <1>2
    <2> DEFINE h == [s \in SUBSET (1 .. m + 1) |->
                       IF m + 1 \in s THEN InitUpval(g[s \ {m + 1}], descs[m + 1]) ELSE g[s]]
    <2>2. ASSUME NEW s \in SUBSET (1 .. m + 1)
          PROVE  h[s] = IF s = {} THEN Before ELSE InitUpval(h[s \ {Max(s)}], descs[Max(s)])
      <3>1. CASE m + 1 \in s
        <4>1. Max(s) = m + 1
          <5>1. m + 1 \in Nat /\ s # {}
            BY <3>1
          <5>2. Max(s) \in s /\ m + 1 <= Max(s)
            BY <5>1, <3>1, MaxIs
          <5>3. Max(s) \in 1 .. m + 1
            BY <5>2
          <5> QED
            BY <5>1, <5>2, <5>3
        <4>2. s \ {m + 1} \in SUBSET (1 .. m + 1) /\ m + 1 \notin s \ {m + 1}
          OBVIOUS
        <4>3. h[s \ {m + 1}] = g[s \ {m + 1}]
          BY <4>2
        <4>4. h[s] = InitUpval(g[s \ {m + 1}], descs[m + 1])
          BY <3>1
        <4> HIDE DEF h
        <4> QED
          BY <4>1, <4>3, <4>4, <3>1
      <3>2. CASE m + 1 \notin s
        <4>1. s \in SUBSET (1 .. m)
          BY <3>2
        <4>2. h[s] = g[s]
          BY <3>2
        <4>3. g[s] = IF s = {} THEN Before ELSE InitUpval(g[s \ {Max(s)}], descs[Max(s)])
          BY <4>1, <2>1 DEF Folds
        <4>4. s \ {Max(s)} \in SUBSET (1 .. m + 1) /\ m + 1 \notin s \ {Max(s)}
          BY <3>2
        <4>5. h[s \ {Max(s)}] = g[s \ {Max(s)}]
          BY <4>4
        <4> HIDE DEF h
        <4> QED
          BY <4>2, <4>3, <4>5
      <3> QED
        BY <3>1, <3>2
    <2>3. h = [s \in SUBSET (1 .. m + 1) |-> h[s]]
      OBVIOUS
    <2> HIDE DEF h
    <2>4. Folds(h, descs, m + 1)
      BY <2>2, <2>3 DEF Folds
    <2>5. m + 1 \in 0 .. n
      BY <1>2
    <2> QED
      BY <2>4, <2>5
  <1> HIDE DEF P
  <1>3. n \in P
    BY <1>1, <1>2, UpTo
  <1> QED
    BY <1>3 DEF P

LEMMA CaptureGoes ==
    ASSUME NEW descs, NEW n \in Nat, DOMAIN descs = 1 .. n
    PROVE  \E f : Goes(f, descs, n) /\ FoldLeft(InitUpval, [made |-> <<>>, up |-> upval, list |-> upvalist], descs) = f[n]
  <1> DEFINE base == [made |-> <<>>, up |-> upval, list |-> upvalist]
             body(k) == [s \in SUBSET (DOMAIN descs) |->
                           IF s = {} THEN base ELSE InitUpval(k[s \ {Max(s)}], descs[Max(s)])]
             K == CHOOSE k : k = body(k)
             f == [i \in 0 .. n |-> K[1 .. i]]
  <1>1. FoldLeft(InitUpval, [made |-> <<>>, up |-> upval, list |-> upvalist], descs) = K[DOMAIN descs]
    BY DEF FoldLeft, MapThenFoldSet
  <1>2. PICK g : Folds(g, descs, n)
    BY FoldExists
  <1>3. g = body(g)
    BY <1>2 DEF Folds, Before
  <1>4. K = body(K)
    <2> HIDE DEF body
    <2> QED
      BY <1>3, Zenon
  <1> HIDE DEF K
  <1>5. f[0] = Before
    <2>1. f[0] = K[1 .. 0] /\ 1 .. 0 = {}
      OBVIOUS
    <2>2. K[{}] = base
      BY <1>4
    <2> HIDE DEF f
    <2> QED
      BY <2>1, <2>2 DEF Before
  <1>6. ASSUME NEW i \in 1 .. n PROVE f[i] = InitUpval(f[i - 1], descs[i])
    <2>1. 1 .. i \in SUBSET (DOMAIN descs) /\ 1 .. i # {} /\ i \in 1 .. i
      OBVIOUS
    <2>2. Max(1 .. i) = i
      <3>1. Max(1 .. i) \in 1 .. i /\ i <= Max(1 .. i)
        BY <2>1, MaxIs
      <3> QED
        BY <3>1
    <2>3. (1 .. i) \ {i} = 1 .. i - 1
      OBVIOUS
    <2>4. K[1 .. i] = InitUpval(K[(1 .. i) \ {Max(1 .. i)}], descs[Max(1 .. i)])
      BY <1>4, <2>1, Zenon
    <2>5. f[i] = K[1 .. i] /\ f[i - 1] = K[1 .. i - 1]
      OBVIOUS
    <2> HIDE DEF f
    <2> QED
      BY <2>2, <2>3, <2>4, <2>5
  <1>7. Goes(f, descs, n)
    <2> HIDE DEF f
    <2> QED
      BY <1>5, <1>6 DEF Goes
  <1>8. f[n] = K[DOMAIN descs]
    OBVIOUS
  <1> HIDE DEF f
  <1> QED
    BY <1>1, <1>7, <1>8

LEMMA MinIs ==
    ASSUME NEW S \in SUBSET Nat, S # {}
    PROVE  Min(S) \in S /\ \A k \in S : Min(S) <= k
  <1>1. \E x \in S : \A y \in S : x <= y
    BY Least
  <1>2. Min(S) \in S /\ \A y \in S : Min(S) =< y
    BY <1>1, Zenon DEF Min
  <1> QED
    BY <1>2

\* An upvalue that is found has the address; the first of the list, if it has the
\* address, is found.
Finds(k, l, up, level) ==
    /\ k \in Nat
    /\ k > 0 => k \in 1 .. Len(l) /\ up[l[k]].value.addr = level
    /\ k = 0 => Len(l) = 0 \/ up[l[1]].value.addr # level

LEMMA FindIs ==
    ASSUME NEW up, NEW l \in Seq(Up), NEW level \in Nat,
           \A i \in 1 .. Len(l) : up[l[i]].value.addr \in Nat
    PROVE  Finds(findupval(l, up, level), l, up, level)
  <1> DEFINE I == {i \in 1 .. Len(l) : up[l[i]].value.addr <= level}
             m == IF I # {} THEN Min(I) ELSE 0
  <1>1. SelectInSeq(l, LAMBDA u : up[u].value.addr <= level) = m
    BY DEF SelectInSeq
  <1>2. I \in SUBSET Nat /\ I \subseteq 1 .. Len(l) /\ Len(l) \in Nat
    OBVIOUS
  <1>3. findupval(l, up, level) = IF m > 0 /\ up[l[m]].value.addr = level THEN m ELSE 0
    BY <1>1 DEF findupval
  <1>4. ASSUME I # {} PROVE m \in I /\ \A i \in I : m <= i
    <2> HIDE DEF I
    <2> QED
      BY <1>2, <1>4, MinIs
  <1>5. m \in Nat /\ (m > 0 => m \in 1 .. Len(l))
    <2>1. CASE I = {}
      BY <2>1
    <2>2. CASE I # {}
      <3> HIDE DEF I, m
      <3> QED
        BY <2>2, <1>2, <1>4
    <2> QED
      BY <2>1, <2>2
  <1>6. ASSUME Len(l) # 0, up[l[1]].value.addr = level PROVE m = 1
    <2>1. 1 \in I
      BY <1>2, <1>6
    <2>2. m \in I /\ m <= 1
      <3> HIDE DEF I, m
      <3> QED
        BY <2>1, <1>4
    <2> HIDE DEF I, m
    <2> QED
      BY <2>2, <1>2
  <1> HIDE DEF I, m
  <1> QED
    BY <1>3, <1>5, <1>6 DEF Finds

\* The top of the stack, the function that runs and the closure it runs.
LEMMA TopIs ==
    ASSUME Sound
    PROVE  Filled(slot, Top) /\ Top \in 0 .. StackSize /\ Top \in Nat /\ Depth(slot) = Top
  <1>1. PICK t \in 0 .. StackSize : Filled(slot, t)
    BY DEF Sound, Stacked
  <1>2. Top = t
    BY <1>1, FilledTop DEF Top
  <1> QED
    BY <1>1, <1>2, ClosuresAssumption DEF Depth, Top

ClosureIs(cl, c) ==
    /\ cl[c] \in ClosureType
    /\ cl[c].upvals \in Seq(Up) /\ cl[c].vars \in Seq(Var)
    /\ Len(cl[c].upvals) \in Nat /\ Len(cl[c].vars) = Len(cl[c].upvals) /\ Len(cl[c].upvals) <= MaxUpvals
    /\ DOMAIN cl[c].upvals = 1 .. Len(cl[c].upvals) /\ DOMAIN cl[c].vars = 1 .. Len(cl[c].upvals)
    /\ \A i \in 1 .. Len(cl[c].upvals) : cl[c].upvals[i] \in Up /\ cl[c].vars[i] \in Var

LEMMA ClosureHas ==
    ASSUME NEW cl, Closures(cl), NEW c \in Clo, cl[c] # NONE
    PROVE  ClosureIs(cl, c)
  <1>1. cl[c] \in ClosureType
    BY DEF Closures
  <1>2. cl[c].upvals \in Seq(Up) /\ cl[c].vars \in Seq(Var)
    BY <1>1 DEF ClosureType
  <1>3. Len(cl[c].vars) = Len(cl[c].upvals) /\ Len(cl[c].upvals) <= MaxUpvals
    BY DEF Closures
  <1>4. DOMAIN cl[c].upvals = 1 .. Len(cl[c].upvals) /\ DOMAIN cl[c].vars = 1 .. Len(cl[c].upvals)
    BY <1>2, <1>3
  <1>5. \A i \in 1 .. Len(cl[c].upvals) : cl[c].upvals[i] \in Up /\ cl[c].vars[i] \in Var
    BY <1>2, <1>4
  <1> QED
    BY <1>1, <1>2, <1>3, <1>4, <1>5 DEF ClosureIs

LEMMA FrameIs ==
    ASSUME Sound
    PROVE  /\ Len(frames) \in Nat /\ Len(frames) >= 1 /\ Frame = frames[Len(frames)]
           /\ Frame \in FrameType /\ Bodied(Blocks) /\ Len(Blocks) \in Nat
           /\ Base = Blocks[1].start /\ Base \in 0 .. StackSize
           /\ \A i \in 1 .. Len(Blocks) : Blocks[i] \in BlockType
           /\ Frame.func \in Clo /\ closure[Frame.func] # NONE
  <1>1. frames \in Seq(FrameType) /\ Len(frames) \in Nat /\ Len(frames) >= 1
    BY DEF Sound, Framed
  <1>2. Frame = frames[Len(frames)] /\ Len(frames) \in 1 .. Len(frames)
    BY <1>1 DEF Frame, Last
  <1>3. Frame \in FrameType /\ Frame.func \in Clo /\ closure[Frame.func] # NONE
    <2>1. frames[Len(frames)] \in FrameType
      BY <1>1, <1>2
    <2>2. closure[frames[Len(frames)].func] # NONE
      BY <1>2 DEF Sound, Running
    <2> QED
      BY <1>2, <2>1, <2>2 DEF FrameType
  <1>4. Bodied(Blocks)
    BY <1>2 DEF Sound, Framed, Blocks
  <1>5. Blocks \in Seq(BlockType) /\ Len(Blocks) >= 1
    BY <1>4 DEF Bodied
  <1>6. Len(Blocks) \in Nat /\ \A i \in 1 .. Len(Blocks) : Blocks[i] \in BlockType
    BY <1>5
  <1>7. Base = Blocks[1].start
    BY <1>5 DEF Base
  <1>8. Blocks[1] \in BlockType
    BY <1>5, <1>6
  <1>9. Base \in 0 .. StackSize
    BY <1>7, <1>8 DEF BlockType
  <1> QED
    BY <1>1, <1>2, <1>3, <1>4, <1>6, <1>7, <1>9

\* A descriptor is a local that there is, or an upvalue of the function.
DescIs(d) ==
    /\ d.instack \in BOOLEAN
    /\ d.instack => /\ d = Local(d.idx) /\ d.idx \in Position
                    /\ Base <= d.idx /\ d.idx < Top /\ slot[d.idx] # NONE
    /\ ~d.instack => d = Outer(d.idx) /\ d.idx \in 1 .. Len(closure[Frame.func].upvals)

LEMMA CapturableIs ==
    ASSUME Sound, NEW d \in Capturable
    PROVE  DescIs(d)
  <1>1. CASE d \in {Local(p) : p \in Base .. Top - 1}
    <2>1. PICK p \in Base .. Top - 1 : d = Local(p)
      BY <1>1
    <2>2. d.instack = TRUE /\ d.idx = p
      BY <2>1 DEF Local
    <2>3. Base \in 0 .. StackSize /\ Top \in 0 .. StackSize /\ StackSize \in Nat
      BY TopIs, FrameIs, ClosuresAssumption
    <2>4. p \in Position /\ p < Top /\ Base <= p
      BY <2>3 DEF Position
    <2>5. slot[p] # NONE
      BY <2>4, TopIs DEF Filled
    <2> QED
      BY <2>1, <2>2, <2>4, <2>5 DEF DescIs
  <1>2. CASE d \in {Outer(i) : i \in DOMAIN closure[Frame.func].upvals}
    <2>1. PICK i \in DOMAIN closure[Frame.func].upvals : d = Outer(i)
      BY <1>2
    <2>2. d.instack = FALSE /\ d.idx = i
      BY <2>1 DEF Outer
    <2>3. ClosureIs(closure, Frame.func)
      BY FrameIs, ClosureHas DEF Sound
    <2>4. i \in 1 .. Len(closure[Frame.func].upvals)
      BY <2>3 DEF ClosureIs
    <2> QED
      BY <2>1, <2>2, <2>4 DEF DescIs
  <1> QED
    BY <1>1, <1>2 DEF Capturable

Captures(descs, n) ==
    /\ n \in 1 .. MaxUpvals /\ n \in Nat /\ MaxUpvals \in Nat
    /\ descs \in [1 .. n -> Capturable] /\ DOMAIN descs = 1 .. n /\ Len(descs) = n
    /\ \A i \in 1 .. n : DescIs(descs[i])
    /\ \A i, j \in 1 .. n : descs[i] = descs[j] => i = j

LEMMA DescsAre ==
    ASSUME Sound, NEW descs \in Descs
    PROVE  \E n \in Nat : Captures(descs, n)
  <1>1. PICK n \in 1 .. MaxUpvals : /\ descs \in [1 .. n -> Capturable]
                                    /\ \A i, j \in 1 .. n : descs[i] = descs[j] => i = j
    BY DEF Descs
  <1>2. n \in Nat /\ MaxUpvals \in Nat
    BY ClosuresAssumption
  <1>3. DOMAIN descs = 1 .. n /\ descs \in Seq(Capturable)
    BY <1>1, <1>2
  <1>4. Len(descs) = n
    BY <1>2, <1>3
  <1>5. \A i \in 1 .. n : DescIs(descs[i])
    BY <1>1, CapturableIs
  <1> QED
    BY <1>1, <1>2, <1>3, <1>4, <1>5 DEF Captures

\* What the steps work on.
Ready(s) ==
    /\ s = [made |-> s.made, up |-> s.up, list |-> s.list]
    /\ s.made \in Seq(Up)
    /\ Upvals(s.up) /\ Listed(s.up, s.list) /\ Placed(s.up, stack)

\* An upvalue that there is gets one more holder.
Joins(s, d, u, t) ==
    /\ s.up[u] # NONE
    /\ d.instack => IsOpen(s.up, u) /\ Pos(s.up, stack, u) = d.idx
    /\ ~d.instack => u = closure[Frame.func].upvals[d.idx]
    /\ t = [made |-> Append(s.made, u), list |-> s.list,
            up |-> [s.up EXCEPT ![u] = [value |-> s.up[u].value, refcnt |-> s.up[u].refcnt + 1]]]

\* A new one goes to the head of the list.
Makes(s, d, u, t) ==
    /\ s.up[u] = NONE /\ d.instack
    /\ Len(s.list) = 0 \/ Pos(s.up, stack, s.list[1]) # d.idx
    /\ t = [made |-> Append(s.made, u), list |-> <<u>> \o s.list,
            up |-> [s.up EXCEPT ![u] = [value |-> At(stack + d.idx), refcnt |-> 1]]]

LEMMA ReadyUpval ==
    ASSUME Sound, NEW s, Ready(s), NEW u \in Up, s.up[u] # NONE
    PROVE  /\ s.up[u] = [value |-> s.up[u].value, refcnt |-> s.up[u].refcnt]
           /\ s.up[u].value \in Value /\ s.up[u].refcnt \in Nat
           /\ IsOpen(s.up, u) => /\ s.up[u].value.addr \in Nat /\ Pos(s.up, stack, u) \in Nat
                                 /\ s.up[u].value.addr = stack + Pos(s.up, stack, u)
  <1>1. s.up[u] \in UpvalType
    BY DEF Ready, Upvals
  <1>2. s.up[u] = [value |-> s.up[u].value, refcnt |-> s.up[u].refcnt]
        /\ s.up[u].value \in Value /\ s.up[u].refcnt \in Nat
    BY <1>1 DEF UpvalType
  <1>3. ASSUME IsOpen(s.up, u)
        PROVE  /\ s.up[u].value.addr \in Nat /\ Pos(s.up, stack, u) \in Nat
               /\ s.up[u].value.addr = stack + Pos(s.up, stack, u)
    <2>1. s.up[u].value.addr \in Nat
      BY <1>2, <1>3, OpenValue DEF IsOpen
    <2>2. Pos(s.up, stack, u) \in Nat
      BY <1>3, PositionIs DEF Ready, Placed
    <2>3. stack \in Nat
      BY ClosuresAssumption DEF Sound, Stacked
    <2> QED
      BY <2>1, <2>2, <2>3 DEF Pos
  <1> QED
    BY <1>2, <1>3

LEMMA ShareJoins ==
    ASSUME Sound, NEW s, Ready(s), NEW u \in Up, s.up[u] # NONE, NEW d,
           d.instack => IsOpen(s.up, u) /\ Pos(s.up, stack, u) = d.idx,
           ~d.instack => u = closure[Frame.func].upvals[d.idx]
    PROVE  Joins(s, d, u, Share(s, u))
  <1>1. s.up[u] = [value |-> s.up[u].value, refcnt |-> s.up[u].refcnt]
    BY ReadyUpval
  <1>4. Share(s, u) = [made |-> Append(s.made, u), list |-> s.list,
                       up |-> [s.up EXCEPT ![u] = [s.up[u] EXCEPT !.refcnt = s.up[u].refcnt + 1]]]
    BY DEF Share
  <1>6. [s.up[u] EXCEPT !.refcnt = s.up[u].refcnt + 1]
          = [value |-> s.up[u].value, refcnt |-> s.up[u].refcnt + 1]
    BY <1>1
  <1> QED
    BY <1>4, <1>6 DEF Joins

LEMMA InitUpvalIs ==
    ASSUME Sound, NEW s, Ready(s), NEW d, DescIs(d),
           ~d.instack => s.up[closure[Frame.func].upvals[d.idx]] # NONE,
           \E u \in Up : s.up[u] = NONE
    PROVE  \E u \in Up : Joins(s, d, u, InitUpval(s, d)) \/ Makes(s, d, u, InitUpval(s, d))
  <1> DEFINE level == stack + d.idx
             k == findupval(s.list, s.up, level)
  <1>1. CASE ~d.instack
    <2> DEFINE u == closure[Frame.func].upvals[d.idx]
    <2>1. u \in Up
      BY <1>1, FrameIs, ClosureHas DEF DescIs, ClosureIs, Sound
    <2>2. InitUpval(s, d) = Share(s, u)
      BY <1>1 DEF InitUpval
    <2>3. Joins(s, d, u, Share(s, u))
      BY <2>1, <1>1, ShareJoins
    <2> HIDE DEF u
    <2> QED
      BY <2>1, <2>2, <2>3
  <1>2. CASE d.instack
    <2>0. stack \in Nat /\ d.idx \in Nat /\ level \in Nat
      <3>1. stack \in Nat
        BY ClosuresAssumption DEF Sound, Stacked
      <3>2. d.idx \in Position
        BY <1>2 DEF DescIs
      <3>3. d.idx \in Nat
        BY <3>2, PositionIs
      <3> QED
        BY <3>1, <3>3
    <2>1. s.list \in Seq(Up) /\ Len(s.list) \in Nat
      BY DEF Ready, Listed
    <2>2. ASSUME NEW i \in 1 .. Len(s.list)
          PROVE  /\ s.list[i] \in Up /\ s.up[s.list[i]] # NONE /\ IsOpen(s.up, s.list[i])
                 /\ s.up[s.list[i]].value.addr \in Nat /\ Pos(s.up, stack, s.list[i]) \in Nat
                 /\ s.up[s.list[i]].value.addr = stack + Pos(s.up, stack, s.list[i])
      <3>1. s.list[i] \in Up /\ IsOpen(s.up, s.list[i]) /\ s.up[s.list[i]] # NONE
        BY <2>1 DEF Ready, Listed, IsOpen
      <3> QED
        BY <3>1, ReadyUpval
    <2>3. /\ k \in Nat
          /\ k > 0 => k \in 1 .. Len(s.list) /\ s.up[s.list[k]].value.addr = level
          /\ k = 0 => Len(s.list) = 0 \/ s.up[s.list[1]].value.addr # level
      <3>1. s.list \in Seq(Up) /\ level \in Nat /\ \A i \in 1 .. Len(s.list) : s.up[s.list[i]].value.addr \in Nat
        BY <2>0, <2>1, <2>2
      <3> HIDE DEF level
      <3>2. Finds(findupval(s.list, s.up, level), s.list, s.up, level)
        BY <3>1, FindIs
      <3> QED
        BY <3>2 DEF Finds
    <2>4. CASE k > 0
      <3> DEFINE u == s.list[k]
      <3>1. InitUpval(s, d) = Share(s, u)
        BY <1>2, <2>4 DEF InitUpval
      <3>2. u \in Up /\ s.up[u] # NONE /\ IsOpen(s.up, u) /\ s.up[u].value.addr = level
        BY <2>2, <2>3, <2>4
      <3>3. Pos(s.up, stack, u) = d.idx
        BY <3>2, <2>0 DEF Pos
      <3> HIDE DEF u, k
      <3>4. Joins(s, d, u, Share(s, u))
        BY <3>2, <3>3, <1>2, ShareJoins
      <3> QED
        BY <3>1, <3>2, <3>4
    <2>5. CASE k = 0
      <3> DEFINE u == CHOOSE x \in Up : s.up[x] = NONE
      <3>1. InitUpval(s, d) = New(s, level)
        BY <1>2, <2>5 DEF InitUpval
      <3>2. New(s, level) = [made |-> Append(s.made, u), list |-> <<u>> \o s.list,
                             up |-> [s.up EXCEPT ![u] = [value |-> At(level), refcnt |-> 1]]]
        BY DEF New
      <3>3. u \in Up /\ s.up[u] = NONE
        OBVIOUS
      <3>4. Len(s.list) = 0 \/ Pos(s.up, stack, s.list[1]) # d.idx
        <4>1. SUFFICES ASSUME Len(s.list) # 0 PROVE Pos(s.up, stack, s.list[1]) # d.idx
          OBVIOUS
        <4>2. 1 \in 1 .. Len(s.list)
          BY <4>1, <2>1
        <4>3. s.up[s.list[1]].value.addr # level
          BY <4>1, <2>3, <2>5
        <4> QED
          BY <4>2, <4>3, <2>0, <2>2
      <3> HIDE DEF u
      <3>5. Makes(s, d, u, InitUpval(s, d))
        BY <3>1, <3>2, <3>3, <3>4, <1>2 DEF Makes
      <3> QED
        BY <3>3, <3>5
    <2> HIDE DEF k
    <2> QED
      BY <2>3, <2>4, <2>5
  <1>3. d.instack \in BOOLEAN
    BY DEF DescIs
  <1> QED
    BY <1>1, <1>2

Count(s, u) == IF s.up[u] = NONE THEN 0 ELSE s.up[u].refcnt

\* What a step changes.
Grows(s, d, u, t) ==
    /\ Ready(t) /\ t.made = Append(s.made, u)
    /\ \A x \in Up : x # u => t.up[x] = s.up[x]
    /\ t.up[u] # NONE /\ t.up[u].refcnt = Count(s, u) + 1
    /\ s.up[u] # NONE => t.up[u].value = s.up[u].value
    /\ s.up[u] = NONE => d.instack
    /\ d.instack => IsOpen(t.up, u) /\ Pos(t.up, stack, u) = d.idx
    /\ ~d.instack => u = closure[Frame.func].upvals[d.idx]
    /\ Descending(s.up, s.list)
         /\ (d.instack => \A i \in 1 .. Len(s.list) : Pos(s.up, stack, s.list[i]) <= d.idx)
         => Descending(t.up, t.list)

LEMMA JoinsGrows ==
    ASSUME Sound, NEW s, Ready(s), NEW d, NEW u \in Up, NEW t, Joins(s, d, u, t)
    PROVE  Grows(s, d, u, t)
  <1> DEFINE v == [value |-> s.up[u].value, refcnt |-> s.up[u].refcnt + 1]
  <1>1. /\ t = [made |-> t.made, up |-> t.up, list |-> t.list]
        /\ t.made = Append(s.made, u) /\ t.list = s.list /\ t.up = [s.up EXCEPT ![u] = v]
    BY DEF Joins
  <1>2. s.up[u] # NONE /\ s.up[u].value \in Value /\ s.up[u].refcnt \in Nat
    BY ReadyUpval DEF Joins
  <1>3. v \in UpvalType
    BY <1>2 DEF UpvalType
  <1>4. v # NONE
    BY <1>3, ClosuresAssumption DEF UpvalType
  <1>5. v.value = s.up[u].value /\ v.refcnt = s.up[u].refcnt + 1
    OBVIOUS
  <1> HIDE DEF v
  <1>6. s.up \in [Up -> UpvalType \cup {NONE}]
    BY DEF Ready, Upvals
  <1>7. t.up \in [Up -> UpvalType \cup {NONE}] /\ t.up[u] = v /\ \A x \in Up : x # u => t.up[x] = s.up[x]
    BY <1>1, <1>3, <1>6
  <1>8. ASSUME NEW x \in Up
        PROVE  /\ IsOpen(t.up, x) <=> IsOpen(s.up, x)
               /\ IsOpen(s.up, x) => t.up[x].value = s.up[x].value
               /\ Pos(t.up, stack, x) = Pos(s.up, stack, x)
    <2>1. CASE x = u
      BY <2>1, <1>2, <1>4, <1>5, <1>7 DEF IsOpen, Pos
    <2>2. CASE x # u
      BY <2>2, <1>7 DEF IsOpen, Pos
    <2> QED
      BY <2>1, <2>2
  <1>9. s.list \in Seq(Up) /\ \A i \in 1 .. Len(s.list) : s.list[i] \in Up /\ IsOpen(s.up, s.list[i])
    BY DEF Ready, Listed
  <1>10. Listed(t.up, t.list)
    BY <1>1, <1>8, <1>9 DEF Ready, Listed
  <1>11. Placed(t.up, stack)
    BY <1>8 DEF Ready, Placed
  <1>12. t.made \in Seq(Up)
    BY <1>1 DEF Ready
  <1>13. Ready(t)
    BY <1>1, <1>7, <1>10, <1>11, <1>12 DEF Ready, Upvals
  <1>14. Descending(s.up, s.list) => Descending(t.up, t.list)
    BY <1>1, <1>8, <1>9 DEF Descending
  <1>15. d.instack => IsOpen(t.up, u) /\ Pos(t.up, stack, u) = d.idx
    BY <1>8 DEF Joins
  <1>16. ~d.instack => u = closure[Frame.func].upvals[d.idx]
    BY DEF Joins
  <1> QED
    BY <1>1, <1>2, <1>4, <1>5, <1>7, <1>13, <1>14, <1>15, <1>16 DEF Grows, Count

LEMMA MakesGrows ==
    ASSUME Sound, NEW s, Ready(s), NEW d, DescIs(d), NEW u \in Up, NEW t, Makes(s, d, u, t)
    PROVE  Grows(s, d, u, t)
  <1> DEFINE v == [value |-> At(stack + d.idx), refcnt |-> 1]
             l == s.list
  <1>1. /\ t = [made |-> t.made, up |-> t.up, list |-> t.list]
        /\ t.made = Append(s.made, u) /\ t.list = <<u>> \o l /\ t.up = [s.up EXCEPT ![u] = v]
    BY DEF Makes
  <1>2. s.up[u] = NONE /\ d.instack
    BY DEF Makes
  <1>3. d.idx \in Position /\ d.idx \in Nat
    BY <1>2, PositionIs DEF DescIs
  <1>4. stack \in Addr /\ stack \in Nat
    BY ClosuresAssumption DEF Sound, Stacked
  <1>5. At(stack + d.idx) \in Value /\ Open(At(stack + d.idx)) /\ At(stack + d.idx).addr = stack + d.idx
    BY <1>3, <1>4, Values DEF At
  <1>6. v \in UpvalType /\ v.value = At(stack + d.idx) /\ v.refcnt = 1
    BY <1>5 DEF UpvalType
  <1>7. v # NONE
    BY <1>6, ClosuresAssumption DEF UpvalType
  <1> HIDE DEF v
  <1>8. s.up \in [Up -> UpvalType \cup {NONE}]
    BY DEF Ready, Upvals
  <1>9. t.up \in [Up -> UpvalType \cup {NONE}] /\ t.up[u] = v /\ \A x \in Up : x # u => t.up[x] = s.up[x]
    BY <1>1, <1>6, <1>8
  <1>10. IsOpen(t.up, u) /\ Pos(t.up, stack, u) = d.idx
    <2>1. t.up[u].value.addr = stack + d.idx
      BY <1>5, <1>6, <1>9
    <2> QED
      BY <2>1, <1>3, <1>4, <1>5, <1>6, <1>7, <1>9 DEF IsOpen, Pos
  <1>11. \A x \in Up : x # u => (IsOpen(t.up, x) <=> IsOpen(s.up, x)) /\ Pos(t.up, stack, x) = Pos(s.up, stack, x)
    BY <1>9 DEF IsOpen, Pos
  <1>12. /\ l \in Seq(Up) /\ Len(l) \in Nat
         /\ \A i \in 1 .. Len(l) : l[i] \in Up /\ IsOpen(s.up, l[i]) /\ l[i] # u
    BY <1>2 DEF Ready, Listed, IsOpen
  <1>13. /\ t.list \in Seq(Up) /\ Len(t.list) = Len(l) + 1 /\ t.list[1] = u
         /\ \A i \in 1 .. Len(t.list) : i # 1 => i - 1 \in 1 .. Len(l) /\ t.list[i] = l[i - 1]
         /\ \A i \in 1 .. Len(l) : i + 1 \in 1 .. Len(t.list) /\ t.list[i + 1] = l[i]
    BY <1>1, <1>12
  <1>14. Listed(t.up, t.list)
    <2>1. ASSUME NEW i \in 1 .. Len(t.list) PROVE IsOpen(t.up, t.list[i])
      <3>1. CASE i = 1
        BY <3>1, <1>10, <1>13
      <3>2. CASE i # 1
        <4>1. i - 1 \in 1 .. Len(l) /\ t.list[i] = l[i - 1]
          BY <3>2, <1>13
        <4> QED
          BY <4>1, <1>11, <1>12
      <3> QED
        BY <3>1, <3>2
    <2>2. ASSUME NEW x \in Up, IsOpen(t.up, x) PROVE \E i \in 1 .. Len(t.list) : t.list[i] = x
      <3>1. CASE x = u
        <4>1. 1 \in 1 .. Len(t.list)
          BY <1>12, <1>13
        <4> QED
          BY <4>1, <3>1, <1>13
      <3>2. CASE x # u
        <4>1. PICK i \in 1 .. Len(l) : l[i] = x
          BY <2>2, <3>2, <1>11 DEF Ready, Listed
        <4> QED
          BY <4>1, <1>13
      <3> QED
        BY <3>1, <3>2
    <2>3. ASSUME NEW i \in 1 .. Len(t.list), NEW j \in 1 .. Len(t.list), t.list[i] = t.list[j]
          PROVE  i = j
      <3>1. CASE i = 1 \/ j = 1
        <4>0. ASSUME NEW k \in 1 .. Len(t.list), k # 1 PROVE t.list[k] # u
          <5>1. k - 1 \in 1 .. Len(l) /\ t.list[k] = l[k - 1]
            BY <4>0, <1>13
          <5> QED
            BY <5>1, <1>12
        <4>1. i = 1 /\ j = 1
          BY <2>3, <3>1, <4>0, <1>13
        <4> QED
          BY <4>1
      <3>2. CASE i # 1 /\ j # 1
        <4>1. /\ i - 1 \in 1 .. Len(l) /\ t.list[i] = l[i - 1]
              /\ j - 1 \in 1 .. Len(l) /\ t.list[j] = l[j - 1]
          BY <3>2, <1>13
        <4>2. i - 1 = j - 1
          BY <4>1, <2>3 DEF Ready, Listed
        <4> QED
          BY <4>2
      <3> QED
        BY <3>1, <3>2
    <2> QED
      BY <2>1, <2>2, <2>3, <1>13 DEF Listed
  <1>15. Placed(t.up, stack)
    BY <1>3, <1>10, <1>11 DEF Ready, Placed
  <1>16. t.made \in Seq(Up)
    BY <1>1 DEF Ready
  <1>17. Ready(t)
    BY <1>1, <1>9, <1>14, <1>15, <1>16 DEF Ready, Upvals
  <1>18. ASSUME Descending(s.up, l), \A i \in 1 .. Len(l) : Pos(s.up, stack, l[i]) <= d.idx
         PROVE  Descending(t.up, t.list)
    <2>1. ASSUME NEW i \in 1 .. Len(l)
          PROVE  /\ l[i] \in Up /\ t.up[l[i]] = s.up[l[i]]
                 /\ s.up[l[i]].value.addr \in Nat /\ Pos(s.up, stack, l[i]) \in Nat
                 /\ s.up[l[i]].value.addr = stack + Pos(s.up, stack, l[i])
      <3>1. l[i] \in Up /\ l[i] # u /\ IsOpen(s.up, l[i]) /\ s.up[l[i]] # NONE
        BY <1>12 DEF IsOpen
      <3> QED
        BY <3>1, <1>9, ReadyUpval
    <2>2. ASSUME NEW i \in 1 .. Len(l) PROVE s.up[l[i]].value.addr < stack + d.idx
      <3>1. 1 \in 1 .. Len(l)
        BY <1>12
      <3>2. Pos(s.up, stack, l[1]) # d.idx
        BY <1>12 DEF Makes
      <3>3. Pos(s.up, stack, l[1]) < d.idx /\ s.up[l[1]].value.addr < stack + d.idx
        BY <3>1, <3>2, <2>1, <1>3, <1>4, <1>18
      <3>4. CASE i = 1
        BY <3>3, <3>4
      <3>5. CASE i # 1
        <4>1. s.up[l[i]].value.addr < s.up[l[1]].value.addr
          BY <3>1, <3>5, <1>18 DEF Descending
        <4> QED
          BY <4>1, <3>1, <3>3, <2>1, <1>3, <1>4
      <3> QED
        BY <3>4, <3>5
    <2>3. ASSUME NEW i \in 1 .. Len(t.list), NEW j \in 1 .. Len(t.list), i < j
          PROVE  t.up[t.list[j]].value.addr < t.up[t.list[i]].value.addr
      <3>1. j - 1 \in 1 .. Len(l) /\ t.list[j] = l[j - 1]
        BY <2>3, <1>13
      <3>2. CASE i = 1
        <4>1. t.up[t.list[i]].value.addr = stack + d.idx
          BY <3>2, <1>5, <1>6, <1>9, <1>13
        <4> QED
          BY <4>1, <3>1, <2>1, <2>2
      <3>3. CASE i # 1
        <4>1. i - 1 \in 1 .. Len(l) /\ t.list[i] = l[i - 1] /\ i - 1 < j - 1
          BY <3>3, <2>3, <1>13
        <4>2. s.up[l[j - 1]].value.addr < s.up[l[i - 1]].value.addr
          BY <4>1, <3>1, <1>18 DEF Descending
        <4> QED
          BY <4>1, <4>2, <3>1, <2>1
      <3> QED
        BY <3>2, <3>3
    <2> QED
      BY <2>3 DEF Descending
  <1> QED
    BY <1>1, <1>2, <1>6, <1>7, <1>9, <1>10, <1>17, <1>18 DEF Grows, Count

\* Whoever holds an upvalue, it is there.
LEMMA HeldThere ==
    ASSUME Sound, Accounted, NEW c \in Clo, closure[c] # NONE, NEW i \in 1 .. Len(closure[c].upvals)
    PROVE  /\ closure[c].upvals[i] \in Up /\ upval[closure[c].upvals[i]] # NONE
           /\ <<c, i>> \in Held(closure, closure[c].upvals[i])
  <1>1. ClosureIs(closure, c)
    BY ClosureHas DEF Sound
  <1>2. i \in 1 .. MaxUpvals /\ i \in DOMAIN closure[c].upvals
    BY <1>1, ClosuresAssumption DEF ClosureIs
  <1>3. <<c, i>> \in Held(closure, closure[c].upvals[i])
    BY <1>2 DEF Held
  <1>4. closure[c].upvals[i] \in Up
    BY <1>1 DEF ClosureIs
  <1> QED
    BY <1>3, <1>4 DEF Accounted, Counted

Times(made, u) == {j \in DOMAIN made : made[j] = u}
Unused(s) == {u \in Up : s.up[u] = NONE}

\* What the steps have done after k of n descriptors.
FoldInv(s, descs, n, k) ==
    /\ Ready(s) /\ Len(s.made) = k
    /\ \A u \in Up : upval[u] # NONE => s.up[u] # NONE /\ s.up[u].value = upval[u].value
    /\ \A j \in 1 .. k :
         /\ s.up[s.made[j]] # NONE
         /\ descs[j].instack => IsOpen(s.up, s.made[j]) /\ Pos(s.up, stack, s.made[j]) = descs[j].idx
         /\ ~descs[j].instack => s.made[j] = closure[Frame.func].upvals[descs[j].idx]
    /\ \A u \in Up : upval[u] = NONE /\ s.up[u] # NONE =>
         \E j \in 1 .. k : descs[j].instack /\ s.made[j] = u
    /\ \A u \in Up : s.up[u] # NONE =>
         s.up[u].refcnt = (IF upval[u] = NONE THEN 0 ELSE upval[u].refcnt) + Cardinality(Times(s.made, u))
    /\ Cardinality(Unused(s)) >= n - k
    /\ program.ordered /\ Descending(upval, upvalist) => Descending(s.up, s.list)

LEMMA TimesAppend ==
    ASSUME NEW made \in Seq(Up), NEW u \in Up, NEW x
    PROVE  /\ IsFiniteSet(Times(made, x)) /\ Cardinality(Times(made, x)) \in Nat
           /\ Cardinality(Times(made, x)) = 0 <=> Times(made, x) = {}
           /\ Cardinality(Times(Append(made, u), x)) =
                Cardinality(Times(made, x)) + (IF x = u THEN 1 ELSE 0)
  <1> DEFINE m == Len(made)
             A == Times(made, x)
             t == Append(made, u)
  <1>1. m \in Nat /\ DOMAIN made = 1 .. m
    OBVIOUS
  <1>2. IsFiniteSet(1 .. m)
    <2>1. 1 \in Int /\ m \in Int
      BY <1>1
    <2> QED
      BY <2>1, FS_Interval
  <1>3. A \subseteq 1 .. m
    BY <1>1 DEF Times
  <1>4. IsFiniteSet(A) /\ Cardinality(A) \in Nat /\ (Cardinality(A) = 0 <=> A = {})
    BY <1>2, <1>3, FS_Subset, FS_CardinalityType, FS_EmptySet
  <1>5. /\ t \in Seq(Up) /\ DOMAIN t = 1 .. m + 1 /\ t[m + 1] = u
        /\ \A j \in 1 .. m : t[j] = made[j]
    OBVIOUS
  <1>6. m + 1 \notin A
    BY <1>1, <1>3
  <1>7. IF x = u THEN Times(t, x) = A \cup {m + 1} ELSE Times(t, x) = A
    <2>1. \A j \in 1 .. m + 1 : j = m + 1 \/ j \in 1 .. m
      BY <1>1
    <2>2. \A j \in 1 .. m : j \in 1 .. m + 1
      BY <1>1
    <2>3. m + 1 \in 1 .. m + 1
      BY <1>1
    <2>4. ASSUME NEW j \in 1 .. m PROVE j \in Times(t, x) <=> j \in A
      BY <2>2, <1>1, <1>5 DEF Times
    <2>5. m + 1 \in Times(t, x) <=> x = u
      BY <2>3, <1>5 DEF Times
    <2>6. Times(t, x) \subseteq 1 .. m + 1
      BY <1>5 DEF Times
    <2> HIDE DEF t, A, m
    <2>7. A \subseteq Times(t, x)
      BY <2>4, <1>3
    <2>8. Times(t, x) \subseteq A \cup {m + 1}
      BY <2>1, <2>4, <2>6
    <2>9. CASE x = u
      <3>1. Times(t, x) = A \cup {m + 1}
        BY <2>5, <2>7, <2>8, <2>9
      <3> QED
        BY <3>1, <2>9
    <2>10. CASE x # u
      <3>1. Times(t, x) = A
        BY <2>5, <2>7, <2>8, <2>10
      <3> QED
        BY <3>1, <2>10
    <2> QED
      BY <2>9, <2>10
  <1>8. Cardinality(A \cup {m + 1}) = Cardinality(A) + 1
    <2> HIDE DEF A, m
    <2> QED
      BY <1>4, <1>6, FS_AddElement
  <1> HIDE DEF A, t, m
  <1>9. Cardinality(Times(t, x)) = Cardinality(A) + (IF x = u THEN 1 ELSE 0)
    <2>1. CASE x = u
      BY <2>1, <1>7, <1>8
    <2>2. CASE x # u
      BY <2>2, <1>4, <1>7
    <2> QED
      BY <2>1, <2>2
  <1> QED
    BY <1>4, <1>9 DEF A, t

LEMMA FoldBegins ==
    ASSUME Sound, Accounted, NEW descs, NEW n \in Nat,
           Cardinality({u \in Up : upval[u] = NONE}) >= n
    PROVE  FoldInv(Before, descs, n, 0)
  <1>1. Before.made = <<>> /\ Before.up = upval /\ Before.list = upvalist
    BY DEF Before
  <1>2. Ready(Before)
    <2>1. Before = [made |-> Before.made, up |-> Before.up, list |-> Before.list]
      BY DEF Before
    <2>2. Before.made \in Seq(Up)
      BY <1>1
    <2> QED
      BY <2>1, <2>2, <1>1 DEF Ready, Accounted
  <1>3. ASSUME NEW u \in Up, upval[u] # NONE
        PROVE  upval[u].refcnt = upval[u].refcnt + Cardinality(Times(<<>>, u))
    <2>1. Times(<<>>, u) = {}
      BY DEF Times
    <2>2. Cardinality({}) = 0
      BY FS_EmptySet
    <2>3. upval[u].refcnt \in Nat
      BY <1>3, UpvalIs DEF Accounted, Sound, Stacked
    <2>4. Cardinality(Times(<<>>, u)) = 0
      BY <2>1, <2>2
    <2> QED
      BY <2>3, <2>4
  <1>4. Unused(Before) = {u \in Up : upval[u] = NONE}
    BY <1>1 DEF Unused
  <1>5. Cardinality(Unused(Before)) >= n - 0
    BY <1>4
  <1> QED
    BY <1>1, <1>2, <1>3, <1>5 DEF FoldInv

LEMMA FoldSteps ==
    ASSUME Sound, Accounted, NEW descs, NEW n \in Nat, Captures(descs, n),
           program.ordered => GoesUp(descs),
           NEW k \in 0 .. n, k < n, NEW s, FoldInv(s, descs, n, k)
    PROVE  FoldInv(InitUpval(s, descs[k + 1]), descs, n, k + 1)
  <1> DEFINE d == descs[k + 1]
             t == InitUpval(s, d)
  <1>1. k + 1 \in 1 .. n /\ k \in Nat
    OBVIOUS
  <1>2. DescIs(d)
    BY <1>1 DEF Captures
  <1>3. Ready(s) /\ Len(s.made) = k /\ s.made \in Seq(Up)
    BY DEF FoldInv, Ready
  <1>4. ~d.instack => s.up[closure[Frame.func].upvals[d.idx]] # NONE
    <2>1. SUFFICES ASSUME ~d.instack PROVE s.up[closure[Frame.func].upvals[d.idx]] # NONE
      OBVIOUS
    <2>2. d.idx \in 1 .. Len(closure[Frame.func].upvals)
      BY <1>2, <2>1 DEF DescIs
    <2>3. Frame.func \in Clo /\ closure[Frame.func] # NONE
      BY FrameIs
    <2>4. closure[Frame.func].upvals[d.idx] \in Up /\ upval[closure[Frame.func].upvals[d.idx]] # NONE
      BY <2>2, <2>3, HeldThere
    <2> HIDE DEF d
    <2> QED
      BY <2>4 DEF FoldInv
  <1>5. \E u \in Up : s.up[u] = NONE
    <2>1. Unused(s) # {}
      <3>1. Cardinality(Unused(s)) >= n - k /\ n - k >= 1
        BY <1>1 DEF FoldInv
      <3>2. ASSUME Unused(s) = {} PROVE FALSE
        <4>1. Cardinality({}) = 0
          BY FS_EmptySet
        <4>2. Cardinality(Unused(s)) = 0
          BY <3>2, <4>1
        <4> QED
          BY <3>1, <4>2, <1>1
      <3> QED
        BY <3>2
    <2> QED
      BY <2>1 DEF Unused
  <1> HIDE DEF d
  <1>6. PICK u \in Up : Joins(s, d, u, t) \/ Makes(s, d, u, t)
    BY <1>2, <1>3, <1>4, <1>5, InitUpvalIs
  <1> HIDE DEF t
  <1>7. Grows(s, d, u, t)
    BY <1>2, <1>3, <1>6, JoinsGrows, MakesGrows
  <1>8. Ready(t) /\ t.made = Append(s.made, u)
    BY <1>7 DEF Grows
  <1>9. /\ Len(t.made) = k + 1 /\ t.made[k + 1] = u /\ \A j \in 1 .. k : t.made[j] = s.made[j]
        /\ \A j \in 1 .. k : s.made[j] \in Up
    BY <1>1, <1>3, <1>8
  <1>10. \A x \in Up : x # u => t.up[x] = s.up[x]
    BY <1>7 DEF Grows
  <1>11. t.up[u] # NONE /\ (s.up[u] # NONE => t.up[u].value = s.up[u].value)
    BY <1>7 DEF Grows
  <1>12. ASSUME NEW x \in Up, s.up[x] # NONE
         PROVE  /\ t.up[x] # NONE /\ t.up[x].value = s.up[x].value
                /\ IsOpen(t.up, x) <=> IsOpen(s.up, x)
                /\ Pos(t.up, stack, x) = Pos(s.up, stack, x)
    <2>1. t.up[x] # NONE /\ t.up[x].value = s.up[x].value
      BY <1>10, <1>11, <1>12
    <2> QED
      BY <2>1, <1>12 DEF IsOpen, Pos
  <1>13. ASSUME NEW x \in Up, upval[x] # NONE
         PROVE  t.up[x] # NONE /\ t.up[x].value = upval[x].value
    <2>1. s.up[x] # NONE /\ s.up[x].value = upval[x].value
      BY <1>13 DEF FoldInv
    <2> QED
      BY <2>1, <1>12
  <1>14. ASSUME NEW j \in 1 .. k + 1
         PROVE  /\ t.up[t.made[j]] # NONE
                /\ descs[j].instack => IsOpen(t.up, t.made[j]) /\ Pos(t.up, stack, t.made[j]) = descs[j].idx
                /\ ~descs[j].instack => t.made[j] = closure[Frame.func].upvals[descs[j].idx]
    <2>1. CASE j = k + 1
      BY <2>1, <1>7, <1>9 DEF Grows, d
    <2>2. CASE j # k + 1
      <3>1. j \in 1 .. k
        BY <2>2, <1>1
      <3>2. t.made[j] = s.made[j] /\ s.made[j] \in Up
        BY <3>1, <1>9
      <3>3. /\ s.up[s.made[j]] # NONE
            /\ descs[j].instack => IsOpen(s.up, s.made[j]) /\ Pos(s.up, stack, s.made[j]) = descs[j].idx
            /\ ~descs[j].instack => s.made[j] = closure[Frame.func].upvals[descs[j].idx]
        BY <3>1 DEF FoldInv
      <3> QED
        BY <3>2, <3>3, <1>12
    <2> QED
      BY <2>1, <2>2
  <1>15. ASSUME NEW x \in Up, upval[x] = NONE, t.up[x] # NONE
         PROVE  \E j \in 1 .. k + 1 : descs[j].instack /\ t.made[j] = x
    <2>1. CASE s.up[x] # NONE
      <3>1. PICK j \in 1 .. k : descs[j].instack /\ s.made[j] = x
        BY <2>1, <1>15 DEF FoldInv
      <3>2. j \in 1 .. k + 1 /\ t.made[j] = x
        BY <3>1, <1>1, <1>9
      <3> QED
        BY <3>1, <3>2
    <2>2. CASE s.up[x] = NONE
      <3>1. x = u
        BY <2>2, <1>10, <1>15
      <3>2. d.instack
        BY <3>1, <2>2, <1>7 DEF Grows
      <3>3. k + 1 \in 1 .. k + 1
        BY <1>1
      <3> QED
        BY <3>1, <3>2, <3>3, <1>9 DEF d
    <2> QED
      BY <2>1, <2>2
  <1>16. ASSUME NEW x \in Up, t.up[x] # NONE
         PROVE  t.up[x].refcnt = (IF upval[x] = NONE THEN 0 ELSE upval[x].refcnt) + Cardinality(Times(t.made, x))
    <2> DEFINE old == IF upval[x] = NONE THEN 0 ELSE upval[x].refcnt
               a == Cardinality(Times(s.made, x))
               b == Cardinality(Times(t.made, x))
    <2>1. a \in Nat /\ b = a + (IF x = u THEN 1 ELSE 0)
      BY <1>3, <1>8, TimesAppend
    <2>2. old \in Nat
      <3>1. upval[x] # NONE => upval[x].refcnt \in Nat
        BY UpvalIs DEF Accounted, Sound, Stacked
      <3> QED
        BY <3>1
    <2>3. s.up[x] # NONE => s.up[x].refcnt = old + a
      BY DEF FoldInv
    <2>4. s.up[x] = NONE => old = 0 /\ a = 0
      <3>1. SUFFICES ASSUME s.up[x] = NONE PROVE old = 0 /\ a = 0
        OBVIOUS
      <3>2. upval[x] = NONE
        BY <3>1 DEF FoldInv
      <3>3. \A j \in 1 .. k : s.made[j] # x
        BY <3>1 DEF FoldInv
      <3>4. DOMAIN s.made = 1 .. k
        BY <1>1, <1>3
      <3>5. Times(s.made, x) = {}
        BY <3>3, <3>4 DEF Times
      <3>6. a = 0
        BY <3>5, FS_EmptySet
      <3> QED
        BY <3>2, <3>6
    <2> HIDE DEF old, a, b
    <2>5. CASE x = u
      <3>1. t.up[u].refcnt = (IF s.up[u] = NONE THEN 0 ELSE s.up[u].refcnt) + 1
        BY <1>7 DEF Grows, Count
      <3>2. b = a + 1
        BY <2>1, <2>5
      <3>3. CASE s.up[u] = NONE
        <4>1. t.up[u].refcnt = 1 /\ old = 0 /\ a = 0
          BY <3>1, <3>3, <2>4, <2>5
        <4>2. t.up[x].refcnt = old + b
          BY <4>1, <3>2, <2>5
        <4> QED
          BY <4>2 DEF old, b
      <3>4. CASE s.up[u] # NONE
        <4>1. t.up[u].refcnt = old + a + 1
          BY <3>1, <3>4, <2>3, <2>5
        <4>2. t.up[x].refcnt = old + b
          BY <4>1, <3>2, <2>1, <2>2, <2>5
        <4> QED
          BY <4>2 DEF old, b
      <3> QED
        BY <3>3, <3>4
    <2>6. CASE x # u
      <3>1. t.up[x] = s.up[x] /\ s.up[x] # NONE
        BY <2>6, <1>10, <1>16
      <3>2. t.up[x].refcnt = old + b
        BY <3>1, <2>1, <2>3, <2>6
      <3> QED
        BY <3>2 DEF old, b
    <2> QED
      BY <2>5, <2>6
  <1>17. Cardinality(Unused(t)) >= n - (k + 1)
    <2>1. Unused(t) = Unused(s) \ {u}
      BY <1>10, <1>11 DEF Unused
    <2>2. IsFiniteSet(Unused(s))
      BY ClosuresAssumption, FS_Subset DEF Unused
    <2>3. Cardinality(Unused(s)) \in Nat
      BY <2>2, FS_CardinalityType
    <2>4. Cardinality(Unused(s) \ {u}) = IF u \in Unused(s) THEN Cardinality(Unused(s)) - 1 ELSE Cardinality(Unused(s))
      BY <2>2, FS_RemoveElement
    <2>5. Cardinality(Unused(s)) >= n - k
      BY DEF FoldInv
    <2> QED
      BY <2>1, <2>3, <2>4, <2>5, <1>1
  <1>18. ASSUME program.ordered, Descending(upval, upvalist)
         PROVE  Descending(t.up, t.list)
    <2>1. Descending(s.up, s.list)
      BY <1>18 DEF FoldInv
    <2>2. ASSUME d.instack, NEW i \in 1 .. Len(s.list)
          PROVE  Pos(s.up, stack, s.list[i]) <= d.idx
      <3> DEFINE x == s.list[i]
      <3>1. x \in Up /\ IsOpen(s.up, x) /\ s.up[x] # NONE
        BY <1>3 DEF Ready, Listed, IsOpen
      <3>2. d.idx \in Nat /\ stack \in Nat
        BY <2>2, <1>2, PositionIs, ClosuresAssumption DEF DescIs, Sound, Stacked
      <3>3. k + 1 \in DOMAIN descs
        BY <1>1 DEF Captures
      <3>4. /\ \A y \in Range(upvalist) : upval[y].value.addr <= stack + d.idx
            /\ \A j \in 1 .. k + 1 - 1 : descs[j].instack => descs[j].idx < d.idx
        BY <1>18, <2>2, <3>3 DEF GoesUp, d
      <3> HIDE DEF x
      <3>5. CASE upval[x] # NONE
        <4>1. s.up[x].value = upval[x].value
          BY <3>1, <3>5 DEF FoldInv
        <4>2. IsOpen(upval, x) /\ Pos(s.up, stack, x) = Pos(upval, stack, x)
          BY <3>1, <3>5, <4>1 DEF IsOpen, Pos
        <4>3. PICK m \in 1 .. Len(upvalist) : upvalist[m] = x
          BY <3>1, <4>2 DEF Accounted, Listed
        <4>4. x \in Range(upvalist)
          <5>1. DOMAIN upvalist = 1 .. Len(upvalist)
            BY DEF Accounted, Listed
          <5> QED
            BY <5>1, <4>3 DEF Range
        <4>5. upval[x].value.addr <= stack + d.idx
          BY <4>4, <3>4
        <4>6. upval[x].value.addr = stack + Pos(upval, stack, x) /\ Pos(upval, stack, x) \in Nat
          BY <3>1, <3>5, <4>2, UpvalIs, PositionIs DEF Accounted, Sound, Stacked
        <4> QED
          BY <4>2, <4>5, <4>6, <3>2 DEF x
      <3>6. CASE upval[x] = NONE
        <4>1. PICK j \in 1 .. k : descs[j].instack /\ s.made[j] = x
          BY <3>1, <3>6 DEF FoldInv
        <4>2. Pos(s.up, stack, x) = descs[j].idx
          BY <4>1 DEF FoldInv
        <4>3. j \in 1 .. k + 1 - 1 /\ descs[j].idx < d.idx
          BY <4>1, <3>4, <1>1
        <4>4. DescIs(descs[j])
          BY <1>1 DEF Captures
        <4>5. descs[j].idx \in Nat
          BY <4>1, <4>4, PositionIs DEF DescIs
        <4> QED
          BY <4>2, <4>3, <4>5, <3>2 DEF x
      <3> QED
        BY <3>5, <3>6
    <2> QED
      BY <2>1, <2>2, <1>7 DEF Grows
  <1> QED
    BY <1>8, <1>9, <1>13, <1>14, <1>15, <1>16, <1>17, <1>18 DEF FoldInv, t, d

----------------------------------------------------------------------------
(* Blocks and frames. *)

\* A sequence with an element for each number up to n.
LEMMA Tabled ==
    ASSUME NEW S, NEW n \in Nat, NEW f, f = [i \in 1 .. n |-> f[i]], \A i \in 1 .. n : f[i] \in S
    PROVE  f \in Seq(S) /\ Len(f) = n /\ DOMAIN f = 1 .. n
  <1>1. f \in [1 .. n -> S]
    BY Zenon
  <1> QED
    BY <1>1

\* The blocks bs are as many as the first k of old, of the same kind and place.
Like(bs, old, k) ==
    /\ Bodied(bs) /\ Len(bs) = k
    /\ \A i \in 1 .. k : bs[i].start = old[i].start /\ bs[i].kind = old[i].kind

LEMMA LikeBodied ==
    ASSUME NEW old, Bodied(old), NEW k \in 1 .. Len(old), NEW bs, bs = [i \in 1 .. k |-> bs[i]],
           \A i \in 1 .. k : bs[i] \in BlockType /\ bs[i].start = old[i].start /\ bs[i].kind = old[i].kind
    PROVE  Like(bs, old, k)
  <1>1. k \in Nat /\ k >= 1 /\ 1 \in 1 .. k
    BY DEF Bodied
  <1>2. bs \in Seq(BlockType) /\ Len(bs) = k
    BY <1>1, Tabled
  <1> QED
    BY <1>1, <1>2 DEF Like, Bodied

LEMMA PartLike ==
    ASSUME NEW old, Bodied(old), NEW k \in 1 .. Len(old)
    PROVE  /\ Like(SubSeq(old, 1, k), old, k)
           /\ \A i \in 1 .. k : SubSeq(old, 1, k)[i] = old[i]
  <1> DEFINE bs == SubSeq(old, 1, k)
  <1>1. old \in Seq(BlockType) /\ Len(old) \in Nat /\ k \in Nat /\ k >= 1
    BY DEF Bodied
  <1>2. \A i \in 1 .. k : bs[i] = old[i] /\ old[i] \in BlockType
    BY <1>1
  <1>3. bs = [i \in 1 .. k |-> bs[i]]
    BY <1>1
  <1> HIDE DEF bs
  <1>4. Like(bs, old, k)
    BY <1>2, <1>3, LikeBodied
  <1> QED
    BY <1>2, <1>4 DEF bs

LEMMA PassedLike ==
    ASSUME NEW old, Bodied(old)
    PROVE  Like(Passed(old), old, Len(old))
  <1> DEFINE bs == Passed(old)
             k == Len(old)
  <1>1. old \in Seq(BlockType) /\ k \in Nat /\ k >= 1 /\ DOMAIN old = 1 .. k
    BY DEF Bodied
  <1>2. bs = [i \in 1 .. k |-> bs[i]]
    BY <1>1 DEF Passed
  <1>3. ASSUME NEW i \in 1 .. k
        PROVE  bs[i] \in BlockType /\ bs[i].start = old[i].start /\ bs[i].kind = old[i].kind
    <2>1. old[i] \in BlockType
      BY <1>1
    <2>2. bs[i] = [old[i] EXCEPT !.hasupval = old[i].hasupval \/ old[i].later, !.later = FALSE]
      BY <1>1 DEF Passed
    <2> HIDE DEF bs
    <2>3. (old[i].hasupval \/ old[i].later) \in BOOLEAN
      OBVIOUS
    <2> DEFINE h == old[i].hasupval \/ old[i].later
    <2> HIDE DEF h
    <2>4. h \in BOOLEAN
      BY <2>3 DEF h
    <2>5. bs[i] = [old[i] EXCEPT !.hasupval = h, !.later = FALSE]
      BY <2>2 DEF h
    <2> QED
      BY <2>1, <2>4, <2>5 DEF BlockType
  <1>4. k \in 1 .. Len(old)
    BY <1>1
  <1> HIDE DEF bs
  <1>5. Like(bs, old, k)
    <2> HIDE DEF k
    <2> QED
      BY <1>2, <1>3, <1>4, LikeBodied DEF k
  <1> QED
    BY <1>5 DEF bs

\* Without "rewind" nothing changes for the head of a loop.
LEMMA RewoundLike ==
    ASSUME Sound, NEW k \in 1 .. Len(Blocks), NEW bs \in Rewound(k)
    PROVE  /\ Like(bs, Blocks, k)
           /\ Plain => \A i \in 1 .. k : bs[i] = Blocks[i]
  <1>1. Bodied(Blocks) /\ Len(Blocks) \in Nat /\ \A i \in 1 .. Len(Blocks) : Blocks[i] \in BlockType
    BY FrameIs
  <1>2. PICK ahead \in SUBSET {i \in 1 .. k : Blocks[i].hasupval} :
          /\ ahead = {} \/ "rewind" \in program.uses
          /\ bs = [i \in 1 .. k |->
               IF i \in ahead THEN [Blocks[i] EXCEPT !.hasupval = FALSE, !.later = TRUE] ELSE Blocks[i]]
    BY DEF Rewound
  <1>3. bs = [i \in 1 .. k |-> bs[i]]
    BY <1>2
  <1>4. ASSUME NEW i \in 1 .. k
        PROVE  bs[i] \in BlockType /\ bs[i].start = Blocks[i].start /\ bs[i].kind = Blocks[i].kind
    <2>1. Blocks[i] \in BlockType
      BY <1>1
    <2>2. CASE i \in ahead
      <3>1. bs[i] = [Blocks[i] EXCEPT !.hasupval = FALSE, !.later = TRUE]
        BY <1>2, <2>2
      <3> QED
        BY <2>1, <3>1 DEF BlockType
    <2>3. CASE i \notin ahead
      BY <1>2, <2>1, <2>3
    <2> QED
      BY <2>2, <2>3
  <1>5. Like(bs, Blocks, k)
    BY <1>1, <1>3, <1>4, LikeBodied
  <1>6. ASSUME Plain PROVE \A i \in 1 .. k : bs[i] = Blocks[i]
    <2>1. ahead = {}
      BY <1>2, <1>6 DEF Plain
    <2> QED
      BY <1>2, <2>1
  <1> QED
    BY <1>5, <1>6

\* The running function has other blocks.
Resumes(new, bs) ==
    /\ Framed(new) /\ Len(new) = Len(frames) /\ DOMAIN new = DOMAIN frames
    /\ \A n \in 1 .. Len(frames) : new[n].func = frames[n].func
    /\ new[Len(frames)].blocks = bs
    /\ \A n \in 1 .. Len(frames) : n # Len(frames) => new[n] = frames[n]

LEMMA WithBlocksIs ==
    ASSUME Sound, NEW bs, Bodied(bs)
    PROVE  Resumes(WithBlocks(bs), bs)
  <1> DEFINE N == Len(frames)
             new == WithBlocks(bs)
             f == [Frame EXCEPT !.blocks = bs]
  <1>1. N \in Nat /\ N >= 1 /\ Frame = frames[N] /\ Frame \in FrameType
    BY FrameIs
  <1>2. frames \in Seq(FrameType) /\ DOMAIN frames = 1 .. N /\ N \in 1 .. N
    BY <1>1 DEF Sound, Framed
  <1>3. f \in FrameType /\ f.func = Frame.func /\ f.blocks = bs
    BY <1>1 DEF FrameType, Bodied
  <1>4. new = [frames EXCEPT ![N] = f]
    BY <1>1 DEF WithBlocks
  <1> HIDE DEF f, new
  <1>5. new \in Seq(FrameType) /\ Len(new) = N /\ DOMAIN new = 1 .. N
    BY <1>2, <1>3, <1>4
  <1>6. new[N] = f /\ \A n \in 1 .. N : n # N => new[n] = frames[n]
    BY <1>2, <1>4
  <1>7. Framed(new)
    <2>1. ASSUME NEW n \in 1 .. N PROVE Bodied(new[n].blocks)
      <3>1. CASE n = N
        BY <3>1, <1>3, <1>6
      <3>2. CASE n # N
        BY <3>2, <1>6 DEF Sound, Framed
      <3> QED
        BY <3>1, <3>2
    <2> QED
      BY <2>1, <1>1, <1>5 DEF Framed
  <1>8. \A n \in 1 .. N : new[n].func = frames[n].func
    BY <1>1, <1>3, <1>6
  <1> QED
    BY <1>2, <1>3, <1>5, <1>6, <1>7, <1>8 DEF Resumes, new

LEMMA ResumesRuns ==
    ASSUME Sound, NEW new, NEW bs, Resumes(new, bs)
    PROVE  Framed(new) /\ Running(new, closure)
  BY DEF Sound, Resumes, Running

----------------------------------------------------------------------------
(* A closure is made. *)

\* The new closure has an upvalue for each descriptor.
Made(c, descs, n, s) ==
    /\ Captures(descs, n) /\ FoldInv(s, descs, n, n)
    /\ closure[c] = NONE /\ upval' = s.up /\ upvalist' = s.list
    /\ Closures(closure') /\ closure'[c] # NONE
    /\ closure'[c].upvals = s.made /\ Len(closure'[c].upvals) = n
    /\ \A x \in Clo : x # c => closure'[x] = closure[x]
    /\ [closure' EXCEPT ![c] = NONE] = closure
    /\ \A j \in 1 .. n : closure'[c].vars[j] = Captured(descs[j])

LEMMA CapturedIs ==
    ASSUME Sound, NEW d, DescIs(d)
    PROVE  Captured(d) \in Var
  <1>1. CASE d.instack
    <2>1. Captured(d) = slot[d.idx] /\ d.idx \in Position /\ slot[d.idx] # NONE
      BY <1>1 DEF Captured, DescIs
    <2> QED
      BY <2>1 DEF Sound, Stacked
  <1>2. CASE ~d.instack
    <2>1. Captured(d) = closure[Frame.func].vars[d.idx] /\ d.idx \in 1 .. Len(closure[Frame.func].upvals)
      BY <1>2 DEF Captured, DescIs
    <2>2. ClosureIs(closure, Frame.func)
      BY FrameIs, ClosureHas DEF Sound
    <2> QED
      BY <2>1, <2>2 DEF ClosureIs
  <1>3. d.instack \in BOOLEAN
    BY DEF DescIs
  <1> QED
    BY <1>1, <1>2, <1>3

LEMMA FoldEnds ==
    ASSUME Sound, Accounted, NEW c \in Clo, NEW descs, Capture(c, descs),
           NEW n \in Nat, Captures(descs, n)
    PROVE  FoldInv(FoldLeft(InitUpval, [made |-> <<>>, up |-> upval, list |-> upvalist], descs), descs, n, n)
  <1>1. DOMAIN descs = 1 .. n /\ Len(descs) = n
    BY DEF Captures
  <1>2. PICK f : Goes(f, descs, n) /\
          FoldLeft(InitUpval, [made |-> <<>>, up |-> upval, list |-> upvalist], descs) = f[n]
    BY <1>1, CaptureGoes
  <1>3. Cardinality({u \in Up : upval[u] = NONE}) >= n /\ (program.ordered => GoesUp(descs))
    BY <1>1 DEF Capture
  <1> DEFINE P == {k \in 0 .. n : FoldInv(f[k], descs, n, k)}
  <1>4. 0 \in P
    <2>1. FoldInv(Before, descs, n, 0)
      BY <1>3, FoldBegins
    <2> QED
      BY <2>1, <1>2 DEF Goes
  <1>5. ASSUME NEW k \in 0 .. n, k < n, k \in P PROVE k + 1 \in P
    <2>1. FoldInv(InitUpval(f[k], descs[k + 1]), descs, n, k + 1)
      BY <1>3, <1>5, FoldSteps
    <2>2. k + 1 \in 1 .. n /\ k + 1 - 1 = k
      BY <1>5
    <2>3. f[k + 1] = InitUpval(f[k], descs[k + 1])
      BY <1>2, <2>2 DEF Goes
    <2> QED
      BY <2>1, <2>2, <2>3
  <1> HIDE DEF P
  <1>6. n \in P
    <2>1. 0 .. n \subseteq P
      BY <1>4, <1>5, UpTo
    <2> QED
      BY <2>1
  <1> QED
    BY <1>2, <1>6 DEF P

LEMMA CaptureIs ==
    ASSUME Sound, Accounted, NEW c \in Clo, NEW descs \in Descs, Capture(c, descs)
    PROVE  \E n \in Nat : \E s : Made(c, descs, n, s)
  <1>1. PICK n \in Nat : Captures(descs, n)
    BY DescsAre
  <1> DEFINE s == FoldLeft(InitUpval, [made |-> <<>>, up |-> upval, list |-> upvalist], descs)
             vs == [i \in DOMAIN descs |-> Captured(descs[i])]
             r == [upvals |-> s.made, vars |-> vs]
  <1>2. FoldInv(s, descs, n, n)
    <2> HIDE DEF s
    <2> QED
      BY <1>1, FoldEnds DEF s
  <1>3. closure[c] = NONE /\ closure' = [closure EXCEPT ![c] = r] /\ upval' = s.up /\ upvalist' = s.list
    BY DEF Capture
  <1> HIDE DEF s
  <1>4. s.made \in Seq(Up) /\ Len(s.made) = n
    BY <1>2 DEF FoldInv, Ready
  <1>5. DOMAIN descs = 1 .. n /\ \A i \in 1 .. n : DescIs(descs[i])
    BY <1>1 DEF Captures
  <1>6. vs = [i \in 1 .. n |-> vs[i]] /\ \A i \in 1 .. n : vs[i] = Captured(descs[i]) /\ vs[i] \in Var
    BY <1>5, CapturedIs
  <1> HIDE DEF vs
  <1>7. vs \in Seq(Var) /\ Len(vs) = n
    BY <1>6, Tabled
  <1>8. r \in ClosureType /\ r.upvals = s.made /\ r.vars = vs
    BY <1>4, <1>7 DEF ClosureType
  <1>9. r # NONE
    BY <1>8, ClosuresAssumption DEF ClosureType
  <1> HIDE DEF r
  <1>10. closure \in [Clo -> ClosureType \cup {NONE}]
    BY DEF Sound, Closures
  <1>11. closure'[c] = r /\ \A x \in Clo : x # c => closure'[x] = closure[x]
    BY <1>3, <1>10
  <1>12. closure' \in [Clo -> ClosureType \cup {NONE}]
    BY <1>3, <1>8, <1>10
  <1>13. n <= MaxUpvals
    BY <1>1 DEF Captures
  <1>14. ASSUME NEW x \in Clo, closure'[x] # NONE
         PROVE  Len(closure'[x].upvals) = Len(closure'[x].vars) /\ Len(closure'[x].upvals) <= MaxUpvals
    <2>1. CASE x = c
      BY <2>1, <1>4, <1>7, <1>8, <1>11, <1>13
    <2>2. CASE x # c
      BY <2>2, <1>11, <1>14 DEF Sound, Closures
    <2> QED
      BY <2>1, <2>2
  <1>15. Closures(closure')
    BY <1>12, <1>14 DEF Closures
  <1>16. [closure' EXCEPT ![c] = NONE] = closure
    <2>1. \A x \in Clo : [closure' EXCEPT ![c] = NONE][x] = closure[x]
      BY <1>3, <1>11, <1>12
    <2> QED
      BY <2>1, <1>10, <1>12
  <1>17. Made(c, descs, n, s)
    BY <1>1, <1>2, <1>3, <1>4, <1>6, <1>8, <1>9, <1>11, <1>15, <1>16 DEF Made
  <1> QED
    BY <1>17

LEMMA CaptureAccounts ==
    ASSUME Sound, Accounted, NEW c \in Clo, NEW descs, NEW n \in Nat, NEW s, Made(c, descs, n, s),
           stack' = stack
    PROVE  Accounted'
  <1>1. FoldInv(s, descs, n, n) /\ upval' = s.up /\ upvalist' = s.list
    BY DEF Made
  <1>2. Upvals(upval') /\ Listed(upval', upvalist') /\ Placed(upval', stack')
    BY <1>1 DEF FoldInv, Ready
  <1>3. ASSUME NEW u \in Up
        PROVE  /\ upval'[u] = NONE => Held(closure', u) = {}
               /\ upval'[u] # NONE => /\ upval'[u].refcnt = Cardinality(Held(closure', u))
                                      /\ upval'[u].refcnt = 0 => Open(upval'[u].value)
    <2> DEFINE a == Cardinality(Held(closure, u))
               b == Cardinality(Held(closure', u))
               k == Cardinality(Times(s.made, u))
    <2>1. k \in Nat /\ (k = 0 <=> Times(s.made, u) = {})
      <3>1. s.made \in Seq(Up)
        BY <1>1 DEF FoldInv, Ready
      <3> QED
        BY <3>1, TimesAppend
    <2>2. b = a + k
      <3>1. HeldBy(closure', c, u) = Times(s.made, u)
        BY DEF Made, HeldBy, Times
      <3>2. Closures(closure') /\ closure'[c] # NONE /\ [closure' EXCEPT ![c] = NONE] = closure
        BY DEF Made
      <3>3. Cardinality(Held(closure', u)) =
              Cardinality(Held([closure' EXCEPT ![c] = NONE], u)) + Cardinality(HeldBy(closure', c, u))
        BY <3>2, HeldSplit
      <3> QED
        BY <3>1, <3>2, <3>3
    <2>3. a \in Nat /\ b \in Nat /\ (a = 0 <=> Held(closure, u) = {}) /\ (b = 0 <=> Held(closure', u) = {})
      BY HeldFinite
    <2>4. /\ upval[u] = NONE => a = 0
          /\ upval[u] # NONE => upval[u].refcnt = a /\ (upval[u].refcnt = 0 => Open(upval[u].value))
      BY <2>3 DEF Accounted, Counted
    <2>5. upval'[u] = NONE => upval[u] = NONE /\ k = 0
      <3>1. SUFFICES ASSUME upval'[u] = NONE PROVE upval[u] = NONE /\ k = 0
        OBVIOUS
      <3>2. upval[u] = NONE
        BY <3>1, <1>1 DEF FoldInv
      <3>3. \A j \in 1 .. n : s.made[j] # u
        BY <3>1, <1>1 DEF FoldInv
      <3>4. DOMAIN s.made = 1 .. n
        BY <1>1 DEF FoldInv, Ready
      <3>5. Times(s.made, u) = {}
        BY <3>3, <3>4 DEF Times
      <3> QED
        BY <3>2, <3>5, <2>1
    <2>6. upval'[u] # NONE =>
            upval'[u].refcnt = (IF upval[u] = NONE THEN 0 ELSE upval[u].refcnt) + k
      BY <1>1 DEF FoldInv
    <2>7. upval[u] # NONE => upval'[u].value = upval[u].value
      BY <1>1 DEF FoldInv
    <2>8. upval'[u] # NONE /\ upval[u] = NONE => k # 0
      <3>1. SUFFICES ASSUME upval'[u] # NONE, upval[u] = NONE PROVE k # 0
        OBVIOUS
      <3>2. PICK j \in 1 .. n : s.made[j] = u
        BY <3>1, <1>1 DEF FoldInv
      <3>3. DOMAIN s.made = 1 .. n
        BY <1>1 DEF FoldInv, Ready
      <3>4. j \in Times(s.made, u)
        BY <3>2, <3>3 DEF Times
      <3> QED
        BY <3>4, <2>1
    <2> HIDE DEF a, b, k
    <2>9. upval'[u] = NONE => Held(closure', u) = {}
      BY <2>2, <2>3, <2>4, <2>5
    <2>10. ASSUME upval'[u] # NONE PROVE upval'[u].refcnt = b
      <3>1. CASE upval[u] = NONE
        BY <3>1, <2>1, <2>2, <2>3, <2>4, <2>6, <2>10
      <3>2. CASE upval[u] # NONE
        BY <3>2, <2>1, <2>2, <2>3, <2>4, <2>6, <2>10
      <3> QED
        BY <3>1, <3>2
    <2>11. ASSUME upval'[u] # NONE, upval'[u].refcnt = 0 PROVE Open(upval'[u].value)
      <3>1. b = 0 /\ a = 0 /\ k = 0
        BY <2>1, <2>2, <2>3, <2>10, <2>11
      <3>2. upval[u] # NONE
        BY <3>1, <2>8, <2>11
      <3> QED
        BY <3>1, <3>2, <2>4, <2>7
    <2> QED
      BY <2>9, <2>10, <2>11 DEF b
  <1>4. Counted(upval', closure')
    BY <1>3 DEF Counted
  <1> QED
    BY <1>2, <1>4 DEF Accounted

----------------------------------------------------------------------------
(* The stack, the functions and the closures stay in order. *)

LEMMA ClearedStacked ==
    ASSUME Sound, NEW from \in 0 .. StackSize
    PROVE  Stacked(stack, Cleared(from))
  <1>1. from \in Nat /\ StackSize \in Nat
    BY ClosuresAssumption
  <1>2. PICK t \in 0 .. StackSize : Filled(slot, t)
    BY DEF Sound, Stacked
  <1>3. Filled(Cleared(from), Lower(t, from))
    BY <1>1, <1>2, ClearedFilled
  <1>4. Lower(t, from) \in 0 .. StackSize
    BY DEF Lower
  <1>5. Cleared(from) \in [Position -> Var \cup {NONE}]
    BY DEF Cleared, Sound, Stacked
  <1> QED
    BY <1>3, <1>4, <1>5 DEF Sound, Stacked

\* The innermost block, and its beginning.
LEMMA LastIs ==
    ASSUME Sound
    PROVE  /\ Last(Blocks) = Blocks[Len(Blocks)] /\ Len(Blocks) \in 1 .. Len(Blocks)
           /\ Last(Blocks).start \in 0 .. StackSize /\ Last(Blocks) \in BlockType
           /\ \A i \in 1 .. Len(Blocks) : Blocks[i].start \in 0 .. StackSize
           /\ DOMAIN Blocks = 1 .. Len(Blocks)
  <1>1. Bodied(Blocks) /\ Len(Blocks) \in Nat /\ \A i \in 1 .. Len(Blocks) : Blocks[i] \in BlockType
    BY FrameIs
  <1>2. Len(Blocks) \in 1 .. Len(Blocks)
    BY <1>1 DEF Bodied
  <1>3. Last(Blocks) = Blocks[Len(Blocks)]
    BY DEF Last
  <1>4. DOMAIN Blocks = 1 .. Len(Blocks)
    BY <1>1 DEF Bodied
  <1> QED
    BY <1>1, <1>2, <1>3, <1>4 DEF BlockType

LEMMA DeclareStacked ==
    ASSUME Sound, NEW v \in Var, Declare(v)
    PROVE  /\ Stacked(stack, slot') /\ slot[Top] = NONE /\ Top \in Position
           /\ slot' = [slot EXCEPT ![Top] = v] /\ Depth(slot') = Top + 1
  <1>1. Top < StackSize /\ slot' = [slot EXCEPT ![Top] = v]
    BY DEF Declare
  <1>2. Filled(slot, Top) /\ Top \in Nat /\ StackSize \in Nat
    BY TopIs, ClosuresAssumption
  <1> HIDE DEF Top
  <1>3. Top \in Position /\ ~(Top < Top)
    BY <1>1, <1>2 DEF Position
  <1>4. slot[Top] = NONE
    BY <1>2, <1>3 DEF Filled
  <1>5. v # NONE /\ slot \in [Position -> Var \cup {NONE}] /\ stack \in Addr
    BY ClosuresAssumption DEF Sound, Stacked
  <1>6. slot' \in [Position -> Var \cup {NONE}]
    BY <1>1, <1>5
  <1>7. Filled(slot', Top + 1)
    <2>1. Top + 1 \in 0 .. StackSize
      BY <1>1, <1>2
    <2>2. ASSUME NEW p \in Position PROVE slot'[p] # NONE <=> p < Top + 1
      <3>1. p \in Nat
        BY PositionIs
      <3>2. slot[p] # NONE <=> p < Top
        BY <1>2 DEF Filled
      <3>3. slot'[p] = IF p = Top THEN v ELSE slot[p]
        BY <1>1, <1>5
      <3> QED
        BY <3>1, <3>2, <3>3, <1>2, <1>5
    <2> QED
      BY <2>1, <2>2 DEF Filled
  <1>8. Stacked(stack, slot')
    <2>1. Top + 1 \in 0 .. StackSize
      BY <1>1, <1>2
    <2> QED
      BY <2>1, <1>5, <1>6, <1>7 DEF Stacked
  <1>9. Depth(slot') = Top + 1
    BY <1>7, FilledTop DEF Depth
  <1> QED
    BY <1>1, <1>3, <1>4, <1>8, <1>9

\* A new block, at the top of the stack.
LEMMA TopBlock ==
    ASSUME Sound, NEW kind \in {"func", "plain", "loop", "try"}
    PROVE  /\ Block(Top, kind) \in BlockType /\ Block(Top, kind).start = Top
           /\ ~Block(Top, kind).later /\ Block(Top, kind).kind = kind
  <1>1. Top \in 0 .. StackSize
    BY TopIs
  <1> HIDE DEF Top
  <1>2. Block(Top, kind) \in BlockType
    BY <1>1, Blocked
  <1> QED
    BY <1>2 DEF Block

LEMMA EnterResumes ==
    ASSUME Sound, NEW kind \in {"plain", "loop", "try"}, EnterBlock(kind)
    PROVE  /\ Resumes(frames', Append(Blocks, Block(Top, kind)))
           /\ Len(Append(Blocks, Block(Top, kind))) = Len(Blocks) + 1
           /\ Append(Blocks, Block(Top, kind))[Len(Blocks) + 1] = Block(Top, kind)
           /\ \A i \in 1 .. Len(Blocks) : Append(Blocks, Block(Top, kind))[i] = Blocks[i]
  <1> DEFINE b == Block(Top, kind)
             bs == Append(Blocks, b)
  <1>1. b \in BlockType
    BY TopBlock
  <1>2. Blocks \in Seq(BlockType) /\ Len(Blocks) \in Nat /\ Len(Blocks) >= 1 /\ Blocks[1].kind = "func"
    BY FrameIs DEF Bodied
  <1>3. frames' = WithBlocks(bs)
    BY DEF EnterBlock
  <1> HIDE DEF b
  <1>4. bs \in Seq(BlockType) /\ Len(bs) = Len(Blocks) + 1 /\ bs[Len(Blocks) + 1] = b
        /\ \A i \in 1 .. Len(Blocks) : bs[i] = Blocks[i]
    BY <1>1, <1>2
  <1> HIDE DEF bs
  <1>5. Bodied(bs)
    BY <1>2, <1>4 DEF Bodied
  <1>6. Resumes(frames', bs)
    BY <1>3, <1>5, WithBlocksIs
  <1> QED
    BY <1>4, <1>6 DEF bs, b

LEMMA EndResumes ==
    ASSUME Sound, EndBlock
    PROVE  /\ \E bs : Resumes(frames', bs) /\ Like(bs, Blocks, Len(Blocks) - 1)
                      /\ (Scoped /\ Plain => \A i \in 1 .. Len(Blocks) - 1 : bs[i] = Blocks[i])
           /\ Len(Blocks) - 1 \in 1 .. Len(Blocks)
  <1> DEFINE k == Len(Blocks) - 1
             bs == Left(Last(Blocks), Front(Blocks))
  <1>1. Bodied(Blocks) /\ Len(Blocks) \in Nat /\ k \in 1 .. Len(Blocks)
    BY FrameIs DEF EndBlock
  <1>2. Front(Blocks) = SubSeq(Blocks, 1, k)
    BY DEF Front
  <1> HIDE DEF k
  <1>3. Like(Front(Blocks), Blocks, k) /\ \A i \in 1 .. k : Front(Blocks)[i] = Blocks[i]
    BY <1>1, <1>2, PartLike
  <1>4. Like(Passed(Front(Blocks)), Front(Blocks), k)
    <2>1. Bodied(Front(Blocks)) /\ Len(Front(Blocks)) = k
      BY <1>3 DEF Like
    <2> QED
      BY <2>1, PassedLike
  <1>5. bs = Passed(Front(Blocks)) \/ bs = Front(Blocks)
    BY DEF Left
  <1>6. Like(bs, Blocks, k)
    <2>1. Like(Passed(Front(Blocks)), Blocks, k)
      BY <1>3, <1>4 DEF Like
    <2> QED
      BY <2>1, <1>3, <1>5
  <1>7. ASSUME Scoped, Plain PROVE \A i \in 1 .. k : bs[i] = Blocks[i]
    <2>1. CASE bs = Front(Blocks)
      BY <2>1, <1>3
    <2>2. CASE bs = Passed(Front(Blocks))
      <3> SUFFICES ASSUME NEW i \in 1 .. k PROVE bs[i] = Blocks[i]
        OBVIOUS
      <3>1. Front(Blocks)[i] = Blocks[i] /\ DOMAIN Front(Blocks) = 1 .. k
        BY <1>1, <1>3 DEF Like, Bodied
      <3>2. Len(frames) \in 1 .. Len(frames) /\ Blocks = frames[Len(frames)].blocks
        BY FrameIs DEF Blocks
      <3>3. i \in 1 .. Len(Blocks)
        BY <1>1
      <3>4. Blocks[i] \in BlockType /\ ~Blocks[i].later
        BY <3>2, <3>3, <1>7, FrameIs DEF Scoped, Orderly
      <3> DEFINE h == Blocks[i].hasupval \/ Blocks[i].later
      <3>5. bs[i] = [Blocks[i] EXCEPT !.hasupval = h, !.later = FALSE]
        BY <2>2, <3>1 DEF Passed
      <3>6. h = Blocks[i].hasupval
        <4>1. Blocks[i].hasupval \in BOOLEAN
          BY <3>4 DEF BlockType
        <4> QED
          BY <3>4, <4>1
      <3> HIDE DEF h
      <3>7. Blocks[i].later = FALSE
        BY <3>4 DEF BlockType
      <3> QED
        BY <3>4, <3>5, <3>6, <3>7 DEF BlockType
    <2> QED
      BY <1>5, <2>1, <2>2
  <1>8. frames' = WithBlocks(bs)
    BY DEF EndBlock
  <1> HIDE DEF bs
  <1>9. Resumes(frames', bs)
    BY <1>6, <1>8, WithBlocksIs DEF Like
  <1> QED
    BY <1>1, <1>6, <1>7, <1>9 DEF k

LEMMA NextResumes ==
    ASSUME Sound, NextIteration
    PROVE  \E bs : /\ Resumes(frames', bs) /\ Like(bs, Blocks, Len(Blocks))
                   /\ Plain => \A i \in 1 .. Len(Blocks) : bs[i] = Blocks[i]
  <1>1. PICK bs \in Rewound(Len(Blocks)) : frames' = WithBlocks(bs)
    BY DEF NextIteration
  <1>2. Len(Blocks) \in 1 .. Len(Blocks)
    BY LastIs
  <1>3. Like(bs, Blocks, Len(Blocks)) /\ (Plain => \A i \in 1 .. Len(Blocks) : bs[i] = Blocks[i])
    BY <1>1, <1>2, RewoundLike
  <1>4. Resumes(frames', bs)
    BY <1>1, <1>3, WithBlocksIs DEF Like
  <1> QED
    BY <1>3, <1>4

LEMMA BreakResumes ==
    ASSUME Sound, NEW k, Break(k) \/ Continue(k)
    PROVE  /\ k \in 1 .. Len(Blocks) /\ slot' = Cleared(Blocks[k].start)
           /\ UNCHANGED <<stack, closure, upval, upvalist>>
           /\ \E bs : Resumes(frames', bs)
  <1>1. Loop(k) /\ UNCHANGED <<stack, closure, upval, upvalist>>
    BY DEF Break, Continue
  <1>2. k \in 2 .. Len(Blocks) /\ slot' = Cleared(Blocks[k].start) /\ Len(Blocks) \in Nat /\ Bodied(Blocks)
    BY <1>1, FrameIs DEF Loop
  <1>3. k \in 1 .. Len(Blocks) /\ k - 1 \in 1 .. Len(Blocks)
    BY <1>2
  <1>4. CASE Break(k)
    <2> DEFINE part == SubSeq(Blocks, 1, k - 1)
    <2>1. Bodied(part)
      BY <1>2, <1>3, PartLike DEF Like
    <2> HIDE DEF part
    <2>2. Bodied(Passed(part))
      BY <2>1, PassedLike DEF Like
    <2>3. frames' = WithBlocks(Passed(part))
      BY <1>4 DEF Break, part
    <2>4. Resumes(frames', Passed(part))
      BY <2>2, <2>3, WithBlocksIs
    <2> QED
      BY <2>4, <1>1, <1>2, <1>3
  <1>5. CASE Continue(k)
    <2>1. PICK bs \in Rewound(k) : frames' = WithBlocks(bs)
      BY <1>5 DEF Continue
    <2>2. Bodied(bs)
      BY <2>1, <1>3, RewoundLike DEF Like
    <2>3. Resumes(frames', bs)
      BY <2>1, <2>2, WithBlocksIs
    <2> QED
      BY <2>3, <1>1, <1>2, <1>3
  <1> QED
    BY <1>4, <1>5

LEMMA ReturnFrames ==
    ASSUME Sound, Return
    PROVE  /\ Framed(frames') /\ Running(frames', closure)
           /\ Len(frames') = Len(frames) - 1
           /\ \A n \in 1 .. Len(frames) - 1 : frames'[n] = frames[n]
  <1>1. frames \in Seq(FrameType) /\ Len(frames) \in Nat /\ Len(frames) > 1
    BY DEF Sound, Framed, Return
  <1>2. frames' = SubSeq(frames, 1, Len(frames) - 1)
    BY DEF Return, Front
  <1>3. frames' \in Seq(FrameType) /\ Len(frames') = Len(frames) - 1
        /\ \A n \in 1 .. Len(frames) - 1 : frames'[n] = frames[n]
    BY <1>1, <1>2
  <1>4. \A n \in 1 .. Len(frames) - 1 : n \in 1 .. Len(frames)
    BY <1>1
  <1> QED
    BY <1>1, <1>3, <1>4 DEF Sound, Framed, Running

LEMMA RaiseFrames ==
    ASSUME Sound, Raise
    PROVE  /\ Framed(frames') /\ Running(frames', closure)
           /\ \E from \in 0 .. StackSize : slot' = Cleared(from)
           /\ UNCHANGED <<stack, closure, upval, upvalist>>
  <1>0. UNCHANGED <<stack, closure, upval, upvalist>>
    BY DEF Raise
  <1>1. PICK n \in DOMAIN frames : \E k \in DOMAIN frames[n].blocks :
          /\ frames[n].blocks[k].kind = "try"
          /\ slot' = Cleared(frames[n].blocks[k].start)
          /\ frames' = [SubSeq(frames, 1, n) EXCEPT ![n].blocks =
               IF \E i \in k + 1 .. Len(@) : @[i].kind = "loop"
               THEN Passed(SubSeq(@, 1, k - 1)) ELSE SubSeq(@, 1, k - 1)]
    BY DEF Raise
  <1> DEFINE old == frames[n].blocks
  <1>2. PICK k \in DOMAIN old :
          /\ old[k].kind = "try"
          /\ slot' = Cleared(old[k].start)
          /\ frames' = [SubSeq(frames, 1, n) EXCEPT ![n].blocks =
               IF \E i \in k + 1 .. Len(@) : @[i].kind = "loop"
               THEN Passed(SubSeq(@, 1, k - 1)) ELSE SubSeq(@, 1, k - 1)]
    BY <1>1
  <1>3. frames \in Seq(FrameType) /\ DOMAIN frames = 1 .. Len(frames) /\ Len(frames) \in Nat
    BY DEF Sound, Framed
  <1>4. Bodied(old) /\ old \in Seq(BlockType) /\ old[1].kind = "func"
        /\ DOMAIN old = 1 .. Len(old) /\ Len(old) \in Nat
    BY <1>3 DEF Sound, Framed, Bodied
  <1>5. k # 1
    BY <1>2, <1>4
  <1>6. k - 1 \in 1 .. Len(old) /\ k \in 1 .. Len(old)
    BY <1>2, <1>4, <1>5
  <1> DEFINE part == SubSeq(old, 1, k - 1)
             bs == IF \E i \in k + 1 .. Len(old) : old[i].kind = "loop" THEN Passed(part) ELSE part
             sub == SubSeq(frames, 1, n)
             f == [frames[n] EXCEPT !.blocks = bs]
  <1>7. Bodied(part)
    <2> HIDE DEF old
    <2> QED
      BY <1>4, <1>6, PartLike DEF Like
  <1> HIDE DEF part
  <1>8. Bodied(bs)
    BY <1>7, PassedLike DEF Like
  <1>9. /\ sub \in Seq(FrameType) /\ Len(sub) = n /\ DOMAIN sub = 1 .. n /\ n \in 1 .. n
        /\ \A m \in 1 .. n : sub[m] = frames[m]
    BY <1>3
  <1>10. frames' = [sub EXCEPT ![n] = f]
    <2>1. frames' = [sub EXCEPT ![n] = [sub[n] EXCEPT !.blocks =
               IF \E i \in k + 1 .. Len(sub[n].blocks) : sub[n].blocks[i].kind = "loop"
               THEN Passed(SubSeq(sub[n].blocks, 1, k - 1)) ELSE SubSeq(sub[n].blocks, 1, k - 1)]]
      BY <1>2
    <2>2. sub[n] = frames[n]
      BY <1>9
    <2> HIDE DEF sub
    <2> QED
      BY <2>1, <2>2 DEF part
  <1> HIDE DEF sub, bs
  <1>11. f \in FrameType /\ f.blocks = bs /\ f.func = frames[n].func
    <2>1. frames[n] \in FrameType
      BY <1>3
    <2> QED
      BY <2>1, <1>8 DEF FrameType, Bodied
  <1> HIDE DEF f
  <1>12. frames' \in Seq(FrameType) /\ Len(frames') = n /\ frames'[n] = f
         /\ \A m \in 1 .. n : m # n => frames'[m] = frames[m]
    BY <1>9, <1>10, <1>11
  <1>13. \A m \in 1 .. n : m \in 1 .. Len(frames)
    BY <1>3
  <1>14. Framed(frames') /\ Running(frames', closure)
    <2>1. ASSUME NEW m \in 1 .. n PROVE Bodied(frames'[m].blocks) /\ closure[frames'[m].func] # NONE
      <3>1. Bodied(frames[m].blocks) /\ closure[frames[m].func] # NONE
        BY <1>13 DEF Sound, Framed, Running
      <3>2. CASE m = n
        BY <3>1, <3>2, <1>8, <1>11, <1>12
      <3>3. CASE m # n
        BY <3>1, <3>3, <1>12
      <3> QED
        BY <3>2, <3>3
    <2>2. n >= 1
      BY <1>3
    <2> QED
      BY <2>1, <2>2, <1>12 DEF Framed, Running
  <1>15. old[k].start \in 0 .. StackSize
    <2>1. old[k] \in BlockType
      BY <1>4, <1>6
    <2> QED
      BY <2>1 DEF BlockType
  <1> QED
    BY <1>0, <1>2, <1>14, <1>15

LEMMA CallFrames ==
    ASSUME Sound, NEW c \in Clo, Call(c)
    PROVE  /\ Framed(frames') /\ Running(frames', closure)
           /\ Len(frames') = Len(frames) + 1
           /\ \A n \in 1 .. Len(frames) : frames'[n] = frames[n]
           /\ frames'[Len(frames) + 1].blocks = <<Block(Top, "func")>>
  <1> DEFINE b == Block(Top, "func")
             f == [func |-> c, blocks |-> <<b>>]
  <1>1. frames' = Append(frames, f) /\ closure[c] # NONE
    BY DEF Call
  <1>2. b \in BlockType /\ b.kind = "func"
    BY TopBlock
  <1> HIDE DEF b
  <1>3. <<b>> \in Seq(BlockType) /\ Len(<<b>>) = 1 /\ <<b>>[1] = b
    BY <1>2
  <1>4. f \in FrameType /\ f.func = c /\ f.blocks = <<b>>
    BY <1>3 DEF FrameType
  <1>5. Bodied(f.blocks)
    BY <1>2, <1>3, <1>4 DEF Bodied
  <1> HIDE DEF f
  <1>6. frames \in Seq(FrameType) /\ Len(frames) \in Nat
    BY DEF Sound, Framed
  <1>7. frames' \in Seq(FrameType) /\ Len(frames') = Len(frames) + 1 /\ frames'[Len(frames) + 1] = f
        /\ \A n \in 1 .. Len(frames) : frames'[n] = frames[n]
    BY <1>1, <1>4, <1>6
  <1>8. ASSUME NEW n \in 1 .. Len(frames) + 1
        PROVE  Bodied(frames'[n].blocks) /\ closure[frames'[n].func] # NONE
    <2>1. CASE n = Len(frames) + 1
      BY <2>1, <1>1, <1>4, <1>5, <1>7
    <2>2. CASE n # Len(frames) + 1
      <3>1. n \in 1 .. Len(frames)
        BY <2>2, <1>6
      <3> QED
        BY <3>1, <1>7 DEF Sound, Framed, Running
    <2> QED
      BY <2>1, <2>2
  <1>9. Framed(frames') /\ Running(frames', closure)
    BY <1>6, <1>7, <1>8 DEF Framed, Running
  <1> QED
    BY <1>4, <1>7, <1>9 DEF b

LEMMA FreeClosures ==
    ASSUME Sound, NEW c \in Clo, FreeClosure(c)
    PROVE  Closures(closure') /\ Running(frames', closure')
  <1>1. /\ closure' = [closure EXCEPT ![c] = NONE] /\ frames' = frames
        /\ \A n \in DOMAIN frames : frames[n].func # c
    BY DEF FreeClosure
  <1>2. closure \in [Clo -> ClosureType \cup {NONE}]
    BY DEF Sound, Closures
  <1>3. closure' \in [Clo -> ClosureType \cup {NONE}] /\ \A x \in Clo : closure'[x] # NONE => x # c /\ closure'[x] = closure[x]
    BY <1>1, <1>2
  <1>4. Closures(closure')
    BY <1>3 DEF Sound, Closures
  <1>5. ASSUME NEW n \in 1 .. Len(frames) PROVE closure'[frames[n].func] # NONE
    <2>1. frames \in Seq(FrameType) /\ n \in DOMAIN frames
      BY DEF Sound, Framed
    <2>2. frames[n] \in FrameType /\ frames[n].func # c
      BY <2>1, <1>1
    <2>3. frames[n].func \in Clo
      BY <2>2 DEF FrameType
    <2>4. closure'[frames[n].func] = closure[frames[n].func]
      BY <2>2, <2>3, <1>1, <1>2
    <2> QED
      BY <2>4 DEF Sound, Running
  <1> QED
    BY <1>1, <1>4, <1>5 DEF Running

\* The block of the running function that has a local.
Home(i, p) ==
    /\ i \in 1 .. Len(Blocks) /\ Blocks[i].start <= p
    /\ \A j \in i + 1 .. Len(Blocks) : Blocks[j].start > p

LEMMA HomeExists ==
    ASSUME Sound, NEW p \in Nat, Base <= p
    PROVE  \E i \in 1 .. Len(Blocks) : Home(i, p)
  <1> DEFINE S == {i \in 1 .. Len(Blocks) : Blocks[i].start <= p}
  <1>1. Len(Blocks) \in Nat /\ Len(Blocks) >= 1 /\ Base = Blocks[1].start
    BY FrameIs DEF Bodied
  <1>2. S \in SUBSET (0 .. Len(Blocks)) /\ S # {}
    <2>1. 1 \in S
      BY <1>1
    <2> QED
      BY <2>1
  <1>3. PICK i \in S : \A k \in S : k <= i
    <2> HIDE DEF S
    <2> QED
      BY <1>1, <1>2, Greatest
  <1>4. ASSUME NEW j \in i + 1 .. Len(Blocks) PROVE Blocks[j].start > p
    <2>1. j \in 1 .. Len(Blocks) /\ j \notin S
      BY <1>1, <1>3
    <2>2. Blocks[j].start \in Nat
      BY <2>1, LastIs, ClosuresAssumption
    <2> QED
      BY <2>1, <2>2
  <1> QED
    BY <1>3, <1>4 DEF Home

\* Blocks are marked: those of the captured locals are.
Marks(descs, n, bs) ==
    /\ Like(bs, Blocks, Len(Blocks))
    /\ \A i \in 1 .. Len(Blocks) : /\ bs[i].later = Blocks[i].later
                                   /\ Blocks[i].hasupval => bs[i].hasupval
    /\ \A j \in 1 .. n : descs[j].instack =>
         \E i \in 1 .. Len(Blocks) : Home(i, descs[j].idx) /\ bs[i].hasupval

LEMMA CaptureMarks ==
    ASSUME Sound, NEW c \in Clo, NEW descs, Capture(c, descs), NEW n \in Nat, Captures(descs, n)
    PROVE  \E bs : Marks(descs, n, bs) /\ Resumes(frames', bs)
  <1> DEFINE home(p) == CHOOSE i \in DOMAIN Blocks :
                      Blocks[i].start <= p /\ \A j \in i + 1 .. Len(Blocks) : Blocks[j].start > p
             marked == {home(descs[i].idx) : i \in {j \in DOMAIN descs : descs[j].instack}}
             bs == [i \in DOMAIN Blocks |->
                      IF i \in marked THEN [Blocks[i] EXCEPT !.hasupval = TRUE] ELSE Blocks[i]]
  <1>1. frames' = WithBlocks(bs)
    BY DEF Capture
  <1>2. /\ Bodied(Blocks) /\ Len(Blocks) \in Nat /\ \A i \in 1 .. Len(Blocks) : Blocks[i] \in BlockType
        /\ DOMAIN Blocks = 1 .. Len(Blocks) /\ Len(Blocks) \in 1 .. Len(Blocks)
    BY FrameIs, LastIs
  <1>3. DOMAIN descs = 1 .. n /\ \A j \in 1 .. n : DescIs(descs[j])
    BY DEF Captures
  <1>4. ASSUME NEW j \in 1 .. n, descs[j].instack
        PROVE  Home(home(descs[j].idx), descs[j].idx) /\ home(descs[j].idx) \in marked
    <2> DEFINE p == descs[j].idx
    <2>1. p \in Nat /\ Base <= p
      BY <1>3, <1>4, PositionIs DEF DescIs
    <2>2. home(p) \in marked
      BY <1>3, <1>4
    <2> HIDE DEF p, marked
    <2>3. PICK i \in 1 .. Len(Blocks) : Home(i, p)
      BY <2>1, HomeExists
    <2>4. Home(home(p), p)
      BY <2>3, <1>2 DEF Home
    <2> QED
      BY <2>2, <2>4 DEF p
  <1> HIDE DEF marked, home
  <1>5. bs = [i \in 1 .. Len(Blocks) |-> bs[i]]
    BY <1>2
  <1>6. ASSUME NEW i \in 1 .. Len(Blocks)
        PROVE  /\ bs[i] \in BlockType /\ bs[i].start = Blocks[i].start /\ bs[i].kind = Blocks[i].kind
               /\ bs[i].later = Blocks[i].later
               /\ Blocks[i].hasupval \/ i \in marked => bs[i].hasupval
    <2>1. Blocks[i] \in BlockType
      BY <1>2
    <2>2. CASE i \in marked
      <3>1. bs[i] = [Blocks[i] EXCEPT !.hasupval = TRUE]
        BY <1>2, <2>2
      <3> QED
        BY <2>1, <3>1 DEF BlockType
    <2>3. CASE i \notin marked
      <3>1. bs[i] = Blocks[i]
        BY <1>2, <2>3
      <3> QED
        BY <2>1, <2>3, <3>1
    <2> QED
      BY <2>2, <2>3
  <1> HIDE DEF bs
  <1>7. Like(bs, Blocks, Len(Blocks))
    BY <1>2, <1>5, <1>6, LikeBodied
  <1>8. Marks(descs, n, bs)
    <2>1. ASSUME NEW j \in 1 .. n, descs[j].instack
          PROVE  \E i \in 1 .. Len(Blocks) : Home(i, descs[j].idx) /\ bs[i].hasupval
      <3>1. Home(home(descs[j].idx), descs[j].idx) /\ home(descs[j].idx) \in marked
        BY <1>4, <2>1
      <3> DEFINE h == home(descs[j].idx)
      <3> HIDE DEF h
      <3>2. Home(h, descs[j].idx) /\ h \in marked
        BY <3>1 DEF h
      <3>3. h \in 1 .. Len(Blocks)
        BY <3>2 DEF Home
      <3> QED
        BY <3>2, <3>3, <1>6
    <2> QED
      BY <2>1, <1>6, <1>7 DEF Marks
  <1>9. Resumes(frames', bs)
    BY <1>1, <1>7, WithBlocksIs DEF Like
  <1> QED
    BY <1>8, <1>9

LEMMA CaptureSound ==
    ASSUME Sound, Accounted, NEW c \in Clo, NEW descs \in Descs, Capture(c, descs)
    PROVE  Framed(frames') /\ Closures(closure') /\ Running(frames', closure')
  <1>1. PICK n \in Nat : \E s : Made(c, descs, n, s)
    BY CaptureIs
  <1>2. PICK s : Made(c, descs, n, s)
    BY <1>1
  <1>3. Captures(descs, n) /\ Closures(closure')
    BY <1>2 DEF Made
  <1>4. PICK bs : Marks(descs, n, bs) /\ Resumes(frames', bs)
    BY <1>3, CaptureMarks
  <1>5. Framed(frames') /\ Running(frames', closure)
    BY <1>4, ResumesRuns
  <1>6. ASSUME NEW m \in 1 .. Len(frames') PROVE closure'[frames'[m].func] # NONE
    <2>1. frames'[m] \in FrameType /\ closure[frames'[m].func] # NONE
      BY <1>5 DEF Framed, Running
    <2>2. frames'[m].func \in Clo
      BY <2>1 DEF FrameType
    <2>3. closure'[c] # NONE /\ \A x \in Clo : x # c => closure'[x] = closure[x]
      BY <1>2 DEF Made
    <2> QED
      BY <2>1, <2>2, <2>3
  <1> QED
    BY <1>3, <1>5, <1>6 DEF Running

LEMMA SoundStep ==
    ASSUME Sound, Accounted, Next
    PROVE  Sound'
  <1>0. program' = program /\ program \in Programs /\ Step
    BY DEF Next, Sound
  <1> SUFFICES Stacked(stack', slot') /\ Framed(frames') /\ Closures(closure') /\ Running(frames', closure')
    BY <1>0 DEF Sound
  <1>1. ASSUME NEW v \in Var, Declare(v)
        PROVE  Stacked(stack', slot') /\ Framed(frames') /\ Closures(closure') /\ Running(frames', closure')
    BY <1>1, DeclareStacked DEF Declare, Sound
  <1>2. ASSUME NEW kind \in {"plain", "loop", "try"}, EnterBlock(kind)
        PROVE  Stacked(stack', slot') /\ Framed(frames') /\ Closures(closure') /\ Running(frames', closure')
    BY <1>2, EnterResumes, ResumesRuns DEF EnterBlock, Sound
  <1>3. ASSUME EndBlock
        PROVE  Stacked(stack', slot') /\ Framed(frames') /\ Closures(closure') /\ Running(frames', closure')
    <2>1. Framed(frames') /\ Running(frames', closure)
      BY <1>3, EndResumes, ResumesRuns
    <2>2. Stacked(stack, slot')
      BY <1>3, LastIs, ClearedStacked DEF EndBlock
    <2> QED
      BY <1>3, <2>1, <2>2 DEF EndBlock, Sound
  <1>4. ASSUME NextIteration
        PROVE  Stacked(stack', slot') /\ Framed(frames') /\ Closures(closure') /\ Running(frames', closure')
    <2>1. Framed(frames') /\ Running(frames', closure)
      BY <1>4, NextResumes, ResumesRuns
    <2>2. Stacked(stack, slot')
      BY <1>4, LastIs, ClearedStacked DEF NextIteration
    <2> QED
      BY <1>4, <2>1, <2>2 DEF NextIteration, Sound
  <1>5. ASSUME NEW k, Break(k) \/ Continue(k)
        PROVE  Stacked(stack', slot') /\ Framed(frames') /\ Closures(closure') /\ Running(frames', closure')
    <2>1. Framed(frames') /\ Running(frames', closure)
      BY <1>5, BreakResumes, ResumesRuns
    <2>2. Stacked(stack, slot')
      BY <1>5, BreakResumes, LastIs, ClearedStacked
    <2> QED
      BY <1>5, <2>1, <2>2, BreakResumes DEF Sound
  <1>6. ASSUME Return
        PROVE  Stacked(stack', slot') /\ Framed(frames') /\ Closures(closure') /\ Running(frames', closure')
    <2>1. Framed(frames') /\ Running(frames', closure)
      BY <1>6, ReturnFrames
    <2>2. Stacked(stack, slot')
      BY <1>6, FrameIs, ClearedStacked DEF Return
    <2> QED
      BY <1>6, <2>1, <2>2 DEF Return, Sound
  <1>7. ASSUME Raise
        PROVE  Stacked(stack', slot') /\ Framed(frames') /\ Closures(closure') /\ Running(frames', closure')
    <2>1. Framed(frames') /\ Running(frames', closure) /\ UNCHANGED <<stack, closure, upval, upvalist>>
      BY <1>7, RaiseFrames
    <2>2. Stacked(stack, slot')
      BY <1>7, RaiseFrames, ClearedStacked
    <2> QED
      BY <2>1, <2>2 DEF Sound
  <1>8. ASSUME NEW c \in Clo, Call(c)
        PROVE  Stacked(stack', slot') /\ Framed(frames') /\ Closures(closure') /\ Running(frames', closure')
    BY <1>8, CallFrames DEF Call, Sound
  <1>9. ASSUME NEW c \in Clo, FreeClosure(c)
        PROVE  Stacked(stack', slot') /\ Framed(frames') /\ Closures(closure') /\ Running(frames', closure')
    BY <1>9, FreeClosures DEF FreeClosure, Sound
  <1>10. ASSUME NEW c \in Clo, NEW descs \in Descs, Capture(c, descs)
         PROVE  Stacked(stack', slot') /\ Framed(frames') /\ Closures(closure') /\ Running(frames', closure')
    BY <1>10, CaptureSound DEF Capture, Sound
  <1>11. ASSUME NEW new \in Addr, StackResize(new)
         PROVE  Stacked(stack', slot') /\ Framed(frames') /\ Closures(closure') /\ Running(frames', closure')
    BY <1>11 DEF StackResize, Sound, Stacked
  <1> QED
    BY <1>0, <1>1, <1>2, <1>3, <1>4, <1>5, <1>6, <1>7, <1>8, <1>9, <1>10, <1>11 DEF Step

\* OP_CLOSE, where it is.
LEMMA ClosedAccounts ==
    ASSUME Sound, Accounted, NEW from \in 0 .. StackSize, NEW emitted, Close(emitted, from),
           closure' = closure, stack' = stack
    PROVE  Accounted'
  <1>1. from \in Nat
    BY ClosuresAssumption
  <1>2. CASE emitted
    BY <1>1, <1>2, CloseIs, CloseAccounts DEF Close
  <1>3. CASE ~emitted
    BY <1>3, KeepAccounts DEF Close
  <1> QED
    BY <1>2, <1>3

LEMMA AccountedStep ==
    ASSUME Sound, Accounted, Next
    PROVE  Accounted'
  <1>0. Step
    BY DEF Next
  <1>1. ASSUME UNCHANGED <<stack, closure, upval, upvalist>> PROVE Accounted'
    BY <1>1, KeepAccounts
  <1>2. ASSUME EndBlock PROVE Accounted'
    BY <1>2, LastIs, ClosedAccounts DEF EndBlock
  <1>3. ASSUME NextIteration PROVE Accounted'
    BY <1>3, LastIs, ClosedAccounts DEF NextIteration
  <1>4. ASSUME Return PROVE Accounted'
    BY <1>4, FrameIs, ClosedAccounts DEF Return
  <1>5. ASSUME NEW c \in Clo, FreeClosure(c) PROVE Accounted'
    BY <1>5, FreeAccounts
  <1>6. ASSUME NEW c \in Clo, NEW descs \in Descs, Capture(c, descs) PROVE Accounted'
    <2>1. stack' = stack
      BY <1>6 DEF Capture
    <2> QED
      BY <1>6, <2>1, CaptureIs, CaptureAccounts
  <1>7. ASSUME NEW new \in Addr, StackResize(new) PROVE Accounted'
    BY <1>7, ResizeAccounts
  <1>8. ASSUME NEW k, Break(k) \/ Continue(k) PROVE Accounted'
    BY <1>1, <1>8 DEF Break, Continue
  <1>9. ASSUME Raise PROVE Accounted'
    BY <1>1, <1>9 DEF Raise
  <1>10. ASSUME NEW v \in Var, Declare(v) PROVE Accounted'
    BY <1>1, <1>10 DEF Declare
  <1>11. ASSUME NEW kind, EnterBlock(kind) PROVE Accounted'
    BY <1>1, <1>11 DEF EnterBlock
  <1>12. ASSUME NEW c \in Clo, Call(c) PROVE Accounted'
    BY <1>1, <1>12 DEF Call
  <1> QED
    BY <1>0, <1>2, <1>3, <1>4, <1>5, <1>6, <1>7, <1>8, <1>9, <1>10, <1>11, <1>12 DEF Step

----------------------------------------------------------------------------
(* A block is left in a program that leaves blocks at the end or by return. *)

In(fr, n, i) == n \in 1 .. Len(fr) /\ i \in 1 .. Len(fr[n].blocks)

\* What remains are blocks that begin no higher than s, all below it among them.
Shrinks(fr, new, s) ==
    /\ \A n, i \in Nat : In(new, n, i) =>
         In(fr, n, i) /\ new[n].blocks[i] = fr[n].blocks[i] /\ fr[n].blocks[i].start <= s
    /\ \A n, i \in Nat : In(fr, n, i) /\ fr[n].blocks[i].start < s => In(new, n, i)

\* An upvalue below s stays, and one above it leaves.
Sheds(s) ==
    \A u \in Up : \/ upval'[u] = upval[u] /\ (IsOpen(upval, u) => Pos(upval, stack, u) < s)
                  \/ Leaves(u, s) /\ upval'[u] = Detached(u)

\* The numbers of blocks and frames are numbers.
LEMMA InIs ==
    ASSUME NEW fr, Framed(fr), NEW n, NEW i, In(fr, n, i)
    PROVE  /\ n \in Nat /\ i \in Nat /\ n \in 1 .. Len(fr) /\ i \in 1 .. Len(fr[n].blocks)
           /\ fr[n].blocks[i] \in BlockType /\ fr[n].blocks[i].start \in Nat
  <1>1. n \in 1 .. Len(fr) /\ i \in 1 .. Len(fr[n].blocks)
    BY DEF In
  <1>2. Bodied(fr[n].blocks)
    BY <1>1 DEF Framed
  <1>3. fr[n].blocks \in Seq(BlockType)
    BY <1>2 DEF Bodied
  <1>4. fr[n].blocks[i] \in BlockType
    BY <1>1, <1>3
  <1>5. fr[n].blocks[i].start \in 0 .. StackSize /\ StackSize \in Nat
    BY <1>4, ClosuresAssumption DEF BlockType
  <1> QED
    BY <1>1, <1>4, <1>5

\* The blocks in order, without the quantifiers over intervals.
Ordered(fr, sl) ==
    /\ \A n, i, m, j \in Nat : In(fr, n, i) /\ In(fr, m, j) /\ Later(n, i, m, j) =>
         fr[n].blocks[i].start <= fr[m].blocks[j].start
    /\ \A n, i \in Nat : In(fr, n, i) => ~fr[n].blocks[i].later /\ fr[n].blocks[i].start <= Depth(sl)
Inner(fr, n, i, p) ==
    /\ In(fr, n, i) /\ fr[n].blocks[i].start <= p /\ fr[n].blocks[i].hasupval
    /\ \A m, j \in Nat : In(fr, m, j) /\ Later(n, i, m, j) => p < fr[m].blocks[j].start

LEMMA OrderIs ==
    ASSUME NEW fr, Framed(fr), NEW sl
    PROVE  Orderly(fr, sl) <=> Ordered(fr, sl)
  <1>1. ASSUME Orderly(fr, sl) PROVE Ordered(fr, sl)
    BY <1>1 DEF Orderly, Ordered, In
  <1>2. ASSUME Ordered(fr, sl) PROVE Orderly(fr, sl)
    <2>1. \A n \in 1 .. Len(fr) : \A i \in 1 .. Len(fr[n].blocks) : In(fr, n, i) /\ n \in Nat /\ i \in Nat
      BY DEF In
    <2> QED
      BY <1>2, <2>1 DEF Orderly, Ordered
  <1> QED
    BY <1>1, <1>2

LEMMA MarkedIs ==
    ASSUME NEW fr, Framed(fr), NEW p
    PROVE  Marked(fr, p) <=> \E n, i \in Nat : Inner(fr, n, i, p)
  <1>1. ASSUME Marked(fr, p) PROVE \E n, i \in Nat : Inner(fr, n, i, p)
    <2>0. PICK n \in 1 .. Len(fr) : \E i \in 1 .. Len(fr[n].blocks) :
            Around(fr, n, i, p) /\ fr[n].blocks[i].hasupval
      BY <1>1 DEF Marked
    <2>1. PICK i \in 1 .. Len(fr[n].blocks) : Around(fr, n, i, p) /\ fr[n].blocks[i].hasupval
      BY <2>0
    <2>2. Inner(fr, n, i, p)
      BY <2>1 DEF Around, Inner, In
    <2>3. n \in Nat /\ i \in Nat
      OBVIOUS
    <2> QED
      BY <2>2, <2>3
  <1>2. ASSUME NEW n \in Nat, NEW i \in Nat, Inner(fr, n, i, p) PROVE Marked(fr, p)
    <2>1. n \in 1 .. Len(fr) /\ i \in 1 .. Len(fr[n].blocks) /\ fr[n].blocks[i].hasupval
          /\ fr[n].blocks[i].start <= p
      BY <1>2 DEF Inner, In
    <2>2. ASSUME NEW m \in 1 .. Len(fr), NEW j \in 1 .. Len(fr[m].blocks), Later(n, i, m, j)
          PROVE  p < fr[m].blocks[j].start
      <3>1. In(fr, m, j) /\ m \in Nat /\ j \in Nat
        BY DEF In
      <3> QED
        BY <3>1, <2>2, <1>2 DEF Inner
    <2>3. Around(fr, n, i, p)
      BY <2>1, <2>2 DEF Around
    <2> QED
      BY <2>1, <2>3 DEF Marked
  <1> QED
    BY <1>1, <1>2

\* How deep the stack is when it is cut.
LEMMA ClearedDepth ==
    ASSUME Sound, NEW from \in 0 .. StackSize
    PROVE  /\ Depth(Cleared(from)) = Lower(Depth(slot), from) /\ Depth(slot) \in Nat /\ from \in Nat
           /\ \A p \in Position : /\ Cleared(from)[p] = IF p >= from THEN NONE ELSE slot[p]
                                  /\ Cleared(from)[p] # NONE => p < from /\ Cleared(from)[p] = slot[p]
                                  /\ p < from => Cleared(from)[p] = slot[p]
  <1>1. from \in Nat
    BY ClosuresAssumption
  <1>2. Filled(slot, Top) /\ Depth(slot) = Top /\ Top \in Nat
    BY TopIs
  <1> HIDE DEF Top
  <1>3. Filled(Cleared(from), Lower(Top, from))
    BY <1>1, <1>2, ClearedFilled
  <1>4. Depth(Cleared(from)) = Lower(Top, from)
    BY <1>3, FilledTop DEF Depth
  <1>5. ASSUME NEW p \in Position
        PROVE  /\ Cleared(from)[p] = IF p >= from THEN NONE ELSE slot[p]
               /\ Cleared(from)[p] # NONE => p < from /\ Cleared(from)[p] = slot[p]
               /\ p < from => Cleared(from)[p] = slot[p]
    <2>1. Cleared(from)[p] = IF p >= from THEN NONE ELSE slot[p]
      BY DEF Cleared
    <2>2. p \in Nat
      BY PositionIs
    <2> QED
      BY <2>1, <2>2, <1>1
  <1> QED
    BY <1>1, <1>2, <1>4, <1>5

LEMMA LeaveOrder ==
    ASSUME Sound, Framed(frames'), NEW s \in 0 .. StackSize, Shrinks(frames, frames', s),
           slot' = Cleared(s), Orderly(frames, slot)
    PROVE  Orderly(frames', slot')
  <1>1. Ordered(frames, slot)
    BY OrderIs DEF Sound
  <1>2. Depth(slot') = Lower(Depth(slot), s) /\ Depth(slot) \in Nat /\ s \in Nat
    BY ClearedDepth
  <1>3. ASSUME NEW n \in Nat, NEW i \in Nat, In(frames', n, i)
        PROVE  ~frames'[n].blocks[i].later /\ frames'[n].blocks[i].start <= Depth(slot')
    <2>1. In(frames, n, i) /\ frames'[n].blocks[i] = frames[n].blocks[i] /\ frames[n].blocks[i].start <= s
      BY <1>3 DEF Shrinks
    <2>2. ~frames[n].blocks[i].later /\ frames[n].blocks[i].start <= Depth(slot)
      BY <2>1, <1>1 DEF Ordered
    <2> QED
      BY <2>1, <2>2, <1>2 DEF Lower
  <1>4. ASSUME NEW n \in Nat, NEW i \in Nat, NEW m \in Nat, NEW j \in Nat,
               In(frames', n, i), In(frames', m, j), Later(n, i, m, j)
        PROVE  frames'[n].blocks[i].start <= frames'[m].blocks[j].start
    <2>1. In(frames, n, i) /\ frames'[n].blocks[i] = frames[n].blocks[i]
      BY <1>4 DEF Shrinks
    <2>2. In(frames, m, j) /\ frames'[m].blocks[j] = frames[m].blocks[j]
      BY <1>4 DEF Shrinks
    <2> QED
      BY <2>1, <2>2, <1>1, <1>4 DEF Ordered
  <1>5. Ordered(frames', slot')
    BY <1>3, <1>4 DEF Ordered
  <1> QED
    BY <1>5, OrderIs

\* What an upvalue is that is still open when the block is left.
LEMMA ShedOpen ==
    ASSUME Sound, Accounted, NEW s \in Nat, Sheds(s), NEW u \in Up, IsOpen(upval', u)
    PROVE  /\ IsOpen(upval, u) /\ upval'[u] = upval[u] /\ Pos(upval, stack, u) < s
           /\ Pos(upval', stack, u) = Pos(upval, stack, u) /\ Pos(upval, stack, u) \in Position
  <1>1. ~(Leaves(u, s) /\ upval'[u] = Detached(u))
    <2>1. SUFFICES ASSUME Leaves(u, s), upval'[u] = Detached(u) PROVE FALSE
      OBVIOUS
    <2>2. Detached(u) = NONE \/ ~Open(Detached(u).value)
      BY <2>1, Detaches
    <2> QED
      BY <2>1, <2>2 DEF IsOpen
  <1>2. upval'[u] = upval[u] /\ (IsOpen(upval, u) => Pos(upval, stack, u) < s)
    BY <1>1 DEF Sheds
  <1>3. IsOpen(upval, u)
    BY <1>2 DEF IsOpen
  <1>4. Pos(upval', stack, u) = Pos(upval, stack, u)
    BY <1>2 DEF Pos
  <1>5. Pos(upval, stack, u) \in Position
    BY <1>3 DEF Accounted, Placed
  <1> QED
    BY <1>2, <1>3, <1>4, <1>5

LEMMA LeaveMarks ==
    ASSUME Sound, Accounted, Framed(frames'), NEW s \in 0 .. StackSize, Shrinks(frames, frames', s),
           slot' = Cleared(s), stack' = stack, Sheds(s), Emitted(upval, stack, slot, frames)
    PROVE  Emitted(upval', stack', slot', frames')
  <1>1. Depth(slot') = Lower(Depth(slot), s) /\ Depth(slot) \in Nat /\ s \in Nat
    BY ClearedDepth
  <1>2. ASSUME NEW u \in Up, IsOpen(upval', u)
        PROVE  Pos(upval', stack', u) < Depth(slot') /\ Marked(frames', Pos(upval', stack', u))
    <2> DEFINE p == Pos(upval, stack, u)
    <2>1. /\ IsOpen(upval, u) /\ p < s /\ p \in Position /\ Pos(upval', stack', u) = p
      BY <1>1, <1>2, ShedOpen
    <2>2. p < Depth(slot) /\ Marked(frames, p)
      BY <2>1 DEF Emitted
    <2>3. p \in Nat
      BY <2>1, PositionIs
    <2> HIDE DEF p
    <2>4. p < Depth(slot')
      BY <2>1, <2>2, <2>3, <1>1 DEF Lower
    <2>5. PICK n \in Nat, i \in Nat : Inner(frames, n, i, p)
      BY <2>2, MarkedIs DEF Sound
    <2>6. In(frames, n, i) /\ frames[n].blocks[i].start <= p /\ frames[n].blocks[i].hasupval
      BY <2>5 DEF Inner
    <2>7. frames[n].blocks[i].start < s
      <3>1. frames[n].blocks[i].start \in Nat
        BY <2>6, InIs DEF Sound
      <3> QED
        BY <3>1, <2>1, <2>3, <2>6, <1>1
    <2>8. In(frames', n, i)
      BY <2>6, <2>7 DEF Shrinks
    <2>9. frames'[n].blocks[i] = frames[n].blocks[i]
      BY <2>8 DEF Shrinks
    <2>10. ASSUME NEW m \in Nat, NEW j \in Nat, In(frames', m, j), Later(n, i, m, j)
           PROVE  p < frames'[m].blocks[j].start
      <3>1. In(frames, m, j) /\ frames'[m].blocks[j] = frames[m].blocks[j]
        BY <2>10 DEF Shrinks
      <3> QED
        BY <3>1, <2>5, <2>10 DEF Inner
    <2>11. Inner(frames', n, i, p)
      BY <2>6, <2>8, <2>9, <2>10 DEF Inner
    <2>12. Marked(frames', p)
      BY <2>11, MarkedIs
    <2> QED
      BY <2>1, <2>4, <2>12
  <1> QED
    BY <1>2 DEF Emitted

\* An upvalue that leaves takes along the value that its closures mean.
LEMMA LeaveMeans ==
    ASSUME Sound, Accounted, NEW s \in 0 .. StackSize, slot' = Cleared(s), stack' = stack,
           closure' = closure, Sheds(s), Meant(upval, stack, slot, closure)
    PROVE  Meant(upval', stack', slot', closure')
  <1>1. ASSUME NEW c \in Clo, closure[c] # NONE, NEW i \in 1 .. Len(closure[c].upvals)
        PROVE  Leads(upval', stack, slot', closure[c].upvals[i], closure[c].vars[i])
    <2> DEFINE u == closure[c].upvals[i]
               v == closure[c].vars[i]
    <2>1. u \in Up /\ upval[u] # NONE /\ <<c, i>> \in Held(closure, u)
      BY <1>1, HeldThere
    <2>2. Leads(upval, stack, slot, u, v)
      BY <1>1 DEF Meant
    <2>3. s \in Nat
      BY ClearedDepth
    <2> HIDE DEF u, v
    <2>4. CASE Leaves(u, s) /\ upval'[u] = Detached(u)
      <3>1. upval[u].refcnt # 0
        <4>1. upval[u].refcnt = Cardinality(Held(closure, u))
          BY <2>1 DEF Accounted, Counted
        <4>2. Held(closure, u) # {}
          BY <2>1
        <4> QED
          BY <4>1, <4>2, HeldFinite
      <3>2. ~Open(upval'[u].value) /\ upval'[u].value.var = slot[Pos(upval, stack, u)]
        BY <2>1, <2>3, <2>4, <3>1, Detaches
      <3>3. slot[Pos(upval, stack, u)] = v
        BY <2>2, <2>4 DEF Leads, Leaves, IsOpen
      <3> QED
        BY <3>2, <3>3 DEF Leads, u, v
    <2>5. CASE upval'[u] = upval[u] /\ (IsOpen(upval, u) => Pos(upval, stack, u) < s)
      <3>1. CASE Open(upval[u].value)
        <4>1. IsOpen(upval, u)
          BY <2>1, <3>1 DEF IsOpen
        <4>2. Pos(upval, stack, u) \in Position /\ Pos(upval, stack, u) < s
          BY <2>1, <2>5, <4>1 DEF Accounted, Placed
        <4>3. slot'[Pos(upval, stack, u)] = slot[Pos(upval, stack, u)]
          BY <4>2, ClearedDepth
        <4>4. slot[Pos(upval, stack, u)] = v
          BY <2>2, <3>1 DEF Leads
        <4>5. Pos(upval', stack, u) = Pos(upval, stack, u) /\ Open(upval'[u].value)
          BY <2>5, <3>1 DEF Pos
        <4> QED
          BY <4>3, <4>4, <4>5 DEF Leads, u, v
      <3>2. CASE ~Open(upval[u].value)
        BY <2>2, <2>5, <3>2 DEF Leads, u, v
      <3> QED
        BY <3>1, <3>2
    <2> QED
      BY <2>1, <2>4, <2>5 DEF Sheds
  <1> QED
    BY <1>1 DEF Meant

LEMMA LeaveApart ==
    ASSUME Sound, Accounted, NEW s \in 0 .. StackSize, slot' = Cleared(s), Sheds(s), Apart(upval, slot)
    PROVE  Apart(upval', slot')
  <1>1. \A p \in Position : slot'[p] # NONE => p < s /\ slot'[p] = slot[p]
    BY ClearedDepth
  <1>2. ASSUME NEW p \in Position, NEW q \in Position, slot'[p] # NONE, slot'[p] = slot'[q]
        PROVE  p = q
    BY <1>1, <1>2 DEF Apart
  <1>3. ASSUME NEW u \in Up, upval'[u] # NONE, ~Open(upval'[u].value), NEW p \in Position, slot'[p] # NONE
        PROVE  slot'[p] # upval'[u].value.var
    <2>1. CASE Leaves(u, s) /\ upval'[u] = Detached(u)
      <3>0. s \in Nat /\ p \in Nat
        BY ClearedDepth, PositionIs
      <3>1. upval[u].refcnt # 0
        BY <1>3, <2>1, <3>0, Detaches
      <3>2. upval'[u].value.var = slot[Pos(upval, stack, u)]
        BY <2>1, <3>0, <3>1, Detaches
      <3>3. Pos(upval, stack, u) \in Position /\ s <= Pos(upval, stack, u)
        BY <2>1 DEF Leaves, Accounted, Placed
      <3>4. Pos(upval, stack, u) \in Nat
        BY <3>3, PositionIs
      <3>5. p < s /\ slot'[p] = slot[p] /\ slot[p] # NONE
        BY <1>1, <1>3
      <3>6. p # Pos(upval, stack, u)
        BY <3>0, <3>3, <3>4, <3>5
      <3> QED
        BY <3>2, <3>3, <3>5, <3>6 DEF Apart
    <2>2. CASE upval'[u] = upval[u]
      BY <2>2, <1>1, <1>3 DEF Apart
    <2> QED
      BY <2>1, <2>2 DEF Sheds
  <1> QED
    BY <1>2, <1>3 DEF Apart

\* No block with captured variables is left without OP_CLOSE.
LEMMA ShedsIs ==
    ASSUME Sound, Accounted, NEW s \in 0 .. StackSize, NEW emitted, Close(emitted, s),
           ~emitted => \A u \in Up : IsOpen(upval, u) => Pos(upval, stack, u) < s
    PROVE  Sheds(s)
  <1>1. s \in Nat
    BY ClearedDepth
  <1>2. CASE emitted
    <2>1. CloseEffect(s)
      BY <1>1, <1>2, CloseIs DEF Close
    <2>2. ASSUME NEW u \in Up
          PROVE  \/ upval'[u] = upval[u] /\ (IsOpen(upval, u) => Pos(upval, stack, u) < s)
                 \/ Leaves(u, s) /\ upval'[u] = Detached(u)
      <3>1. CASE Leaves(u, s)
        BY <1>1, <2>1, <3>1, CloseOpens
      <3>2. CASE ~Leaves(u, s)
        <4>1. upval'[u] = upval[u]
          BY <1>1, <2>1, <3>2, CloseOpens
        <4>2. ASSUME IsOpen(upval, u) PROVE Pos(upval, stack, u) < s
          <5>1. Pos(upval, stack, u) \in Nat
            BY <4>2, PositionIs DEF Accounted, Placed
          <5> QED
            BY <5>1, <4>2, <3>2, <1>1 DEF Leaves
        <4> QED
          BY <4>1, <4>2
      <3> QED
        BY <3>1, <3>2
    <2> QED
      BY <2>2 DEF Sheds
  <1>3. CASE ~emitted
    BY <1>3 DEF Close, Sheds
  <1> QED
    BY <1>2, <1>3

\* The blocks of the running function.
LEMMA RunningIn ==
    ASSUME Sound
    PROVE  /\ Len(frames) \in Nat /\ Len(frames) >= 1 /\ Len(Blocks) \in Nat /\ Len(Blocks) >= 1
           /\ Blocks = frames[Len(frames)].blocks
           /\ \A i \in 1 .. Len(Blocks) : In(frames, Len(frames), i)
  <1>1. Len(frames) \in Nat /\ Len(frames) >= 1 /\ Len(Blocks) \in Nat /\ Len(Blocks) >= 1
    BY FrameIs DEF Bodied
  <1>2. Blocks = frames[Len(frames)].blocks
    BY FrameIs DEF Blocks
  <1>3. Len(frames) \in 1 .. Len(frames)
    BY <1>1
  <1> QED
    BY <1>1, <1>2, <1>3 DEF In

\* The innermost block around an open upvalue at s or above it, where the k-th
\* block of the running function begins at s, is that block or one in it.
LEMMA MarkedAbove ==
    ASSUME Sound, Accounted, Emitted(upval, stack, slot, frames),
           NEW k \in 1 .. Len(Blocks), NEW u \in Up, IsOpen(upval, u),
           Blocks[k].start <= Pos(upval, stack, u)
    PROVE  \E i \in k .. Len(Blocks) : Blocks[i].hasupval
  <1> DEFINE p == Pos(upval, stack, u)
  <1>1. Marked(frames, p)
    BY DEF Emitted
  <1> HIDE DEF p
  <1>2. PICK n \in Nat, i \in Nat : Inner(frames, n, i, p)
    BY <1>1, MarkedIs DEF Sound
  <1>3. In(frames, Len(frames), k) /\ Len(frames) \in Nat /\ k \in Nat
    BY RunningIn
  <1>4. ~(p < Blocks[k].start)
    <2>1. Blocks[k].start \in Nat
      BY LastIs, ClosuresAssumption
    <2>2. p \in Nat
      BY PositionIs DEF p, Accounted, Placed
    <2> QED
      BY <2>1, <2>2 DEF p
  <1>5. ~Later(n, i, Len(frames), k)
    BY <1>2, <1>3, <1>4, RunningIn DEF Inner
  <1>6. In(frames, n, i) /\ frames[n].blocks[i].hasupval
    BY <1>2 DEF Inner
  <1>7. n \in 1 .. Len(frames)
    BY <1>6 DEF In
  <1>8. n = Len(frames) /\ k <= i
    BY <1>3, <1>5, <1>7 DEF Later
  <1>9. i \in 1 .. Len(Blocks)
    BY <1>6, <1>8, RunningIn DEF In
  <1> QED
    BY <1>3, <1>6, <1>8, <1>9, RunningIn

LEMMA LeaveScopes ==
    ASSUME Sound, Accounted, Scoped, Plain, Framed(frames'), NEW s \in 0 .. StackSize,
           Shrinks(frames, frames', s), Sheds(s), slot' = Cleared(s), UNCHANGED <<stack, closure>>
    PROVE  /\ Orderly(frames', slot') /\ Emitted(upval', stack', slot', frames')
           /\ Meant(upval', stack', slot', closure') /\ Apart(upval', slot')
  BY LeaveOrder, LeaveMarks, LeaveMeans, LeaveApart DEF Scoped

ScopedThen ==
    /\ Orderly(frames', slot') /\ Emitted(upval', stack', slot', frames')
    /\ Meant(upval', stack', slot', closure') /\ Apart(upval', slot')

\* The end of a block.
LEMMA EndScopes ==
    ASSUME Sound, Accounted, Scoped, Plain, EndBlock
    PROVE  ScopedThen
  <1> DEFINE N == Len(frames)
             L == Len(Blocks)
             s == Last(Blocks).start
  <1>1. N \in Nat /\ N >= 1 /\ L \in Nat /\ Blocks = frames[N].blocks
    BY RunningIn
  <1>2. L - 1 \in 1 .. L /\ L \in 1 .. L
    BY EndResumes, LastIs
  <1>3. s = Blocks[L].start /\ Last(Blocks) = Blocks[L] /\ s \in 0 .. StackSize /\ s \in Nat
    BY LastIs, ClosuresAssumption
  <1>4. PICK bs : /\ Resumes(frames', bs) /\ Like(bs, Blocks, L - 1)
                  /\ \A i \in 1 .. L - 1 : bs[i] = Blocks[i]
    BY EndResumes
  <1>5. Framed(frames') /\ Len(frames') = N /\ frames'[N].blocks = bs /\ Len(bs) = L - 1
        /\ \A n \in 1 .. N : n # N => frames'[n] = frames[n]
    BY <1>4 DEF Resumes, Like
  <1>6. Ordered(frames, slot)
    BY OrderIs DEF Scoped, Sound
  <1>7. Shrinks(frames, frames', s)
    <2>1. ASSUME NEW n \in Nat, NEW i \in Nat, In(frames', n, i)
          PROVE  In(frames, n, i) /\ frames'[n].blocks[i] = frames[n].blocks[i]
                 /\ frames[n].blocks[i].start <= s
      <3>1. In(frames, n, i) /\ frames'[n].blocks[i] = frames[n].blocks[i] /\ Later(n, i, N, L)
        <4>1. CASE n = N
          <5>1. i \in 1 .. L - 1
            BY <2>1, <4>1, <1>5 DEF In
          <5>2. i \in 1 .. L /\ i < L
            BY <5>1, <1>1
          <5> QED
            BY <4>1, <5>1, <5>2, <1>1, <1>4, <1>5, RunningIn DEF Later
        <4>2. CASE n # N
          <5>1. n \in 1 .. N /\ frames'[n] = frames[n] /\ n < N
            BY <2>1, <4>2, <1>1, <1>5 DEF In
          <5> QED
            BY <5>1, <2>1 DEF In, Later
        <4> QED
          BY <4>1, <4>2
      <3>2. In(frames, N, L)
        BY <1>2, RunningIn
      <3> QED
        BY <3>1, <3>2, <1>1, <1>3, <1>6 DEF Ordered
    <2>2. ASSUME NEW n \in Nat, NEW i \in Nat, In(frames, n, i), frames[n].blocks[i].start < s
          PROVE  In(frames', n, i)
      <3>1. CASE n = N
        <4>1. i \in 1 .. L
          BY <2>2, <3>1, <1>1 DEF In
        <4>2. i # L
          <5>1. ~(s < s)
            BY <1>3
          <5> QED
            BY <5>1, <2>2, <3>1, <1>1, <1>3
        <4>3. i \in 1 .. L - 1 /\ N \in 1 .. N
          BY <4>1, <4>2, <1>1
        <4> QED
          BY <4>3, <3>1, <1>5 DEF In
      <3>2. CASE n # N
        BY <2>2, <3>2, <1>5 DEF In
      <3> QED
        BY <3>1, <3>2
    <2> QED
      BY <2>1, <2>2 DEF Shrinks
  <1>8. Sheds(s)
    <2> DEFINE emitted == Last(Blocks).hasupval \/ Last(Blocks).later
    <2>1. Close(emitted, s)
      BY DEF EndBlock
    <2>2. ASSUME ~emitted, NEW u \in Up, IsOpen(upval, u) PROVE Pos(upval, stack, u) < s
      <3>1. SUFFICES ASSUME s <= Pos(upval, stack, u) PROVE FALSE
        <4>1. Pos(upval, stack, u) \in Nat
          BY <2>2, PositionIs DEF Accounted, Placed
        <4> QED
          BY <4>1, <1>3
      <3>2. PICK i \in L .. L : Blocks[i].hasupval
        BY <1>2, <1>3, <2>2, <3>1, MarkedAbove DEF Scoped
      <3>3. i = L
        BY <1>1, <3>2
      <3> QED
        BY <3>2, <3>3, <2>2, <1>3
    <2> HIDE DEF emitted
    <2> QED
      BY <2>1, <2>2, <1>3, ShedsIs
  <1>9. slot' = Cleared(s) /\ UNCHANGED <<stack, closure>>
    BY DEF EndBlock
  <1> HIDE DEF s
  <1> QED
    BY <1>3, <1>5, <1>7, <1>8, <1>9, LeaveScopes DEF ScopedThen

\* Back to the head of a loop.
LEMMA NextScopes ==
    ASSUME Sound, Accounted, Scoped, Plain, NextIteration
    PROVE  ScopedThen
  <1> DEFINE N == Len(frames)
             L == Len(Blocks)
             s == Last(Blocks).start
  <1>1. N \in Nat /\ N >= 1 /\ L \in Nat /\ Blocks = frames[N].blocks
    BY RunningIn
  <1>2. L \in 1 .. L /\ s = Blocks[L].start /\ Last(Blocks) = Blocks[L] /\ s \in 0 .. StackSize /\ s \in Nat
    BY LastIs, ClosuresAssumption
  <1>3. PICK bs : /\ Resumes(frames', bs) /\ Like(bs, Blocks, L)
                  /\ \A i \in 1 .. L : bs[i] = Blocks[i]
    BY NextResumes
  <1>4. Framed(frames') /\ Len(frames') = N /\ frames'[N].blocks = bs /\ Len(bs) = L
        /\ \A n \in 1 .. N : n # N => frames'[n] = frames[n]
    BY <1>3 DEF Resumes, Like
  <1>5. Ordered(frames, slot)
    BY OrderIs DEF Scoped, Sound
  <1>6. ASSUME NEW n \in Nat, NEW i \in Nat
        PROVE  /\ In(frames', n, i) <=> In(frames, n, i)
               /\ In(frames, n, i) => /\ frames'[n].blocks[i] = frames[n].blocks[i]
                                      /\ frames[n].blocks[i].start <= s
    <2>1. In(frames', n, i) <=> In(frames, n, i)
      <3>1. CASE n = N
        BY <3>1, <1>1, <1>4 DEF In
      <3>2. CASE n # N
        BY <3>2, <1>4 DEF In
      <3> QED
        BY <3>1, <3>2
    <2>2. ASSUME In(frames, n, i)
          PROVE  frames'[n].blocks[i] = frames[n].blocks[i] /\ frames[n].blocks[i].start <= s
      <3>1. In(frames, N, L)
        BY <1>2, RunningIn
      <3>2. CASE n = N
        <4>1. i \in 1 .. L
          BY <2>2, <3>2, <1>1 DEF In
        <4>2. frames[n].blocks[i].start <= s
          <5>1. CASE i = L
            BY <5>1, <3>2, <1>1, <1>2
          <5>2. CASE i # L
            <6>1. Later(n, i, N, L)
              BY <5>2, <4>1, <3>2, <1>1 DEF Later
            <6> QED
              BY <6>1, <2>2, <3>1, <1>1, <1>2, <1>5 DEF Ordered
          <5> QED
            BY <5>1, <5>2
        <4> QED
          BY <4>1, <4>2, <3>2, <1>1, <1>3, <1>4
      <3>3. CASE n # N
        <4>1. n \in 1 .. N /\ n < N
          BY <2>2, <3>3, <1>1 DEF In
        <4>2. Later(n, i, N, L)
          BY <4>1 DEF Later
        <4> QED
          BY <4>1, <4>2, <2>2, <3>1, <3>3, <1>1, <1>2, <1>4, <1>5 DEF Ordered
      <3> QED
        BY <3>2, <3>3
    <2> QED
      BY <2>1, <2>2
  <1>7. Shrinks(frames, frames', s)
    BY <1>6 DEF Shrinks
  <1>8. Sheds(s)
    <2> DEFINE emitted == Last(Blocks).hasupval \/ Last(Blocks).later
    <2>1. Close(emitted, s)
      BY DEF NextIteration
    <2>2. ASSUME ~emitted, NEW u \in Up, IsOpen(upval, u) PROVE Pos(upval, stack, u) < s
      <3>1. SUFFICES ASSUME s <= Pos(upval, stack, u) PROVE FALSE
        <4>1. Pos(upval, stack, u) \in Nat
          BY <2>2, PositionIs DEF Accounted, Placed
        <4> QED
          BY <4>1, <1>2
      <3>2. PICK i \in L .. L : Blocks[i].hasupval
        BY <1>2, <2>2, <3>1, MarkedAbove DEF Scoped
      <3>3. i = L
        BY <1>1, <3>2
      <3> QED
        BY <3>2, <3>3, <2>2, <1>2
    <2> HIDE DEF emitted
    <2> QED
      BY <2>1, <2>2, <1>2, ShedsIs
  <1>9. slot' = Cleared(s) /\ UNCHANGED <<stack, closure>>
    BY DEF NextIteration
  <1> HIDE DEF s
  <1> QED
    BY <1>2, <1>4, <1>7, <1>8, <1>9, LeaveScopes DEF ScopedThen

\* The end of a function: all its blocks are left.
LEMMA ReturnScopes ==
    ASSUME Sound, Accounted, Scoped, Plain, Return
    PROVE  ScopedThen
  <1> DEFINE N == Len(frames)
             s == Base
  <1>1. N \in Nat /\ N >= 1 /\ Len(Blocks) \in Nat /\ Len(Blocks) >= 1 /\ Blocks = frames[N].blocks
    BY RunningIn
  <1>2. s = Blocks[1].start /\ s \in 0 .. StackSize /\ s \in Nat /\ 1 \in 1 .. Len(Blocks)
    BY <1>1, FrameIs, ClosuresAssumption
  <1>3. /\ Framed(frames') /\ Len(frames') = N - 1
        /\ \A n \in 1 .. N - 1 : frames'[n] = frames[n]
    BY ReturnFrames
  <1>4. Ordered(frames, slot)
    BY OrderIs DEF Scoped, Sound
  <1>5. In(frames, N, 1)
    BY <1>2, RunningIn
  <1>6. ASSUME NEW n \in Nat, NEW i \in Nat, In(frames', n, i)
        PROVE  In(frames, n, i) /\ frames'[n].blocks[i] = frames[n].blocks[i]
               /\ frames[n].blocks[i].start <= s
    <2>1. n \in 1 .. N - 1
      BY <1>3, <1>6 DEF In
    <2>2. n \in 1 .. N /\ frames'[n] = frames[n] /\ Later(n, i, N, 1)
      BY <2>1, <1>1, <1>3 DEF Later
    <2>3. In(frames, n, i)
      BY <2>2, <1>6 DEF In
    <2> QED
      BY <2>2, <2>3, <1>1, <1>2, <1>4, <1>5 DEF Ordered
  <1>7. ASSUME NEW n \in Nat, NEW i \in Nat, In(frames, n, i), frames[n].blocks[i].start < s
        PROVE  In(frames', n, i)
    <2>1. n # N
      <3>1. SUFFICES ASSUME n = N PROVE FALSE
        OBVIOUS
      <3>2. i \in 1 .. Len(Blocks)
        BY <1>1, <1>7, <3>1 DEF In
      <3>3. i = 1 \/ Later(N, 1, N, i)
        BY <3>2 DEF Later
      <3>4. s <= Blocks[i].start
        <4>1. CASE i = 1
          BY <4>1, <1>2
        <4>2. CASE Later(N, 1, N, i)
          <5>1. In(frames, N, i)
            BY <1>7, <3>1
          <5> QED
            BY <5>1, <4>2, <1>1, <1>2, <1>4, <1>5 DEF Ordered
        <4> QED
          BY <3>3, <4>1, <4>2
      <3>5. Blocks[i].start \in Nat
        BY <3>2, LastIs, ClosuresAssumption
      <3> QED
        BY <3>1, <3>4, <3>5, <1>1, <1>2, <1>7
    <2>2. n \in 1 .. N - 1
      BY <2>1, <1>1, <1>7 DEF In
    <2>3. frames'[n] = frames[n]
      BY <2>2, <1>3
    <2> QED
      BY <2>2, <2>3, <1>3, <1>7 DEF In
  <1>8. Shrinks(frames, frames', s)
    BY <1>6, <1>7 DEF Shrinks
  <1>9. Sheds(s)
    <2> DEFINE emitted == \E i \in DOMAIN Blocks : Blocks[i].hasupval
    <2>1. Close(emitted, s)
      BY DEF Return
    <2>2. ASSUME ~emitted, NEW u \in Up, IsOpen(upval, u) PROVE Pos(upval, stack, u) < s
      <3>1. SUFFICES ASSUME s <= Pos(upval, stack, u) PROVE FALSE
        <4>1. Pos(upval, stack, u) \in Nat
          BY <2>2, PositionIs DEF Accounted, Placed
        <4> QED
          BY <4>1, <1>2
      <3>2. PICK i \in 1 .. Len(Blocks) : Blocks[i].hasupval
        BY <1>2, <2>2, <3>1, MarkedAbove DEF Scoped
      <3> QED
        BY <3>2, <2>2, LastIs
    <2> HIDE DEF emitted
    <2> QED
      BY <2>1, <2>2, <1>2, ShedsIs
  <1>10. slot' = Cleared(s) /\ UNCHANGED <<stack, closure>>
    BY DEF Return
  <1> HIDE DEF s
  <1> QED
    BY <1>2, <1>3, <1>8, <1>9, <1>10, LeaveScopes DEF ScopedThen

----------------------------------------------------------------------------
(* The other steps of such a program. *)

\* A fresh variable: no slot, no closure and so no upvalue has it.
LEMMA DeclareScopes ==
    ASSUME Sound, Accounted, Scoped, Plain, NEW v \in Var, Declare(v)
    PROVE  ScopedThen
  <1> DEFINE t == Top
  <1>1. /\ slot[t] = NONE /\ t \in Position /\ slot' = [slot EXCEPT ![t] = v] /\ Depth(slot') = t + 1
        /\ Depth(slot) = t /\ t \in Nat
    BY DeclareStacked, TopIs
  <1> HIDE DEF t
  <1>2. UNCHANGED <<stack, frames, closure, upval, upvalist>> /\ ~InUse(v)
    BY DEF Declare
  <1>3. \A p \in Position : slot'[p] = IF p = t THEN v ELSE slot[p]
    BY <1>1 DEF Sound, Stacked
  <1>4. \A p \in Position : slot[p] # v
    BY <1>2 DEF InUse
  <1>5. Orderly(frames', slot')
    <2>1. Ordered(frames, slot)
      BY OrderIs DEF Sound, Scoped
    <2>2. ASSUME NEW n \in Nat, NEW i \in Nat, In(frames, n, i)
          PROVE  frames[n].blocks[i].start <= t + 1
      <3>1. frames[n].blocks[i].start <= t /\ frames[n].blocks[i].start \in Nat
        BY <2>1, <2>2, <1>1, InIs DEF Ordered, Sound
      <3> QED
        BY <3>1, <1>1
    <2>3. Ordered(frames, slot')
      BY <2>1, <2>2, <1>1 DEF Ordered
    <2> QED
      BY <2>3, <1>2, OrderIs DEF Sound
  <1>6. ASSUME NEW u \in Up, IsOpen(upval, u)
        PROVE  /\ Pos(upval, stack, u) \in Position /\ Pos(upval, stack, u) < t
               /\ slot'[Pos(upval, stack, u)] = slot[Pos(upval, stack, u)]
               /\ Marked(frames, Pos(upval, stack, u))
    <2>1. Pos(upval, stack, u) \in Position
      BY <1>6 DEF Accounted, Placed
    <2>2. Pos(upval, stack, u) \in Nat
      BY <2>1, PositionIs
    <2>3. Pos(upval, stack, u) < t /\ Marked(frames, Pos(upval, stack, u))
      BY <1>1, <1>6 DEF Scoped, Emitted
    <2> QED
      BY <2>1, <2>2, <2>3, <1>1, <1>3
  <1>7. Emitted(upval', stack', slot', frames')
    <2>1. ASSUME NEW u \in Up, IsOpen(upval, u)
          PROVE  Pos(upval, stack, u) < t + 1 /\ Marked(frames, Pos(upval, stack, u))
      <3>1. Pos(upval, stack, u) \in Nat
        BY <1>6, <2>1, PositionIs
      <3> QED
        BY <3>1, <1>1, <1>6, <2>1
    <2> QED
      BY <2>1, <1>1, <1>2 DEF Emitted
  <1>8. Meant(upval', stack', slot', closure')
    <2>1. ASSUME NEW c \in Clo, closure[c] # NONE, NEW i \in 1 .. Len(closure[c].upvals)
          PROVE  Leads(upval, stack, slot', closure[c].upvals[i], closure[c].vars[i])
      <3> DEFINE u == closure[c].upvals[i]
                 x == closure[c].vars[i]
      <3>1. u \in Up /\ upval[u] # NONE
        BY <2>1, HeldThere
      <3>2. Leads(upval, stack, slot, u, x)
        BY <2>1 DEF Scoped, Meant
      <3> HIDE DEF u, x
      <3>3. CASE Open(upval[u].value)
        <4>1. IsOpen(upval, u)
          BY <3>1, <3>3 DEF IsOpen
        <4> QED
          BY <4>1, <3>1, <3>2, <3>3, <1>6 DEF Leads, u, x
      <3>4. CASE ~Open(upval[u].value)
        BY <3>2, <3>4 DEF Leads, u, x
      <3> QED
        BY <3>3, <3>4
    <2> QED
      BY <2>1, <1>2 DEF Meant
  <1>9. ASSUME NEW u \in Up, upval[u] # NONE, ~Open(upval[u].value)
        PROVE  upval[u].value.var # v
    <2>1. upval[u].refcnt # 0 /\ upval[u].refcnt = Cardinality(Held(closure, u))
      BY <1>9 DEF Accounted, Counted
    <2>2. Held(closure, u) # {}
      BY <2>1, HeldFinite
    <2>3. PICK c \in Clo, i \in 1 .. MaxUpvals :
            closure[c] # NONE /\ i \in DOMAIN closure[c].upvals /\ closure[c].upvals[i] = u
      BY <2>2 DEF Held
    <2>4. ClosureIs(closure, c)
      BY <2>3, ClosureHas DEF Sound
    <2>5. i \in 1 .. Len(closure[c].upvals) /\ i \in DOMAIN closure[c].vars
      BY <2>3, <2>4 DEF ClosureIs
    <2>6. upval[u].value.var = closure[c].vars[i]
      BY <2>3, <2>5, <1>9 DEF Scoped, Meant, Leads
    <2>7. closure[c].vars[i] \in Range(closure[c].vars)
      BY <2>5 DEF Range
    <2> QED
      BY <2>3, <2>6, <2>7, <1>2 DEF InUse
  <1>10. Apart(upval', slot')
    <2>1. ASSUME NEW p \in Position, NEW q \in Position, slot'[p] # NONE, slot'[p] = slot'[q]
          PROVE  p = q
      BY <2>1, <1>3, <1>4 DEF Scoped, Apart
    <2>2. ASSUME NEW u \in Up, upval[u] # NONE, ~Open(upval[u].value), NEW p \in Position, slot'[p] # NONE
          PROVE  slot'[p] # upval[u].value.var
      BY <2>2, <1>3, <1>9 DEF Scoped, Apart
    <2> QED
      BY <2>1, <2>2, <1>2 DEF Apart
  <1> QED
    BY <1>5, <1>7, <1>8, <1>10 DEF ScopedThen

\* There are new blocks, after the others, that begin at the top of the stack.
Adds(fr, new) ==
    /\ \A n, i \in Nat : In(fr, n, i) => In(new, n, i) /\ new[n].blocks[i] = fr[n].blocks[i]
    /\ \A n, i \in Nat : In(new, n, i) /\ ~In(fr, n, i) =>
         /\ new[n].blocks[i].start = Top /\ ~new[n].blocks[i].later
         /\ \A m, j \in Nat : In(fr, m, j) => Later(m, j, n, i)

LEMMA AddScopes ==
    ASSUME Sound, Accounted, Scoped, Plain, Framed(frames'), Adds(frames, frames'),
           UNCHANGED <<stack, slot, closure, upval, upvalist>>
    PROVE  ScopedThen
  <1> DEFINE t == Top
  <1>1. t \in Nat /\ Depth(slot) = t
    BY TopIs
  <1>2. Ordered(frames, slot)
    BY OrderIs DEF Sound, Scoped
  <1>3. ASSUME NEW n \in Nat, NEW i \in Nat, In(frames', n, i), ~In(frames, n, i)
        PROVE  /\ frames'[n].blocks[i].start = t /\ ~frames'[n].blocks[i].later
               /\ \A m, j \in Nat : In(frames, m, j) => Later(m, j, n, i)
    BY <1>3 DEF Adds
  <1> HIDE DEF t
  <1>4. \A n, i \in Nat : In(frames, n, i) => In(frames', n, i) /\ frames'[n].blocks[i] = frames[n].blocks[i]
    BY DEF Adds
  <1>5. ASSUME NEW n \in Nat, NEW i \in Nat, In(frames', n, i)
        PROVE  ~frames'[n].blocks[i].later /\ frames'[n].blocks[i].start <= t
               /\ frames'[n].blocks[i].start \in Nat
    <2>1. CASE In(frames, n, i)
      BY <2>1, <1>1, <1>2, <1>4, InIs DEF Ordered, Sound
    <2>2. CASE ~In(frames, n, i)
      BY <2>2, <1>1, <1>3, <1>5
    <2> QED
      BY <2>1, <2>2
  <1>6. ASSUME NEW n \in Nat, NEW i \in Nat, NEW m \in Nat, NEW j \in Nat,
               In(frames', n, i), In(frames', m, j), Later(n, i, m, j)
        PROVE  frames'[n].blocks[i].start <= frames'[m].blocks[j].start
    <2>1. CASE In(frames, m, j)
      <3>1. In(frames, n, i)
        <4>1. SUFFICES ASSUME ~In(frames, n, i) PROVE FALSE
          OBVIOUS
        <4>2. Later(m, j, n, i)
          BY <4>1, <2>1, <1>3, <1>6
        <4> QED
          BY <4>2, <1>6 DEF Later
      <3> QED
        BY <3>1, <2>1, <1>2, <1>4, <1>6 DEF Ordered
    <2>2. CASE ~In(frames, m, j)
      BY <2>2, <1>3, <1>5, <1>6
    <2> QED
      BY <2>1, <2>2
  <1>7. Orderly(frames', slot')
    <2>1. Ordered(frames', slot)
      BY <1>1, <1>5, <1>6 DEF Ordered
    <2> QED
      BY <2>1, OrderIs
  <1>8. ASSUME NEW u \in Up, IsOpen(upval, u)
        PROVE  Marked(frames', Pos(upval, stack, u))
    <2> DEFINE p == Pos(upval, stack, u)
    <2>1. p < t /\ Marked(frames, p)
      BY <1>1, <1>8 DEF Scoped, Emitted
    <2> HIDE DEF p
    <2>2. PICK n \in Nat, i \in Nat : Inner(frames, n, i, p)
      BY <2>1, MarkedIs DEF Sound
    <2>3. In(frames, n, i) /\ In(frames', n, i) /\ frames'[n].blocks[i] = frames[n].blocks[i]
      BY <2>2, <1>4 DEF Inner
    <2>4. ASSUME NEW m \in Nat, NEW j \in Nat, In(frames', m, j), Later(n, i, m, j)
          PROVE  p < frames'[m].blocks[j].start
      <3>1. CASE In(frames, m, j)
        BY <3>1, <2>2, <2>4, <1>4 DEF Inner
      <3>2. CASE ~In(frames, m, j)
        BY <3>2, <2>1, <2>4, <1>3
      <3> QED
        BY <3>1, <3>2
    <2>5. Inner(frames', n, i, p)
      BY <2>2, <2>3, <2>4 DEF Inner
    <2> QED
      BY <2>5, MarkedIs DEF p
  <1>9. Emitted(upval', stack', slot', frames')
    BY <1>8 DEF Scoped, Emitted
  <1> QED
    BY <1>7, <1>9 DEF Scoped, ScopedThen, Meant, Apart

LEMMA EnterScopes ==
    ASSUME Sound, Accounted, Scoped, Plain, NEW kind \in {"plain", "loop", "try"}, EnterBlock(kind)
    PROVE  ScopedThen
  <1> DEFINE N == Len(frames)
             L == Len(Blocks)
             b == Block(Top, kind)
             bs == Append(Blocks, b)
  <1>1. N \in Nat /\ N >= 1 /\ L \in Nat /\ Blocks = frames[N].blocks
    BY RunningIn
  <1>2. Resumes(frames', bs) /\ Len(bs) = L + 1 /\ bs[L + 1] = b /\ \A i \in 1 .. L : bs[i] = Blocks[i]
    BY EnterResumes
  <1>3. b.start = Top /\ ~b.later
    BY TopBlock
  <1> HIDE DEF bs, b
  <1>4. Framed(frames') /\ Len(frames') = N /\ frames'[N].blocks = bs
        /\ \A n \in 1 .. N : n # N => frames'[n] = frames[n]
    BY <1>2 DEF Resumes
  <1>5. ASSUME NEW n \in Nat, NEW i \in Nat, In(frames, n, i)
        PROVE  In(frames', n, i) /\ frames'[n].blocks[i] = frames[n].blocks[i]
    <2>1. CASE n = N
      <3>1. i \in 1 .. L
        BY <2>1, <1>1, <1>5 DEF In
      <3>2. i \in 1 .. L + 1 /\ n \in 1 .. N
        BY <3>1, <2>1, <1>1
      <3> QED
        BY <3>1, <3>2, <2>1, <1>1, <1>2, <1>4 DEF In
    <2>2. CASE n # N
      BY <2>2, <1>4, <1>5 DEF In
    <2> QED
      BY <2>1, <2>2
  <1>6. ASSUME NEW n \in Nat, NEW i \in Nat, In(frames', n, i), ~In(frames, n, i)
        PROVE  /\ frames'[n].blocks[i].start = Top /\ ~frames'[n].blocks[i].later
               /\ \A m, j \in Nat : In(frames, m, j) => Later(m, j, n, i)
    <2>1. n = N
      BY <1>4, <1>6 DEF In
    <2>2. i \in 1 .. L + 1 /\ i \notin 1 .. L
      BY <2>1, <1>1, <1>2, <1>4, <1>6 DEF In
    <2>3. i = L + 1
      BY <2>2, <1>1
    <2>4. ASSUME NEW m \in Nat, NEW j \in Nat, In(frames, m, j) PROVE Later(m, j, n, i)
      <3>1. m \in 1 .. N
        BY <2>4 DEF In
      <3>2. CASE m = N
        <4>1. j \in 1 .. L
          BY <3>2, <2>4, <1>1 DEF In
        <4> QED
          BY <4>1, <3>2, <2>1, <2>3, <1>1 DEF Later
      <3>3. CASE m # N
        BY <3>1, <3>3, <2>1, <1>1 DEF Later
      <3> QED
        BY <3>2, <3>3
    <2> QED
      BY <2>1, <2>3, <2>4, <1>2, <1>3, <1>4
  <1>7. Adds(frames, frames')
    BY <1>5, <1>6 DEF Adds
  <1> QED
    BY <1>4, <1>7, AddScopes DEF EnterBlock

LEMMA CallScopes ==
    ASSUME Sound, Accounted, Scoped, Plain, NEW c \in Clo, Call(c)
    PROVE  ScopedThen
  <1> DEFINE N == Len(frames)
             b == Block(Top, "func")
  <1>1. N \in Nat /\ N >= 1
    BY RunningIn
  <1>2. /\ Framed(frames') /\ Len(frames') = N + 1
        /\ \A n \in 1 .. N : frames'[n] = frames[n]
        /\ frames'[N + 1].blocks = <<b>>
    BY CallFrames
  <1>3. b.start = Top /\ ~b.later
    BY TopBlock
  <1> HIDE DEF b
  <1>4. ASSUME NEW n \in Nat, NEW i \in Nat, In(frames, n, i)
        PROVE  In(frames', n, i) /\ frames'[n].blocks[i] = frames[n].blocks[i]
    <2>1. n \in 1 .. N /\ n \in 1 .. N + 1
      BY <1>1, <1>4 DEF In
    <2> QED
      BY <2>1, <1>2, <1>4 DEF In
  <1>5. ASSUME NEW n \in Nat, NEW i \in Nat, In(frames', n, i), ~In(frames, n, i)
        PROVE  /\ frames'[n].blocks[i].start = Top /\ ~frames'[n].blocks[i].later
               /\ \A m, j \in Nat : In(frames, m, j) => Later(m, j, n, i)
    <2>1. n = N + 1
      <3>1. n \in 1 .. N + 1
        BY <1>2, <1>5 DEF In
      <3>2. n \notin 1 .. N
        BY <1>2, <1>5 DEF In
      <3> QED
        BY <3>1, <3>2, <1>1
    <2>2. i = 1
      <3>1. i \in 1 .. Len(<<b>>)
        BY <2>1, <1>2, <1>5 DEF In
      <3> QED
        BY <3>1
    <2>3. ASSUME NEW m \in Nat, NEW j \in Nat, In(frames, m, j) PROVE Later(m, j, n, i)
      BY <2>1, <2>3, <1>1 DEF In, Later
    <2> QED
      BY <2>1, <2>2, <2>3, <1>2, <1>3
  <1>6. Adds(frames, frames')
    BY <1>4, <1>5 DEF Adds
  <1> QED
    BY <1>2, <1>6, AddScopes DEF Call

\* A closure that is freed takes nothing from the others.
LEMMA FreeScopes ==
    ASSUME Sound, Accounted, Scoped, Plain, NEW c \in Clo, FreeClosure(c)
    PROVE  ScopedThen
  <1>1. UNCHANGED <<stack, slot, frames, upvalist>>
    BY DEF FreeClosure
  <1>2. closure \in [Clo -> ClosureType \cup {NONE}] /\ closure' = [closure EXCEPT ![c] = NONE]
    BY DEF Sound, Closures, FreeClosure
  <1>3. \A x \in Clo : closure'[x] # NONE => closure[x] # NONE /\ closure'[x] = closure[x]
    BY <1>2
  <1>4. ASSUME NEW u \in Up
        PROVE  /\ IsOpen(upval', u) <=> IsOpen(upval, u)
               /\ upval'[u] # NONE => upval[u] # NONE /\ upval'[u].value = upval[u].value
               /\ IsOpen(upval', u) => Pos(upval', stack, u) = Pos(upval, stack, u)
    BY FreeOpens DEF IsOpen, Pos
  <1>5. Orderly(frames', slot') /\ Emitted(upval', stack', slot', frames')
    BY <1>1, <1>4 DEF Scoped, Emitted
  <1>6. ASSUME NEW x \in Clo, closure'[x] # NONE, NEW i \in 1 .. Len(closure'[x].upvals)
        PROVE  Leads(upval', stack, slot, closure'[x].upvals[i], closure'[x].vars[i])
    <2> DEFINE u == closure[x].upvals[i]
               v == closure[x].vars[i]
    <2>1. closure[x] # NONE /\ closure'[x] = closure[x]
      BY <1>3, <1>6
    <2>2. u \in Up /\ Leads(upval, stack, slot, u, v)
      BY <2>1, <1>6, HeldThere DEF Scoped, Meant
    <2>3. <<x, i>> \in Held(closure', u)
      <3>1. <<x, i>> \in Held(closure, u)
        BY <2>1, <1>6, HeldThere
      <3> QED
        BY <3>1, <2>1, <1>6 DEF Held
    <2>4. upval'[u] # NONE
      <3>1. Accounted'
        BY FreeAccounts
      <3>2. Counted(upval', closure')
        BY <3>1 DEF Accounted
      <3> QED
        BY <3>2, <2>2, <2>3 DEF Counted
    <2> HIDE DEF u, v
    <2>5. upval'[u].value = upval[u].value
      BY <2>2, <2>4, <1>4
    <2>6. Leads(upval', stack, slot, u, v)
      BY <2>2, <2>5 DEF Leads, Pos
    <2> QED
      BY <2>1, <2>6 DEF u, v
  <1>7. Meant(upval', stack', slot', closure')
    BY <1>1, <1>6 DEF Meant
  <1>8. Apart(upval', slot')
    BY <1>1, <1>4 DEF Scoped, Apart
  <1> QED
    BY <1>5, <1>7, <1>8 DEF ScopedThen

\* The open upvalues follow the stack.
LEMMA ResizeScopes ==
    ASSUME Sound, Accounted, Scoped, Plain, NEW new \in Addr, StackResize(new)
    PROVE  ScopedThen
  <1>1. UNCHANGED <<slot, frames, closure, upvalist>>
    BY DEF StackResize
  <1>2. ASSUME NEW u \in Up
        PROVE  /\ IsOpen(upval', u) <=> IsOpen(upval, u)
               /\ IsOpen(upval, u) => Pos(upval', stack', u) = Pos(upval, stack, u)
               /\ upval'[u] = NONE <=> upval[u] = NONE
               /\ ~IsOpen(upval, u) => upval'[u] = upval[u]
    BY ResizeOpens, ResizeIs DEF ResizeEffect
  <1>3. Orderly(frames', slot') /\ Emitted(upval', stack', slot', frames')
    BY <1>1, <1>2 DEF Scoped, Emitted
  <1>4. ASSUME NEW c \in Clo, closure[c] # NONE, NEW i \in 1 .. Len(closure[c].upvals)
        PROVE  Leads(upval', stack', slot, closure[c].upvals[i], closure[c].vars[i])
    <2> DEFINE u == closure[c].upvals[i]
               v == closure[c].vars[i]
    <2>1. u \in Up /\ upval[u] # NONE /\ Leads(upval, stack, slot, u, v)
      BY <1>4, HeldThere DEF Scoped, Meant
    <2> HIDE DEF u, v
    <2>2. CASE IsOpen(upval, u)
      <3>1. slot[Pos(upval, stack, u)] = v
        BY <2>1, <2>2 DEF Leads, IsOpen
      <3>2. Open(upval'[u].value) /\ Pos(upval', stack', u) = Pos(upval, stack, u)
        BY <2>1, <2>2, <1>2 DEF IsOpen
      <3> QED
        BY <3>1, <3>2 DEF Leads, u, v
    <2>3. CASE ~IsOpen(upval, u)
      <3>1. upval'[u] = upval[u] /\ ~Open(upval[u].value)
        BY <2>1, <2>3, <1>2 DEF IsOpen
      <3> QED
        BY <3>1, <2>1 DEF Leads, u, v
    <2> QED
      BY <2>2, <2>3
  <1>5. Meant(upval', stack', slot', closure')
    BY <1>1, <1>4 DEF Meant
  <1>6. Apart(upval', slot')
    <2>1. ASSUME NEW u \in Up, upval'[u] # NONE, ~Open(upval'[u].value)
          PROVE  upval[u] # NONE /\ ~Open(upval[u].value) /\ upval'[u] = upval[u]
      BY <2>1, <1>2 DEF IsOpen
    <2> QED
      BY <2>1, <1>1 DEF Scoped, Apart
  <1> QED
    BY <1>3, <1>5, <1>6 DEF ScopedThen

\* What an upvalue was that is there after a closure is made.
LEMMA MadeUpval ==
    ASSUME Sound, Accounted, NEW c \in Clo, NEW descs, NEW n \in Nat, NEW s, Made(c, descs, n, s), NEW u \in Up
    PROVE  /\ upval[u] # NONE => /\ upval'[u] # NONE /\ upval'[u].value = upval[u].value
                                 /\ IsOpen(upval', u) <=> IsOpen(upval, u)
                                 /\ Pos(upval', stack, u) = Pos(upval, stack, u)
           /\ upval[u] = NONE /\ upval'[u] # NONE =>
                \E j \in 1 .. n : /\ descs[j].instack /\ s.made[j] = u /\ IsOpen(upval', u)
                                  /\ Pos(upval', stack, u) = descs[j].idx
  <1>1. FoldInv(s, descs, n, n) /\ upval' = s.up
    BY DEF Made
  <1>2. ASSUME upval[u] # NONE
        PROVE  /\ upval'[u] # NONE /\ upval'[u].value = upval[u].value
               /\ IsOpen(upval', u) <=> IsOpen(upval, u)
               /\ Pos(upval', stack, u) = Pos(upval, stack, u)
    <2>1. upval'[u] # NONE /\ upval'[u].value = upval[u].value
      BY <1>1, <1>2 DEF FoldInv
    <2> QED
      BY <2>1, <1>2 DEF IsOpen, Pos
  <1>3. ASSUME upval[u] = NONE, upval'[u] # NONE
        PROVE  \E j \in 1 .. n : /\ descs[j].instack /\ s.made[j] = u /\ IsOpen(upval', u)
                                 /\ Pos(upval', stack, u) = descs[j].idx
    <2>1. PICK j \in 1 .. n : descs[j].instack /\ s.made[j] = u
      BY <1>1, <1>3 DEF FoldInv
    <2>2. IsOpen(upval', u) /\ Pos(upval', stack, u) = descs[j].idx
      BY <2>1, <1>1 DEF FoldInv
    <2> QED
      BY <2>1, <2>2
  <1> QED
    BY <1>2, <1>3

\* What the upvalues of the new closure are.
LEMMA MadeEntry ==
    ASSUME Sound, Accounted, NEW c \in Clo, NEW descs, NEW n \in Nat, NEW s, Made(c, descs, n, s), NEW i \in 1 .. n
    PROVE  /\ DescIs(descs[i]) /\ s.made[i] \in Up
           /\ descs[i].instack => /\ IsOpen(upval', s.made[i]) /\ Pos(upval', stack, s.made[i]) = descs[i].idx
                                  /\ closure'[c].vars[i] = slot[descs[i].idx]
           /\ ~descs[i].instack => /\ s.made[i] = closure[Frame.func].upvals[descs[i].idx]
                                   /\ closure'[c].vars[i] = closure[Frame.func].vars[descs[i].idx]
  <1>1. FoldInv(s, descs, n, n) /\ upval' = s.up /\ Captures(descs, n)
        /\ closure'[c].vars[i] = Captured(descs[i])
    BY DEF Made
  <1>2. DescIs(descs[i])
    BY <1>1 DEF Captures
  <1>3. s.made[i] \in Up
    BY <1>1 DEF FoldInv, Ready
  <1>4. /\ descs[i].instack => IsOpen(upval', s.made[i]) /\ Pos(upval', stack, s.made[i]) = descs[i].idx
        /\ ~descs[i].instack => s.made[i] = closure[Frame.func].upvals[descs[i].idx]
    BY <1>1 DEF FoldInv
  <1> QED
    BY <1>1, <1>2, <1>3, <1>4 DEF Captured

\* The blocks are where they were, and some more are marked.
LEMMA MarksIn ==
    ASSUME Sound, NEW descs, NEW n \in Nat, NEW bs, Marks(descs, n, bs), Resumes(frames', bs),
           NEW m \in Nat, NEW j \in Nat
    PROVE  /\ In(frames', m, j) <=> In(frames, m, j)
           /\ In(frames, m, j) =>
                /\ frames'[m].blocks[j].start = frames[m].blocks[j].start
                /\ frames'[m].blocks[j].later = frames[m].blocks[j].later
                /\ frames[m].blocks[j].hasupval => frames'[m].blocks[j].hasupval
  <1> DEFINE N == Len(frames)
  <1>1. N \in Nat /\ N >= 1 /\ Len(Blocks) \in Nat /\ Blocks = frames[N].blocks
    BY RunningIn
  <1>2. Len(frames') = N /\ frames'[N].blocks = bs /\ Len(bs) = Len(Blocks)
        /\ \A x \in 1 .. N : x # N => frames'[x] = frames[x]
    BY DEF Resumes, Marks, Like
  <1>3. CASE m = N
    <2>1. In(frames', m, j) <=> In(frames, m, j)
      BY <1>1, <1>2, <1>3 DEF In
    <2>2. ASSUME In(frames, m, j)
          PROVE  /\ bs[j].start = Blocks[j].start /\ bs[j].later = Blocks[j].later
                 /\ Blocks[j].hasupval => bs[j].hasupval
      <3>1. j \in 1 .. Len(Blocks)
        BY <2>2, <1>1, <1>3 DEF In
      <3> QED
        BY <3>1 DEF Marks, Like
    <2> QED
      BY <2>1, <2>2, <1>1, <1>2, <1>3
  <1>4. CASE m # N
    BY <1>2, <1>4 DEF In
  <1> QED
    BY <1>3, <1>4

LEMMA CaptureScopes ==
    ASSUME Sound, Accounted, Scoped, Plain, NEW c \in Clo, NEW descs \in Descs, Capture(c, descs)
    PROVE  ScopedThen
  <1>1. PICK n \in Nat : \E s : Made(c, descs, n, s)
    BY CaptureIs
  <1>2. PICK s : Made(c, descs, n, s)
    BY <1>1
  <1>3. Captures(descs, n)
    BY <1>2 DEF Made
  <1>4. PICK bs : Marks(descs, n, bs) /\ Resumes(frames', bs)
    BY <1>3, CaptureMarks
  <1>5. Framed(frames')
    BY <1>4 DEF Resumes
  <1>6. stack' = stack /\ slot' = slot
    BY DEF Capture
  <1>7. ASSUME NEW m \in Nat, NEW j \in Nat
        PROVE  /\ In(frames', m, j) <=> In(frames, m, j)
               /\ In(frames, m, j) =>
                    /\ frames'[m].blocks[j].start = frames[m].blocks[j].start
                    /\ frames'[m].blocks[j].later = frames[m].blocks[j].later
                    /\ frames[m].blocks[j].hasupval => frames'[m].blocks[j].hasupval
    BY <1>4, MarksIn
  <1>8. Orderly(frames', slot')
    <2>1. Ordered(frames, slot)
      BY OrderIs DEF Sound, Scoped
    <2>2. Ordered(frames', slot)
      BY <2>1, <1>7 DEF Ordered
    <2> QED
      BY <2>2, <1>5, <1>6, OrderIs
  <1>9. ASSUME NEW u \in Up, IsOpen(upval', u)
        PROVE  Pos(upval', stack, u) < Depth(slot) /\ Marked(frames', Pos(upval', stack, u))
    <2> DEFINE p == Pos(upval', stack, u)
    <2>1. CASE upval[u] # NONE
      <3>1. IsOpen(upval, u) /\ p = Pos(upval, stack, u)
        BY <1>2, <1>9, <2>1, MadeUpval
      <3>2. p < Depth(slot) /\ Marked(frames, p)
        BY <3>1 DEF Scoped, Emitted
      <3> HIDE DEF p
      <3>3. PICK m \in Nat, i \in Nat : Inner(frames, m, i, p)
        BY <3>2, MarkedIs DEF Sound
      <3>4. Inner(frames', m, i, p)
        BY <3>3, <1>7 DEF Inner
      <3> QED
        BY <3>2, <3>4, <1>5, MarkedIs DEF p
    <2>2. CASE upval[u] = NONE
      <3>1. upval'[u] # NONE
        BY <1>9 DEF IsOpen
      <3>2. PICK j \in 1 .. n : descs[j].instack /\ p = descs[j].idx
        BY <1>2, <2>2, <3>1, MadeUpval
      <3>3. DescIs(descs[j])
        BY <1>3 DEF Captures
      <3>4. p < Depth(slot)
        BY <3>2, <3>3, TopIs DEF DescIs
      <3>5. PICK i \in 1 .. Len(Blocks) : Home(i, p) /\ bs[i].hasupval
        BY <1>4, <3>2 DEF Marks
      <3> DEFINE N == Len(frames)
      <3>6. N \in Nat /\ i \in Nat /\ In(frames, N, i) /\ Blocks = frames[N].blocks
            /\ frames'[N].blocks = bs /\ Len(Blocks) \in Nat
        <4>1. N \in Nat /\ In(frames, N, i) /\ Blocks = frames[N].blocks /\ Len(Blocks) \in Nat
          BY RunningIn
        <4>2. frames'[N].blocks = bs
          BY <1>4 DEF Resumes
        <4> QED
          BY <4>1, <4>2
      <3> HIDE DEF p
      <3>7. In(frames', N, i) /\ frames'[N].blocks[i].hasupval /\ frames'[N].blocks[i].start <= p
        BY <1>7, <3>5, <3>6 DEF Home
      <3>8. ASSUME NEW m \in Nat, NEW k \in Nat, In(frames', m, k), Later(N, i, m, k)
            PROVE  p < frames'[m].blocks[k].start
        <4>1. In(frames, m, k) /\ frames'[m].blocks[k].start = frames[m].blocks[k].start
          BY <1>7, <3>8
        <4>2. m = N /\ i < k
          BY <3>6, <3>8, <4>1 DEF Later, In
        <4>3. k \in i + 1 .. Len(Blocks)
          BY <3>6, <4>1, <4>2 DEF In
        <4>4. Blocks[k].start > p
          BY <3>5, <4>3 DEF Home
        <4>5. k \in 1 .. Len(Blocks)
          BY <3>6, <4>1, <4>2 DEF In
        <4>6. Blocks[k].start \in Nat /\ p \in Nat
          <5>1. Blocks[k].start \in 0 .. StackSize /\ StackSize \in Nat
            BY <4>5, LastIs, ClosuresAssumption
          <5>2. p \in Position
            BY <3>2, <3>3 DEF DescIs
          <5> QED
            BY <5>1, <5>2, PositionIs
        <4> QED
          BY <4>1, <4>2, <4>4, <4>6, <3>6
      <3>9. Inner(frames', N, i, p)
        BY <3>7, <3>8 DEF Inner
      <3>10. Marked(frames', p)
        BY <3>6, <3>9, <1>5, MarkedIs
      <3> QED
        BY <3>4, <3>10 DEF p
    <2> QED
      BY <2>1, <2>2
  <1>10. Emitted(upval', stack', slot', frames')
    BY <1>6, <1>9 DEF Emitted
  <1>11. ASSUME NEW x \in Clo, closure[x] # NONE, NEW i \in 1 .. Len(closure[x].upvals)
         PROVE  Leads(upval', stack, slot, closure[x].upvals[i], closure[x].vars[i])
    <2> DEFINE u == closure[x].upvals[i]
               v == closure[x].vars[i]
    <2>1. u \in Up /\ upval[u] # NONE /\ Leads(upval, stack, slot, u, v)
      BY <1>11, HeldThere DEF Scoped, Meant
    <2> HIDE DEF u, v
    <2>2. upval'[u].value = upval[u].value /\ Pos(upval', stack, u) = Pos(upval, stack, u)
      BY <2>1, <1>2, MadeUpval
    <2> QED
      BY <2>1, <2>2 DEF Leads, u, v
  <1>12. ASSUME NEW x \in Clo, closure'[x] # NONE, NEW i \in 1 .. Len(closure'[x].upvals)
         PROVE  Leads(upval', stack, slot, closure'[x].upvals[i], closure'[x].vars[i])
    <2>1. CASE x # c
      <3>1. closure'[x] = closure[x]
        BY <2>1, <1>2 DEF Made
      <3> QED
        BY <3>1, <1>11, <1>12
    <2>2. CASE x = c
      <3>1. closure'[c].upvals = s.made /\ i \in 1 .. n
        BY <2>2, <1>2, <1>12 DEF Made
      <3>2. /\ DescIs(descs[i])
            /\ descs[i].instack => /\ IsOpen(upval', s.made[i]) /\ Pos(upval', stack, s.made[i]) = descs[i].idx
                                   /\ closure'[c].vars[i] = slot[descs[i].idx]
            /\ ~descs[i].instack => /\ s.made[i] = closure[Frame.func].upvals[descs[i].idx]
                                    /\ closure'[c].vars[i] = closure[Frame.func].vars[descs[i].idx]
        BY <1>2, <3>1, MadeEntry
      <3>3. CASE descs[i].instack
        BY <2>2, <3>1, <3>2, <3>3 DEF Leads, IsOpen
      <3>4. CASE ~descs[i].instack
        <4>1. Frame.func \in Clo /\ closure[Frame.func] # NONE
          BY FrameIs
        <4>2. descs[i].idx \in 1 .. Len(closure[Frame.func].upvals)
          BY <3>2, <3>4 DEF DescIs
        <4>3. Leads(upval', stack, slot, closure[Frame.func].upvals[descs[i].idx],
                    closure[Frame.func].vars[descs[i].idx])
          BY <4>1, <4>2, <1>11
        <4> QED
          BY <4>3, <2>2, <3>1, <3>2, <3>4
      <3> QED
        BY <3>3, <3>4
    <2> QED
      BY <2>1, <2>2
  <1>13. Meant(upval', stack', slot', closure')
    BY <1>6, <1>12 DEF Meant
  <1>14. Apart(upval', slot')
    <2>1. ASSUME NEW u \in Up, upval'[u] # NONE, ~Open(upval'[u].value)
          PROVE  upval[u] # NONE /\ ~Open(upval[u].value) /\ upval'[u].value = upval[u].value
      <3>1. upval[u] # NONE
        <4>1. SUFFICES ASSUME upval[u] = NONE PROVE FALSE
          OBVIOUS
        <4>2. IsOpen(upval', u)
          BY <4>1, <2>1, <1>2, MadeUpval
        <4> QED
          BY <4>2, <2>1 DEF IsOpen
      <3>2. upval'[u].value = upval[u].value
        BY <3>1, <1>2, MadeUpval
      <3> QED
        BY <3>1, <3>2, <2>1
    <2> QED
      BY <2>1, <1>6 DEF Scoped, Apart
  <1> QED
    BY <1>8, <1>10, <1>13, <1>14 DEF ScopedThen

LEMMA ScopedStep ==
    ASSUME Sound, Accounted, Scoped, Next
    PROVE  Scoped'
  <1>0. program' = program /\ Step
    BY DEF Next
  <1>1. Plain' <=> Plain
    BY <1>0 DEF Plain
  <1> SUFFICES ASSUME Plain PROVE ScopedThen
    BY <1>1 DEF Scoped, ScopedThen
  <1>2. \A k : ~Break(k) /\ ~Continue(k)
    BY DEF Break, Continue, Plain
  <1>3. ~Raise
    BY DEF Raise, Plain
  <1> QED
    BY <1>0, <1>2, <1>3, DeclareScopes, EnterScopes, EndScopes, NextScopes, ReturnScopes, CallScopes,
       FreeScopes, CaptureScopes, ResizeScopes DEF Step

----------------------------------------------------------------------------
(* A variable has one upvalue when captures go up the stack. *)

LEMMA CloseDescends ==
    ASSUME Sound, Accounted, NEW s \in Nat, CloseEffect(s), Descending(upval, upvalist)
    PROVE  Descending(upval', upvalist')
  <1> DEFINE I == BelowAt(stack + s)
  <1>1. Sublist(upvalist', upvalist, I)
    BY DEF CloseEffect
  <1>2. I \subseteq 1 .. Len(upvalist)
    BY DEF BelowAt
  <1>3. Listed(upval', upvalist')
    BY CloseLists
  <1> HIDE DEF I
  <1>4. ASSUME NEW i \in 1 .. Len(upvalist') PROVE upval'[upvalist'[i]] = upval[upvalist'[i]]
    <2>1. upvalist'[i] \in Up /\ IsOpen(upval', upvalist'[i])
      BY <1>3 DEF Listed
    <2> QED
      BY <2>1, CloseOpens
  <1>5. ASSUME NEW i \in 1 .. Len(upvalist'), NEW j \in 1 .. Len(upvalist'), i < j
        PROVE  upval'[upvalist'[j]].value.addr < upval'[upvalist'[i]].value.addr
    <2>1. PICK m \in I, l \in I : m < l /\ upvalist'[i] = upvalist[m] /\ upvalist'[j] = upvalist[l]
      BY <1>1, <1>5 DEF Sublist
    <2>2. m \in 1 .. Len(upvalist) /\ l \in 1 .. Len(upvalist)
      BY <1>2
    <2>3. upval[upvalist[l]].value.addr < upval[upvalist[m]].value.addr
      BY <2>1, <2>2 DEF Descending
    <2> QED
      BY <2>1, <2>3, <1>4
  <1> QED
    BY <1>5 DEF Descending

LEMMA ClosedDescends ==
    ASSUME Sound, Accounted, NEW from \in 0 .. StackSize, NEW emitted, Close(emitted, from),
           Descending(upval, upvalist)
    PROVE  Descending(upval', upvalist')
  <1>1. from \in Nat
    BY ClosuresAssumption
  <1>2. CASE emitted
    BY <1>1, <1>2, CloseIs, CloseDescends DEF Close
  <1>3. CASE ~emitted
    BY <1>3 DEF Close
  <1> QED
    BY <1>2, <1>3

LEMMA ResizeDescends ==
    ASSUME Sound, Accounted, NEW new \in Addr, StackResize(new), Descending(upval, upvalist)
    PROVE  Descending(upval', upvalist')
  <1>1. upvalist' = upvalist /\ new \in Nat /\ stack \in Nat
    BY ClosuresAssumption DEF StackResize, Sound, Stacked
  <1>2. ASSUME NEW i \in 1 .. Len(upvalist)
        PROVE  /\ Pos(upval, stack, upvalist[i]) \in Nat
               /\ upval[upvalist[i]].value.addr = stack + Pos(upval, stack, upvalist[i])
               /\ upval'[upvalist[i]].value.addr = new + Pos(upval, stack, upvalist[i])
    <2> DEFINE u == upvalist[i]
    <2>1. u \in Up /\ IsOpen(upval, u)
      BY DEF Accounted, Listed
    <2> HIDE DEF u
    <2>2. upval[u].value.addr = stack + Pos(upval, stack, u) /\ Pos(upval, stack, u) \in Nat
      BY <2>1, UpvalIs, PositionIs DEF Sound, Stacked, Accounted, IsOpen
    <2>3. upval'[u].value = At(new + Pos(upval, stack, u))
      BY <2>1, ResizeIs DEF ResizeEffect
    <2>4. upval'[u].value.addr = new + Pos(upval, stack, u)
      BY <2>3 DEF At
    <2> QED
      BY <2>2, <2>4 DEF u
  <1>3. ASSUME NEW i \in 1 .. Len(upvalist), NEW j \in 1 .. Len(upvalist), i < j
        PROVE  upval'[upvalist[j]].value.addr < upval'[upvalist[i]].value.addr
    <2>1. upval[upvalist[j]].value.addr < upval[upvalist[i]].value.addr
      BY <1>3 DEF Descending
    <2> QED
      BY <2>1, <1>1, <1>2
  <1> QED
    BY <1>1, <1>3 DEF Descending

\* What a new closure has: the open upvalue of a local, or an upvalue of another
\* closure.
Ofstack(u, v) ==
    /\ u \in Up /\ IsOpen(upval', u) /\ Pos(upval', stack, u) \in Position
    /\ v # NONE /\ slot[Pos(upval', stack, u)] = v
Ofclosure(u, v) ==
    \E d \in Clo : /\ closure[d] # NONE
                   /\ \E k \in 1 .. Len(closure[d].upvals) : u = closure[d].upvals[k] /\ v = closure[d].vars[k]

LEMMA CaptureUnique ==
    ASSUME Sound, Accounted, Scoped, Plain, NEW c \in Clo, NEW descs, NEW n \in Nat, NEW s,
           Made(c, descs, n, s), Descending(upval', upvalist'), Listed(upval', upvalist'),
           Placed(upval', stack), Unique(closure)
    PROVE  Unique(closure')
  <1>1. ASSUME NEW x \in Clo, closure'[x] # NONE, NEW i \in 1 .. Len(closure'[x].upvals)
        PROVE  \/ Ofstack(closure'[x].upvals[i], closure'[x].vars[i])
               \/ Ofclosure(closure'[x].upvals[i], closure'[x].vars[i])
    <2>1. CASE x # c
      <3>1. closure'[x] = closure[x]
        BY <2>1 DEF Made
      <3> QED
        BY <3>1, <1>1 DEF Ofclosure
    <2>2. CASE x = c
      <3>1. closure'[c].upvals = s.made /\ i \in 1 .. n
        BY <2>2, <1>1 DEF Made
      <3>2. /\ DescIs(descs[i]) /\ s.made[i] \in Up
            /\ descs[i].instack => /\ IsOpen(upval', s.made[i]) /\ Pos(upval', stack, s.made[i]) = descs[i].idx
                                   /\ closure'[c].vars[i] = slot[descs[i].idx]
            /\ ~descs[i].instack => /\ s.made[i] = closure[Frame.func].upvals[descs[i].idx]
                                    /\ closure'[c].vars[i] = closure[Frame.func].vars[descs[i].idx]
        BY <3>1, MadeEntry
      <3>3. CASE descs[i].instack
        <4>1. descs[i].idx \in Position /\ slot[descs[i].idx] # NONE
          BY <3>2, <3>3 DEF DescIs
        <4> QED
          BY <4>1, <2>2, <3>1, <3>2, <3>3 DEF Ofstack
      <3>4. CASE ~descs[i].instack
        <4>1. Frame.func \in Clo /\ closure[Frame.func] # NONE
          BY FrameIs
        <4>2. descs[i].idx \in 1 .. Len(closure[Frame.func].upvals)
          BY <3>2, <3>4 DEF DescIs
        <4> QED
          BY <4>1, <4>2, <2>2, <3>1, <3>2, <3>4 DEF Ofclosure
      <3> QED
        BY <3>3, <3>4
    <2> QED
      BY <2>1, <2>2
  <1>2. ASSUME NEW u, NEW w, NEW v, Ofstack(u, v), Ofstack(w, v) PROVE u = w
    <2>1. Pos(upval', stack, u) = Pos(upval', stack, w)
      BY <1>2 DEF Ofstack, Scoped, Apart
    <2>2. PICK i \in 1 .. Len(upvalist') : upvalist'[i] = u
      BY <1>2 DEF Ofstack, Listed
    <2>3. PICK j \in 1 .. Len(upvalist') : upvalist'[j] = w
      BY <1>2 DEF Ofstack, Listed
    <2>4. ASSUME NEW x, Ofstack(x, v)
          PROVE  upval'[x].value.addr = stack + Pos(upval', stack, x) /\ upval'[x].value.addr \in Nat
      <3>1. x \in Up /\ IsOpen(upval', x)
        BY <2>4 DEF Ofstack
      <3>2. Upvals(upval')
        BY DEF Made, FoldInv, Ready
      <3>3. upval'[x] \in UpvalType
        BY <3>1, <3>2 DEF Upvals, IsOpen
      <3>4. upval'[x].value \in Value
        BY <3>3 DEF UpvalType
      <3>5. upval'[x].value.addr \in Nat
        BY <3>1, <3>4, OpenValue DEF IsOpen
      <3>6. stack \in Nat
        BY ClosuresAssumption DEF Sound, Stacked
      <3> QED
        BY <3>5, <3>6 DEF Pos
    <2>5. upval'[u].value.addr = upval'[w].value.addr /\ upval'[u].value.addr \in Nat
      BY <2>1, <2>4, <1>2
    <2>6. i = j \/ i < j \/ j < i
      OBVIOUS
    <2>7. ~(i < j) /\ ~(j < i)
      <3>1. ~(upval'[u].value.addr < upval'[w].value.addr) /\ ~(upval'[w].value.addr < upval'[u].value.addr)
        BY <2>5
      <3> QED
        BY <3>1, <2>2, <2>3 DEF Descending
    <2> QED
      BY <2>2, <2>3, <2>6, <2>7
  <1>3. ASSUME NEW u, NEW w, NEW v, Ofclosure(u, v), Ofclosure(w, v) PROVE u = w
    <2>1. PICK d \in Clo : closure[d] # NONE /\
            \E k \in 1 .. Len(closure[d].upvals) : u = closure[d].upvals[k] /\ v = closure[d].vars[k]
      BY <1>3 DEF Ofclosure
    <2>2. PICK k \in 1 .. Len(closure[d].upvals) : u = closure[d].upvals[k] /\ v = closure[d].vars[k]
      BY <2>1
    <2>3. PICK e \in Clo : closure[e] # NONE /\
            \E l \in 1 .. Len(closure[e].upvals) : w = closure[e].upvals[l] /\ v = closure[e].vars[l]
      BY <1>3 DEF Ofclosure
    <2>4. PICK l \in 1 .. Len(closure[e].upvals) : w = closure[e].upvals[l] /\ v = closure[e].vars[l]
      BY <2>3
    <2>5. closure[d] # NONE /\ closure[e] # NONE
      BY <2>1, <2>3
    <2>6. closure[d].vars[k] = closure[e].vars[l]
      BY <2>2, <2>4
    <2>7. closure[d].upvals[k] = closure[e].upvals[l]
      BY <2>5, <2>6 DEF Unique
    <2> QED
      BY <2>2, <2>4, <2>7
  <1>4. ASSUME NEW u, NEW w, NEW v, Ofstack(u, v), Ofclosure(w, v) PROVE u = w
    <2>1. PICK d \in Clo : closure[d] # NONE /\
            \E k \in 1 .. Len(closure[d].upvals) : w = closure[d].upvals[k] /\ v = closure[d].vars[k]
      BY <1>4 DEF Ofclosure
    <2>2. PICK k \in 1 .. Len(closure[d].upvals) : w = closure[d].upvals[k] /\ v = closure[d].vars[k]
      BY <2>1
    <2>3. w \in Up /\ upval[w] # NONE /\ Leads(upval, stack, slot, w, v)
      BY <2>1, <2>2, HeldThere DEF Scoped, Meant
    <2>4. Open(upval[w].value)
      <3>1. SUFFICES ASSUME ~Open(upval[w].value) PROVE FALSE
        OBVIOUS
      <3>2. upval[w].value.var = v
        BY <3>1, <2>3 DEF Leads
      <3> QED
        BY <3>1, <3>2, <2>3, <1>4 DEF Ofstack, Scoped, Apart
    <2>5. IsOpen(upval, w) /\ slot[Pos(upval, stack, w)] = v
      BY <2>3, <2>4 DEF IsOpen, Leads
    <2>6. IsOpen(upval', w) /\ Pos(upval', stack, w) = Pos(upval, stack, w)
      BY <2>3, <2>5, MadeUpval
    <2>7. Pos(upval', stack, w) \in Position
      BY <2>3, <2>6 DEF Placed
    <2>8. Ofstack(w, v)
      BY <2>3, <2>5, <2>6, <2>7, <1>4 DEF Ofstack
    <2> QED
      BY <2>8, <1>2, <1>4
  <1>5. ASSUME NEW x \in Clo, NEW y \in Clo, closure'[x] # NONE, closure'[y] # NONE,
               NEW i \in 1 .. Len(closure'[x].upvals), NEW j \in 1 .. Len(closure'[y].upvals),
               closure'[x].vars[i] = closure'[y].vars[j]
        PROVE  closure'[x].upvals[i] = closure'[y].upvals[j]
    <2>1. \/ Ofstack(closure'[x].upvals[i], closure'[x].vars[i])
          \/ Ofclosure(closure'[x].upvals[i], closure'[x].vars[i])
      BY <1>1, <1>5
    <2>2. \/ Ofstack(closure'[y].upvals[j], closure'[x].vars[i])
          \/ Ofclosure(closure'[y].upvals[j], closure'[x].vars[i])
      BY <1>1, <1>5
    <2> QED
      BY <2>1, <2>2, <1>2, <1>3, <1>4
  <1> QED
    BY <1>5 DEF Unique

LEMMA JoinedStep ==
    ASSUME Sound, Accounted, Scoped, Joined, Next
    PROVE  Joined'
  <1>0. program' = program /\ Step
    BY DEF Next
  <1>1. Plain' <=> Plain
    BY <1>0 DEF Plain
  <1> SUFFICES ASSUME Plain, program.ordered
               PROVE  Descending(upval', upvalist') /\ Unique(closure')
    BY <1>0, <1>1 DEF Joined
  <1>2. Descending(upval, upvalist) /\ Unique(closure)
    BY DEF Joined
  <1>3. \A k : ~Break(k) /\ ~Continue(k)
    BY DEF Break, Continue, Plain
  <1>4. ~Raise
    BY DEF Raise, Plain
  <1>5. ASSUME UNCHANGED <<closure, upval, upvalist>>
        PROVE  Descending(upval', upvalist') /\ Unique(closure')
    BY <1>2, <1>5
  <1>6. ASSUME EndBlock PROVE Descending(upval', upvalist') /\ Unique(closure')
    BY <1>2, <1>6, LastIs, ClosedDescends DEF EndBlock
  <1>7. ASSUME NextIteration PROVE Descending(upval', upvalist') /\ Unique(closure')
    BY <1>2, <1>7, LastIs, ClosedDescends DEF NextIteration
  <1>8. ASSUME Return PROVE Descending(upval', upvalist') /\ Unique(closure')
    BY <1>2, <1>8, FrameIs, ClosedDescends DEF Return
  <1>9. ASSUME NEW c \in Clo, FreeClosure(c) PROVE Descending(upval', upvalist') /\ Unique(closure')
    <2>1. upvalist' = upvalist
      BY <1>9 DEF FreeClosure
    <2>2. closure \in [Clo -> ClosureType \cup {NONE}] /\ closure' = [closure EXCEPT ![c] = NONE]
      BY <1>9 DEF Sound, Closures, FreeClosure
    <2>3. \A x \in Clo : closure'[x] # NONE => closure[x] # NONE /\ closure'[x] = closure[x]
      BY <2>2
    <2>4. Unique(closure')
      BY <2>3, <1>2 DEF Unique
    <2>5. ASSUME NEW i \in 1 .. Len(upvalist) PROVE upval'[upvalist[i]].value = upval[upvalist[i]].value
      <3>1. upvalist[i] \in Up /\ IsOpen(upval, upvalist[i])
        BY DEF Accounted, Listed
      <3>2. upval'[upvalist[i]] # NONE
        BY <3>1, <1>9, FreeOpens DEF IsOpen
      <3> QED
        BY <3>1, <3>2, <1>9, FreeOpens
    <2> QED
      BY <2>1, <2>4, <2>5, <1>2 DEF Descending
  <1>10. ASSUME NEW c \in Clo, NEW descs \in Descs, Capture(c, descs)
         PROVE  Descending(upval', upvalist') /\ Unique(closure')
    <2>1. PICK n \in Nat : \E s : Made(c, descs, n, s)
      BY <1>10, CaptureIs
    <2>2. PICK s : Made(c, descs, n, s)
      BY <2>1
    <2>3. FoldInv(s, descs, n, n) /\ upval' = s.up /\ upvalist' = s.list
      BY <2>2 DEF Made
    <2>4. Descending(upval', upvalist') /\ Listed(upval', upvalist') /\ Placed(upval', stack)
      BY <2>3, <1>2 DEF FoldInv, Ready
    <2>5. Unique(closure')
      BY <2>2, <2>4, <1>2, CaptureUnique
    <2> QED
      BY <2>4, <2>5
  <1>11. ASSUME NEW new \in Addr, StackResize(new)
         PROVE  Descending(upval', upvalist') /\ Unique(closure')
    BY <1>2, <1>11, ResizeDescends DEF StackResize
  <1>12. ASSUME NEW v \in Var, Declare(v) PROVE Descending(upval', upvalist') /\ Unique(closure')
    BY <1>5, <1>12 DEF Declare
  <1>13. ASSUME NEW kind, EnterBlock(kind) PROVE Descending(upval', upvalist') /\ Unique(closure')
    BY <1>5, <1>13 DEF EnterBlock
  <1>14. ASSUME NEW c \in Clo, Call(c) PROVE Descending(upval', upvalist') /\ Unique(closure')
    BY <1>5, <1>14 DEF Call
  <1> QED
    BY <1>0, <1>3, <1>4, <1>6, <1>7, <1>8, <1>9, <1>10, <1>11, <1>12, <1>13, <1>14 DEF Step

----------------------------------------------------------------------------
(* The invariant, and what it says. *)

LEMMA NextInv == ClosuresInv /\ [Next]_vars => ClosuresInv'
  <1> SUFFICES ASSUME ClosuresInv, [Next]_vars PROVE ClosuresInv'
    OBVIOUS
  <1>1. Sound /\ Accounted /\ Scoped /\ Joined
    BY DEF ClosuresInv
  <1>2. CASE Next
    BY <1>1, <1>2, SoundStep, AccountedStep, ScopedStep, JoinedStep DEF ClosuresInv
  <1>3. CASE UNCHANGED vars
    BY <1>1, <1>3 DEF ClosuresInv, vars, Sound, Accounted, Scoped, Joined, Plain
  <1> QED
    BY <1>2, <1>3

\* The stack, the blocks, the closures, the list of open upvalues and their
\* counters fit together in every state (be_func.c).
THEOREM ClosuresKept == Spec => []ClosuresInv
  <1>1. Init => ClosuresInv
    BY InitInv
  <1>2. ClosuresInv /\ [Next]_vars => ClosuresInv'
    BY NextInv
  <1> QED
    BY <1>1, <1>2, PTL DEF Spec

\* What the variables hold.
LEMMA Typed == ClosuresInv => TypeOK
  <1> SUFFICES ASSUME ClosuresInv PROVE TypeOK
    OBVIOUS
  <1>1. Sound /\ Accounted
    BY DEF ClosuresInv
  <1>2. program \in Programs /\ stack \in Addr /\ slot \in [Position -> Var \cup {NONE}]
    BY <1>1 DEF Sound, Stacked
  <1>3. upval \in [Up -> [value : Value, refcnt : Nat] \cup {NONE}] /\ upvalist \in Seq(Up)
    BY <1>1 DEF Accounted, Upvals, UpvalType, Listed
  <1>4. ASSUME NEW c \in Clo, closure[c] # NONE
        PROVE  closure[c].upvals \in Seq(Up) /\ closure[c].vars \in Seq(Var)
    BY <1>1, <1>4, ClosureHas DEF ClosureIs, Sound
  <1>5. ASSUME NEW n \in DOMAIN frames PROVE closure[frames[n].func] # NONE
    <2>1. frames \in Seq(FrameType)
      BY <1>1 DEF Sound, Framed
    <2> QED
      BY <2>1, <1>1 DEF Sound, Running
  <1> QED
    BY <1>2, <1>3, <1>4, <1>5 DEF TypeOK

\* Every variable of the model keeps to its type.
THEOREM TypesKept == Spec => []TypeOK
  <1>1. ClosuresInv => TypeOK
    BY Typed
  <1> QED
    BY <1>1, ClosuresKept, PTL

LEMMA Reaches == ClosuresInv => Lexical
  <1> SUFFICES ASSUME ClosuresInv, Plain, NEW c \in Clo, closure[c] # NONE,
                      NEW i \in DOMAIN closure[c].upvals
               PROVE  Denotes(c, i) = closure[c].vars[i]
    BY DEF Lexical
  <1> DEFINE u == closure[c].upvals[i]
             v == closure[c].vars[i]
  <1>1. Sound /\ Accounted /\ Scoped
    BY DEF ClosuresInv
  <1>2. i \in 1 .. Len(closure[c].upvals)
    BY <1>1, ClosureHas DEF ClosureIs, Sound
  <1>3. u \in Up /\ upval[u] # NONE
    BY <1>1, <1>2, HeldThere
  <1>4. Leads(upval, stack, slot, u, v)
    BY <1>1, <1>2 DEF Scoped, Meant
  <1>5. CASE Open(upval[u].value)
    <2>1. IsOpen(upval, u)
      BY <1>3, <1>5 DEF IsOpen
    <2>2. upval[u].value.addr - stack \in Position
      BY <1>1, <1>3, <2>1 DEF Accounted, Placed, Pos
    <2>3. slot[upval[u].value.addr - stack] = v
      BY <1>4, <1>5 DEF Leads, Pos
    <2> QED
      BY <2>2, <2>3, <1>3, <1>5 DEF Denotes
  <1>6. CASE ~Open(upval[u].value)
    <2>1. upval[u].value.var = v
      BY <1>4, <1>6 DEF Leads
    <2> QED
      BY <2>1, <1>3, <1>6 DEF Denotes
  <1> QED
    BY <1>5, <1>6

\* In a program that leaves its blocks at the end or by return, every closure
\* reaches the variables that it has captured (be_initupvals, be_upvals_close,
\* update_upvalues, be_code_close).
THEOREM LexicalScoping == Spec => []Lexical
  <1>1. ClosuresInv => Lexical
    BY Reaches
  <1> QED
    BY <1>1, ClosuresKept, PTL

LEMMA ListIs == ClosuresInv => ListExact
  <1> SUFFICES ASSUME ClosuresInv PROVE ListExact
    OBVIOUS
  <1>1. Listed(upval, upvalist)
    BY DEF ClosuresInv, Accounted
  <1>2. upvalist \in Seq(Up) /\ DOMAIN upvalist = 1 .. Len(upvalist) /\ Len(upvalist) \in Nat
    BY <1>1 DEF Listed
  <1>3. Range(upvalist) = {u \in Up : upval[u] # NONE /\ Open(upval[u].value)}
    <2>1. ASSUME NEW u \in Range(upvalist) PROVE u \in Up /\ IsOpen(upval, u)
      <3>1. PICK i \in 1 .. Len(upvalist) : u = upvalist[i]
        BY <1>2 DEF Range
      <3> QED
        BY <3>1, <1>1, <1>2 DEF Listed
    <2>2. ASSUME NEW u \in Up, IsOpen(upval, u) PROVE u \in Range(upvalist)
      <3>1. PICK i \in 1 .. Len(upvalist) : upvalist[i] = u
        BY <2>2, <1>1 DEF Listed
      <3> QED
        BY <3>1, <1>2 DEF Range
    <2> QED
      BY <2>1, <2>2 DEF IsOpen
  <1>4. Cardinality(Range(upvalist)) = Len(upvalist)
    <2>1. IsFiniteSet(1 .. Len(upvalist)) /\ Cardinality(1 .. Len(upvalist)) = Len(upvalist)
      <3>1. 1 \in Int /\ Len(upvalist) \in Int
        BY <1>2
      <3>2. /\ IsFiniteSet(1 .. Len(upvalist))
            /\ Cardinality(1 .. Len(upvalist)) = IF 1 > Len(upvalist) THEN 0 ELSE Len(upvalist) - 1 + 1
        BY <3>1, FS_Interval
      <3> QED
        BY <3>2, <1>2
    <2>2. \A i \in 1 .. Len(upvalist) : upvalist[i] \in Range(upvalist)
      BY <1>2 DEF Range
    <2>3. \A u \in Range(upvalist) : \E i \in 1 .. Len(upvalist) : upvalist[i] = u
      BY <1>2 DEF Range
    <2>4. \A i, j \in 1 .. Len(upvalist) : upvalist[i] = upvalist[j] => i = j
      BY <1>1 DEF Listed
    <2>5. upvalist \in Bijection(1 .. Len(upvalist), Range(upvalist))
      <3>1. upvalist \in [1 .. Len(upvalist) -> Range(upvalist)]
        BY <1>2, <2>2
      <3> QED
        BY <3>1, <2>3, <2>4 DEF Bijection, Injection, IsInjective, Surjection
    <2>6. Cardinality(Range(upvalist)) = Cardinality(1 .. Len(upvalist))
      BY <2>1, <2>5, FS_Bijection DEF ExistsBijection
    <2> QED
      BY <2>1, <2>6
  <1> QED
    BY <1>3, <1>4 DEF ListExact

LEMMA Shares == ClosuresInv => Shared
  <1> SUFFICES ASSUME ClosuresInv, Plain, program.ordered, NEW c \in Clo, NEW d \in Clo,
                      closure[c] # NONE, closure[d] # NONE,
                      NEW i \in DOMAIN closure[c].vars, NEW j \in DOMAIN closure[d].vars,
                      closure[c].vars[i] = closure[d].vars[j]
               PROVE  closure[c].upvals[i] = closure[d].upvals[j]
    BY DEF Shared
  <1>1. Sound /\ Unique(closure)
    BY DEF ClosuresInv, Joined
  <1>2. i \in 1 .. Len(closure[c].upvals) /\ j \in 1 .. Len(closure[d].upvals)
    BY <1>1, ClosureHas DEF ClosureIs, Sound
  <1> QED
    BY <1>1, <1>2 DEF Unique

LEMMA Kept == ClosuresInv => UpvaluesKept
  <1> SUFFICES ASSUME ClosuresInv PROVE UpvaluesKept
    OBVIOUS
  <1>1. Sound /\ Accounted
    BY DEF ClosuresInv
  <1>2. RefcountExact
    BY <1>1 DEF RefcountExact, Accounted, Counted, Held
  <1>3. ASSUME NEW c \in Clo, closure[c] # NONE, NEW i \in DOMAIN closure[c].upvals
        PROVE  upval[closure[c].upvals[i]] # NONE
    <2>1. i \in 1 .. Len(closure[c].upvals)
      BY <1>1, <1>3, ClosureHas DEF ClosureIs, Sound
    <2> QED
      BY <2>1, <1>1, <1>3, HeldThere
  <1> QED
    BY <1>2, <1>3, ListIs, Shares DEF UpvaluesKept, NoneFreed

\* The list of open upvalues, the counters and what is freed fit together in every
\* program, whatever way a block is left; closures of the same variable share its
\* upvalue in programs that are Plain and capture up the stack, and of the others
\* nothing is said about sharing (findupval, be_upvals_close, be_release_upvalues).
THEOREM UpvaluesAreKept == Spec => []UpvaluesKept
  <1>1. ClosuresInv => UpvaluesKept
    BY Kept
  <1> QED
    BY <1>1, ClosuresKept, PTL

=============================================================================
