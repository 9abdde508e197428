-------------------------- MODULE BerryData_proofs --------------------------
(***************************************************************************)
(* Proofs about Berry's memory, tables and arrays.                         *)
(*                                                                         *)
(* The allocator, for any objects, sizes and pools: blocks, lines and      *)
(* contents agree, the usage is exact, and memory runs out only when there *)
(* is none.                                                                *)
(*                                                                         *)
(* Maps, for any keys, hash codes and table size: the table implements a   *)
(* finite function, every walk along its links ends where it must, and an  *)
(* iterator misses no key.                                                 *)
(*                                                                         *)
(* Lists and vectors, for any elements, sizes and indices: an array that   *)
(* grows, keeps old cells and is cut implements a sequence, or a stack,    *)
(* with what each method of the class list returns.                        *)
(***************************************************************************)
EXTENDS BerryMem, BerryMap, BerryList, FiniteSetTheorems, SequenceTheorems, WellFoundedInduction, TLAPS

-----------------------------------------------------------------------------
(***************************************************************************)
(* Numbers.                                                                *)
(***************************************************************************)

\* A set of numbers that is not empty has a least one.
LEMMA Least ==
    ASSUME NEW S \in SUBSET Nat, S # {}
    PROVE  \E n \in S : \A k \in S : n <= k
  <1> DEFINE less == OpToRel(<, Nat)
  <1>1. \E n \in S : \A k \in S : <<k, n>> \notin less
    <2>1. IsWellFoundedOn(less, Nat)
      BY NatLessThanWellFounded
    <2> HIDE DEF less
    <2> QED
      BY <2>1, WFMin
  <1>2. PICK n \in S : \A k \in S : <<k, n>> \notin less
    BY <1>1
  <1>3. ASSUME NEW k \in S PROVE n <= k
    <2>1. <<k, n>> \in Nat \X Nat /\ <<k, n>> \notin {p \in Nat \X Nat : p[1] < p[2]}
      BY <1>2, Zenon DEF OpToRel
    <2> QED
      BY <2>1
  <1> QED
    BY <1>3

\* Induction up to n.
LEMMA UpTo ==
    ASSUME NEW n \in Nat, NEW P, 0 \in P,
           \A i \in 0 .. n : i < n /\ i \in P => i + 1 \in P
    PROVE  0 .. n \subseteq P
  <1> SUFFICES ASSUME (0 .. n) \ P # {} PROVE FALSE
    OBVIOUS
  <1>1. PICK m \in (0 .. n) \ P : \A k \in (0 .. n) \ P : m <= k
    <2>1. (0 .. n) \ P \in SUBSET Nat
      OBVIOUS
    <2> QED
      BY <2>1, Least
  <1>2. m - 1 \in 0 .. n /\ m - 1 \in P
    BY <1>1
  <1> QED
    BY <1>1, <1>2

Runs(f, n, S, a, g) ==
    /\ f \in [0 .. n -> S] /\ f[0] = a
    /\ \A i \in 1 .. n : f[i] = g[<<i, f[i - 1]>>]

\* Whatever a step makes of the value before, the steps up to n have a value each.
LEMMA Recursion ==
    ASSUME NEW n \in Nat, NEW S, NEW a \in S, NEW g \in [(1 .. n) \X S -> S]
    PROVE  \E f : Runs(f, n, S, a, g)
  <1> DEFINE Good(f, k) == Runs(f, k, S, a, g)
             P == {k \in 0 .. n : \E f : Good(f, k)}
  <1>1. 0 \in P
    <2>1. Good([i \in 0 .. 0 |-> a], 0)
      BY DEF Runs
    <2>2. 0 \in 0 .. n
      OBVIOUS
    <2> HIDE DEF Good
    <2> QED
      BY <2>1, <2>2
  <1>2. ASSUME NEW k \in 0 .. n, k < n, k \in P PROVE k + 1 \in P
    <2>1. PICK f : Good(f, k)
      BY <1>2
    <2> DEFINE h == [i \in 0 .. k + 1 |-> IF i = k + 1 THEN g[<<k + 1, f[k]>>] ELSE f[i]]
    <2>2. k \in 0 .. k /\ f[k] \in S /\ k + 1 \in 1 .. n
      BY <2>1, <1>2 DEF Runs
    <2>3. g[<<k + 1, f[k]>>] \in S
      BY <2>2
    <2>4. h \in [0 .. k + 1 -> S]
      <3> SUFFICES ASSUME NEW i \in 0 .. k + 1
                   PROVE  (IF i = k + 1 THEN g[<<k + 1, f[k]>>] ELSE f[i]) \in S
        OBVIOUS
      <3> QED
        BY <2>1, <2>3 DEF Runs
    <2>5. h[0] = a
      BY <2>1, <2>2 DEF Runs
    <2>6. ASSUME NEW i \in 1 .. k + 1 PROVE h[i] = g[<<i, h[i - 1]>>]
      <3>1. i - 1 \in 0 .. k /\ h[i - 1] = f[i - 1]
        BY <2>2
      <3>2. CASE i = k + 1
        BY <3>1, <3>2
      <3>3. CASE i # k + 1
        <4>1. i \in 1 .. k /\ h[i] = f[i]
          BY <3>3
        <4> QED
          BY <4>1, <3>1, <2>1 DEF Runs
      <3> QED
        BY <3>2, <3>3
    <2>7. Good(h, k + 1)
      BY <2>4, <2>5, <2>6 DEF Runs
    <2>8. k + 1 \in 0 .. n
      BY <2>2
    <2> HIDE DEF Good, h
    <2> QED
      BY <2>7, <2>8
  <1>3. 0 .. n \subseteq P
    <2> HIDE DEF P
    <2> QED
      BY <1>1, <1>2, UpTo
  <1>4. PICK f : Good(f, n)
    BY <1>3
  <1> QED
    BY <1>4

-----------------------------------------------------------------------------
(***************************************************************************)
(* Lists of pools.                                                         *)
(***************************************************************************)

Keeps(f, S, s, I) ==
    /\ f \in [0 .. Len(s) -> Seq(S)]
    /\ f[0] = <<>> /\ Kept(s, I) = f[Len(s)]
    /\ \A i \in 1 .. Len(s) : i \in I => f[i] = Append(f[i - 1], s[i])
    /\ \A i \in 1 .. Len(s) : i \notin I => f[i] = f[i - 1]

\* Kept computes its list position by position.
LEMMA KeptSteps ==
    ASSUME NEW S, NEW s \in Seq(S), NEW I
    PROVE  \E f : Keeps(f, S, s, I)
  <1> DEFINE n == Len(s)
             step(i, t) == IF i \in I THEN Append(t, s[i]) ELSE t
             g == [p \in (1 .. n) \X Seq(S) |-> step(p[1], p[2])]
             none == <<>>
             T == Seq(S)
             body(k) == [i \in 0 .. Len(s) |-> IF i = 0 THEN <<>>
                           ELSE IF i \in I THEN Append(k[i - 1], s[i]) ELSE k[i - 1]]
             K == CHOOSE k : k = body(k)
  <1>0. n \in Nat
    OBVIOUS
  <1>1. g \in [(1 .. n) \X T -> T]
    OBVIOUS
  <1>2. PICK f : /\ f \in [0 .. n -> T] /\ f[0] = none
                 /\ \A i \in 1 .. n : f[i] = g[<<i, f[i - 1]>>]
    <2>0. SUFFICES \E f : Runs(f, n, T, none, g)
      BY DEF Runs
    <2>1. none \in T
      OBVIOUS
    <2> HIDE DEF n, g, none, T
    <2> QED
      BY <1>0, <1>1, <2>1, Recursion
  <1>3. ASSUME NEW i \in 1 .. n PROVE f[i] = IF i \in I THEN Append(f[i - 1], s[i]) ELSE f[i - 1]
    <2>1. i - 1 \in 0 .. n
      BY <1>0
    <2>2. f[i - 1] \in Seq(S)
      BY <2>1, <1>2
    <2>3. g[<<i, f[i - 1]>>] = step(i, f[i - 1])
      BY <2>2
    <2> QED
      BY <1>2, <2>3
  <1>4. f = body(f)
    <2>1. ASSUME NEW i \in 0 .. n
          PROVE  f[i] = IF i = 0 THEN <<>>
                        ELSE IF i \in I THEN Append(f[i - 1], s[i]) ELSE f[i - 1]
      <3>1. CASE i = 0
        BY <3>1, <1>2
      <3>2. CASE i # 0
        <4>1. i \in 1 .. n
          BY <3>2, <1>0
        <4> QED
          BY <4>1, <3>2, <1>3
      <3> QED
        BY <3>1, <3>2
    <2>2. f = [i \in 0 .. n |-> f[i]]
      BY <1>2
    <2> QED
      BY <2>1, <2>2
  <1>5. K = body(K)
    <2> HIDE DEF body
    <2> QED
      BY <1>4, Zenon
  <1>6. Kept(s, I) = K[Len(s)]
    BY DEF Kept
  <1> HIDE DEF K
  <1>7. /\ K[0] = <<>>
        /\ \A i \in 1 .. n : K[i] = IF i \in I THEN Append(K[i - 1], s[i]) ELSE K[i - 1]
    <2>1. ASSUME NEW i \in 0 .. n
          PROVE  K[i] = IF i = 0 THEN <<>>
                        ELSE IF i \in I THEN Append(K[i - 1], s[i]) ELSE K[i - 1]
      BY <1>5
    <2>2. 0 \in 0 .. n /\ \A i \in 1 .. n : i \in 0 .. n /\ i # 0
      BY <1>0
    <2> QED
      BY <2>1, <2>2
  <1>8. \A i \in 0 .. n : K[i] \in Seq(S)
    <2> DEFINE P == {i \in 0 .. n : K[i] \in Seq(S)}
    <2>1. 0 \in P
      <3>1. K[0] \in Seq(S) /\ 0 \in 0 .. n
        BY <1>7, <1>0
      <3> QED
        BY <3>1
    <2>2. ASSUME NEW i \in 0 .. n, i < n, i \in P PROVE i + 1 \in P
      <3>1. i + 1 \in 1 .. n /\ i + 1 \in 0 .. n /\ i + 1 - 1 = i /\ K[i] \in Seq(S)
        BY <2>2, <1>0
      <3>2. K[i + 1] = IF i + 1 \in I THEN Append(K[i], s[i + 1]) ELSE K[i]
        BY <1>7, <3>1
      <3>3. s[i + 1] \in S
        BY <3>1
      <3>4. K[i + 1] \in Seq(S)
        BY <3>1, <3>2, <3>3
      <3> QED
        BY <3>1, <3>4
    <2> HIDE DEF P
    <2>4. 0 .. n \subseteq P
      BY <2>1, <2>2, <1>0, UpTo
    <2> QED
      BY <2>4 DEF P
  <1>9. K \in [0 .. n -> Seq(S)]
    BY <1>5, <1>8
  <1> QED
    BY <1>6, <1>7, <1>9 DEF Keeps

\* t has the members of s at the positions I, each once.
Picked(t, S, s, I) ==
    /\ t \in Seq(S)
    /\ \A j \in 1 .. Len(t) : \E m \in 1 .. Len(s) : m \in I /\ t[j] = s[m]
    /\ \A m \in 1 .. Len(s) : m \in I => \E j \in 1 .. Len(t) : t[j] = s[m]
    /\ \A j, k \in 1 .. Len(t) : t[j] = t[k] => j = k

\* What is kept of a list are its members at the positions to keep, each once.
LEMMA KeptIs ==
    ASSUME NEW S, NEW s \in Seq(S), NEW I,
           \A i, k \in 1 .. Len(s) : s[i] = s[k] => i = k
    PROVE  Picked(Kept(s, I), S, s, I)
  <1>a. PICK f : Keeps(f, S, s, I)
    BY KeptSteps
  <1>1. /\ f \in [0 .. Len(s) -> Seq(S)]
        /\ f[0] = <<>> /\ Kept(s, I) = f[Len(s)]
        /\ \A i \in 1 .. Len(s) : i \in I => f[i] = Append(f[i - 1], s[i])
        /\ \A i \in 1 .. Len(s) : i \notin I => f[i] = f[i - 1]
    BY <1>a DEF Keeps
  <1> DEFINE n == Len(s)
             Meant(t, i) ==
               /\ \A j \in 1 .. Len(t) : \E m \in 1 .. i : m \in I /\ t[j] = s[m]
               /\ \A m \in 1 .. i : m \in I => \E j \in 1 .. Len(t) : t[j] = s[m]
               /\ \A j, k \in 1 .. Len(t) : t[j] = t[k] => j = k
             P == {i \in 0 .. n : Meant(f[i], i)}
  <1>0. n \in Nat
    OBVIOUS
  <1>2. 0 \in P
    <2>1. f[0] = <<>> /\ Len(<<>>) = 0
      BY <1>1
    <2>2. Meant(<<>>, 0)
      OBVIOUS
    <2> QED
      BY <1>0, <2>1, <2>2
  <1>3. ASSUME NEW i \in 0 .. n, i < n, i \in P PROVE i + 1 \in P
    <2> DEFINE t == f[i]
               u == f[i + 1]
    <2>1. i + 1 \in 1 .. n /\ i + 1 - 1 = i /\ i + 1 \in 0 .. n
      BY <1>0, <1>3
    <2>2. t \in Seq(S) /\ Len(t) \in Nat
      BY <1>1
    <2>3. Meant(t, i)
      BY <1>3
    <2>4. s[i + 1] \in S
      BY <2>1
    <2>5. CASE i + 1 \in I
      <3>1. u = Append(t, s[i + 1])
        BY <1>1, <2>1, <2>5
      <3> HIDE DEF t, u
      <3>2. /\ Len(u) = Len(t) + 1 /\ u[Len(t) + 1] = s[i + 1]
            /\ \A j \in 1 .. Len(t) : u[j] = t[j]
        BY <2>2, <2>4, <3>1
      <3>3. ASSUME NEW j \in 1 .. Len(u)
            PROVE  \E m \in 1 .. i + 1 : m \in I /\ u[j] = s[m]
        <4>1. CASE j = Len(t) + 1
          BY <4>1, <3>2, <2>5
        <4>2. CASE j # Len(t) + 1
          <5>1. j \in 1 .. Len(t)
            BY <4>2, <3>2, <2>2
          <5>2. PICK m \in 1 .. i : m \in I /\ t[j] = s[m]
            BY <5>1, <2>3
          <5> QED
            BY <5>1, <5>2, <3>2
        <4> QED
          BY <4>1, <4>2
      <3>4. ASSUME NEW m \in 1 .. i + 1, m \in I
            PROVE  \E j \in 1 .. Len(u) : u[j] = s[m]
        <4>1. CASE m = i + 1
          BY <4>1, <3>2, <2>2
        <4>2. CASE m # i + 1
          <5>1. PICK j \in 1 .. Len(t) : t[j] = s[m]
            BY <4>2, <3>4, <2>3
          <5> QED
            BY <5>1, <3>2, <2>2
        <4> QED
          BY <4>1, <4>2
      <3>5. \A j \in 1 .. Len(t) : t[j] # s[i + 1]
        <4> SUFFICES ASSUME NEW j \in 1 .. Len(t), t[j] = s[i + 1] PROVE FALSE
          OBVIOUS
        <4>1. PICK m \in 1 .. i : m \in I /\ t[j] = s[m]
          BY <2>3
        <4>2. m \in 1 .. Len(s) /\ m # i + 1
          BY <2>1
        <4> QED
          BY <4>1, <4>2, <2>1
      <3>6. ASSUME NEW j \in 1 .. Len(u), NEW k \in 1 .. Len(u), u[j] = u[k] PROVE j = k
        BY <3>6, <3>5, <3>2, <2>2, <2>3
      <3>7. Meant(u, i + 1)
        BY <3>3, <3>4, <3>6
      <3> QED
        BY <3>7, <2>1 DEF u
    <2>6. CASE i + 1 \notin I
      <3>1. u = t
        BY <1>1, <2>1, <2>6
      <3> HIDE DEF t
      <3>2. Meant(t, i + 1)
        BY <2>3, <2>6
      <3> HIDE DEF Meant
      <3> QED
        BY <3>1, <3>2, <2>1
    <2> QED
      BY <2>5, <2>6
  <1>4. 0 .. n \subseteq P
    <2> HIDE DEF P
    <2> QED
      BY <1>0, <1>2, <1>3, UpTo
  <1>5. Meant(f[n], n) /\ f[n] \in Seq(S)
    <2>1. n \in 0 .. n
      BY <1>0
    <2> QED
      BY <1>4, <2>1, <1>1
  <1> QED
    BY <1>1, <1>5 DEF Picked

-----------------------------------------------------------------------------
(***************************************************************************)
(* Pools and the blocks on their lines.  A block is a place and a size.    *)
(***************************************************************************)

Classes == {16, 32}

PoolType == [id : 1 .. HeapMax, free : SUBSET (0 .. 31)]

IdsDiffer(pool) ==
    \A c, d \in Classes : \A i, k : i \in 1 .. Len(pool[c]) /\ k \in 1 .. Len(pool[d]) =>
       (pool[c][i].id = pool[d][k].id => c = d /\ i = k)

LinesThere(pool) ==
    \A c \in Classes : \A i \in 1 .. Len(pool[c]) : pool[c][i].free \subseteq 0 .. Slots[c] - 1

\* Lists of pools that are all different.
PoolsOK(pool) == pool \in [Classes -> Seq(PoolType)] /\ IdsDiffer(pool) /\ LinesThere(pool)

\* The same pools, of which the one at i has other free lines.
Changed(p, q, c, i, lines) ==
    /\ \A d \in Classes : \A k : k \in 1 .. Len(q[d]) <=> k \in 1 .. Len(p[d])
    /\ \A d \in Classes : \A k \in 1 .. Len(p[d]) :
          /\ q[d][k].id = p[d][k].id
          /\ q[d][k].free = IF d = c /\ k = i THEN lines ELSE p[d][k].free

\* A line of the pool at i is used.
Used(pool, c, i, line) == line \in 0 .. Slots[c] - 1 /\ line \notin pool[c][i].free

\* The line of a small block is used; a large one has a place of its own.
BlocksPlaced(pool, B) ==
    /\ \A b \in B : Small(b[2]) =>
          \E i \in 1 .. Len(pool[Class(b[2])]) :
             pool[Class(b[2])][i].id = b[1][1] /\ Used(pool, Class(b[2]), i, b[1][2])
    /\ \A b \in B : ~Small(b[2]) =>
          /\ b[1][2] = 0
          /\ \A c \in Classes : \A i \in 1 .. Len(pool[c]) : pool[c][i].id # b[1][1]

\* A line that is used is a block's.
LinesOwned(pool, B) ==
    \A c \in Classes : \A i \in 1 .. Len(pool[c]) : \A line : Used(pool, c, i, line) =>
       \E b \in B : Small(b[2]) /\ Class(b[2]) = c /\ b[1] = <<pool[c][i].id, line>>

BlockType == (Nat \X Nat) \X (Nat \ {0})

Layout(pool, B) ==
    /\ B \subseteq BlockType
    /\ BlocksPlaced(pool, B) /\ LinesOwned(pool, B)
    /\ \A a, b \in B : a[1] = b[1] => a = b

\* A pool has 1 to 32 lines.
LEMMA SlotsAre == ASSUME MemAssumption, NEW c \in Classes PROVE Slots[c] \in 1 .. 32
  BY DEF MemAssumption, Classes

\* A pool of which the first line is not free.
LEMMA FirstLine ==
    ASSUME MemAssumption, NEW p, NEW c \in Classes, NEW i, p[c][i].free = 1 .. Slots[c] - 1
    PROVE  \A line : Used(p, c, i, line) <=> line = 0
  <1>1. Slots[c] \in 1 .. 32
    BY SlotsAre
  <1> DEFINE s == Slots[c]
  <1> HIDE DEF s
  <1>2. s \in 1 .. 32 /\ p[c][i].free = 1 .. s - 1
    BY <1>1 DEF s
  <1>3. \A line : line \in 0 .. s - 1 /\ line \notin 1 .. s - 1 <=> line = 0
    BY <1>2
  <1> QED
    BY <1>2, <1>3 DEF Used, s

\* There are two classes of blocks.
LEMMA ClassIs == ASSUME NEW n PROVE Class(n) \in Classes
  BY DEF Class, Classes

\* Other free lines leave the pools different from each other.
LEMMA ChangedPools ==
    ASSUME NEW p, NEW q, PoolsOK(p), q \in [Classes -> Seq(PoolType)],
           NEW c, NEW i, NEW lines, Changed(p, q, c, i, lines), lines \subseteq 0 .. Slots[c] - 1
    PROVE  PoolsOK(q)
  <1>1. ASSUME NEW d \in Classes, NEW e \in Classes, NEW k, NEW l,
               k \in 1 .. Len(q[d]), l \in 1 .. Len(q[e]), q[d][k].id = q[e][l].id
        PROVE  d = e /\ k = l
    <2>1. /\ k \in 1 .. Len(p[d]) /\ q[d][k].id = p[d][k].id
          /\ l \in 1 .. Len(p[e]) /\ q[e][l].id = p[e][l].id
      BY <1>1 DEF Changed
    <2>2. p[d][k].id = p[e][l].id
      BY <1>1, <2>1
    <2> QED
      BY <2>1, <2>2 DEF PoolsOK, IdsDiffer
  <1>2. IdsDiffer(q)
    BY <1>1 DEF IdsDiffer
  <1>3. ASSUME NEW d \in Classes, NEW k \in 1 .. Len(q[d]) PROVE q[d][k].free \subseteq 0 .. Slots[d] - 1
    <2>1. k \in 1 .. Len(p[d]) /\ q[d][k].free = IF d = c /\ k = i THEN lines ELSE p[d][k].free
      BY DEF Changed
    <2> QED
      BY <2>1 DEF PoolsOK, LinesThere
  <1> QED
    BY <1>2, <1>3 DEF PoolsOK, LinesThere

\* A free line is given to a new block.
LEMMA LineTaken ==
    ASSUME NEW p, NEW q, NEW B, PoolsOK(p), Layout(p, B), NEW n \in Nat \ {0}, Small(n),
           NEW i \in 1 .. Len(p[Class(n)]), NEW line \in Nat,
           line \in p[Class(n)][i].free, line \in 0 .. Slots[Class(n)] - 1,
           Changed(p, q, Class(n), i, p[Class(n)][i].free \ {line})
    PROVE  LET at == <<p[Class(n)][i].id, line>>
           IN  Layout(q, B \cup {<<at, n>>}) /\ \A b \in B : b[1] # at
  <1> DEFINE c == Class(n)
             id == p[c][i].id
             at == <<id, line>>
             C == B \cup {<<at, n>>}
  <1>0. c \in Classes /\ i \in 1 .. Len(p[c])
    BY ClassIs
  <1>1. id \in Nat
    <2>1. p[c][i] \in PoolType
      BY <1>0, ElementOfSeq DEF PoolsOK
    <2> HIDE DEF c
    <2> QED
      BY <2>1 DEF PoolType
  <1>2. \A d \in Classes : \A k : k \in 1 .. Len(q[d]) =>
           /\ k \in 1 .. Len(p[d]) /\ q[d][k].id = p[d][k].id
           /\ \A l : Used(q, d, k, l) <=> (Used(p, d, k, l) \/ (d = c /\ k = i /\ l = line))
    <2> SUFFICES ASSUME NEW d \in Classes, NEW k, k \in 1 .. Len(q[d])
                 PROVE  /\ k \in 1 .. Len(p[d]) /\ q[d][k].id = p[d][k].id
                        /\ \A l : Used(q, d, k, l) <=> (Used(p, d, k, l) \/ (d = c /\ k = i /\ l = line))
      OBVIOUS
    <2>1. /\ k \in 1 .. Len(p[d]) /\ q[d][k].id = p[d][k].id
          /\ q[d][k].free = IF d = c /\ k = i THEN p[c][i].free \ {line} ELSE p[d][k].free
      BY DEF Changed
    <2>2. line \in p[c][i].free /\ line \in 0 .. Slots[c] - 1
      OBVIOUS
    <2> HIDE DEF c
    <2> QED
      BY <2>1, <2>2 DEF Used
  <1>3. \A d \in Classes : \A k : k \in 1 .. Len(p[d]) => k \in 1 .. Len(q[d])
    BY DEF Changed
  <1>4. ASSUME NEW b \in B PROVE b[1] # at
    <2> SUFFICES ASSUME b[1] = at PROVE FALSE
      OBVIOUS
    <2>1. Small(b[2])
      <3> SUFFICES ASSUME ~Small(b[2]) PROVE FALSE
        OBVIOUS
      <3>1. id # b[1][1]
        BY <1>0 DEF Layout, BlocksPlaced
      <3> QED
        BY <3>1
    <2>2. PICK k \in 1 .. Len(p[Class(b[2])]) :
             p[Class(b[2])][k].id = b[1][1] /\ Used(p, Class(b[2]), k, b[1][2])
      BY <2>1 DEF Layout, BlocksPlaced
    <2>3. Class(b[2]) = c /\ k = i
      <3>1. b[1][1] = id /\ Class(b[2]) \in Classes
        BY ClassIs
      <3> QED
        BY <2>2, <3>1, <1>0 DEF PoolsOK, IdsDiffer
    <2>4. Used(p, c, i, line)
      BY <2>2, <2>3
    <2> QED
      BY <2>4 DEF Used
  <1> HIDE DEF c, id
  <1>5. BlocksPlaced(q, C)
    <2>1. ASSUME NEW b \in C, Small(b[2])
          PROVE  \E k \in 1 .. Len(q[Class(b[2])]) :
                    q[Class(b[2])][k].id = b[1][1] /\ Used(q, Class(b[2]), k, b[1][2])
      <3>1. CASE b \in B
        <4>1. PICK k \in 1 .. Len(p[Class(b[2])]) :
                 p[Class(b[2])][k].id = b[1][1] /\ Used(p, Class(b[2]), k, b[1][2])
          BY <2>1, <3>1 DEF Layout, BlocksPlaced
        <4>2. Class(b[2]) \in Classes
          BY ClassIs
        <4>3. k \in 1 .. Len(q[Class(b[2])])
          BY <4>2, <1>3
        <4> QED
          BY <4>1, <4>2, <4>3, <1>2
      <3>2. CASE b = <<at, n>>
        <4>1. b[2] = n /\ b[1][1] = id /\ b[1][2] = line /\ Class(b[2]) = c
          BY <3>2 DEF c
        <4>2. i \in 1 .. Len(q[c])
          BY <1>0, <1>3
        <4>3. Used(q, c, i, line) /\ q[c][i].id = id
          BY <1>0, <4>2, <1>2 DEF id
        <4> QED
          BY <4>1, <4>2, <4>3
      <3> QED
        BY <3>1, <3>2
    <2>2. ASSUME NEW b \in C, ~Small(b[2])
          PROVE  /\ b[1][2] = 0
                 /\ \A d \in Classes : \A k \in 1 .. Len(q[d]) : q[d][k].id # b[1][1]
      <3>1. b \in B
        BY <2>2
      <3>2. b[1][2] = 0 /\ \A d \in Classes : \A k \in 1 .. Len(p[d]) : p[d][k].id # b[1][1]
        BY <2>2, <3>1 DEF Layout, BlocksPlaced
      <3> QED
        BY <3>2, <1>2
    <2> QED
      BY <2>1, <2>2 DEF BlocksPlaced
  <1>6. LinesOwned(q, C)
    <2> SUFFICES ASSUME NEW d \in Classes, NEW k \in 1 .. Len(q[d]), NEW l, Used(q, d, k, l)
                 PROVE  \E b \in C : Small(b[2]) /\ Class(b[2]) = d /\ b[1] = <<q[d][k].id, l>>
      BY DEF LinesOwned
    <2>0. k \in 1 .. Len(p[d]) /\ q[d][k].id = p[d][k].id
      BY <1>2
    <2>1. CASE Used(p, d, k, l)
      <3>1. PICK b \in B : Small(b[2]) /\ Class(b[2]) = d /\ b[1] = <<p[d][k].id, l>>
        BY <2>1, <2>0 DEF Layout, LinesOwned
      <3> QED
        BY <3>1, <2>0
    <2>2. CASE d = c /\ k = i /\ l = line
      <3>1. <<at, n>> \in C /\ <<q[d][k].id, l>> = at /\ Class(n) = d
        BY <2>0, <2>2 DEF c, id
      <3> QED
        BY <3>1
    <2> QED
      BY <1>2, <2>1, <2>2
  <1>7. C \subseteq BlockType
    BY <1>1 DEF Layout, BlockType
  <1>8. \A a, b \in C : a[1] = b[1] => a = b
    BY <1>4 DEF Layout
  <1>9. Layout(q, C)
    BY <1>5, <1>6, <1>7, <1>8 DEF Layout
  <1> QED
    BY <1>4, <1>9 DEF c, id

\* The line of a block that goes is free again.
LEMMA LineGiven ==
    ASSUME NEW p, NEW q, NEW B, PoolsOK(p), Layout(p, B), NEW b \in B, Small(b[2]),
           NEW i \in 1 .. Len(p[Class(b[2])]), p[Class(b[2])][i].id = b[1][1],
           Changed(p, q, Class(b[2]), i, p[Class(b[2])][i].free \cup {b[1][2]})
    PROVE  Layout(q, B \ {b})
  <1> DEFINE c == Class(b[2])
             id == b[1][1]
             line == b[1][2]
             C == B \ {b}
  <1>0. c \in Classes /\ i \in 1 .. Len(p[c]) /\ p[c][i].id = id
    BY ClassIs
  <1>1. b \in BlockType /\ b[1] = <<id, line>> /\ \A a \in C : a[1] # <<id, line>>
    BY DEF Layout, BlockType
  <1>2. \A d \in Classes : \A k : k \in 1 .. Len(q[d]) =>
           /\ k \in 1 .. Len(p[d]) /\ q[d][k].id = p[d][k].id
           /\ \A l : Used(q, d, k, l) <=> (Used(p, d, k, l) /\ ~(d = c /\ k = i /\ l = line))
    <2> SUFFICES ASSUME NEW d \in Classes, NEW k, k \in 1 .. Len(q[d])
                 PROVE  /\ k \in 1 .. Len(p[d]) /\ q[d][k].id = p[d][k].id
                        /\ \A l : Used(q, d, k, l) <=> (Used(p, d, k, l) /\ ~(d = c /\ k = i /\ l = line))
      OBVIOUS
    <2>1. /\ k \in 1 .. Len(p[d]) /\ q[d][k].id = p[d][k].id
          /\ q[d][k].free = IF d = c /\ k = i THEN p[c][i].free \cup {line} ELSE p[d][k].free
      BY DEF Changed
    <2> HIDE DEF c, line
    <2> QED
      BY <2>1 DEF Used
  <1>3. \A d \in Classes : \A k : k \in 1 .. Len(p[d]) => k \in 1 .. Len(q[d])
    BY DEF Changed
  <1> HIDE DEF c, id, line
  <1>5. BlocksPlaced(q, C)
    <2>1. ASSUME NEW a \in C, Small(a[2])
          PROVE  \E k \in 1 .. Len(q[Class(a[2])]) :
                    q[Class(a[2])][k].id = a[1][1] /\ Used(q, Class(a[2]), k, a[1][2])
      <3>1. PICK k \in 1 .. Len(p[Class(a[2])]) :
               p[Class(a[2])][k].id = a[1][1] /\ Used(p, Class(a[2]), k, a[1][2])
        BY <2>1 DEF Layout, BlocksPlaced
      <3>2. Class(a[2]) \in Classes
        BY ClassIs
      <3>3. k \in 1 .. Len(q[Class(a[2])])
        BY <3>2, <1>3
      <3>4. ~(Class(a[2]) = c /\ k = i /\ a[1][2] = line)
        <4> SUFFICES ASSUME Class(a[2]) = c, k = i, a[1][2] = line PROVE FALSE
          OBVIOUS
        <4>1. a[1][1] = id
          BY <3>1, <1>0
        <4>2. a[1] = <<id, line>>
          <5>1. a \in BlockType
            BY DEF Layout
          <5> QED
            BY <5>1, <4>1 DEF BlockType
        <4> QED
          BY <1>1, <4>2
      <3> QED
        BY <3>1, <3>2, <3>3, <3>4, <1>2
    <2>2. ASSUME NEW a \in C, ~Small(a[2])
          PROVE  /\ a[1][2] = 0
                 /\ \A d \in Classes : \A k \in 1 .. Len(q[d]) : q[d][k].id # a[1][1]
      <3>2. a[1][2] = 0 /\ \A d \in Classes : \A k \in 1 .. Len(p[d]) : p[d][k].id # a[1][1]
        BY <2>2 DEF Layout, BlocksPlaced
      <3> QED
        BY <3>2, <1>2
    <2> QED
      BY <2>1, <2>2 DEF BlocksPlaced
  <1>6. LinesOwned(q, C)
    <2> SUFFICES ASSUME NEW d \in Classes, NEW k \in 1 .. Len(q[d]), NEW l, Used(q, d, k, l)
                 PROVE  \E a \in C : Small(a[2]) /\ Class(a[2]) = d /\ a[1] = <<q[d][k].id, l>>
      BY DEF LinesOwned
    <2>0. /\ k \in 1 .. Len(p[d]) /\ q[d][k].id = p[d][k].id
          /\ Used(p, d, k, l) /\ ~(d = c /\ k = i /\ l = line)
      BY <1>2
    <2>1. PICK a \in B : Small(a[2]) /\ Class(a[2]) = d /\ a[1] = <<p[d][k].id, l>>
      BY <2>0 DEF Layout, LinesOwned
    <2>2. a # b
      <3> SUFFICES ASSUME a = b PROVE FALSE
        OBVIOUS
      <3>1. d = c /\ l = line /\ p[d][k].id = p[c][i].id
        BY <2>1, <1>0 DEF c, id, line
      <3>2. k = i
        BY <3>1, <2>0, <1>0 DEF PoolsOK, IdsDiffer
      <3> QED
        BY <3>1, <3>2, <2>0
    <2> QED
      BY <2>0, <2>1, <2>2
  <1>7. C \subseteq BlockType /\ \A a, e \in C : a[1] = e[1] => a = e
    BY DEF Layout
  <1> QED
    BY <1>5, <1>6, <1>7 DEF Layout

\* The place of a large block is no pool's, and no line is its own.
LEMMA LargeGone ==
    ASSUME NEW p, NEW B, Layout(p, B), NEW b \in B, ~Small(b[2])
    PROVE  Layout(p, B \ {b})
  <1>1. BlocksPlaced(p, B \ {b})
    BY DEF Layout, BlocksPlaced
  <1>2. LinesOwned(p, B \ {b})
    <2> SUFFICES ASSUME NEW d \in Classes, NEW k \in 1 .. Len(p[d]), NEW l, Used(p, d, k, l)
                 PROVE  \E a \in B \ {b} : Small(a[2]) /\ Class(a[2]) = d /\ a[1] = <<p[d][k].id, l>>
      BY DEF LinesOwned
    <2>1. PICK a \in B : Small(a[2]) /\ Class(a[2]) = d /\ a[1] = <<p[d][k].id, l>>
      BY DEF Layout, LinesOwned
    <2> QED
      BY <2>1
  <1>3. /\ B \ {b} \subseteq BlockType
        /\ \A a, e \in B \ {b} : a[1] = e[1] => a = e
    BY DEF Layout
  <1> QED
    BY <1>1, <1>2, <1>3 DEF Layout

\* A large block gets a place that is nobody's.
LEMMA LargePlaced ==
    ASSUME NEW p, NEW B, Layout(p, B), NEW n \in Nat \ {0}, ~Small(n), NEW id \in Nat,
           \A c \in Classes : \A i \in 1 .. Len(p[c]) : p[c][i].id # id,
           \A b \in B : ~Small(b[2]) => b[1][1] # id
    PROVE  Layout(p, B \cup {<<<<id, 0>>, n>>}) /\ \A b \in B : b[1] # <<id, 0>>
  <1> DEFINE at == <<id, 0>>
             C == B \cup {<<at, n>>}
  <1>1. ASSUME NEW b \in B PROVE b[1] # at
    <2> SUFFICES ASSUME b[1] = at PROVE FALSE
      OBVIOUS
    <2>1. b[1][1] = id
      OBVIOUS
    <2>2. Small(b[2])
      BY <2>1
    <2> QED
      BY <2>1, <2>2, ClassIs DEF Layout, BlocksPlaced
  <1>2. BlocksPlaced(p, C)
    <2>1. ASSUME NEW b \in C, Small(b[2])
          PROVE  \E k \in 1 .. Len(p[Class(b[2])]) :
                    p[Class(b[2])][k].id = b[1][1] /\ Used(p, Class(b[2]), k, b[1][2])
      BY <2>1 DEF Layout, BlocksPlaced
    <2>2. ASSUME NEW b \in C, ~Small(b[2])
          PROVE  /\ b[1][2] = 0
                 /\ \A d \in Classes : \A k \in 1 .. Len(p[d]) : p[d][k].id # b[1][1]
      BY <2>2 DEF Layout, BlocksPlaced
    <2> QED
      BY <2>1, <2>2 DEF BlocksPlaced
  <1>3. LinesOwned(p, C)
    <2> SUFFICES ASSUME NEW d \in Classes, NEW k \in 1 .. Len(p[d]), NEW l, Used(p, d, k, l)
                 PROVE  \E a \in C : Small(a[2]) /\ Class(a[2]) = d /\ a[1] = <<p[d][k].id, l>>
      BY DEF LinesOwned
    <2>1. PICK a \in B : Small(a[2]) /\ Class(a[2]) = d /\ a[1] = <<p[d][k].id, l>>
      BY DEF Layout, LinesOwned
    <2> QED
      BY <2>1
  <1>4. C \subseteq BlockType /\ \A a, b \in C : a[1] = b[1] => a = b
    BY <1>1 DEF Layout, BlockType
  <1> QED
    BY <1>1, <1>2, <1>3, <1>4 DEF Layout

\* A pool with only its first line in use comes before those of its class.
Opened(p, q, c, new) ==
    /\ DOMAIN q = Classes /\ q = [d \in DOMAIN q |-> q[d]]
    /\ q[c] = <<[id |-> new, free |-> 1 .. Slots[c] - 1]>> \o p[c]
    /\ \A d \in Classes : d # c => q[d] = p[d]

\* A new pool gives its first line to a block.
LEMMA PoolOpened ==
    ASSUME MemAssumption, NEW p, NEW B, PoolsOK(p), Layout(p, B),
           NEW n \in Nat \ {0}, Small(n), NEW new \in 1 .. HeapMax,
           \A c \in Classes : \A i \in 1 .. Len(p[c]) : p[c][i].id # new,
           \A b \in B : ~Small(b[2]) => b[1][1] # new,
           NEW q, Opened(p, q, Class(n), new)
    PROVE  /\ PoolsOK(q) /\ Layout(q, B \cup {<<<<new, 0>>, n>>})
           /\ \A b \in B : b[1] # <<new, 0>>
  <1> DEFINE c == Class(n)
             at == <<new, 0>>
             C == B \cup {<<at, n>>}
             fresh == [id |-> new, free |-> 1 .. Slots[c] - 1]
  <1>0. c \in Classes
    BY ClassIs
  <1>1. fresh \in PoolType
    <2>1. Slots[c] \in 1 .. 32
      BY <1>0, SlotsAre
    <2> DEFINE last == Slots[c] - 1
    <2>2. last \in 0 .. 31
      BY <2>1
    <2> HIDE DEF c, last
    <2>3. 1 .. last \in SUBSET (0 .. 31)
      BY <2>2
    <2>4. [id |-> new, free |-> 1 .. last] \in PoolType
      BY <2>3 DEF PoolType
    <2> QED
      BY <2>4 DEF last
  <1>2. p[c] \in Seq(PoolType) /\ <<fresh>> \in Seq(PoolType)
    BY <1>0, <1>1 DEF PoolsOK
  <1> DEFINE t == <<fresh>> \o p[c]
  <1>3. /\ t \in Seq(PoolType) /\ Len(t) = Len(p[c]) + 1 /\ t[1] = fresh
        /\ \A i \in 1 .. Len(p[c]) : t[i + 1] = p[c][i]
        /\ Len(p[c]) \in Nat
    <2> HIDE DEF fresh, c
    <2>1. /\ <<fresh>> \o p[c] \in Seq(PoolType)
          /\ Len(<<fresh>> \o p[c]) = Len(<<fresh>>) + Len(p[c])
          /\ \A i \in 1 .. Len(<<fresh>>) + Len(p[c]) : (<<fresh>> \o p[c])[i] =
                 IF i <= Len(<<fresh>>) THEN <<fresh>>[i] ELSE p[c][i - Len(<<fresh>>)]
      BY <1>2, ConcatProperties
    <2>2. Len(<<fresh>>) = 1 /\ <<fresh>>[1] = fresh /\ Len(p[c]) \in Nat
      BY <1>2
    <2> QED
      BY <2>1, <2>2
  <1>4. q \in [Classes -> Seq(PoolType)] /\ q[c] = t /\ \A d \in Classes : d # c => q[d] = p[d]
    <2> HIDE DEF t
    <2>1. /\ DOMAIN q = Classes /\ q = [d \in DOMAIN q |-> q[d]]
          /\ q[c] = t /\ \A d \in Classes : d # c => q[d] = p[d]
      BY DEF t, fresh, Opened
    <2>2. \A d \in Classes : p[d] \in Seq(PoolType)
      BY DEF PoolsOK
    <2> HIDE DEF c
    <2>3. \A d \in Classes : q[d] \in Seq(PoolType)
      BY <1>3, <2>1, <2>2
    <2> QED
      BY <2>1, <2>3
  <1> HIDE DEF t, c, fresh
  <1> DEFINE Old(d, k) == IF d = c THEN k - 1 ELSE k
  <1>5. ASSUME NEW d \in Classes, NEW k, k \in 1 .. Len(q[d])
        PROVE  \/ d = c /\ k = 1 /\ q[d][k] = fresh
               \/ /\ ~(d = c /\ k = 1)
                  /\ Old(d, k) \in 1 .. Len(p[d]) /\ q[d][k] = p[d][Old(d, k)]
    <2>1. CASE d # c
      BY <2>1, <1>5, <1>4
    <2>2. CASE d = c /\ k = 1
      BY <2>2, <1>4, <1>3
    <2>3. CASE d = c /\ k # 1
      <3>1. k - 1 \in 1 .. Len(p[c]) /\ k = (k - 1) + 1
        BY <2>3, <1>5, <1>4, <1>3
      <3>2. t[k] = p[c][k - 1]
        BY <1>3, <3>1
      <3> QED
        BY <2>3, <3>1, <3>2, <1>4
    <2> QED
      BY <2>1, <2>2, <2>3
  <1>6. ASSUME NEW d \in Classes, NEW k \in 1 .. Len(p[d])
        PROVE  \E m \in 1 .. Len(q[d]) : q[d][m] = p[d][k]
    <2>1. CASE d # c
      BY <2>1, <1>4
    <2>2. CASE d = c
      <3>1. k + 1 \in 1 .. Len(q[d]) /\ q[d][k + 1] = p[d][k]
        BY <2>2, <1>3, <1>4
      <3> QED
        BY <3>1
    <2> QED
      BY <2>1, <2>2
  <1>7. fresh.id = new /\ fresh.free = 1 .. Slots[c] - 1
    BY DEF fresh
  <1>8. IdsDiffer(q)
    <2> SUFFICES ASSUME NEW d \in Classes, NEW e \in Classes, NEW k, NEW l,
                        k \in 1 .. Len(q[d]), l \in 1 .. Len(q[e]), q[d][k].id = q[e][l].id
                 PROVE  d = e /\ k = l
      BY DEF IdsDiffer
    <2>1. CASE d = c /\ k = 1
      <3>1. q[e][l].id = new
        BY <2>1, <1>5, <1>7
      <3> QED
        BY <3>1, <2>1, <1>5
    <2>2. CASE e = c /\ l = 1
      <3>1. q[d][k].id = new
        BY <2>2, <1>5, <1>7
      <3> QED
        BY <3>1, <2>2, <1>5
    <2>3. CASE ~(d = c /\ k = 1) /\ ~(e = c /\ l = 1)
      <3>1. /\ Old(d, k) \in 1 .. Len(p[d]) /\ q[d][k] = p[d][Old(d, k)]
            /\ Old(e, l) \in 1 .. Len(p[e]) /\ q[e][l] = p[e][Old(e, l)]
        BY <2>3, <1>5
      <3>2. d = e /\ Old(d, k) = Old(e, l)
        <4> HIDE DEF Old
        <4>1. p[d][Old(d, k)].id = p[e][Old(e, l)].id
          BY <3>1
        <4> QED
          BY <3>1, <4>1 DEF PoolsOK, IdsDiffer
      <3>3. k \in Int /\ l \in Int
        OBVIOUS
      <3> QED
        BY <3>2, <3>3
    <2> QED
      BY <2>1, <2>2, <2>3
  <1>9. ASSUME NEW b \in B PROVE b[1] # at
    <2> SUFFICES ASSUME b[1] = at PROVE FALSE
      OBVIOUS
    <2>1. b[1][1] = new
      OBVIOUS
    <2>2. Small(b[2])
      BY <2>1
    <2> QED
      BY <2>1, <2>2, ClassIs DEF Layout, BlocksPlaced
  <1>10. BlocksPlaced(q, C)
    <2>1. ASSUME NEW b \in C, Small(b[2])
          PROVE  \E k \in 1 .. Len(q[Class(b[2])]) :
                    q[Class(b[2])][k].id = b[1][1] /\ Used(q, Class(b[2]), k, b[1][2])
      <3>1. CASE b \in B
        <4>1. PICK k \in 1 .. Len(p[Class(b[2])]) :
                 p[Class(b[2])][k].id = b[1][1] /\ Used(p, Class(b[2]), k, b[1][2])
          BY <2>1, <3>1 DEF Layout, BlocksPlaced
        <4>2. Class(b[2]) \in Classes
          BY ClassIs
        <4>3. PICK m \in 1 .. Len(q[Class(b[2])]) : q[Class(b[2])][m] = p[Class(b[2])][k]
          BY <4>2, <1>6
        <4> QED
          BY <4>1, <4>3 DEF Used
      <3>2. CASE b = <<at, n>>
        <4>1. b[2] = n /\ b[1][1] = new /\ b[1][2] = 0 /\ Class(b[2]) = c
          BY <3>2 DEF c
        <4>2. 1 \in 1 .. Len(q[c]) /\ q[c][1] = fresh
          BY <1>3, <1>4
        <4>3. Used(q, c, 1, 0)
          <5>1. q[c][1].free = 1 .. Slots[c] - 1
            BY <4>2, <1>7
          <5> QED
            BY <5>1, <1>0, FirstLine, Zenon
        <4> QED
          BY <4>1, <4>2, <4>3, <1>7
      <3> QED
        BY <3>1, <3>2
    <2>2. ASSUME NEW b \in C, ~Small(b[2])
          PROVE  /\ b[1][2] = 0
                 /\ \A d \in Classes : \A k \in 1 .. Len(q[d]) : q[d][k].id # b[1][1]
      <3>1. b \in B
        BY <2>2
      <3>2. b[1][2] = 0 /\ \A d \in Classes : \A k \in 1 .. Len(p[d]) : p[d][k].id # b[1][1]
        BY <2>2, <3>1 DEF Layout, BlocksPlaced
      <3>3. b[1][1] # new
        BY <2>2, <3>1
      <3>4. ASSUME NEW d \in Classes, NEW k \in 1 .. Len(q[d]) PROVE q[d][k].id # b[1][1]
        <4>1. CASE d = c /\ k = 1 /\ q[d][k] = fresh
          BY <4>1, <3>3, <1>7
        <4>2. CASE Old(d, k) \in 1 .. Len(p[d]) /\ q[d][k] = p[d][Old(d, k)]
          BY <4>2, <3>2
        <4> QED
          BY <4>1, <4>2, <1>5
      <3> QED
        BY <3>2, <3>4
    <2> QED
      BY <2>1, <2>2 DEF BlocksPlaced
  <1>11. LinesOwned(q, C)
    <2> SUFFICES ASSUME NEW d \in Classes, NEW k \in 1 .. Len(q[d]), NEW l, Used(q, d, k, l)
                 PROVE  \E a \in C : Small(a[2]) /\ Class(a[2]) = d /\ a[1] = <<q[d][k].id, l>>
      BY DEF LinesOwned
    <2>1. CASE d = c /\ k = 1 /\ q[d][k] = fresh
      <3>1. l = 0
        BY <2>1, <1>7 DEF Used
      <3>2. <<at, n>> \in C /\ <<q[d][k].id, l>> = at /\ Class(n) = d
        BY <2>1, <3>1, <1>7 DEF c
      <3> QED
        BY <3>2
    <2>2. CASE Old(d, k) \in 1 .. Len(p[d]) /\ q[d][k] = p[d][Old(d, k)]
      <3>1. Used(p, d, Old(d, k), l)
        BY <2>2 DEF Used
      <3>2. PICK a \in B : Small(a[2]) /\ Class(a[2]) = d /\ a[1] = <<p[d][Old(d, k)].id, l>>
        BY <2>2, <3>1 DEF Layout, LinesOwned
      <3> QED
        BY <2>2, <3>2
    <2> QED
      BY <2>1, <2>2, <1>5
  <1>12. C \subseteq BlockType /\ \A a, b \in C : a[1] = b[1] => a = b
    BY <1>9 DEF Layout, BlockType
  <1>13. Layout(q, C)
    BY <1>10, <1>11, <1>12 DEF Layout
  <1>14. LinesThere(q)
    <2> SUFFICES ASSUME NEW d \in Classes, NEW k \in 1 .. Len(q[d])
                 PROVE  q[d][k].free \subseteq 0 .. Slots[d] - 1
      BY DEF LinesThere
    <2>1. CASE d = c /\ k = 1 /\ q[d][k] = fresh
      <3>1. 1 .. Slots[d] - 1 \subseteq 0 .. Slots[d] - 1
        BY SlotsAre
      <3> QED
        BY <2>1, <3>1, <1>7
    <2>2. CASE Old(d, k) \in 1 .. Len(p[d]) /\ q[d][k] = p[d][Old(d, k)]
      BY <2>2 DEF PoolsOK, LinesThere
    <2> QED
      BY <2>1, <2>2, <1>5
  <1> QED
    BY <1>4, <1>8, <1>9, <1>13, <1>14 DEF PoolsOK

Busy(p, c) == {i \in DOMAIN p[c] : p[c][i].free # 0 .. Slots[c] - 1}

BusyKept(p, q) ==
    /\ DOMAIN q = Classes /\ q = [c \in DOMAIN q |-> q[c]]
    /\ \A c \in Classes : q[c] = Kept(p[c], Busy(p, c))

\* Pools without a used line can go.
LEMMA PoolsKept ==
    ASSUME MemAssumption, NEW p, NEW q, NEW B, PoolsOK(p), Layout(p, B),
           BusyKept(p, q)
    PROVE  /\ PoolsOK(q) /\ Layout(q, B)
           /\ \A c \in Classes : \A i \in 1 .. Len(q[c]) : q[c][i].free # 0 .. Slots[c] - 1
  <1> DEFINE I(c) == Busy(p, c)
  <1>1. ASSUME NEW c \in Classes
        PROVE  Picked(q[c], PoolType, p[c], I(c))
    <2>1. q[c] = Kept(p[c], I(c))
      BY DEF BusyKept
    <2>2. p[c] \in Seq(PoolType)
      BY DEF PoolsOK
    <2>3. \A i, k \in 1 .. Len(p[c]) : p[c][i] = p[c][k] => i = k
      BY DEF PoolsOK, IdsDiffer
    <2> HIDE DEF I
    <2> QED
      BY <2>1, <2>2, <2>3, KeptIs
  <1>2. ASSUME NEW c \in Classes, NEW m \in 1 .. Len(p[c])
        PROVE  m \in I(c) <=> p[c][m].free # 0 .. Slots[c] - 1
    <2>1. m \in DOMAIN p[c]
      BY DEF PoolsOK
    <2> QED
      BY <2>1 DEF Busy
  <1> HIDE DEF I
  <1>3. IdsDiffer(q)
    <2> SUFFICES ASSUME NEW d \in Classes, NEW e \in Classes, NEW k, NEW l,
                        k \in 1 .. Len(q[d]), l \in 1 .. Len(q[e]), q[d][k].id = q[e][l].id
                 PROVE  d = e /\ k = l
      BY DEF IdsDiffer
    <2>0. Picked(q[d], PoolType, p[d], I(d)) /\ Picked(q[e], PoolType, p[e], I(e))
      BY <1>1
    <2>1. PICK x \in 1 .. Len(p[d]) : q[d][k] = p[d][x]
      BY <2>0 DEF Picked
    <2>2. PICK y \in 1 .. Len(p[e]) : q[e][l] = p[e][y]
      BY <2>0 DEF Picked
    <2>3. d = e /\ x = y
      <3>1. p[d][x].id = p[e][y].id
        BY <2>1, <2>2
      <3>2. IdsDiffer(p)
        BY DEF PoolsOK
      <3> QED
        BY <3>1, <3>2 DEF IdsDiffer
    <2> QED
      BY <2>1, <2>2, <2>3, <1>1 DEF Picked
  <1>4. BlocksPlaced(q, B)
    <2>1. ASSUME NEW b \in B, Small(b[2])
          PROVE  \E k \in 1 .. Len(q[Class(b[2])]) :
                    q[Class(b[2])][k].id = b[1][1] /\ Used(q, Class(b[2]), k, b[1][2])
      <3> DEFINE c == Class(b[2])
      <3>1. PICK k \in 1 .. Len(p[c]) : p[c][k].id = b[1][1] /\ Used(p, c, k, b[1][2])
        BY <2>1 DEF Layout, BlocksPlaced
      <3>2. c \in Classes
        BY ClassIs
      <3> HIDE DEF c
      <3>3. k \in I(c)
        BY <3>1, <3>2, <1>2 DEF Used
      <3>4. PICK m \in 1 .. Len(q[c]) : q[c][m] = p[c][k]
        BY <3>2, <3>3, <1>1 DEF Picked
      <3> QED
        BY <3>1, <3>4 DEF Used, c
    <2>2. ASSUME NEW b \in B, ~Small(b[2])
          PROVE  /\ b[1][2] = 0
                 /\ \A d \in Classes : \A k \in 1 .. Len(q[d]) : q[d][k].id # b[1][1]
      <3>1. b[1][2] = 0 /\ \A d \in Classes : \A k \in 1 .. Len(p[d]) : p[d][k].id # b[1][1]
        BY <2>2 DEF Layout, BlocksPlaced
      <3>2. ASSUME NEW d \in Classes, NEW k \in 1 .. Len(q[d]) PROVE q[d][k].id # b[1][1]
        <4>1. PICK m \in 1 .. Len(p[d]) : q[d][k] = p[d][m]
          BY <1>1 DEF Picked
        <4> QED
          BY <4>1, <3>1
      <3> QED
        BY <3>1, <3>2
    <2> QED
      BY <2>1, <2>2 DEF BlocksPlaced
  <1>5. LinesOwned(q, B)
    <2> SUFFICES ASSUME NEW d \in Classes, NEW k \in 1 .. Len(q[d]), NEW l, Used(q, d, k, l)
                 PROVE  \E a \in B : Small(a[2]) /\ Class(a[2]) = d /\ a[1] = <<q[d][k].id, l>>
      BY DEF LinesOwned
    <2>1. PICK m \in 1 .. Len(p[d]) : q[d][k] = p[d][m]
      BY <1>1 DEF Picked
    <2>2. Used(p, d, m, l)
      BY <2>1 DEF Used
    <2>3. PICK a \in B : Small(a[2]) /\ Class(a[2]) = d /\ a[1] = <<p[d][m].id, l>>
      <3>1. LinesOwned(p, B)
        BY DEF Layout
      <3> QED
        BY <2>2, <3>1, Zenon DEF LinesOwned
    <2> QED
      BY <2>1, <2>3
  <1>6. ASSUME NEW c \in Classes, NEW i \in 1 .. Len(q[c]) PROVE q[c][i].free # 0 .. Slots[c] - 1
    <2>1. PICK m \in 1 .. Len(p[c]) : m \in I(c) /\ q[c][i] = p[c][m]
      BY <1>1 DEF Picked
    <2> QED
      BY <2>1, <1>2
  <1>7. q \in [Classes -> Seq(PoolType)]
    BY <1>1 DEF Picked, BusyKept
  <1>8. LinesThere(q)
    <2> SUFFICES ASSUME NEW d \in Classes, NEW k \in 1 .. Len(q[d])
                 PROVE  q[d][k].free \subseteq 0 .. Slots[d] - 1
      BY DEF LinesThere
    <2>1. PICK m \in 1 .. Len(p[d]) : q[d][k] = p[d][m]
      BY <1>1 DEF Picked
    <2> QED
      BY <2>1 DEF PoolsOK, LinesThere
  <1> QED
    BY <1>3, <1>4, <1>5, <1>6, <1>7, <1>8 DEF PoolsOK, Layout

-----------------------------------------------------------------------------
(***************************************************************************)
(* The heap.                                                               *)
(***************************************************************************)

HeapType ==
    [pool : [Classes -> Seq(PoolType)], size : [Object -> Nat], at : [Object -> Nat \X Nat],
     memory : [Place -> Object \cup {NONE}], usage : Int]

Blocks(h) == {<<h.at[x], h.size[x]>> : x \in Live(h)}

Written(h) == \A x \in Live(h) : h.at[x] \in Place /\ h.memory[h.at[x]] = x

\* What every operation of the allocator preserves.
HeapOK(h) ==
    /\ h \in HeapType /\ PoolsOK(h.pool) /\ Layout(h.pool, Blocks(h))
    /\ Written(h)
    /\ h.usage = Cardinality(BytesOf(h))

\* The fields of a heap.
LEMMA HeapFields ==
    ASSUME NEW h \in HeapType
    PROVE  /\ h.pool \in [Classes -> Seq(PoolType)] /\ h.size \in [Object -> Nat]
           /\ h.at \in [Object -> Nat \X Nat] /\ h.memory \in [Place -> Object \cup {NONE}]
           /\ h.usage \in Int
  BY DEF HeapType

\* The pools' places are finitely many.
LEMMA PoolIdsFinite ==
    ASSUME MemAssumption, NEW h \in HeapType
    PROVE  /\ PoolIds(h) \subseteq 1 .. HeapMax /\ IsFiniteSet(PoolIds(h))
           /\ Cardinality(PoolIds(h)) \in Nat
           /\ \A c \in Classes : \A i \in 1 .. Len(h.pool[c]) : h.pool[c][i].id \in PoolIds(h)
  <1>1. h.pool \in [Classes -> Seq(PoolType)]
    BY HeapFields
  <1>2. PoolIds(h) \subseteq 1 .. HeapMax
    <2> SUFFICES ASSUME NEW c \in Classes, NEW i \in DOMAIN h.pool[c]
                 PROVE  h.pool[c][i].id \in 1 .. HeapMax
      BY DEF PoolIds, Classes
    <2>1. h.pool[c] \in Seq(PoolType)
      BY <1>1
    <2>2. h.pool[c][i] \in PoolType
      BY <2>1
    <2> QED
      BY <2>2 DEF PoolType
  <1>3. IsFiniteSet(1 .. HeapMax)
    BY FS_Interval DEF MemAssumption
  <1>4. IsFiniteSet(PoolIds(h))
    BY <1>2, <1>3, FS_Subset
  <1>5. ASSUME NEW c \in Classes, NEW i \in 1 .. Len(h.pool[c]) PROVE h.pool[c][i].id \in PoolIds(h)
    <2>1. i \in DOMAIN h.pool[c]
      BY <1>1
    <2> QED
      BY <2>1 DEF PoolIds, Classes
  <1> QED
    BY <1>2, <1>4, <1>5, FS_CardinalityType

\* There are finitely many blocks.
LEMMA LiveFinite ==
    ASSUME MemAssumption, NEW h
    PROVE  /\ Live(h) \subseteq Object /\ IsFiniteSet(Live(h))
           /\ LargeOf(h) \subseteq Live(h) /\ IsFiniteSet(LargeOf(h))
  <1>1. Live(h) \subseteq Object /\ LargeOf(h) \subseteq Live(h)
    BY DEF Live, LargeOf
  <1>2. IsFiniteSet(Live(h))
    BY <1>1, FS_Subset DEF MemAssumption
  <1>3. IsFiniteSet(LargeOf(h))
    BY <1>1, <1>2, FS_Subset
  <1> QED
    BY <1>1, <1>2, <1>3

\* A set of pairs with finitely many first members, each with the numbers up to a bound.
LEMMA PairsFinite ==
    ASSUME NEW S, IsFiniteSet(S), NEW f \in [S -> Nat]
    PROVE  IsFiniteSet(UNION {{x} \X (1 .. f[x]) : x \in S})
  <1> DEFINE g == [x \in S |-> {x} \X (1 .. f[x])]
             T == {{x} \X (1 .. f[x]) : x \in S}
  <1>1. g \in Surjection(S, T)
    BY DEF Surjection
  <1>2. IsFiniteSet(T)
    BY <1>1, FS_Surjection
  <1>3. ASSUME NEW t \in T PROVE IsFiniteSet(t)
    <2>1. PICK x \in S : t = {x} \X (1 .. f[x])
      BY <1>3
    <2>2. IsFiniteSet({x})
      BY FS_Singleton
    <2>3. IsFiniteSet(1 .. f[x])
      BY FS_Interval
    <2> QED
      BY <2>1, <2>2, <2>3, FS_Product
  <1> QED
    BY <1>2, <1>3, FS_UNION

\* What is left of the heap is a number of units.
LEMMA RoomIs ==
    ASSUME MemAssumption, NEW h \in HeapType
    PROVE  /\ IsFiniteSet(LargeUnits(h)) /\ Cardinality(LargeUnits(h)) \in Nat
           /\ Room(h) \in Int
  <1>1. IsFiniteSet(LargeUnits(h))
    <2> DEFINE f == [x \in LargeOf(h) |-> Weight(h.size[x])]
    <2>1. ASSUME NEW x \in LargeOf(h) PROVE Weight(h.size[x]) \in Nat
      <3>1. h.size[x] \in Nat
        BY HeapFields DEF LargeOf, Live
      <3> QED
        BY <3>1 DEF Weight
    <2>2. f \in [LargeOf(h) -> Nat]
      BY <2>1
    <2>3. LargeUnits(h) = UNION {{x} \X (1 .. f[x]) : x \in LargeOf(h)}
      BY DEF LargeUnits
    <2> HIDE DEF f
    <2> QED
      BY <2>2, <2>3, LiveFinite, PairsFinite
  <1>2. Cardinality(LargeUnits(h)) \in Nat
    BY <1>1, FS_CardinalityType
  <1> DEFINE a == PoolWeight * Cardinality(PoolIds(h))
  <1>3. a \in Int /\ HeapMax \in Int
    BY PoolIdsFinite DEF MemAssumption
  <1> QED
    BY <1>1, <1>2, <1>3 DEF Room

\* As long as there is room there is a place.
LEMMA NewIdIs ==
    ASSUME MemAssumption, NEW h \in HeapType, Room(h) >= 1
    PROVE  /\ NewId(h) \in 1 .. HeapMax
           /\ \A c \in Classes : \A i \in 1 .. Len(h.pool[c]) : h.pool[c][i].id # NewId(h)
           /\ \A x \in LargeOf(h) : h.at[x][1] # NewId(h)
  <1> DEFINE L == LargeOf(h)
             P == PoolIds(h)
             A == {h.at[x][1] : x \in L}
             U == P \cup A
  <1>1. IsFiniteSet(A) /\ Cardinality(A) <= Cardinality(L)
    <2> DEFINE g == [x \in L |-> h.at[x][1]]
    <2>1. g \in Surjection(L, A)
      BY DEF Surjection
    <2> QED
      BY <2>1, LiveFinite, FS_Surjection
  <1>2. Cardinality(L) <= Cardinality(LargeUnits(h))
    <2> DEFINE g == [x \in L |-> <<x, 1>>]
    <2>1. ASSUME NEW x \in L PROVE <<x, 1>> \in LargeUnits(h)
      <3>1. h.size[x] \in Nat /\ h.size[x] > 32
        BY HeapFields DEF LargeOf, Live, Small
      <3>2. 1 \in 1 .. Weight(h.size[x])
        BY <3>1 DEF Weight
      <3> QED
        BY <3>2 DEF LargeUnits
    <2>2. g \in Injection(L, LargeUnits(h))
      BY <2>1 DEF Injection, IsInjective
    <2> QED
      BY <2>2, RoomIs, FS_Injection
  <1>3. Cardinality(P) <= PoolWeight * Cardinality(P)
    <2> DEFINE n == Cardinality(P)
    <2>1. n \in Nat /\ PoolWeight \in Nat /\ PoolWeight >= 1
      BY PoolIdsFinite DEF MemAssumption
    <2> HIDE DEF n
    <2>2. n <= PoolWeight * n
      BY <2>1
    <2> QED
      BY <2>2 DEF n
  <1>4. IsFiniteSet(U) /\ Cardinality(U) <= Cardinality(P) + Cardinality(A)
    <2>1. IsFiniteSet(P) /\ IsFiniteSet(A)
      BY <1>1, PoolIdsFinite
    <2>2. /\ IsFiniteSet(P \cup A)
          /\ Cardinality(P \cup A) = Cardinality(P) + Cardinality(A) - Cardinality(P \cap A)
      BY <2>1, FS_Union
    <2>3. IsFiniteSet(P \cap A)
      BY <2>1, FS_Intersection
    <2> HIDE DEF P, A
    <2> QED
      BY <2>1, <2>2, <2>3, FS_CardinalityType
  <1>5. Cardinality(U) < HeapMax
    <2> DEFINE w == PoolWeight * Cardinality(P)
    <2>1. Room(h) = HeapMax - w - Cardinality(LargeUnits(h))
      BY DEF Room
    <2>2. /\ w \in Int /\ HeapMax \in Int /\ Cardinality(U) \in Nat /\ Cardinality(A) \in Nat
          /\ Cardinality(L) \in Nat /\ Cardinality(LargeUnits(h)) \in Nat /\ Cardinality(P) \in Nat
      BY <1>1, <1>4, LiveFinite, PoolIdsFinite, RoomIs, FS_CardinalityType DEF MemAssumption
    <2> HIDE DEF w, U, A, L, P
    <2> QED
      BY <1>1, <1>2, <1>3, <1>4, <2>1, <2>2 DEF w
  <1>6. (1 .. HeapMax) \ U # {}
    <2> SUFFICES ASSUME 1 .. HeapMax \subseteq U PROVE FALSE
      OBVIOUS
    <2> HIDE DEF U
    <2>1. Cardinality(1 .. HeapMax) <= Cardinality(U)
      BY <1>4, FS_Subset
    <2>2. Cardinality(1 .. HeapMax) = HeapMax
      BY FS_Interval DEF MemAssumption
    <2> QED
      BY <1>4, <1>5, <2>1, <2>2, FS_CardinalityType DEF MemAssumption
  <1>7. NewId(h) \in (1 .. HeapMax) \ U
    <2>1. (1 .. HeapMax) \ U \in SUBSET Nat
      OBVIOUS
    <2>2. \E n \in (1 .. HeapMax) \ U : \A k \in (1 .. HeapMax) \ U : n <= k
      <3> HIDE DEF U
      <3> QED
        BY <1>6, <2>1, Least
    <2>3. NewId(h) = CHOOSE n \in (1 .. HeapMax) \ U : \A k \in (1 .. HeapMax) \ U : n <= k
      BY DEF NewId, Min
    <2> HIDE DEF U
    <2> QED
      BY <2>2, <2>3
  <1> QED
    BY <1>7, PoolIdsFinite

Allocated(m, h, n) ==
    /\ m.heap \in HeapType /\ PoolsOK(m.heap.pool)
    /\ Layout(m.heap.pool, Blocks(h) \cup {<<m.at, n>>})
    /\ m.at \in Place
    /\ \A x \in Live(h) : h.at[x] # m.at
    /\ m.heap.size = h.size /\ m.heap.at = h.at /\ m.heap.memory = h.memory /\ m.heap.usage = h.usage

\* The pool at i gets other free lines.
LEMMA FreeSet ==
    ASSUME NEW p, PoolsOK(p), NEW c \in Classes, NEW i \in 1 .. Len(p[c]), NEW lines \in SUBSET (0 .. 31),
           NEW q, q = [p EXCEPT ![c][i].free = lines]
    PROVE  q \in [Classes -> Seq(PoolType)] /\ Changed(p, q, c, i, lines)
  <1>1. p \in [Classes -> Seq(PoolType)] /\ p[c] \in Seq(PoolType)
    BY DEF PoolsOK
  <1>2. p[c][i] \in PoolType
    BY <1>1, ElementOfSeq
  <1> DEFINE e == [p[c][i] EXCEPT !.free = lines]
             s == [p[c] EXCEPT ![i] = e]
  <1>3. e \in PoolType /\ e.id = p[c][i].id /\ e.free = lines
    BY <1>2 DEF PoolType
  <1>4. q = [p EXCEPT ![c] = s]
    OBVIOUS
  <1> HIDE DEF e
  <1>5. /\ s \in Seq(PoolType) /\ Len(s) = Len(p[c])
        /\ \A j \in 1 .. Len(p[c]) : s[j] = IF j = i THEN e ELSE p[c][j]
    BY <1>1, <1>3, ExceptSeq
  <1> HIDE DEF s
  <1>6. q \in [Classes -> Seq(PoolType)] /\ q[c] = s /\ \A d \in Classes : d # c => q[d] = p[d]
    BY <1>1, <1>4, <1>5
  <1>7. \A d \in Classes : Len(q[d]) = Len(p[d])
    BY <1>5, <1>6
  <1>8. ASSUME NEW d \in Classes, NEW k \in 1 .. Len(p[d])
        PROVE  /\ q[d][k].id = p[d][k].id
               /\ q[d][k].free = IF d = c /\ k = i THEN lines ELSE p[d][k].free
    BY <1>3, <1>5, <1>6
  <1> QED
    BY <1>6, <1>7, <1>8 DEF Changed

\* malloc_from_pool finds memory that is nobody's.
LEMMA MallocIs ==
    ASSUME MemAssumption, NEW h, HeapOK(h), NEW n \in Nat \ {0}, NEW m \in malloc_from_pool(h, n)
    PROVE  Allocated(m, h, n)
  <1> DEFINE c == Class(n)
             open == OpenPools(h, c)
             B == Blocks(h)
  <1>0. /\ h \in HeapType /\ PoolsOK(h.pool) /\ Layout(h.pool, B) /\ Written(h)
        /\ c \in Classes /\ h.pool[c] \in Seq(PoolType)
    BY ClassIs DEF HeapOK, PoolsOK
  <1>1. \A b \in B : \E x \in Live(h) : b = <<h.at[x], h.size[x]>>
    BY DEF Blocks
  <1>2. \A x \in Live(h) : <<h.at[x], h.size[x]>> \in B
    BY DEF Blocks
  <1>3. CASE Small(n) /\ open # {}
    <2> DEFINE i == Min(open)
               line == Min(h.pool[c][i].free)
               at == <<h.pool[c][i].id, line>>
               q == [h.pool EXCEPT ![c][i].free = h.pool[c][i].free \ {line}]
    <2>1. i \in open
      <3>1. open \in SUBSET Nat
        BY <1>0 DEF OpenPools
      <3>2. \E k \in open : \A j \in open : k <= j
        <4> HIDE DEF open
        <4> QED
          BY <1>3, <3>1, Least
      <3> QED
        BY <3>2 DEF Min
    <2>2. i \in 1 .. Len(h.pool[c]) /\ h.pool[c][i].free # {}
      <3>1. i \in DOMAIN h.pool[c] /\ h.pool[c][i].free # {}
        BY <2>1 DEF OpenPools
      <3> HIDE DEF i
      <3> QED
        BY <3>1, <1>0
    <2> HIDE DEF i, open, c
    <2>3. h.pool[c][i] \in PoolType
      BY <2>2, <1>0, ElementOfSeq
    <2>4. h.pool[c][i].free \in SUBSET (0 .. 31) /\ h.pool[c][i].id \in 1 .. HeapMax
      BY <2>3 DEF PoolType
    <2>5. line \in h.pool[c][i].free
      <3>1. h.pool[c][i].free \in SUBSET Nat
        BY <2>4
      <3>2. \E k \in h.pool[c][i].free : \A j \in h.pool[c][i].free : k <= j
        BY <2>2, <3>1, Least
      <3> QED
        BY <3>2 DEF Min
    <2> HIDE DEF line
    <2>6. /\ line \in 0 .. 31 /\ h.pool[c][i].free \ {line} \in SUBSET (0 .. 31)
          /\ line \in Nat
      BY <2>4, <2>5
    <2>7. h.pool[c][i].free \subseteq 0 .. Slots[c] - 1
      BY <1>0, <2>2 DEF PoolsOK, LinesThere
    <2>8. q \in [Classes -> Seq(PoolType)] /\ Changed(h.pool, q, c, i, h.pool[c][i].free \ {line})
      BY <1>0, <2>2, <2>6, FreeSet
    <2>9. PoolsOK(q)
      <3>1. h.pool[c][i].free \ {line} \subseteq 0 .. Slots[c] - 1
        BY <2>7
      <3> HIDE DEF q
      <3> QED
        BY <1>0, <2>8, <3>1, ChangedPools
    <2>10. Layout(q, B \cup {<<at, n>>}) /\ \A b \in B : b[1] # at
      <3> HIDE DEF q, B
      <3>1. line \in 0 .. Slots[c] - 1 /\ line \in h.pool[c][i].free
        BY <2>5, <2>7
      <3> QED
        BY <1>0, <1>3, <2>2, <2>6, <2>8, <3>1, LineTaken DEF c
    <2>11. m.at = at /\ m.heap = [h EXCEPT !.pool = q]
      <3>1. m = OnLine(h, c)
        BY <1>3 DEF malloc_from_pool, open, c
      <3> QED
        BY <3>1 DEF OnLine, i, line, open
    <2> HIDE DEF q
    <2>12. /\ m.heap.pool = q /\ m.heap \in HeapType
           /\ m.heap.size = h.size /\ m.heap.at = h.at /\ m.heap.memory = h.memory
           /\ m.heap.usage = h.usage
      BY <2>8, <2>11, <1>0 DEF HeapType
    <2>13. at \in Place
      BY <2>4, <2>6 DEF Place
    <2>14. \A x \in Live(h) : h.at[x] # at
      <3> HIDE DEF B, at
      <3>1. ASSUME NEW x \in Live(h) PROVE h.at[x] # at
        <4>1. <<h.at[x], h.size[x]>> \in B
          BY <1>2
        <4> QED
          BY <4>1, <2>10
      <3> QED
        BY <3>1
    <2> HIDE DEF at, B
    <2> QED
      BY <2>9, <2>10, <2>11, <2>12, <2>13, <2>14 DEF Allocated, B
  <1>4. CASE Small(n) /\ open = {} /\ Room(h) >= PoolWeight
    <2> DEFINE new == NewId(h)
               at == <<new, 0>>
               q == [h.pool EXCEPT ![c] = <<[id |-> new, free |-> 1 .. Slots[c] - 1]>> \o h.pool[c]]
    <2>1. Room(h) >= 1
      BY <1>0, <1>4, RoomIs DEF MemAssumption
    <2>2. /\ new \in 1 .. HeapMax
          /\ \A d \in Classes : \A i \in 1 .. Len(h.pool[d]) : h.pool[d][i].id # new
          /\ \A x \in LargeOf(h) : h.at[x][1] # new
      BY <1>0, <2>1, NewIdIs
    <2> HIDE DEF new
    <2>3. \A b \in B : ~Small(b[2]) => b[1][1] # new
      BY <1>1, <2>2 DEF LargeOf
    <2>4. /\ PoolsOK(q) /\ Layout(q, B \cup {<<at, n>>})
          /\ \A b \in B : b[1] # at
      <3> DEFINE r == q
      <3>1. r = [h.pool EXCEPT ![c] = <<[id |-> new, free |-> 1 .. Slots[c] - 1]>> \o h.pool[c]]
        OBVIOUS
      <3> HIDE DEF q, B
      <3>2. PoolsOK(r) /\ Layout(r, B \cup {<<<<new, 0>>, n>>}) /\ \A b \in B : b[1] # <<new, 0>>
        <4> HIDE DEF r
        <4> QED
          <5>1. Opened(h.pool, r, c, new)
            BY <1>0, <3>1 DEF Opened, PoolsOK
          <5> HIDE DEF c
          <5> QED
            BY <1>0, <1>4, <2>2, <2>3, <5>1, PoolOpened DEF c
      <3> QED
        BY <3>2
    <2>5. m.at = at /\ m.heap = [h EXCEPT !.pool = q]
      <3>1. m = OnNewPool(h, c)
        BY <1>4 DEF malloc_from_pool
      <3> QED
        BY <3>1 DEF OnNewPool, new
    <2> HIDE DEF q
    <2>6. /\ m.heap.pool = q /\ m.heap \in HeapType
          /\ m.heap.size = h.size /\ m.heap.at = h.at /\ m.heap.memory = h.memory
          /\ m.heap.usage = h.usage
      BY <2>4, <2>5, <1>0 DEF HeapType, PoolsOK
    <2>7. at \in Place
      BY <2>2 DEF Place
    <2>8. \A x \in Live(h) : h.at[x] # at
      <3> HIDE DEF B, at
      <3>1. ASSUME NEW x \in Live(h) PROVE h.at[x] # at
        <4>1. <<h.at[x], h.size[x]>> \in B
          BY <1>2
        <4> QED
          BY <4>1, <2>4
      <3> QED
        BY <3>1
    <2> HIDE DEF at, B
    <2> QED
      BY <2>4, <2>5, <2>6, <2>7, <2>8 DEF Allocated, B
  <1>5. CASE ~Small(n) /\ Room(h) >= Weight(n)
    <2> DEFINE new == NewId(h)
               at == <<new, 0>>
    <2>1. Room(h) >= 1
      <3>1. Weight(n) >= 1 /\ Weight(n) \in Int
        BY <1>5 DEF Small, Weight
      <3> QED
        BY <1>0, <1>5, <3>1, RoomIs
    <2>2. /\ new \in 1 .. HeapMax
          /\ \A d \in Classes : \A i \in 1 .. Len(h.pool[d]) : h.pool[d][i].id # new
          /\ \A x \in LargeOf(h) : h.at[x][1] # new
      BY <1>0, <2>1, NewIdIs
    <2>3. m.at = at /\ m.heap = h
      BY <1>5 DEF malloc_from_pool
    <2> HIDE DEF new
    <2>4. \A b \in B : ~Small(b[2]) => b[1][1] # new
      BY <1>1, <2>2 DEF LargeOf
    <2>5. Layout(h.pool, B \cup {<<at, n>>}) /\ \A b \in B : b[1] # at
      <3> HIDE DEF B
      <3>1. new \in Nat
        BY <2>2
      <3>2. Layout(h.pool, B) /\ n \in Nat \ {0} /\ ~Small(n)
        BY <1>0, <1>5
      <3>3. \A d \in Classes : \A i \in 1 .. Len(h.pool[d]) : h.pool[d][i].id # new
        BY <2>2
      <3> QED
        BY <2>4, <3>1, <3>2, <3>3, LargePlaced
    <2>6. at \in Place
      BY <2>2 DEF Place
    <2>7. \A x \in Live(h) : h.at[x] # at
      <3> HIDE DEF B, at
      <3>1. ASSUME NEW x \in Live(h) PROVE h.at[x] # at
        <4>1. <<h.at[x], h.size[x]>> \in B
          BY <1>2
        <4> QED
          BY <4>1, <2>5
      <3> QED
        BY <3>1
    <2> HIDE DEF at, B
    <2> QED
      BY <1>0, <2>3, <2>5, <2>6, <2>7 DEF Allocated, B
  <1>6. ~(Small(n) /\ open # {}) /\ ~(Small(n) /\ open = {} /\ Room(h) >= PoolWeight)
        /\ ~(~Small(n) /\ Room(h) >= Weight(n)) => FALSE
    BY DEF malloc_from_pool
  <1> HIDE DEF open, c, B
  <1> QED
    BY <1>3, <1>4, <1>5, <1>6

Freed(h, g, B, b) ==
    /\ g \in HeapType /\ PoolsOK(g.pool) /\ Layout(g.pool, B \ {b})
    /\ g.size = h.size /\ g.at = h.at /\ g.usage = h.usage
    /\ g.memory = [h.memory EXCEPT ![b[1]] = NONE]

\* A block that is freed leaves the others where they are.
LEMMA FreeIs ==
    ASSUME MemAssumption, NEW h \in HeapType, PoolsOK(h.pool), NEW B, Layout(h.pool, B),
           NEW at \in Place, NEW n, <<at, n>> \in B
    PROVE  Freed(h, free_from_pool(h, at, n), B, <<at, n>>)
  <1> DEFINE b == <<at, n>>
             p == h.pool
             c == Class(n)
             memory == [h.memory EXCEPT ![at] = NONE]
             g == free_from_pool(h, at, n)
  <1>1. b \in B /\ b[1] = at /\ b[2] = n /\ c \in Classes
    BY ClassIs
  <1>2. memory \in [Place -> Object \cup {NONE}]
    BY HeapFields
  <1>3. CASE ~Small(n)
    <2>1. g = [h EXCEPT !.memory = memory]
      BY <1>3 DEF free_from_pool
    <2> HIDE DEF memory, g
    <2>2. /\ g \in HeapType /\ g.pool = p /\ g.size = h.size /\ g.at = h.at /\ g.usage = h.usage
          /\ g.memory = memory
      BY <1>2, <2>1 DEF HeapType
    <2>3. Layout(p, B \ {b})
      <3> HIDE DEF b
      <3> QED
        BY <1>1, <1>3, LargeGone
    <2> QED
      BY <2>2, <2>3 DEF Freed, memory, g
  <1>4. CASE Small(n)
    <2>1. PICK i \in 1 .. Len(p[c]) : p[c][i].id = at[1] /\ Used(p, c, i, at[2])
      <3> HIDE DEF c, b, p
      <3>1. \E i \in 1 .. Len(p[Class(b[2])]) : p[Class(b[2])][i].id = b[1][1] /\ Used(p, Class(b[2]), i, b[1][2])
        BY <1>1, <1>4 DEF Layout, BlocksPlaced, p
      <3> QED
        BY <1>1, <3>1 DEF c
    <2> DEFINE s == [j \in DOMAIN p[c] |->
                       IF p[c][j].id = at[1] THEN [id |-> at[1], free |-> p[c][j].free \cup {at[2]}]
                       ELSE p[c][j]]
               q == [p EXCEPT ![c] = s]
               lines == p[c][i].free \cup {at[2]}
    <2>2. g = [h EXCEPT !.memory = memory, !.pool = q]
      BY <1>4 DEF free_from_pool
    <2>3. p \in [Classes -> Seq(PoolType)] /\ p[c] \in Seq(PoolType) /\ DOMAIN p[c] = 1 .. Len(p[c])
      BY <1>1 DEF PoolsOK
    <2>4. at[1] \in 1 .. HeapMax /\ at[2] \in 0 .. 31
      BY DEF Place
    <2> HIDE DEF p, c
    <2>5. \A j \in 1 .. Len(p[c]) : p[c][j].id = at[1] => j = i
      BY <1>1, <2>1 DEF PoolsOK, IdsDiffer, p
    <2>6. \A j \in 1 .. Len(p[c]) : p[c][j] \in PoolType
      BY <2>3, ElementOfSeq
    <2>7. \A j \in 1 .. Len(p[c]) : s[j] \in PoolType
      <3> SUFFICES ASSUME NEW j \in 1 .. Len(p[c]) PROVE s[j] \in PoolType
        OBVIOUS
      <3>1. p[c][j] \in PoolType
        BY <2>6
      <3>2. s[j] = IF p[c][j].id = at[1] THEN [id |-> at[1], free |-> p[c][j].free \cup {at[2]}]
                   ELSE p[c][j]
        BY <2>3
      <3>3. p[c][j].free \cup {at[2]} \in SUBSET (0 .. 31)
        BY <3>1, <2>4 DEF PoolType
      <3>4. [id |-> at[1], free |-> p[c][j].free \cup {at[2]}] \in PoolType
        BY <3>3, <2>4 DEF PoolType
      <3> HIDE DEF s
      <3> QED
        BY <3>1, <3>2, <3>4
    <2>8. s \in Seq(PoolType) /\ Len(s) = Len(p[c])
      <3>1. DOMAIN s = 1 .. Len(p[c]) /\ Len(p[c]) \in Nat
        BY <2>3
      <3>2. s \in [1 .. Len(p[c]) -> PoolType]
        BY <2>3, <2>7
      <3> HIDE DEF s
      <3> QED
        BY <3>1, <3>2, SeqDef, LenProperties
    <2>9. \A j \in 1 .. Len(p[c]) : s[j].id = p[c][j].id
                 /\ s[j].free = IF j = i THEN lines ELSE p[c][j].free
      BY <2>1, <2>3, <2>5
    <2> HIDE DEF s
    <2>10. q \in [Classes -> Seq(PoolType)] /\ q[c] = s /\ \A d \in Classes : d # c => q[d] = p[d]
      BY <1>1, <2>3, <2>8
    <2> HIDE DEF q, lines
    <2>11. Changed(p, q, c, i, lines)
      <3>1. \A d \in Classes : Len(q[d]) = Len(p[d])
        BY <2>8, <2>10
      <3>2. ASSUME NEW d \in Classes, NEW k \in 1 .. Len(p[d])
            PROVE  /\ q[d][k].id = p[d][k].id
                   /\ q[d][k].free = IF d = c /\ k = i THEN lines ELSE p[d][k].free
        <4>1. CASE d = c
          BY <4>1, <2>9, <2>10
        <4>2. CASE d # c
          BY <4>2, <2>10
        <4> QED
          BY <4>1, <4>2
      <3> QED
        BY <3>1, <3>2 DEF Changed
    <2>12. lines \subseteq 0 .. Slots[c] - 1
      <3>1. p[c][i].free \subseteq 0 .. Slots[c] - 1
        BY <1>1, <2>1 DEF PoolsOK, LinesThere, p
      <3>2. at[2] \in 0 .. Slots[c] - 1
        BY <2>1 DEF Used
      <3> QED
        BY <3>1, <3>2 DEF lines
    <2>13. PoolsOK(q)
      BY <2>10, <2>11, <2>12, ChangedPools DEF p
    <2>14. Layout(q, B \ {b})
      <3> HIDE DEF b
      <3>1. Small(b[2]) /\ Class(b[2]) = c /\ p[Class(b[2])][i].id = b[1][1]
        BY <1>1, <1>4, <2>1 DEF c
      <3>2. i \in 1 .. Len(p[Class(b[2])])
        BY <3>1
      <3>3. Changed(p, q, Class(b[2]), i, p[Class(b[2])][i].free \cup {b[1][2]})
        BY <1>1, <2>11, <3>1 DEF lines
      <3>4. PoolsOK(p) /\ Layout(p, B)
        BY DEF p
      <3> QED
        BY <1>1, <3>1, <3>2, <3>3, <3>4, LineGiven
    <2> HIDE DEF memory, g
    <2>15. /\ g \in HeapType /\ g.pool = q /\ g.size = h.size /\ g.at = h.at /\ g.usage = h.usage
           /\ g.memory = memory
      BY <1>2, <2>2, <2>10 DEF HeapType
    <2> QED
      BY <2>13, <2>14, <2>15 DEF Freed, memory, g
  <1> QED
    BY <1>3, <1>4

-----------------------------------------------------------------------------
(***************************************************************************)
(* Bytes.                                                                  *)
(***************************************************************************)

\* There are n numbers beside a first member.
LEMMA PairsCount ==
    ASSUME NEW x, NEW n \in Nat
    PROVE  IsFiniteSet({x} \X (1 .. n)) /\ Cardinality({x} \X (1 .. n)) = n
  <1> DEFINE f == [i \in 1 .. n |-> <<x, i>>]
             T == {x} \X (1 .. n)
  <1>1. \A t \in T : \E i \in 1 .. n : f[i] = t
    OBVIOUS
  <1>2. \A i \in 1 .. n : f[i] \in T
    OBVIOUS
  <1>3. f \in Bijection(1 .. n, T)
    <2>1. \A i, k \in 1 .. n : f[i] = f[k] => i = k
      OBVIOUS
    <2>2. f \in [1 .. n -> T]
      BY <1>2
    <2> HIDE DEF f, T
    <2> QED
      BY <1>1, <2>1, <2>2 DEF Bijection, Injection, Surjection, IsInjective
  <1> HIDE DEF f, T
  <1>4. IsFiniteSet(1 .. n) /\ Cardinality(1 .. n) = n
    BY FS_Interval
  <1>5. IsFiniteSet(T) /\ Cardinality(T) = Cardinality(1 .. n)
    BY <1>3, <1>4, FS_Bijection DEF ExistsBijection
  <1> QED
    BY <1>4, <1>5 DEF T

\* A block of another size changes the bytes by the difference.
LEMMA BytesChange ==
    ASSUME MemAssumption, NEW h, NEW g, h.size \in [Object -> Nat], NEW x \in Object, NEW n \in Nat,
           g.size = [h.size EXCEPT ![x] = n]
    PROVE  /\ IsFiniteSet(BytesOf(h)) /\ Cardinality(BytesOf(h)) \in Nat
           /\ Cardinality(BytesOf(g)) = Cardinality(BytesOf(h)) + n - h.size[x]
  <1> DEFINE s == h.size
             O == Object \ {x}
             R == UNION {{y} \X (1 .. s[y]) : y \in O}
             old == {x} \X (1 .. s[x])
             new == {x} \X (1 .. n)
  <1>1. s \in [Object -> Nat] /\ s[x] \in Nat
    OBVIOUS
  <1>2. IsFiniteSet(R)
    <2> DEFINE f == [y \in O |-> s[y]]
    <2>1. f \in [O -> Nat] /\ \A y \in O : f[y] = s[y]
      BY <1>1
    <2>2. IsFiniteSet(O)
      BY FS_RemoveElement DEF MemAssumption
    <2>3. IsFiniteSet(UNION {{y} \X (1 .. f[y]) : y \in O})
      <3> HIDE DEF f, O
      <3> QED
        BY <2>1, <2>2, PairsFinite
    <2>4. R = UNION {{y} \X (1 .. f[y]) : y \in O}
      <3> HIDE DEF f, O
      <3> QED
        BY <2>1
    <2> QED
      BY <2>3, <2>4
  <1>3. BytesOf(h) = R \cup old
    BY DEF BytesOf
  <1>4. BytesOf(g) = R \cup new
    <2>1. g.size[x] = n /\ \A y \in O : g.size[y] = s[y]
      BY <1>1
    <2> QED
      BY <2>1 DEF BytesOf
  <1>5. R \cap old = {} /\ R \cap new = {}
    OBVIOUS
  <1>6. /\ IsFiniteSet(old) /\ Cardinality(old) = s[x]
        /\ IsFiniteSet(new) /\ Cardinality(new) = n
    BY <1>1, PairsCount
  <1> HIDE DEF R, old, new, O
  <1>7. /\ IsFiniteSet(R \cup old) /\ IsFiniteSet(R \cup new)
        /\ Cardinality(R \cup old) = Cardinality(R) + Cardinality(old) - Cardinality(R \cap old)
        /\ Cardinality(R \cup new) = Cardinality(R) + Cardinality(new) - Cardinality(R \cap new)
    BY <1>2, <1>6, FS_Union
  <1>8. Cardinality(R \cap old) = 0 /\ Cardinality(R \cap new) = 0
    BY <1>5, FS_EmptySet
  <1>9. Cardinality(R) \in Nat
    BY <1>2, FS_CardinalityType
  <1>10. Cardinality(BytesOf(h)) = Cardinality(R) + s[x] /\ Cardinality(BytesOf(g)) = Cardinality(R) + n
    BY <1>3, <1>4, <1>6, <1>7, <1>8, <1>9
  <1>11. IsFiniteSet(BytesOf(h))
    BY <1>3, <1>7
  <1> HIDE DEF s
  <1>12. Cardinality(BytesOf(g)) = Cardinality(BytesOf(h)) + n - s[x] /\ Cardinality(BytesOf(h)) \in Nat
    BY <1>1, <1>9, <1>10
  <1> QED
    BY <1>11, <1>12 DEF s

-----------------------------------------------------------------------------
(***************************************************************************)
(* Operations on the heap.                                                 *)
(***************************************************************************)

Others(h, x) == {<<h.at[y], h.size[y]>> : y \in Live(h) \ {x}}

\* g is h, but for x, which has n bytes at a place, and for its pools.
Reassigned(h, g, x, n, at) ==
    /\ g \in HeapType /\ PoolsOK(g.pool)
    /\ g.size = [h.size EXCEPT ![x] = n] /\ g.at = [h.at EXCEPT ![x] = at]
    /\ Layout(g.pool, Others(h, x) \cup (IF n = 0 THEN {} ELSE {<<at, n>>}))
    /\ n # 0 => at \in Place /\ g.memory[at] = x
    /\ \A y \in Live(h) \ {x} : g.memory[h.at[y]] = y
    /\ g.usage = h.usage + n - h.size[x]

LiveWith(h, x, n) == IF n = 0 THEN Live(h) \ {x} ELSE Live(h) \cup {x}

\* Such a heap is as good as the one before.
LEMMA ReassignedOK ==
    ASSUME MemAssumption, NEW h, HeapOK(h), NEW g, NEW x \in Object, NEW n \in Nat, NEW at,
           Reassigned(h, g, x, n, at)
    PROVE  HeapOK(g) /\ Live(g) = LiveWith(h, x, n)
  <1>1. /\ h.size \in [Object -> Nat] /\ h.at \in [Object -> Nat \X Nat] /\ h.usage \in Int
        /\ h.usage = Cardinality(BytesOf(h)) /\ Written(h)
    BY HeapFields DEF HeapOK
  <1>2. /\ g.size = [h.size EXCEPT ![x] = n] /\ g.at = [h.at EXCEPT ![x] = at]
        /\ g.usage = h.usage + n - h.size[x]
    BY DEF Reassigned
  <1>3. \A y \in Object : y # x => g.size[y] = h.size[y] /\ g.at[y] = h.at[y]
    BY <1>1, <1>2
  <1>4. g.size[x] = n /\ g.at[x] = at
    BY <1>1, <1>2
  <1>5. Live(g) = LiveWith(h, x, n)
    <2>1. \A y \in Object : y # x => (y \in Live(g) <=> y \in Live(h))
      BY <1>3 DEF Live
    <2>2. x \in Live(g) <=> n # 0
      BY <1>4 DEF Live
    <2>3. Live(g) \subseteq Object /\ Live(h) \subseteq Object
      BY DEF Live
    <2> QED
      BY <2>1, <2>2, <2>3 DEF LiveWith
  <1>6. Blocks(g) = Others(h, x) \cup (IF n = 0 THEN {} ELSE {<<at, n>>})
    <2>1. Live(h) \subseteq Object
      BY DEF Live
    <2>2. \A y \in Live(h) \ {x} : <<g.at[y], g.size[y]>> = <<h.at[y], h.size[y]>>
      BY <1>3, <2>1
    <2>3. CASE n = 0
      <3>1. Live(g) = Live(h) \ {x}
        BY <1>5, <2>3 DEF LiveWith
      <3> QED
        BY <2>2, <2>3, <3>1 DEF Blocks, Others
    <2>4. CASE n # 0
      <3>1. Live(g) = (Live(h) \ {x}) \cup {x}
        BY <1>5, <2>4 DEF LiveWith
      <3> QED
        BY <1>4, <2>2, <2>4, <3>1 DEF Blocks, Others
    <2> QED
      BY <2>3, <2>4
  <1>7. Written(g)
    <2> SUFFICES ASSUME NEW y \in Live(g) PROVE g.at[y] \in Place /\ g.memory[g.at[y]] = y
      BY DEF Written
    <2>1. CASE y = x
      <3>1. n # 0
        BY <1>4, <2>1 DEF Live
      <3> QED
        BY <1>4, <2>1, <3>1 DEF Reassigned
    <2>2. CASE y # x
      <3>1. y \in Live(h) \ {x} /\ y \in Object
        BY <1>5, <2>2 DEF LiveWith, Live
      <3>2. g.memory[h.at[y]] = y /\ h.at[y] \in Place
        BY <1>1, <3>1 DEF Reassigned, Written
      <3> QED
        BY <1>3, <2>2, <3>1, <3>2
    <2> QED
      BY <2>1, <2>2
  <1>8. g.usage = Cardinality(BytesOf(g))
    <2>1. Cardinality(BytesOf(g)) = Cardinality(BytesOf(h)) + n - h.size[x]
      BY <1>1, <1>2, BytesChange
    <2> QED
      BY <1>1, <1>2, <2>1
  <1> QED
    BY <1>5, <1>6, <1>7, <1>8 DEF HeapOK, Reassigned

\* No two objects share a block.
LEMMA OtherBlocks ==
    ASSUME NEW h, Written(h), NEW x
    PROVE  Others(h, x) = IF x \in Live(h) THEN Blocks(h) \ {<<h.at[x], h.size[x]>>} ELSE Blocks(h)
  <1>1. CASE x \in Live(h)
    <2>1. \A y \in Live(h) : y # x => h.at[y] # h.at[x]
      BY <1>1 DEF Written
    <2> QED
      BY <1>1, <2>1 DEF Others, Blocks
  <1>2. CASE x \notin Live(h)
    <2>1. Live(h) \ {x} = Live(h)
      BY <1>2
    <2> QED
      BY <1>2, <2>1 DEF Others, Blocks
  <1> QED
    BY <1>1, <1>2

\* The block of an object that is live.
LEMMA LiveBlock ==
    ASSUME NEW h, HeapOK(h), NEW x \in Live(h)
    PROVE  /\ x \in Object /\ h.at[x] \in Place /\ h.memory[h.at[x]] = x
           /\ h.size[x] \in Nat \ {0} /\ <<h.at[x], h.size[x]>> \in Blocks(h)
  <1>1. h.size \in [Object -> Nat]
    BY HeapFields DEF HeapOK
  <1> QED
    BY <1>1 DEF HeapOK, Written, Live, Blocks

\* An object's memory is freed.
LEMMA be_freeOK ==
    ASSUME MemAssumption, NEW h, HeapOK(h), NEW x \in Live(h)
    PROVE  HeapOK(be_free(h, x)) /\ Live(be_free(h, x)) = Live(h) \ {x}
  <1> DEFINE at == h.at[x]
             n == h.size[x]
             f == free_from_pool(h, at, n)
             g == be_free(h, x)
             none == <<1, 0>>
  <1>1. /\ x \in Object /\ at \in Place /\ h.memory[at] = x
        /\ n \in Nat \ {0} /\ <<at, n>> \in Blocks(h)
    BY LiveBlock
  <1>2. h \in HeapType /\ PoolsOK(h.pool) /\ Layout(h.pool, Blocks(h)) /\ Written(h)
    BY DEF HeapOK
  <1>3. g = Assign(f, x, 0, none)
    BY DEF be_free
  <1>4. Freed(h, f, Blocks(h), <<at, n>>)
    <2> HIDE DEF at, n, f
    <2>1. Freed(h, free_from_pool(h, at, n), Blocks(h), <<at, n>>)
      BY <1>1, <1>2, FreeIs
    <2> QED
      BY <2>1 DEF f
  <1> HIDE DEF f, g
  <1>5. /\ g.pool = f.pool /\ g.size = [f.size EXCEPT ![x] = 0] /\ g.at = [f.at EXCEPT ![x] = none]
        /\ g.memory = f.memory /\ g.usage = f.usage + 0 - f.size[x]
        /\ g = [pool |-> g.pool, size |-> g.size, at |-> g.at, memory |-> g.memory, usage |-> g.usage]
    BY <1>3 DEF Assign
  <1>6. /\ f \in HeapType /\ PoolsOK(f.pool) /\ Layout(f.pool, Blocks(h) \ {<<at, n>>})
        /\ f.size = h.size /\ f.at = h.at /\ f.usage = h.usage /\ f.memory = [h.memory EXCEPT ![at] = NONE]
    BY <1>4 DEF Freed
  <1>7. /\ f.pool \in [Classes -> Seq(PoolType)] /\ f.size \in [Object -> Nat]
        /\ f.at \in [Object -> Nat \X Nat] /\ f.memory \in [Place -> Object \cup {NONE}]
        /\ f.usage \in Int
    BY <1>6, HeapFields
  <1>8. g \in HeapType
    <2>1. g.size \in [Object -> Nat] /\ g.at \in [Object -> Nat \X Nat] /\ g.usage \in Int
      BY <1>1, <1>5, <1>7
    <2> QED
      BY <1>5, <1>7, <2>1 DEF HeapType
  <1>9. Layout(g.pool, Others(h, x) \cup {})
    <2>1. Others(h, x) = Blocks(h) \ {<<at, n>>}
      BY <1>2, OtherBlocks
    <2> QED
      BY <1>5, <1>6, <2>1
  <1>10. \A y \in Live(h) \ {x} : g.memory[h.at[y]] = y
    <2> SUFFICES ASSUME NEW y \in Live(h) \ {x} PROVE g.memory[h.at[y]] = y
      OBVIOUS
    <2>1. h.memory[h.at[y]] = y /\ h.at[y] \in Place /\ h.memory[at] = x
      BY <1>1, <1>2 DEF Written
    <2>2. h.at[y] # at
      BY <2>1
    <2>3. h.memory \in [Place -> Object \cup {NONE}]
      BY <1>2, HeapFields
    <2> HIDE DEF at
    <2> QED
      BY <1>5, <1>6, <2>1, <2>2, <2>3
  <1>11. Reassigned(h, g, x, 0, none)
    BY <1>5, <1>6, <1>8, <1>9, <1>10 DEF Reassigned
  <1>12. HeapOK(g) /\ Live(g) = LiveWith(h, x, 0)
    BY <1>1, <1>11, ReassignedOK
  <1> QED
    BY <1>12 DEF LiveWith, g

\* The pools without a block go.
LEMMA PoolsGone ==
    ASSUME MemAssumption, NEW h, HeapOK(h)
    PROVE  LET g == be_gc_memory_pools(h)
           IN  /\ HeapOK(g) /\ Live(g) = Live(h)
               /\ \A c \in Classes : \A i \in 1 .. Len(g.pool[c]) : g.pool[c][i].free # 0 .. Slots[c] - 1
  <1> DEFINE g == be_gc_memory_pools(h)
             q == [c \in Classes |-> Kept(h.pool[c], Busy(h.pool, c))]
  <1>1. h \in HeapType /\ PoolsOK(h.pool) /\ Layout(h.pool, Blocks(h))
    BY DEF HeapOK
  <1>2. g = [h EXCEPT !.pool = q]
    <2>1. g = [h EXCEPT !.pool = [c \in {16, 32} |->
                 Kept(h.pool[c], {i \in DOMAIN h.pool[c] : h.pool[c][i].free # 0 .. Slots[c] - 1})]]
      BY DEF be_gc_memory_pools
    <2> QED
      BY <2>1 DEF Classes, Busy
  <1>3. /\ PoolsOK(q) /\ Layout(q, Blocks(h))
        /\ \A c \in Classes : \A i \in 1 .. Len(q[c]) : q[c][i].free # 0 .. Slots[c] - 1
    <2>1. /\ DOMAIN q = Classes /\ q = [c \in DOMAIN q |-> q[c]]
          /\ \A c \in Classes : q[c] = Kept(h.pool[c], Busy(h.pool, c))
      OBVIOUS
    <2> DEFINE p == h.pool
               B == Blocks(h)
    <2>2. PoolsOK(p) /\ Layout(p, B) /\ BusyKept(p, q)
      BY <1>1, <2>1 DEF BusyKept
    <2> HIDE DEF q, p, B
    <2>3. /\ PoolsOK(q) /\ Layout(q, B)
          /\ \A c \in Classes : \A i \in 1 .. Len(q[c]) : q[c][i].free # 0 .. Slots[c] - 1
      BY <2>2, PoolsKept
    <2> QED
      BY <2>3 DEF B
  <1> HIDE DEF g, q
  <1>4. /\ g \in HeapType /\ g.pool = q /\ g.size = h.size /\ g.at = h.at /\ g.memory = h.memory
        /\ g.usage = h.usage
    BY <1>1, <1>2, <1>3 DEF HeapType, PoolsOK
  <1>5. Live(g) = Live(h) /\ Blocks(g) = Blocks(h) /\ BytesOf(g) = BytesOf(h)
    BY <1>4 DEF Live, Blocks, BytesOf
  <1>6. HeapOK(g)
    BY <1>3, <1>4, <1>5 DEF HeapOK, Written
  <1> QED
    BY <1>3, <1>4, <1>5, <1>6 DEF g

Releases(f, h, X) ==
    /\ Released(h, X) = f[X]
    /\ f[{}] = h
    /\ \A Y \in SUBSET X : Y # {} => \E x \in Y : f[Y] = be_free(f[Y \ {x}], x)

\* The objects of a finite set can be freed one after the other.
LEMMA ReleasedSteps ==
    ASSUME NEW h, NEW X, IsFiniteSet(X)
    PROVE  \E f : Releases(f, h, X)
  <1> DEFINE pick(Y) == CHOOSE y \in Y : TRUE
             step(f, Y) == IF Y = {} THEN h ELSE be_free(f[Y \ {pick(Y)}], pick(Y))
             body(f) == [Y \in SUBSET X |-> IF Y = {} THEN h
                           ELSE LET x == CHOOSE y \in Y : TRUE IN be_free(f[Y \ {x}], x)]
             K == CHOOSE f : f = body(f)
             n == Cardinality(X)
             Upto(f, k) == f = [Y \in SUBSET X |-> f[Y]] /\ \A Y \in SUBSET X : Cardinality(Y) <= k => f[Y] = step(f, Y)
             P == {k \in 0 .. n : \E f : Upto(f, k)}
  <1>1. n \in Nat
    BY FS_CardinalityType
  <1>2. ASSUME NEW Y \in SUBSET X
        PROVE  /\ Cardinality(Y) \in Nat /\ Cardinality(Y) <= n
               /\ Cardinality(Y) = 0 => Y = {}
               /\ Y # {} => /\ pick(Y) \in Y /\ Y \ {pick(Y)} \in SUBSET X
                            /\ Cardinality(Y \ {pick(Y)}) = Cardinality(Y) - 1
    <2>1. IsFiniteSet(Y) /\ Cardinality(Y) <= n
      BY FS_Subset
    <2>2. Y # {} => pick(Y) \in Y
      OBVIOUS
    <2> HIDE DEF pick
    <2> QED
      BY <2>1, <2>2, FS_CardinalityType, FS_EmptySet, FS_RemoveElement
  <1> HIDE DEF pick, n
  <1>3. 0 \in P
    <2> DEFINE f == [Y \in SUBSET X |-> h]
    <2>1. \A Y \in SUBSET X : Cardinality(Y) <= 0 => f[Y] = step(f, Y)
      <3> SUFFICES ASSUME NEW Y \in SUBSET X, Cardinality(Y) <= 0 PROVE f[Y] = step(f, Y)
        OBVIOUS
      <3>1. Cardinality(Y) \in Nat
        BY <1>2
      <3>2. Cardinality(Y) = 0
        BY <3>1
      <3>3. Y = {}
        BY <1>2, <3>2
      <3> QED
        BY <3>3
    <2>2. Upto(f, 0)
      BY <2>1
    <2>3. 0 \in 0 .. n
      BY <1>1
    <2> HIDE DEF Upto
    <2> QED
      BY <2>2, <2>3
  <1>4. ASSUME NEW k \in 0 .. n, k < n, k \in P PROVE k + 1 \in P
    <2>1. PICK f : Upto(f, k)
      BY <1>4
    <2> DEFINE g == [Y \in SUBSET X |-> IF Cardinality(Y) = k + 1 THEN step(f, Y) ELSE f[Y]]
    <2>2. ASSUME NEW Y \in SUBSET X, Cardinality(Y) <= k + 1 PROVE g[Y] = step(g, Y)
      <3>0. k \in Nat
        BY <1>1
      <3>1. Cardinality(Y) \in Nat /\ k \in Nat
        BY <1>2, <3>0
      <3>2. step(g, Y) = step(f, Y)
        <4>1. CASE Y = {}
          BY <4>1
        <4>2. CASE Y # {}
          <5> DEFINE Z == Y \ {pick(Y)}
          <5>1. Z \in SUBSET X /\ Cardinality(Z) = Cardinality(Y) - 1
            BY <1>2, <4>2
          <5>2. Cardinality(Z) # k + 1
            BY <5>1, <3>1, <2>2
          <5> HIDE DEF Z, step
          <5>3. g[Z] = f[Z]
            BY <5>1, <5>2
          <5> HIDE DEF g
          <5> QED
            BY <5>3, <4>2 DEF Z, step
        <4> QED
          BY <4>1, <4>2
      <3> HIDE DEF step
      <3>3. CASE Cardinality(Y) = k + 1
        <4>1. g[Y] = step(f, Y)
          BY <3>3
        <4> QED
          BY <4>1, <3>2
      <3>4. CASE Cardinality(Y) # k + 1
        <4>1. g[Y] = f[Y]
          BY <3>4
        <4>2. Cardinality(Y) <= k
          BY <3>1, <3>4, <2>2
        <4>3. f[Y] = step(f, Y)
          BY <2>1, <4>2
        <4> QED
          BY <4>1, <4>3, <3>2
      <3> QED
        BY <3>3, <3>4
    <2>3. g = [Y \in SUBSET X |-> g[Y]]
      OBVIOUS
    <2> HIDE DEF g, step
    <2>4. Upto(g, k + 1)
      BY <2>2, <2>3
    <2>5. k + 1 \in 0 .. n
      BY <1>1, <1>4
    <2> HIDE DEF Upto
    <2> QED
      BY <2>4, <2>5
  <1>5. 0 .. n \subseteq P
    <2> HIDE DEF P
    <2> QED
      BY <1>1, <1>3, <1>4, UpTo
  <1>6. PICK f : Upto(f, n)
    <2>1. n \in 0 .. n
      BY <1>1
    <2> HIDE DEF Upto
    <2> QED
      BY <1>5, <2>1
  <1>7. f = body(f)
    <2>1. \A Y \in SUBSET X : f[Y] = step(f, Y)
      BY <1>6, <1>2
    <2>2. f = [Y \in SUBSET X |-> step(f, Y)]
      <3> HIDE DEF step
      <3>1. f = [Y \in SUBSET X |-> f[Y]]
        BY <1>6
      <3> QED
        BY <2>1, <3>1
    <2> QED
      BY <2>2 DEF pick
  <1>8. K = body(K)
    <2> HIDE DEF body
    <2> QED
      BY <1>7, Zenon
  <1>9. Released(h, X) = K[X]
    BY DEF Released
  <1> HIDE DEF K
  <1>10. \A Y \in SUBSET X : K[Y] = step(K, Y)
    <2> SUFFICES ASSUME NEW Y \in SUBSET X PROVE K[Y] = step(K, Y)
      OBVIOUS
    <2>1. body(K)[Y] = step(K, Y)
      BY DEF pick
    <2> HIDE DEF body
    <2> QED
      BY <1>8, <2>1, Zenon
  <1>11. K[{}] = h
    BY <1>10
  <1>12. ASSUME NEW Y \in SUBSET X, Y # {} PROVE \E x \in Y : K[Y] = be_free(K[Y \ {x}], x)
    <2>1. pick(Y) \in Y
      BY <1>2, <1>12
    <2>2. K[Y] = be_free(K[Y \ {pick(Y)}], pick(Y))
      BY <1>10, <1>12
    <2> QED
      BY <2>1, <2>2
  <1> QED
    BY <1>9, <1>11, <1>12 DEF Releases

\* Freeing the objects X leaves the others as they were.
LEMMA ReleasedOK ==
    ASSUME MemAssumption, NEW h, HeapOK(h), NEW X, X \subseteq Live(h)
    PROVE  HeapOK(Released(h, X)) /\ Live(Released(h, X)) = Live(h) \ X
  <1>1. IsFiniteSet(X)
    BY LiveFinite, FS_Subset
  <1>2. PICK f : Releases(f, h, X)
    BY <1>1, ReleasedSteps
  <1> DEFINE n == Cardinality(X)
             Good(Y) == HeapOK(f[Y]) /\ Live(f[Y]) = Live(h) \ Y
             P == {k \in 0 .. n : \A Y \in SUBSET X : Cardinality(Y) = k => Good(Y)}
  <1>3. n \in Nat
    BY <1>1, FS_CardinalityType
  <1>4. ASSUME NEW Y \in SUBSET X PROVE IsFiniteSet(Y) /\ Cardinality(Y) \in Nat
    BY <1>1, FS_Subset, FS_CardinalityType
  <1>5. 0 \in P
    <2>1. ASSUME NEW Y \in SUBSET X, Cardinality(Y) = 0 PROVE Good(Y)
      <3>1. Y = {}
        BY <1>4, <2>1, FS_EmptySet
      <3>2. f[{}] = h
        BY <1>2 DEF Releases
      <3>3. f[Y] = h
        BY <3>1, <3>2
      <3> QED
        BY <3>1, <3>3
    <2>2. 0 \in 0 .. n
      BY <1>3
    <2> HIDE DEF Good, n
    <2> QED
      BY <2>1, <2>2
  <1>6. ASSUME NEW k \in 0 .. n, k < n, k \in P PROVE k + 1 \in P
    <2>1. ASSUME NEW Y \in SUBSET X, Cardinality(Y) = k + 1 PROVE Good(Y)
      <3>1. k \in Nat
        BY <1>3
      <3>2. Y # {}
        BY <2>1, <3>1, FS_EmptySet
      <3>3. PICK x \in Y : f[Y] = be_free(f[Y \ {x}], x)
        BY <1>2, <3>2 DEF Releases
      <3> DEFINE Z == Y \ {x}
      <3>4. Z \in SUBSET X /\ Cardinality(Z) = Cardinality(Y) - 1
        BY <1>4, FS_RemoveElement
      <3>5. Cardinality(Z) = k
        BY <2>1, <3>1, <3>4
      <3>6. Good(Z)
        <4> HIDE DEF Good, Z
        <4> QED
          BY <1>6, <3>4, <3>5
      <3>7. x \in Live(f[Z])
        BY <3>6
      <3>8. HeapOK(f[Y]) /\ Live(f[Y]) = Live(f[Z]) \ {x}
        <4>1. f[Y] = be_free(f[Z], x)
          BY <3>3
        <4> HIDE DEF Z
        <4> QED
          BY <3>6, <3>7, <4>1, be_freeOK
      <3> QED
        BY <3>6, <3>8
    <2>2. k + 1 \in 0 .. n
      BY <1>3, <1>6
    <2> HIDE DEF Good, n
    <2> QED
      BY <2>1, <2>2
  <1>7. 0 .. n \subseteq P
    <2> HIDE DEF P, n
    <2> QED
      BY <1>3, <1>5, <1>6, UpTo
  <1>8. Good(X)
    <2>1. n \in 0 .. n
      BY <1>3
    <2>2. \A Y \in SUBSET X : Cardinality(Y) = n => Good(Y)
      <3> HIDE DEF Good, n
      <3> QED
        BY <1>7, <2>1
    <2> HIDE DEF Good
    <2> QED
      BY <2>2
  <1>9. Released(h, X) = f[X]
    BY <1>2 DEF Releases
  <1> QED
    BY <1>8, <1>9

NoneEmpty(h) ==
    \A c \in Classes : \A i \in 1 .. Len(h.pool[c]) : h.pool[c][i].free # 0 .. Slots[c] - 1

\* A collection frees its objects and leaves no pool empty.
LEMMA CollectedOK ==
    ASSUME MemAssumption, NEW h, HeapOK(h), NEW X, X \subseteq Live(h)
    PROVE  /\ HeapOK(Collected(h, X)) /\ Live(Collected(h, X)) = Live(h) \ X
           /\ NoneEmpty(Collected(h, X))
  <1> DEFINE g == Released(h, X)
  <1>1. HeapOK(g) /\ Live(g) = Live(h) \ X
    BY ReleasedOK
  <1>2. Collected(h, X) = be_gc_memory_pools(g)
    BY DEF Collected
  <1> HIDE DEF g
  <1> QED
    BY <1>1, <1>2, PoolsGone DEF NoneEmpty

\* A block that grows or shrinks within its class stays on its line.
LEMMA Resized ==
    ASSUME NEW p, NEW B, Layout(p, B), NEW b \in B, NEW n \in Nat \ {0},
           Small(n) <=> Small(b[2]), Class(n) = Class(b[2])
    PROVE  Layout(p, (B \ {b}) \cup {<<b[1], n>>})
  <1> DEFINE e == <<b[1], n>>
             C == (B \ {b}) \cup {e}
  <1>1. e[1] = b[1] /\ e[2] = n
    OBVIOUS
  <1>2. B \subseteq BlockType /\ \A a, d \in B : a[1] = d[1] => a = d
    BY DEF Layout
  <1>3. e \in BlockType
    BY <1>2 DEF BlockType
  <1> HIDE DEF e
  <1>4. BlocksPlaced(p, C)
    <2>1. ASSUME NEW a \in C, Small(a[2])
          PROVE  \E k \in 1 .. Len(p[Class(a[2])]) :
                    p[Class(a[2])][k].id = a[1][1] /\ Used(p, Class(a[2]), k, a[1][2])
      <3>1. CASE a \in B
        BY <2>1, <3>1 DEF Layout, BlocksPlaced
      <3>2. CASE a = e
        <4>1. Small(b[2]) /\ Class(a[2]) = Class(b[2]) /\ a[1] = b[1]
          BY <2>1, <3>2, <1>1
        <4>2. PICK k \in 1 .. Len(p[Class(b[2])]) :
                p[Class(b[2])][k].id = b[1][1] /\ Used(p, Class(b[2]), k, b[1][2])
          BY <4>1 DEF Layout, BlocksPlaced
        <4> QED
          BY <4>1, <4>2
      <3> QED
        BY <3>1, <3>2
    <2>2. ASSUME NEW a \in C, ~Small(a[2])
          PROVE  /\ a[1][2] = 0
                 /\ \A c \in Classes : \A i \in 1 .. Len(p[c]) : p[c][i].id # a[1][1]
      <3>1. PICK d \in B : ~Small(d[2]) /\ d[1] = a[1]
        <4>1. CASE a \in B
          BY <4>1, <2>2
        <4>2. CASE a = e
          BY <4>2, <2>2, <1>1
        <4> QED
          BY <4>1, <4>2
      <3>2. /\ d[1][2] = 0
            /\ \A c \in Classes : \A i \in 1 .. Len(p[c]) : p[c][i].id # d[1][1]
        BY <3>1 DEF Layout, BlocksPlaced
      <3> QED
        BY <3>1, <3>2
    <2> QED
      BY <2>1, <2>2 DEF BlocksPlaced
  <1>5. LinesOwned(p, C)
    <2> SUFFICES ASSUME NEW d \in Classes, NEW k \in 1 .. Len(p[d]), NEW l, Used(p, d, k, l)
                 PROVE  \E a \in C : Small(a[2]) /\ Class(a[2]) = d /\ a[1] = <<p[d][k].id, l>>
      BY DEF LinesOwned
    <2>1. PICK a \in B : Small(a[2]) /\ Class(a[2]) = d /\ a[1] = <<p[d][k].id, l>>
      BY DEF Layout, LinesOwned
    <2>2. CASE a # b
      BY <2>1, <2>2
    <2>3. CASE a = b
      <3>1. Small(e[2]) /\ Class(e[2]) = d /\ e[1] = <<p[d][k].id, l>>
        BY <2>1, <2>3, <1>1
      <3> QED
        BY <3>1
    <2> QED
      BY <2>2, <2>3
  <1>6. \A a, d \in C : a[1] = d[1] => a = d
    BY <1>1, <1>2
  <1> QED
    BY <1>2, <1>3, <1>4, <1>5, <1>6 DEF Layout, e

Assigned(h, g, x, n, at) ==
    /\ g \in HeapType /\ g.pool = h.pool /\ g.size = [h.size EXCEPT ![x] = n]
    /\ g.at = [h.at EXCEPT ![x] = at] /\ g.memory = [h.memory EXCEPT ![at] = x]
    /\ g.usage = h.usage + n - h.size[x]

\* What Assign does to each field.
LEMMA AssignIs ==
    ASSUME NEW h \in HeapType, NEW x \in Object, NEW n \in Nat \ {0}, NEW at \in Place
    PROVE  Assigned(h, Assign(h, x, n, at), x, n, at)
  <1> DEFINE g == Assign(h, x, n, at)
  <1>1. /\ g.pool = h.pool /\ g.size = [h.size EXCEPT ![x] = n]
        /\ g.at = [h.at EXCEPT ![x] = at] /\ g.memory = [h.memory EXCEPT ![at] = x]
        /\ g.usage = h.usage + n - h.size[x]
        /\ g = [pool |-> g.pool, size |-> g.size, at |-> g.at, memory |-> g.memory, usage |-> g.usage]
    BY DEF Assign
  <1> HIDE DEF g
  <1>2. /\ h.pool \in [Classes -> Seq(PoolType)] /\ h.size \in [Object -> Nat]
        /\ h.at \in [Object -> Nat \X Nat] /\ h.memory \in [Place -> Object \cup {NONE}]
        /\ h.usage \in Int
    BY HeapFields
  <1>3. at \in Nat \X Nat
    BY DEF Place
  <1>4. /\ g.size \in [Object -> Nat] /\ g.at \in [Object -> Nat \X Nat] /\ g.usage \in Int
        /\ g.memory \in [Place -> Object \cup {NONE}]
    BY <1>1, <1>2, <1>3
  <1>5. g \in HeapType
    BY <1>1, <1>2, <1>4 DEF HeapType
  <1> QED
    BY <1>1, <1>5 DEF Assigned, g

\* A pass of be_realloc that succeeds gives x its n bytes.
LEMMA AttemptOK ==
    ASSUME MemAssumption, NEW h, HeapOK(h), NEW x \in Object, NEW n \in Nat \ {0},
           NEW g \in Attempt(h, x, n)
    PROVE  HeapOK(g) /\ Live(g) = Live(h) \cup {x}
  <1> DEFINE old == h.size[x]
             at == h.at[x]
             b == <<at, old>>
             B == Blocks(h)
  <1>1. h \in HeapType /\ PoolsOK(h.pool) /\ Layout(h.pool, B) /\ Written(h)
    BY DEF HeapOK
  <1>2. h.size \in [Object -> Nat] /\ h.memory \in [Place -> Object \cup {NONE}] /\ old \in Nat
    BY <1>1, HeapFields
  <1>3. x \in Live(h) <=> old # 0
    BY DEF Live
  <1>4. \A y \in Live(h) : h.at[y] \in Place /\ h.memory[h.at[y]] = y
    BY <1>1 DEF Written
  <1> HIDE DEF old
  <1>5. SUFFICES \E place : Reassigned(h, g, x, n, place)
    <2>1. PICK place : Reassigned(h, g, x, n, place)
      BY <1>5
    <2>2. HeapOK(g) /\ Live(g) = LiveWith(h, x, n)
      BY <2>1, ReassignedOK
    <2> QED
      BY <2>2 DEF LiveWith
  <1>6. CASE old = 0
    <2>1. PICK m \in malloc_from_pool(h, n) : g = Assign(m.heap, x, n, m.at)
      BY <1>6 DEF Attempt, old
    <2> DEFINE k == m.heap
               new == m.at
    <2>2. /\ k \in HeapType /\ PoolsOK(k.pool) /\ Layout(k.pool, B \cup {<<new, n>>})
          /\ new \in Place /\ \A y \in Live(h) : h.at[y] # new
          /\ k.size = h.size /\ k.at = h.at /\ k.memory = h.memory /\ k.usage = h.usage
      <3>1. Allocated(m, h, n)
        BY MallocIs
      <3> QED
        BY <3>1 DEF Allocated
    <2> HIDE DEF k, new
    <2>3. g = Assign(k, x, n, new)
      BY <2>1 DEF k, new
    <2>4. /\ g \in HeapType /\ g.pool = k.pool /\ g.size = [k.size EXCEPT ![x] = n]
          /\ g.at = [k.at EXCEPT ![x] = new] /\ g.memory = [k.memory EXCEPT ![new] = x]
          /\ g.usage = k.usage + n - k.size[x]
      <3>1. Assigned(k, g, x, n, new)
        BY <2>2, <2>3, AssignIs
      <3> QED
        BY <3>1 DEF Assigned
    <2>5. Others(h, x) = B
      BY <1>1, <1>3, <1>6, OtherBlocks
    <2>6. \A y \in Live(h) \ {x} : g.memory[h.at[y]] = y
      BY <1>2, <1>4, <2>2, <2>4
    <2>7. g.memory[new] = x
      BY <1>2, <2>2, <2>4
    <2>8. Reassigned(h, g, x, n, new)
      <3>1. Layout(g.pool, Others(h, x) \cup (IF n = 0 THEN {} ELSE {<<new, n>>}))
        BY <2>2, <2>4, <2>5
      <3> QED
        BY <2>2, <2>4, <2>6, <2>7, <3>1 DEF Reassigned
    <2> QED
      BY <2>8
  <1>7. CASE old # 0 /\ (Small(n) <=> Small(old)) /\ Class(n) = Class(old)
    <2>1. at \in Place /\ h.memory[at] = x
      BY <1>3, <1>4, <1>7
    <2>2. g = Assign(h, x, n, at)
      BY <1>7 DEF Attempt, old
    <2>3. b \in B
      BY <1>3, <1>7 DEF Blocks, old
    <2>4. Others(h, x) = B \ {b}
      BY <1>1, <1>3, <1>7, OtherBlocks DEF old
    <2> HIDE DEF B, at
    <2>5. Layout(h.pool, (B \ {b}) \cup {<<at, n>>})
      <3>1. b[1] = at /\ b[2] = old
        OBVIOUS
      <3> HIDE DEF b
      <3>2. Layout(h.pool, (B \ {b}) \cup {<<b[1], n>>})
        BY <1>1, <1>7, <2>3, <3>1, Resized
      <3> QED
        BY <3>1, <3>2
    <2>6. /\ g \in HeapType /\ g.pool = h.pool /\ g.size = [h.size EXCEPT ![x] = n]
          /\ g.at = [h.at EXCEPT ![x] = at] /\ g.memory = [h.memory EXCEPT ![at] = x]
          /\ g.usage = h.usage + n - h.size[x]
      <3>1. Assigned(h, g, x, n, at)
        BY <1>1, <2>1, <2>2, AssignIs
      <3> QED
        BY <3>1 DEF Assigned
    <2>7. g.memory = h.memory
      BY <1>2, <2>1, <2>6
    <2>8. Reassigned(h, g, x, n, at)
      <3>1. Layout(g.pool, Others(h, x) \cup (IF n = 0 THEN {} ELSE {<<at, n>>}))
        BY <2>4, <2>5, <2>6
      <3>2. \A y \in Live(h) \ {x} : g.memory[h.at[y]] = y
        BY <1>4, <2>7
      <3> QED
        BY <1>1, <2>1, <2>6, <2>7, <3>1, <3>2 DEF Reassigned
    <2> QED
      BY <2>8
  <1>8. CASE old # 0 /\ ~((Small(n) <=> Small(old)) /\ Class(n) = Class(old))
    <2>1. PICK m \in malloc_from_pool(h, n) : g = Moved(h, m, x, n)
      <3>1. Small(n) \/ Small(old)
        BY <1>8, <1>2 DEF Small, Class
      <3>2. ~(old # 0 /\ Small(n) /\ Small(old) /\ Class(n) = Class(old))
        BY <1>8
      <3>3. g \in {Moved(h, m, x, n) : m \in malloc_from_pool(h, n)}
        <4> HIDE DEF at
        <4> QED
          BY <1>8, <3>1, <3>2 DEF Attempt, old
      <3> QED
        BY <3>3
    <2> DEFINE k == m.heap
               new == m.at
               copied == [k EXCEPT !.memory[new] = h.memory[at]]
               f == free_from_pool(copied, at, old)
               C == B \cup {<<new, n>>}
               r == Assign(f, x, n, new)
    <2>2. /\ k \in HeapType /\ PoolsOK(k.pool) /\ Layout(k.pool, C)
          /\ new \in Place /\ \A y \in Live(h) : h.at[y] # new
          /\ k.size = h.size /\ k.at = h.at /\ k.memory = h.memory /\ k.usage = h.usage
      <3>1. Allocated(m, h, n)
        BY MallocIs
      <3> QED
        BY <3>1 DEF Allocated
    <2>3. at \in Place /\ h.memory[at] = x /\ at # new
      BY <1>3, <1>4, <1>8, <2>2
    <2>4. b \in B
      BY <1>3, <1>8 DEF Blocks, old
    <2>5. Others(h, x) = B \ {b}
      BY <1>1, <1>3, <1>8, OtherBlocks DEF old
    <2>6. g = [r EXCEPT !.memory = [r.memory EXCEPT ![new] = h.memory[at]]]
      BY <2>1 DEF Moved, old
    <2> HIDE DEF r, f, B, k, new, at
    <2>7. /\ copied \in HeapType /\ copied.pool = k.pool /\ copied.size = h.size /\ copied.at = h.at
          /\ copied.usage = h.usage /\ copied.memory = [h.memory EXCEPT ![new] = x]
      <3> DEFINE memory == [k.memory EXCEPT ![new] = h.memory[at]]
      <3>1. copied = [k EXCEPT !.memory = memory]
        OBVIOUS
      <3>2. memory = [h.memory EXCEPT ![new] = x] /\ memory \in [Place -> Object \cup {NONE}]
        BY <1>2, <2>2, <2>3
      <3> HIDE DEF memory, copied
      <3> QED
        BY <2>2, <3>1, <3>2 DEF HeapType
    <2> HIDE DEF copied
    <2>8. Freed(copied, f, C, <<at, old>>)
      <3>1. <<at, old>> \in C
        BY <2>4
      <3>2. PoolsOK(copied.pool) /\ Layout(copied.pool, C)
        BY <2>2, <2>7
      <3> HIDE DEF C
      <3> QED
        BY <2>3, <2>7, <3>1, <3>2, FreeIs DEF f
    <2>9. /\ f \in HeapType /\ PoolsOK(f.pool) /\ Layout(f.pool, C \ {b})
          /\ f.size = h.size /\ f.at = h.at /\ f.usage = h.usage
          /\ f.memory = [copied.memory EXCEPT ![at] = NONE]
      <3>1. b[1] = at
        OBVIOUS
      <3> HIDE DEF C, b
      <3> QED
        BY <2>7, <2>8, <3>1 DEF Freed, b
    <2>10. /\ r \in HeapType /\ r.pool = f.pool /\ r.size = [f.size EXCEPT ![x] = n]
           /\ r.at = [f.at EXCEPT ![x] = new] /\ r.memory = [f.memory EXCEPT ![new] = x]
           /\ r.usage = f.usage + n - f.size[x]
      <3>1. Assigned(f, r, x, n, new)
        BY <2>2, <2>9, AssignIs DEF r
      <3> QED
        BY <3>1 DEF Assigned
    <2>11. /\ g \in HeapType /\ g.pool = r.pool /\ g.size = r.size /\ g.at = r.at /\ g.usage = r.usage
           /\ g.memory = r.memory
      <3> DEFINE memory == [r.memory EXCEPT ![new] = h.memory[at]]
      <3>1. r.memory \in [Place -> Object \cup {NONE}]
        BY <2>10, HeapFields
      <3>2. r.memory[new] = x
        <4>1. f.memory \in [Place -> Object \cup {NONE}]
          BY <2>9, HeapFields
        <4> QED
          BY <2>2, <2>10, <4>1
      <3>3. memory = r.memory
        BY <2>2, <2>3, <3>1, <3>2
      <3>4. g = [r EXCEPT !.memory = memory]
        BY <2>6
      <3> HIDE DEF memory
      <3> QED
        BY <2>10, <3>1, <3>3, <3>4 DEF HeapType
    <2>12. \A y \in Live(h) \ {x} : g.memory[h.at[y]] = y
      <3> SUFFICES ASSUME NEW y \in Live(h) \ {x} PROVE g.memory[h.at[y]] = y
        OBVIOUS
      <3>1. h.at[y] \in Place /\ h.memory[h.at[y]] = y /\ h.at[y] # new /\ h.at[y] # at
        BY <1>4, <2>2, <2>3
      <3>2. g.memory = [[[h.memory EXCEPT ![new] = x] EXCEPT ![at] = NONE] EXCEPT ![new] = x]
        BY <2>7, <2>9, <2>10, <2>11
      <3> QED
        BY <1>2, <2>2, <2>3, <3>1, <3>2
    <2>13. g.memory[new] = x
      <3>1. f.memory \in [Place -> Object \cup {NONE}]
        BY <2>9, HeapFields
      <3> QED
        BY <2>2, <2>10, <2>11, <3>1
    <2>14. C \ {b} = (B \ {b}) \cup {<<new, n>>}
      BY <2>3
    <2>15. Reassigned(h, g, x, n, new)
      <3>1. Layout(g.pool, Others(h, x) \cup (IF n = 0 THEN {} ELSE {<<new, n>>}))
        BY <2>5, <2>9, <2>10, <2>11, <2>14
      <3> HIDE DEF C, b
      <3> QED
        BY <2>2, <2>9, <2>10, <2>11, <2>12, <2>13, <3>1 DEF Reassigned
    <2> QED
      BY <2>15
  <1> QED
    BY <1>6, <1>7, <1>8

-----------------------------------------------------------------------------
(***************************************************************************)
(* The lines in use.                                                       *)
(***************************************************************************)

SmallOf(h) == {x \in Live(h) : Small(h.size[x])}

\* The members of LinesInUse.
LEMMA LineInUse ==
    ASSUME NEW h, HeapOK(h), NEW l
    PROVE  l \in LinesInUse(h) <=>
             \E c \in Classes : \E i \in 1 .. Len(h.pool[c]) : \E line : l = <<c, i, line>> /\ Used(h.pool, c, i, line)
  <1>1. \A c \in Classes : DOMAIN h.pool[c] = 1 .. Len(h.pool[c])
    BY DEF HeapOK, PoolsOK
  <1> QED
    BY <1>1 DEF LinesInUse, Used, Classes

\* There are as many lines in use as there are objects on lines.
LEMMA LinesCount ==
    ASSUME MemAssumption, NEW h, HeapOK(h)
    PROVE  Cardinality(LinesInUse(h)) = Cardinality(SmallOf(h))
  <1> DEFINE On(x, i) == /\ h.pool[Class(h.size[x])][i].id = h.at[x][1]
                         /\ Used(h.pool, Class(h.size[x]), i, h.at[x][2])
             where(x) == CHOOSE i \in 1 .. Len(h.pool[Class(h.size[x])]) : On(x, i)
             f == [x \in SmallOf(h) |-> <<Class(h.size[x]), where(x), h.at[x][2]>>]
  <1>1. h \in HeapType /\ PoolsOK(h.pool) /\ Layout(h.pool, Blocks(h)) /\ Written(h)
    BY DEF HeapOK
  <1>2. IsFiniteSet(SmallOf(h))
    BY LiveFinite, FS_Subset DEF SmallOf
  <1>3. ASSUME NEW x \in SmallOf(h)
        PROVE  /\ where(x) \in 1 .. Len(h.pool[Class(h.size[x])]) /\ On(x, where(x))
               /\ Class(h.size[x]) \in Classes
               /\ x \in Live(h)
    <2>1. x \in Live(h) /\ Small(h.size[x])
      BY DEF SmallOf
    <2> DEFINE b == <<h.at[x], h.size[x]>>
    <2>2. b \in Blocks(h) /\ b[1] = h.at[x] /\ b[2] = h.size[x]
      BY <2>1, LiveBlock
    <2> HIDE DEF b
    <2>3. \E i \in 1 .. Len(h.pool[Class(b[2])]) :
             h.pool[Class(b[2])][i].id = b[1][1] /\ Used(h.pool, Class(b[2]), i, b[1][2])
      BY <1>1, <2>1, <2>2 DEF Layout, BlocksPlaced
    <2>4. \E i \in 1 .. Len(h.pool[Class(h.size[x])]) : On(x, i)
      BY <2>2, <2>3
    <2> HIDE DEF On
    <2>5. where(x) \in 1 .. Len(h.pool[Class(h.size[x])]) /\ On(x, where(x))
      BY <2>4
    <2> QED
      BY <2>1, <2>5, ClassIs
  <1> HIDE DEF where
  <1>4. \A x \in SmallOf(h) : f[x] \in LinesInUse(h)
    <2> SUFFICES ASSUME NEW x \in SmallOf(h) PROVE f[x] \in LinesInUse(h)
      OBVIOUS
    <2>1. \E c \in Classes : \E i \in 1 .. Len(h.pool[c]) : \E line :
             f[x] = <<c, i, line>> /\ Used(h.pool, c, i, line)
      BY <1>3
    <2> QED
      BY <2>1, LineInUse
  <1>5. ASSUME NEW l \in LinesInUse(h) PROVE \E x \in SmallOf(h) : f[x] = l
    <2>0. PICK c \in Classes : \E i \in 1 .. Len(h.pool[c]) : \E line :
             l = <<c, i, line>> /\ Used(h.pool, c, i, line)
      BY LineInUse
    <2>1. PICK i \in 1 .. Len(h.pool[c]) : \E line : l = <<c, i, line>> /\ Used(h.pool, c, i, line)
      BY <2>0
    <2>1a. PICK line : l = <<c, i, line>> /\ Used(h.pool, c, i, line)
      BY <2>1
    <2>2. PICK b \in Blocks(h) : Small(b[2]) /\ Class(b[2]) = c /\ b[1] = <<h.pool[c][i].id, line>>
      BY <1>1, <2>1a DEF Layout, LinesOwned
    <2>3. PICK x \in Live(h) : b = <<h.at[x], h.size[x]>>
      BY <2>2 DEF Blocks
    <2>4. /\ x \in SmallOf(h) /\ Class(h.size[x]) = c
          /\ h.at[x][1] = h.pool[c][i].id /\ h.at[x][2] = line
      BY <2>2, <2>3 DEF SmallOf
    <2>5. where(x) \in 1 .. Len(h.pool[c]) /\ h.pool[c][where(x)].id = h.pool[c][i].id
      BY <1>3, <2>4
    <2>6. where(x) = i
      BY <1>1, <2>1, <2>5 DEF PoolsOK, IdsDiffer
    <2>7. f[x] = <<c, i, line>>
      BY <2>4, <2>6
    <2> QED
      BY <2>1a, <2>4, <2>7
  <1>6. ASSUME NEW x \in SmallOf(h), NEW y \in SmallOf(h), f[x] = f[y] PROVE x = y
    <2>1. /\ Class(h.size[x]) = Class(h.size[y]) /\ where(x) = where(y) /\ h.at[x][2] = h.at[y][2]
      BY <1>6
    <2>2. h.at[x][1] = h.at[y][1]
      BY <1>3, <2>1
    <2>3. /\ h.at[x] \in Place /\ h.memory[h.at[x]] = x
          /\ h.at[y] \in Place /\ h.memory[h.at[y]] = y
      BY <1>1, <1>3 DEF Written
    <2>4. h.at[x] = h.at[y]
      BY <2>1, <2>2, <2>3 DEF Place
    <2> QED
      BY <2>3, <2>4
  <1>7. f \in Bijection(SmallOf(h), LinesInUse(h))
    <2>1. f \in [SmallOf(h) -> LinesInUse(h)]
      BY <1>4
    <2> HIDE DEF f
    <2> QED
      BY <1>5, <1>6, <2>1 DEF Bijection, Injection, Surjection, IsInjective
  <1> QED
    BY <1>2, <1>7, FS_Bijection DEF ExistsBijection

\* A heap that is as it should be is what BlocksExact asks for.
LEMMA ExactIs ==
    ASSUME MemAssumption, HeapOK(heap)
    PROVE  BlocksExact
  <1>1. /\ heap.usage = Cardinality(BytesOf(heap))
        /\ be_gc_memory_pools_info(heap).used = Cardinality({x \in Live(heap) : Small(heap.size[x])})
    <2>1. heap.usage = Cardinality(BytesOf(heap))
      BY DEF HeapOK
    <2>2. Cardinality(LinesInUse(heap)) = Cardinality(SmallOf(heap))
      BY LinesCount
    <2> QED
      BY <2>1, <2>2 DEF be_gc_memory_pools_info, SmallOf
  <1>2. ASSUME NEW x \in Live(heap)
        PROVE  /\ heap.memory[heap.at[x]] = x
               /\ Small(heap.size[x]) =>
                    \E i \in DOMAIN heap.pool[Class(heap.size[x])] :
                      /\ heap.pool[Class(heap.size[x])][i].id = heap.at[x][1]
                      /\ heap.at[x][2] \in (0 .. Slots[Class(heap.size[x])] - 1)
                                             \ heap.pool[Class(heap.size[x])][i].free
    <2> DEFINE b == <<heap.at[x], heap.size[x]>>
    <2>1. b \in Blocks(heap) /\ b[1] = heap.at[x] /\ b[2] = heap.size[x] /\ heap.memory[heap.at[x]] = x
      BY LiveBlock
    <2> HIDE DEF b
    <2>2. ASSUME Small(heap.size[x])
          PROVE  \E i \in DOMAIN heap.pool[Class(b[2])] :
                   /\ heap.pool[Class(b[2])][i].id = b[1][1]
                   /\ b[1][2] \in (0 .. Slots[Class(b[2])] - 1) \ heap.pool[Class(b[2])][i].free
      <3>1. PICK i \in 1 .. Len(heap.pool[Class(b[2])]) :
               heap.pool[Class(b[2])][i].id = b[1][1] /\ Used(heap.pool, Class(b[2]), i, b[1][2])
        BY <2>1, <2>2 DEF HeapOK, Layout, BlocksPlaced
      <3>2. i \in DOMAIN heap.pool[Class(b[2])]
        BY ClassIs DEF HeapOK, PoolsOK
      <3> QED
        BY <3>1, <3>2 DEF Used
    <2> QED
      BY <2>1, <2>2
  <1> QED
    BY <1>1, <1>2 DEF BlocksExact

-----------------------------------------------------------------------------
(***************************************************************************)
(* The specification.                                                      *)
(***************************************************************************)

\* What is dropped or condemned is there, and only a collection under way has
\* condemned anything.
MemInv ==
    /\ HeapOK(heap)
    /\ dropped \subseteq Live(heap) /\ condemned \subseteq Live(heap)
    /\ ~halted => condemned = {}

\* Without memory for a pass of be_realloc there is none for a new block.
LEMMA NoMemory ==
    ASSUME MemAssumption, NEW h, HeapOK(h), NEW x \in Object, NEW n \in Nat \ {0}, Attempt(h, x, n) = {}
    PROVE  malloc_from_pool(h, n) = {}
  <1> DEFINE old == h.size[x]
  <1>1. old \in Nat /\ Room(h) \in Int
    BY HeapFields, RoomIs DEF HeapOK
  <1>2. CASE old = 0
    <2>1. {Assign(m.heap, x, n, m.at) : m \in malloc_from_pool(h, n)} = {}
      BY <1>2 DEF Attempt
    <2> QED
      BY <2>1
  <1>3. CASE old # 0 /\ ~Small(n) /\ ~Small(old)
    <2>1. Room(h) + Weight(old) < Weight(n)
      <3> SUFFICES ASSUME ~(Room(h) + Weight(old) < Weight(n)) PROVE FALSE
        OBVIOUS
      <3>1. Attempt(h, x, n) = {Assign(h, x, n, h.at[x])}
        BY <1>3 DEF Attempt
      <3> QED
        BY <3>1
    <2>2. Weight(old) \in Nat /\ Weight(n) \in Nat
      BY <1>1 DEF Weight
    <2>3. ~(Room(h) >= Weight(n))
      <3> HIDE DEF old
      <3> QED
        BY <1>1, <2>1, <2>2
    <2> QED
      BY <1>3, <2>3 DEF malloc_from_pool
  <1>4. CASE old # 0 /\ Small(n) /\ Small(old) /\ Class(n) = Class(old)
    BY <1>4 DEF Attempt
  <1>5. CASE /\ old # 0 /\ ~(~Small(n) /\ ~Small(old))
             /\ ~(Small(n) /\ Small(old) /\ Class(n) = Class(old))
    <2>1. {Moved(h, m, x, n) : m \in malloc_from_pool(h, n)} = {}
      BY <1>5 DEF Attempt
    <2> QED
      BY <2>1
  <1> QED
    BY <1>2, <1>3, <1>4, <1>5

\* A heap with nothing on it.
LEMMA EmptyOK ==
    ASSUME MemAssumption, NEW h \in HeapType, h.pool = [c \in Classes |-> <<>>],
           Live(h) = {}, h.usage = Cardinality(BytesOf(h))
    PROVE  HeapOK(h)
  <1>1. Blocks(h) = {}
    BY DEF Blocks
  <1>2. \A c \in Classes : h.pool[c] = <<>> /\ Len(h.pool[c]) = 0 /\ 1 .. Len(h.pool[c]) = {}
    OBVIOUS
  <1>3. PoolsOK(h.pool)
    <2>1. h.pool \in [Classes -> Seq(PoolType)]
      BY HeapFields
    <2>2. IdsDiffer(h.pool) /\ LinesThere(h.pool)
      BY <1>2 DEF IdsDiffer, LinesThere
    <2> QED
      BY <2>1, <2>2 DEF PoolsOK
  <1>4. Layout(h.pool, {})
    BY <1>2 DEF Layout, BlocksPlaced, LinesOwned, BlockType
  <1> QED
    BY <1>1, <1>3, <1>4 DEF HeapOK, Written

\* The heap at the start.
LEMMA MemInitInv ==
    ASSUME MemAssumption, MemInit
    PROVE  MemInv /\ FailsOnlyWhenFull
  <1> DEFINE pool == [c \in Classes |-> <<>>]
             sizes == [x \in Object |-> 0]
             at == [x \in Object |-> <<1, 0>>]
             memory == [p \in Place |-> NONE]
  <1>1. heap = [pool |-> pool, size |-> sizes, at |-> at, memory |-> memory, usage |-> 0]
    BY DEF MemInit, Classes
  <1>2. /\ pool \in [Classes -> Seq(PoolType)] /\ sizes \in [Object -> Nat]
        /\ at \in [Object -> Nat \X Nat] /\ memory \in [Place -> Object \cup {NONE}]
    OBVIOUS
  <1>3. \A x \in Object : sizes[x] = 0
    OBVIOUS
  <1> HIDE DEF pool, sizes, at, memory
  <1>4. heap \in HeapType /\ heap.pool = pool /\ heap.size = sizes /\ heap.usage = 0
    BY <1>1, <1>2 DEF HeapType
  <1>5. Live(heap) = {}
    BY <1>3, <1>4 DEF Live
  <1>6. Cardinality(BytesOf(heap)) = 0
    <2>1. BytesOf(heap) = {}
      <3>1. \A x \in Object : heap.size[x] = 0 /\ 1 .. heap.size[x] = {}
        BY <1>3, <1>4
      <3> QED
        BY <3>1 DEF BytesOf
    <2> QED
      BY <2>1, FS_EmptySet
  <1>7. HeapOK(heap)
    BY <1>4, <1>5, <1>6, EmptyOK DEF pool
  <1> QED
    BY <1>5, <1>7 DEF MemInv, FailsOnlyWhenFull, MemInit

\* be_realloc to 0 bytes.
LEMMA FreeBlockInv ==
    ASSUME MemAssumption, MemInv, NEW x \in Object, FreeBlock(x)
    PROVE  MemInv' /\ FailsOnlyWhenFull'
  <1>1. /\ x \in Live(heap) /\ heap' = be_free(heap, x) /\ refused' = 0 /\ halted' = halted
        /\ dropped' = dropped \ {x} /\ condemned' = condemned \ {x}
    BY DEF FreeBlock
  <1> DEFINE g == be_free(heap, x)
  <1>2. HeapOK(g) /\ Live(g) = Live(heap) \ {x}
    BY <1>1, be_freeOK DEF MemInv
  <1> HIDE DEF g
  <1>3. heap' = g
    BY <1>1 DEF g
  <1>4. HeapOK(heap') /\ Live(heap') = Live(heap) \ {x}
    BY <1>2, <1>3
  <1> QED
    BY <1>1, <1>4 DEF MemInv, FailsOnlyWhenFull

\* delete_white.
LEMMA SweepInv ==
    ASSUME MemAssumption, MemInv, delete_white
    PROVE  MemInv' /\ FailsOnlyWhenFull'
  <1> DEFINE g == Collected(heap, condemned)
  <1>1. /\ heap' = g /\ dropped' = dropped \ condemned /\ condemned' = {} /\ refused' = 0
        /\ dropped \subseteq Live(heap)
    BY DEF delete_white, MemInv
  <1>2. HeapOK(g) /\ Live(g) = Live(heap) \ condemned
    BY CollectedOK DEF MemInv
  <1> HIDE DEF g
  <1>3. HeapOK(heap') /\ Live(heap') = Live(heap) \ condemned
    BY <1>1, <1>2
  <1> QED
    BY <1>1, <1>3 DEF MemInv, FailsOnlyWhenFull

\* be_gc_free_memory_pools.
LEMMA PoolsFreedInv ==
    ASSUME MemAssumption, MemInv, be_gc_free_memory_pools
    PROVE  MemInv' /\ FailsOnlyWhenFull'
  <1> DEFINE pool == [c \in Classes |-> <<>>]
  <1>1. /\ heap' = [heap EXCEPT !.pool = pool] /\ refused' = 0 /\ Live(heap) = {}
        /\ dropped' = dropped /\ condemned' = condemned /\ halted' = halted
    BY DEF be_gc_free_memory_pools, Classes
  <1>2. pool \in [Classes -> Seq(PoolType)]
    OBVIOUS
  <1> HIDE DEF pool
  <1>3. /\ heap' \in HeapType /\ heap'.pool = pool /\ heap'.size = heap.size /\ heap'.usage = heap.usage
    BY <1>1, <1>2 DEF MemInv, HeapOK, HeapType
  <1>4. Live(heap') = {} /\ heap'.usage = Cardinality(BytesOf(heap'))
    BY <1>1, <1>3 DEF MemInv, HeapOK, Live, BytesOf
  <1>5. HeapOK(heap')
    BY <1>3, <1>4, EmptyOK DEF pool
  <1>6. dropped' = {} /\ condemned' = {}
    BY <1>1 DEF MemInv
  <1> QED
    BY <1>1, <1>5, <1>6 DEF MemInv, FailsOnlyWhenFull

\* be_realloc, when it finds memory at once, after a collection, or not at all.
LEMMA ReallocInv ==
    ASSUME MemAssumption, MemInv, NEW x \in Object, NEW n \in Sizes, be_realloc(x, n)
    PROVE  MemInv' /\ FailsOnlyWhenFull'
  <1> DEFINE c == IF halted THEN heap ELSE Collected(heap, dropped)
  <1>1. n \in Nat \ {0}
    BY DEF MemAssumption
  <1>2. /\ HeapOK(c) /\ Live(c) = IF halted THEN Live(heap) ELSE Live(heap) \ dropped
        /\ ~halted => NoneEmpty(c)
    BY CollectedOK DEF MemInv
  <1>3. CASE Attempt(heap, x, n) # {}
    <2>1. /\ heap' \in Attempt(heap, x, n) /\ refused' = 0 /\ dropped' = dropped
          /\ halted' = halted /\ condemned' \in Marked(x)
      BY <1>3 DEF be_realloc
    <2>2. HeapOK(heap') /\ Live(heap') = Live(heap) \cup {x}
      BY <1>1, <2>1, AttemptOK DEF MemInv
    <2>3. condemned' \subseteq condemned \cup {x} /\ (~halted => condemned' = condemned)
      BY <2>1 DEF Marked
    <2> QED
      BY <2>1, <2>2, <2>3 DEF MemInv, FailsOnlyWhenFull
  <1>4. CASE Attempt(heap, x, n) = {} /\ Attempt(c, x, n) # {}
    <2>1. /\ heap' \in Attempt(c, x, n) /\ refused' = 0 /\ dropped' = {}
          /\ halted' = halted /\ condemned' = condemned
      BY <1>4 DEF be_realloc
    <2>2. ~halted /\ condemned = {}
      BY <1>4 DEF MemInv
    <2> HIDE DEF c
    <2>3. HeapOK(heap')
      BY <1>1, <1>2, <2>1, AttemptOK
    <2> QED
      BY <2>1, <2>2, <2>3 DEF MemInv, FailsOnlyWhenFull
  <1>5. CASE Attempt(heap, x, n) = {} /\ Attempt(c, x, n) = {}
    <2>1. /\ heap' = c /\ refused' = n /\ dropped' = IF halted THEN dropped ELSE {}
          /\ halted' = halted /\ condemned' = condemned
      BY <1>5 DEF be_realloc
    <2>2. malloc_from_pool(c, n) = {}
      <3> HIDE DEF c
      <3> QED
        BY <1>1, <1>2, <1>5, NoMemory
    <2>3. \A d \in Classes : DOMAIN c.pool[d] = 1 .. Len(c.pool[d])
      BY <1>2 DEF HeapOK, PoolsOK
    <2> HIDE DEF c
    <2>4. MemInv'
      BY <1>2, <2>1 DEF MemInv
    <2>5. ~halted => \A d \in {16, 32} : \A i \in DOMAIN heap'.pool[d] :
                        heap'.pool[d][i].free # 0 .. Slots[d] - 1
      BY <1>2, <2>1, <2>3 DEF NoneEmpty, Classes
    <2>6. FailsOnlyWhenFull'
      BY <2>1, <2>2, <2>5 DEF FailsOnlyWhenFull
    <2> QED
      BY <2>4, <2>6
  <1> QED
    BY <1>3, <1>4, <1>5

\* What every step preserves.
LEMMA MemNextInv ==
    ASSUME MemAssumption, MemInv /\ FailsOnlyWhenFull, [MemNext]_memVars
    PROVE  MemInv' /\ FailsOnlyWhenFull'
  <1>1. ASSUME NEW x \in Object, FreeBlock(x)
        PROVE  MemInv' /\ FailsOnlyWhenFull'
    BY <1>1, FreeBlockInv
  <1>2. ASSUME NEW x \in Object, Drop(x)
        PROVE  MemInv' /\ FailsOnlyWhenFull'
    BY <1>2 DEF Drop, MemInv, FailsOnlyWhenFull
  <1>3. ASSUME NEW x \in Object, NEW n \in Sizes, be_realloc(x, n)
        PROVE  MemInv' /\ FailsOnlyWhenFull'
    BY <1>3, ReallocInv
  <1>4. CASE destruct_white
    BY <1>4 DEF destruct_white, MemInv, FailsOnlyWhenFull
  <1>5. CASE delete_white
    BY <1>5, SweepInv
  <1>6. CASE be_gc_free_memory_pools
    BY <1>6, PoolsFreedInv
  <1>7. CASE UNCHANGED memVars
    <2>1. /\ heap' = heap /\ dropped' = dropped /\ refused' = refused
          /\ halted' = halted /\ condemned' = condemned
      BY <1>7 DEF memVars
    <2> QED
      BY <2>1 DEF MemInv, FailsOnlyWhenFull
  <1> QED
    BY <1>1, <1>2, <1>3, <1>4, <1>5, <1>6, <1>7 DEF MemNext

\* The heap stays as it should be (be_realloc, free_from_pool, be_gc_memory_pools).
THEOREM HeapKept == MemSpec => [](MemInv /\ FailsOnlyWhenFull)
  <1>1. MemInit => MemInv /\ FailsOnlyWhenFull
    BY MemAssumption, MemInitInv
  <1>2. (MemInv /\ FailsOnlyWhenFull) /\ [MemNext]_memVars => (MemInv /\ FailsOnlyWhenFull)'
    BY MemAssumption, MemNextInv
  <1> QED
    BY <1>1, <1>2, PTL DEF MemSpec

\* Blocks keep their places, their lines and their contents, and gc.usage counts
\* their bytes (malloc_from_pool, free_from_pool, be_gc_memory_pools, be_realloc).
THEOREM BlocksAreExact == MemSpec => []BlocksExact
  <1>1. MemInv /\ FailsOnlyWhenFull => BlocksExact
    BY MemAssumption, ExactIs DEF MemInv
  <1>2. MemSpec => [](MemInv /\ FailsOnlyWhenFull)
    BY HeapKept
  <1> QED
    BY <1>1, <1>2, PTL

\* A request is refused only when there is no memory for the block in the heap as it
\* then is, and, unless a collection is under way, nothing is dropped and no pool is
\* empty (be_realloc:105-115).
THEOREM RefusedWhenFull == MemSpec => []FailsOnlyWhenFull
  <1>1. MemSpec => [](MemInv /\ FailsOnlyWhenFull)
    BY HeapKept
  <1> QED
    BY <1>1, PTL


-----------------------------------------------------------------------------
(***************************************************************************)
(* Numbers.                                                                *)
(***************************************************************************)

\* A set of numbers up to a bound has a greatest one, if it is not empty.
LEMMA Greatest ==
    ASSUME NEW n \in Nat, NEW S \in SUBSET (0 .. n), S # {}
    PROVE  \E p \in S : \A q \in S : q <= p
  <1> DEFINE T == {k \in 0 .. n : n - k \in S}
  <1>1. PICK p \in S : TRUE
    OBVIOUS
  <1>2. n - p \in T
    BY <1>1
  <1>3. T \in SUBSET Nat /\ T # {}
    BY <1>2
  <1>4. PICK k \in T : \A j \in T : k <= j
    <2> HIDE DEF T
    <2> QED
      BY <1>3, Least
  <1>5. n - k \in S
    BY <1>4
  <1>6. \A q \in S : n - q \in T /\ q \in 0 .. n
    OBVIOUS
  <1> QED
    BY <1>4, <1>5, <1>6

-----------------------------------------------------------------------------
(***************************************************************************)
(* Chains.                                                                 *)
(***************************************************************************)

At(m) == 0 .. m.size - 1

NodeType(m) == [key : Key \cup {NIL}, next : At(m) \cup {LASTNODE}, val : Val \cup {NONE}]

IsTable(m) ==
    /\ m.size \in Nat \ {0} /\ m.slots \in [At(m) -> NodeType(m)]
    /\ m.lastfree \in At(m) \cup {-1}
    /\ m = [size |-> m.size, slots |-> m.slots, lastfree |-> m.lastfree]

\* The links of C stay in C.
Shut(m, C) == \A q \in C : m.slots[q].next \in C \cup {LASTNODE}

\* The least set with p that the links do not leave.
ChainOf(m, p, C) ==
    /\ C \subseteq At(m) /\ p \in C /\ Shut(m, C)
    /\ \A D : p \in D /\ Shut(m, D) => C \subseteq D

\* What IsTable says of a node.
LEMMA NodeIs ==
    ASSUME NEW m, IsTable(m), NEW p \in At(m)
    PROVE  /\ m.slots[p].key \in Key \cup {NIL} /\ m.slots[p].next \in At(m) \cup {LASTNODE}
           /\ m.slots[p].val \in Val \cup {NONE}
  <1>1. m.slots[p] \in NodeType(m)
    BY DEF IsTable
  <1> QED
    BY <1>1 DEF NodeType

Walks(f, m, p) ==
    /\ Chain(m, p) = f[m.size]
    /\ f \in [0 .. m.size -> SUBSET At(m)]
    /\ f[0] = {p}
    /\ \A n \in 1 .. m.size : f[n] = f[n - 1] \cup ({m.slots[q].next : q \in f[n - 1]} \ {LASTNODE})

\* Chain computes its set step by step.
LEMMA ChainSteps ==
    ASSUME NEW m, IsTable(m), NEW p \in At(m)
    PROVE  \E f : Walks(f, m, p)
  <1> DEFINE N == m.size
             S == SUBSET At(m)
             step(t) == t \cup ({m.slots[q].next : q \in t} \ {LASTNODE})
             g == [x \in (1 .. N) \X S |-> step(x[2])]
             start == {p}
             body(k) == [n \in 0 .. m.size |-> IF n = 0 THEN {p}
                           ELSE k[n - 1] \cup ({m.slots[q].next : q \in k[n - 1]} \ {LASTNODE})]
             K == CHOOSE k : k = body(k)
  <1>0. N \in Nat
    BY DEF IsTable
  <1>1. \A t \in S : step(t) \in S
    <2> SUFFICES ASSUME NEW t \in S, NEW x \in step(t) PROVE x \in At(m)
      OBVIOUS
    <2>1. CASE x \in t
      BY <2>1
    <2>2. CASE x \in {m.slots[q].next : q \in t} \ {LASTNODE}
      <3>1. PICK q \in t : x = m.slots[q].next
        BY <2>2
      <3>2. q \in At(m) /\ x # LASTNODE
        BY <2>2
      <3> QED
        BY <3>1, <3>2, NodeIs
    <2> QED
      BY <2>1, <2>2
  <1>2. g \in [(1 .. N) \X S -> S]
    <2> HIDE DEF step, S
    <2> QED
      BY <1>1
  <1>3. PICK f : Runs(f, N, S, start, g)
    <2>1. start \in S
      OBVIOUS
    <2> HIDE DEF N, g, start, S
    <2> QED
      BY <1>0, <1>2, <2>1, Recursion
  <1>4. f \in [0 .. N -> S] /\ f[0] = start /\ \A n \in 1 .. N : f[n] = g[<<n, f[n - 1]>>]
    BY <1>3 DEF Runs
  <1>5. ASSUME NEW n \in 1 .. N PROVE f[n] = step(f[n - 1])
    <2>1. n - 1 \in 0 .. N
      BY <1>0
    <2>2. f[n - 1] \in S
      BY <2>1, <1>4
    <2>3. g[<<n, f[n - 1]>>] = step(f[n - 1])
      <3> HIDE DEF step, S
      <3> QED
        BY <2>2
    <2> QED
      BY <1>4, <2>3
  <1>6. f = body(f)
    <2>1. ASSUME NEW n \in 0 .. N
          PROVE  f[n] = IF n = 0 THEN {p} ELSE step(f[n - 1])
      <3>1. n # 0 => n \in 1 .. N
        BY <1>0
      <3> HIDE DEF step
      <3> QED
        BY <3>1, <1>4, <1>5
    <2>2. f = [n \in 0 .. N |-> f[n]]
      BY <1>4
    <2> QED
      BY <2>1, <2>2
  <1>7. K = body(K)
    <2> HIDE DEF body
    <2> QED
      BY <1>6, Zenon
  <1>8. Chain(m, p) = K[m.size]
    BY DEF Chain
  <1> HIDE DEF K
  <1>9. ASSUME NEW n \in 0 .. N PROVE K[n] = IF n = 0 THEN {p} ELSE step(K[n - 1])
    BY <1>7
  <1>10. K[0] = {p} /\ \A n \in 1 .. N : K[n] = step(K[n - 1])
    <2>1. 0 \in 0 .. N /\ \A n \in 1 .. N : n \in 0 .. N /\ n # 0
      BY <1>0
    <2> HIDE DEF step
    <2> QED
      BY <2>1, <1>9
  <1>11. \A n \in 0 .. N : K[n] \in S
    <2> DEFINE P == {n \in 0 .. N : K[n] \in S}
    <2>1. 0 \in P
      BY <1>0, <1>10
    <2>2. ASSUME NEW n \in 0 .. N, n < N, n \in P PROVE n + 1 \in P
      <3>1. n + 1 \in 1 .. N /\ n + 1 \in 0 .. N /\ n + 1 - 1 = n
        BY <1>0, <2>2
      <3>2. K[n + 1] = step(K[n]) /\ K[n] \in S
        <4> HIDE DEF step, S
        <4> QED
          BY <1>10, <3>1, <2>2
      <3>3. K[n + 1] \in S
        <4> HIDE DEF step, S
        <4> QED
          BY <1>1, <3>2
      <3> QED
        BY <3>1, <3>3
    <2>3. 0 .. N \subseteq P
      <3> HIDE DEF P
      <3> QED
        BY <1>0, <2>1, <2>2, UpTo
    <2> QED
      BY <2>3
  <1>12. K \in [0 .. N -> S]
    <2>1. K = [n \in 0 .. N |-> K[n]]
      BY <1>7
    <2> HIDE DEF S
    <2> QED
      BY <1>11, <2>1
  <1> QED
    BY <1>8, <1>10, <1>12 DEF Walks

\* Chain(m, p) is the chain of p: after as many steps as there are slots a walk has ended.
LEMMA ChainIs ==
    ASSUME NEW m, IsTable(m), NEW p \in At(m)
    PROVE  ChainOf(m, p, Chain(m, p))
  <1>1. PICK f : Walks(f, m, p)
    BY ChainSteps
  <1> DEFINE N == m.size
  <1>2. N \in Nat /\ N # 0
    BY DEF IsTable
  <1>3. /\ f \in [0 .. N -> SUBSET At(m)] /\ f[0] = {p} /\ Chain(m, p) = f[N]
        /\ \A n \in 1 .. N : f[n] = f[n - 1] \cup ({m.slots[q].next : q \in f[n - 1]} \ {LASTNODE})
    BY <1>1 DEF Walks
  <1>4. IsFiniteSet(At(m)) /\ Cardinality(At(m)) = N
    <2>1. IsFiniteSet(0 .. N - 1) /\ Cardinality(0 .. N - 1) = IF 0 > N - 1 THEN 0 ELSE (N - 1) - 0 + 1
      BY <1>2, FS_Interval
    <2> QED
      BY <1>2, <2>1 DEF At
  <1> HIDE DEF N
  <1>5. ASSUME NEW D, p \in D, Shut(m, D) PROVE f[N] \subseteq D
    <2> DEFINE P == {n \in 0 .. N : f[n] \subseteq D}
    <2>1. 0 \in P
      BY <1>2, <1>3, <1>5
    <2>2. ASSUME NEW n \in 0 .. N, n < N, n \in P PROVE n + 1 \in P
      <3>1. n + 1 \in 1 .. N /\ n + 1 \in 0 .. N /\ n + 1 - 1 = n
        BY <1>2, <2>2
      <3>2. f[n + 1] = f[n] \cup ({m.slots[q].next : q \in f[n]} \ {LASTNODE})
        BY <1>3, <3>1
      <3>3. f[n + 1] \subseteq D
        BY <1>5, <2>2, <3>2 DEF Shut
      <3> QED
        BY <3>1, <3>3
    <2>3. 0 .. N \subseteq P
      <3> HIDE DEF P
      <3> QED
        BY <1>2, <2>1, <2>2, UpTo
    <2>4. N \in 0 .. N
      BY <1>2
    <2> QED
      BY <2>3, <2>4
  <1>6. \A n \in 0 .. N : p \in f[n] /\ (Shut(m, f[n]) \/ Cardinality(f[n]) >= n + 1)
    <2> DEFINE Good(n) == p \in f[n] /\ (Shut(m, f[n]) \/ Cardinality(f[n]) >= n + 1)
               P == {n \in 0 .. N : Good(n)}
    <2>1. 0 \in P
      <3>1. Cardinality(f[0]) = 1 /\ p \in f[0]
        BY <1>3, FS_Singleton
      <3> QED
        BY <1>2, <3>1
    <2>2. ASSUME NEW n \in 0 .. N, n < N, n \in P PROVE n + 1 \in P
      <3>1. n + 1 \in 1 .. N /\ n + 1 \in 0 .. N /\ n + 1 - 1 = n /\ n \in Nat
        BY <1>2, <2>2
      <3>2. f[n + 1] = f[n] \cup ({m.slots[q].next : q \in f[n]} \ {LASTNODE})
        BY <1>3, <3>1
      <3>3. Good(n)
        BY <2>2
      <3>4. CASE Shut(m, f[n])
        <4>1. f[n + 1] = f[n]
          BY <3>2, <3>4 DEF Shut
        <4> QED
          BY <3>1, <3>3, <3>4, <4>1
      <3>5. CASE ~Shut(m, f[n])
        <4>1. PICK q \in f[n] : m.slots[q].next \notin f[n] /\ m.slots[q].next # LASTNODE
          BY <3>5 DEF Shut
        <4> DEFINE x == m.slots[q].next
        <4>2. x \in f[n + 1] /\ x \notin f[n]
          BY <3>2, <4>1
        <4>3. f[n] \cup {x} \subseteq f[n + 1]
          BY <3>2, <4>2
        <4> HIDE DEF x
        <4>4. IsFiniteSet(f[n + 1])
          <5>1. f[n + 1] \in SUBSET At(m)
            BY <1>3, <3>1
          <5> QED
            BY <5>1, <1>4, FS_Subset
        <4>5. IsFiniteSet(f[n]) /\ Cardinality(f[n] \cup {x}) <= Cardinality(f[n + 1])
          <5>1. f[n] \subseteq f[n + 1]
            BY <4>3
          <5> QED
            BY <4>3, <4>4, <5>1, FS_Subset
        <4>6. Cardinality(f[n] \cup {x}) = Cardinality(f[n]) + 1
          BY <4>2, <4>5, FS_AddElement
        <4>7. Cardinality(f[n]) \in Nat /\ Cardinality(f[n + 1]) \in Nat
          BY <4>4, <4>5, FS_CardinalityType
        <4>8. Cardinality(f[n]) >= n + 1
          BY <3>3, <3>5
        <4>9. Cardinality(f[n + 1]) >= n + 1 + 1
          BY <4>5, <4>6, <4>7, <4>8, <3>1
        <4>10. p \in f[n + 1]
          BY <3>3, <4>3
        <4> QED
          BY <3>1, <4>9, <4>10
      <3> QED
        BY <3>4, <3>5
    <2>3. 0 .. N \subseteq P
      <3> HIDE DEF P
      <3> QED
        BY <1>2, <2>1, <2>2, UpTo
    <2> QED
      BY <2>3
  <1>7. f[N] \subseteq At(m) /\ p \in f[N]
    BY <1>2, <1>3, <1>6
  <1>8. Shut(m, f[N])
    <2>1. Shut(m, f[N]) \/ Cardinality(f[N]) >= N + 1
      BY <1>2, <1>6
    <2>2. Cardinality(f[N]) <= N /\ Cardinality(f[N]) \in Nat
      BY <1>4, <1>7, FS_Subset, FS_CardinalityType
    <2> QED
      BY <1>2, <2>1, <2>2
  <1> QED
    BY <1>3, <1>5, <1>7, <1>8 DEF ChainOf

-----------------------------------------------------------------------------
(***************************************************************************)
(* Tables that are as they should be.                                      *)
(***************************************************************************)

Occ(m) == {p \in At(m) : m.slots[p].key # NIL}

Home(m, p) == Main(m, m.slots[p].key)

KeysOf(m) == {m.slots[p].key : p \in Occ(m)}

OneEach(m) == \A p, q \in Occ(m) : m.slots[p].key = m.slots[q].key => p = q

\* A chain has the keys of one main slot.
Together(m) ==
    \A p \in Occ(m) : m.slots[p].next # LASTNODE =>
       m.slots[p].next \in Occ(m) /\ Home(m, m.slots[p].next) = Home(m, p)

OnePrev(m) ==
    \A p, q \in Occ(m) : m.slots[p].next # LASTNODE /\ m.slots[p].next = m.slots[q].next => p = q

HeadFirst(m) == \A p \in Occ(m) : m.slots[p].next # Home(m, p)

\* The links of the nodes of C stay in C.
Held(m, C) == \A q \in C : q \in Occ(m) => m.slots[q].next \in C \cup {LASTNODE}

\* A walk from its main slot comes to each node.
Reached(m) == \A p \in Occ(m) : \A C \in SUBSET At(m) : Home(m, p) \in C /\ Held(m, C) => p \in C

\* No links go around in a circle, not even those of free slots.
Ends(m) == \A T \in SUBSET At(m) : T # {} => \E p \in T : m.slots[p].next \notin T

FreeBelow(m) == \A p \in At(m) : p \notin Occ(m) => p <= m.lastfree

Sound(m) ==
    /\ IsTable(m) /\ OneEach(m) /\ Together(m) /\ OnePrev(m) /\ HeadFirst(m)
    /\ Reached(m) /\ Ends(m) /\ FreeBelow(m)

\* The main slot of a key.
LEMMA MainIs ==
    ASSUME MapAssumption, NEW m, IsTable(m), NEW k \in Key
    PROVE  Main(m, k) \in At(m)
  <1>1. Hash[k] \in Nat /\ m.size \in Nat \ {0}
    BY DEF MapAssumption, IsTable
  <1>2. Hash[k] % m.size \in 0 .. m.size - 1
    BY <1>1
  <1> QED
    BY <1>2 DEF Main, At

\* The nodes of a table.
LEMMA OccIs ==
    ASSUME MapAssumption, NEW m, IsTable(m), NEW p \in Occ(m)
    PROVE  /\ p \in At(m) /\ p \in Int /\ p >= 0 /\ m.slots[p].key \in Key
           /\ m.slots[p].next \in At(m) \cup {LASTNODE}
           /\ Home(m, p) \in At(m)
  <1>1. p \in At(m) /\ m.slots[p].key # NIL
    BY DEF Occ
  <1>2. m.slots[p].key \in Key /\ m.slots[p].next \in At(m) \cup {LASTNODE}
    BY <1>1, NodeIs
  <1>3. p \in Int /\ p >= 0
    BY <1>1 DEF At, IsTable
  <1> QED
    BY <1>1, <1>2, <1>3, MainIs DEF Home

\* The main slot of a key that is there has a node of its own chain.
LEMMA HeadIs ==
    ASSUME MapAssumption, NEW m, Sound(m), NEW p \in Occ(m)
    PROVE  Home(m, p) \in Occ(m) /\ Home(m, Home(m, p)) = Home(m, p)
  <1> DEFINE h == Home(m, p)
             C == {q \in Occ(m) : Home(m, q) = Home(m, h)}
  <1>1. h \in At(m)
    BY OccIs DEF Sound
  <1>2. h \in Occ(m)
    <2> SUFFICES ASSUME h \notin Occ(m) PROVE FALSE
      OBVIOUS
    <2>1. Held(m, {h})
      BY DEF Held
    <2>2. p \in {h}
      <3>1. {h} \in SUBSET At(m) /\ h \in {h}
        BY <1>1
      <3> QED
        BY <2>1, <3>1 DEF Sound, Reached
    <2> QED
      BY <2>2
  <1>3. Held(m, C)
    BY DEF Held, Sound, Together
  <1>4. p \in C
    <2>1. C \in SUBSET At(m) /\ h \in C
      BY <1>2 DEF Occ
    <2> HIDE DEF C
    <2> QED
      BY <1>3, <2>1 DEF Sound, Reached
  <1> QED
    BY <1>2, <1>4

\* Where find looks for a key.
LEMMA HoldingIs ==
    ASSUME MapAssumption, NEW m, Sound(m), NEW k \in Key
    PROVE  /\ k \notin KeysOf(m) => Holding(m, k) = {}
           /\ \A p \in Occ(m) : m.slots[p].key = k =>
                 /\ Holding(m, k) = {p} /\ p \in Chain(m, Main(m, k)) /\ Main(m, k) \in Occ(m)
                 /\ \A q \in Chain(m, Main(m, k)) : m.slots[q].key = k => q = p
           /\ \A q \in Chain(m, Main(m, k)) : m.slots[q].key = k => q \in Occ(m)
  <1> DEFINE h == Main(m, k)
             C == Chain(m, h)
  <1>1. IsTable(m) /\ h \in At(m) /\ k # NIL
    BY MainIs DEF Sound, MapAssumption
  <1>2. C \subseteq At(m) /\ h \in C /\ Shut(m, C)
    BY <1>1, ChainIs DEF ChainOf
  <1> HIDE DEF C
  <1>3. \A q \in C : m.slots[q].key = k => q \in Occ(m)
    BY <1>1, <1>2 DEF Occ
  <1>4. Free(m) = At(m) \ Occ(m)
    BY <1>1 DEF Free, Occ, IsTable
  <1>5. Holding(m, k) = IF h \in Free(m) THEN {} ELSE {q \in C : m.slots[q].key = k}
    BY DEF Holding, C
  <1>6. ASSUME NEW p \in Occ(m), m.slots[p].key = k
        PROVE  p \in C /\ h \in Occ(m) /\ \A q \in C : m.slots[q].key = k => q = p
    <2>1. h = Home(m, p)
      BY <1>6 DEF Home
    <2>2. Held(m, C)
      BY <1>2 DEF Shut, Held
    <2>3. p \in C
      BY <1>2, <2>1, <2>2 DEF Sound, Reached
    <2>4. h \in Occ(m)
      BY <2>1, HeadIs
    <2>5. \A q \in C : m.slots[q].key = k => q = p
      BY <1>3, <1>6 DEF Sound, OneEach
    <2> QED
      BY <2>3, <2>4, <2>5
  <1>7. k \notin KeysOf(m) => Holding(m, k) = {}
    BY <1>3, <1>5 DEF KeysOf
  <1>8. ASSUME NEW p \in Occ(m), m.slots[p].key = k PROVE Holding(m, k) = {p}
    <2>1. p \in C /\ h \in Occ(m) /\ \A q \in C : m.slots[q].key = k => q = p
      BY <1>6, <1>8
    <2>2. h \notin Free(m)
      BY <1>4, <2>1
    <2> QED
      BY <1>5, <1>8, <2>1, <2>2
  <1> QED
    BY <1>3, <1>6, <1>7, <1>8 DEF C

\* What a chain has besides its first node.
LEMMA ChainNodes ==
    ASSUME MapAssumption, NEW m, Sound(m), NEW h \in Occ(m), Home(m, h) = h
    PROVE  /\ \A q \in Chain(m, h) : q \in Occ(m) /\ Home(m, q) = h
           /\ \A p \in Occ(m) : Home(m, p) = h => p \in Chain(m, h)
           /\ \A p \in Occ(m) : Home(m, p) = h /\ p # h => \E q \in Chain(m, h) : m.slots[q].next = p
  <1> DEFINE C == Chain(m, h)
             D == {q \in Occ(m) : Home(m, q) = h}
  <1>1. h \in At(m) /\ IsTable(m)
    BY DEF Occ, Sound
  <1>2. C \subseteq At(m) /\ h \in C /\ Shut(m, C) /\ \A E : h \in E /\ Shut(m, E) => C \subseteq E
    BY <1>1, ChainIs DEF ChainOf
  <1> HIDE DEF C
  <1>3. C \subseteq D
    <2>1. Shut(m, D)
      BY DEF Shut, Sound, Together
    <2>2. h \in D
      OBVIOUS
    <2> HIDE DEF D
    <2> QED
      BY <1>2, <2>1, <2>2
  <1>4. ASSUME NEW p \in Occ(m), Home(m, p) = h PROVE p \in C
    <2>1. Held(m, C)
      BY <1>2 DEF Shut, Held
    <2> QED
      BY <1>2, <1>4, <2>1 DEF Sound, Reached
  <1>5. ASSUME NEW p \in Occ(m), Home(m, p) = h, p # h PROVE \E q \in C : m.slots[q].next = p
    <2> SUFFICES ASSUME \A q \in C : m.slots[q].next # p PROVE FALSE
      OBVIOUS
    <2>1. Held(m, C \ {p})
      BY <1>2 DEF Shut, Held
    <2>2. C \ {p} \in SUBSET At(m) /\ h \in C \ {p}
      BY <1>2, <1>5
    <2>3. p \in C \ {p}
      BY <1>5, <2>1, <2>2 DEF Sound, Reached
    <2> QED
      BY <2>3
  <1> QED
    BY <1>3, <1>4, <1>5 DEF C

-----------------------------------------------------------------------------
(***************************************************************************)
(* Insertion.                                                              *)
(***************************************************************************)

\* k is put into its main slot s, which was free.
FreshIn(m, t, k, s) ==
    /\ IsTable(t) /\ t.size = m.size /\ t.lastfree = m.lastfree
    /\ t.slots[s].key = k /\ t.slots[s].next = LASTNODE
    /\ \A p \in At(m) : p # s => t.slots[p] = m.slots[p]

\* A key put into its free main slot leaves the table as it should be.
LEMMA FreshSound ==
    ASSUME MapAssumption, NEW m, Sound(m), NEW k \in Key, k \notin KeysOf(m), NEW t,
           NEW s \in At(m), s \notin Occ(m), s = Main(m, k), FreshIn(m, t, k, s)
    PROVE  Sound(t) /\ Occ(t) = Occ(m) \cup {s}
  <1>1. /\ IsTable(m) /\ IsTable(t) /\ At(t) = At(m) /\ t.size = m.size /\ k # NIL
        /\ t.slots[s].key = k /\ t.slots[s].next = LASTNODE /\ t.lastfree = m.lastfree
    BY DEF FreshIn, Sound, At, MapAssumption
  <1>2. \A p \in At(m) : p # s => t.slots[p] = m.slots[p]
    BY DEF FreshIn
  <1>3. Occ(t) = Occ(m) \cup {s}
    BY <1>1, <1>2 DEF Occ
  <1>4. \A p \in Occ(m) : p \in At(m) /\ p # s /\ t.slots[p] = m.slots[p] /\ Home(t, p) = Home(m, p)
    BY <1>1, <1>2 DEF Occ, Home, Main
  <1>5. Home(t, s) = s
    BY <1>1 DEF Home, Main
  <1>6. OneEach(t)
    BY <1>1, <1>3, <1>4 DEF OneEach, KeysOf, Sound
  <1>7. Together(t)
    BY <1>1, <1>3, <1>4 DEF Together, Sound
  <1>8. OnePrev(t)
    BY <1>1, <1>3, <1>4 DEF OnePrev, Sound
  <1>9. HeadFirst(t)
    <2>1. s # LASTNODE
      BY <1>1 DEF At, IsTable, LASTNODE
    <2> QED
      BY <1>1, <1>3, <1>4, <1>5, <2>1 DEF HeadFirst, Sound
  <1>10. Reached(t)
    <2> SUFFICES ASSUME NEW p \in Occ(t), NEW C \in SUBSET At(t), Home(t, p) \in C, Held(t, C)
                 PROVE  p \in C
      BY DEF Reached
    <2>1. CASE p = s
      BY <2>1, <1>5
    <2>2. CASE p # s
      <3>1. p \in Occ(m) /\ Home(m, p) \in C
        BY <2>2, <1>3, <1>4
      <3>2. Held(m, C)
        BY <1>3, <1>4 DEF Held
      <3> QED
        BY <3>1, <3>2, <1>1 DEF Sound, Reached
    <2> QED
      BY <2>1, <2>2
  <1>11. Ends(t)
    <2> SUFFICES ASSUME NEW T \in SUBSET At(t), T # {} PROVE \E p \in T : t.slots[p].next \notin T
      BY DEF Ends
    <2>1. CASE s \in T
      BY <2>1, <1>1 DEF At, IsTable, LASTNODE
    <2>2. CASE s \notin T
      <3>1. PICK p \in T : m.slots[p].next \notin T
        BY <1>1 DEF Sound, Ends
      <3> QED
        BY <3>1, <2>2, <1>1, <1>2
    <2> QED
      BY <2>1, <2>2
  <1>12. FreeBelow(t)
    BY <1>1, <1>3 DEF FreeBelow, Sound
  <1> QED
    BY <1>1, <1>3, <1>6, <1>7, <1>8, <1>9, <1>10, <1>11, <1>12 DEF Sound

\* k comes second in the chain of its main slot s, at new.
SecondIn(m, t, k, s, new) ==
    /\ IsTable(t) /\ t.size = m.size /\ t.lastfree = new
    /\ t.slots[new].key = k /\ t.slots[new].next = m.slots[s].next
    /\ t.slots[s].key = m.slots[s].key /\ t.slots[s].next = new /\ t.slots[s].val = m.slots[s].val
    /\ \A p \in At(m) : p # s /\ p # new => t.slots[p] = m.slots[p]

\* new is the highest free slot.
TopFree(m, new) == /\ new \in At(m) /\ new \notin Occ(m)
                   /\ \A p \in At(m) : p \notin Occ(m) => p <= new

\* So does a key that comes second in the chain of its main slot.
LEMMA SecondSound ==
    ASSUME MapAssumption, NEW m, Sound(m), NEW k \in Key, k \notin KeysOf(m), NEW t,
           NEW s \in Occ(m), s = Main(m, k), Home(m, s) = s, NEW new, TopFree(m, new),
           SecondIn(m, t, k, s, new)
    PROVE  Sound(t) /\ Occ(t) = Occ(m) \cup {new}
  <1>1. /\ IsTable(m) /\ IsTable(t) /\ At(t) = At(m) /\ t.size = m.size /\ k # NIL
        /\ t.slots[new].key = k /\ t.slots[new].next = m.slots[s].next
        /\ t.slots[s].key = m.slots[s].key /\ t.slots[s].next = new
        /\ t.lastfree = new
    BY DEF SecondIn, Sound, At, MapAssumption
  <1>2. \A p \in At(m) : p # s /\ p # new => t.slots[p] = m.slots[p]
    BY DEF SecondIn
  <1>3. new \in At(m) /\ new \notin Occ(m) /\ s # new /\ s \in At(m) /\ m.slots[s].key # NIL
    BY DEF TopFree, Occ
  <1>4. Occ(t) = Occ(m) \cup {new}
    BY <1>1, <1>2, <1>3 DEF Occ
  <1>5. \A p \in Occ(m) : /\ p \in At(m) /\ p # new /\ Home(t, p) = Home(m, p) /\ t.slots[p].key = m.slots[p].key
                          /\ p # s => t.slots[p].next = m.slots[p].next
    BY <1>1, <1>2, <1>3 DEF Occ, Home, Main
  <1>6. Home(t, new) = s
    BY <1>1 DEF Home, Main
  <1>7. \A p \in Occ(m) : m.slots[p].next # new
    BY <1>3 DEF Sound, Together, At, IsTable, LASTNODE
  <1>8. m.slots[s].next # s /\ (m.slots[s].next # LASTNODE => m.slots[s].next \in Occ(m))
    BY DEF Sound, HeadFirst, Together
  <1>9. OneEach(t)
    BY <1>1, <1>4, <1>5 DEF OneEach, KeysOf, Sound
  <1>10. Together(t)
    <2> SUFFICES ASSUME NEW p \in Occ(t), t.slots[p].next # LASTNODE
                 PROVE  t.slots[p].next \in Occ(t) /\ Home(t, t.slots[p].next) = Home(t, p)
      BY DEF Together
    <2>1. CASE p = new
      <3>1. m.slots[s].next \in Occ(m) /\ Home(m, m.slots[s].next) = s
        BY <2>1, <1>1 DEF Sound, Together
      <3> QED
        BY <2>1, <3>1, <1>1, <1>4, <1>5, <1>6
    <2>2. CASE p = s
      BY <2>2, <1>1, <1>4, <1>5, <1>6
    <2>3. CASE p # new /\ p # s
      <3>1. p \in Occ(m) /\ t.slots[p].next = m.slots[p].next
        BY <2>3, <1>4, <1>5
      <3>2. m.slots[p].next \in Occ(m) /\ Home(m, m.slots[p].next) = Home(m, p)
        BY <3>1 DEF Sound, Together
      <3> QED
        BY <3>1, <3>2, <1>4, <1>5
    <2> QED
      BY <2>1, <2>2, <2>3
  <1>11. OnePrev(t)
    <2> SUFFICES ASSUME NEW p \in Occ(t), NEW q \in Occ(t),
                        t.slots[p].next # LASTNODE, t.slots[p].next = t.slots[q].next
                 PROVE  p = q
      BY DEF OnePrev
    <2> DEFINE was(r) == IF r = new THEN s ELSE r
    <2>1. ASSUME NEW r \in Occ(t), r # s
          PROVE was(r) \in Occ(m) /\ t.slots[r].next = m.slots[was(r)].next /\ t.slots[r].next # new
      BY <2>1, <1>1, <1>4, <1>5, <1>7
    <2>2. CASE p = s \/ q = s
      BY <2>1, <2>2, <1>1
    <2>3. CASE p # s /\ q # s
      <3>1. was(p) = was(q)
        BY <2>1, <2>3 DEF Sound, OnePrev
      <3> QED
        BY <3>1, <2>3
    <2> QED
      BY <2>2, <2>3
  <1>12. HeadFirst(t)
    <2> SUFFICES ASSUME NEW p \in Occ(t) PROVE t.slots[p].next # Home(t, p)
      BY DEF HeadFirst
    <2>1. CASE p = new
      BY <2>1, <1>1, <1>6, <1>8
    <2>2. CASE p = s
      BY <2>2, <1>1, <1>3, <1>5
    <2>3. CASE p # new /\ p # s
      BY <2>3, <1>4, <1>5 DEF Sound, HeadFirst
    <2> QED
      BY <2>1, <2>2, <2>3
  <1>13. Reached(t)
    <2> SUFFICES ASSUME NEW p \in Occ(t), NEW C \in SUBSET At(t), Home(t, p) \in C, Held(t, C)
                 PROVE  p \in C
      BY DEF Reached
    <2>0. s \in C => new \in C
      BY <1>1, <1>4, <1>3 DEF Held, At, IsTable, LASTNODE
    <2>1. CASE p = new
      BY <2>0, <2>1, <1>6
    <2>2. CASE p # new
      <3>1. p \in Occ(m) /\ Home(m, p) \in C
        BY <2>2, <1>4, <1>5
      <3>2. Held(m, C)
        <4> SUFFICES ASSUME NEW q \in C, q \in Occ(m) PROVE m.slots[q].next \in C \cup {LASTNODE}
          BY DEF Held
        <4>1. CASE q = s
          <5>1. t.slots[new].next \in C \cup {LASTNODE}
            BY <4>1, <2>0, <1>4 DEF Held
          <5> QED
            BY <4>1, <5>1, <1>1
        <4>2. CASE q # s
          <5>1. t.slots[q].next = m.slots[q].next /\ q \in Occ(t)
            BY <4>2, <1>4, <1>5
          <5> QED
            BY <5>1 DEF Held
        <4> QED
          BY <4>1, <4>2
      <3> QED
        BY <3>1, <3>2, <1>1 DEF Sound, Reached
    <2> QED
      BY <2>1, <2>2
  <1>14. Ends(t)
    <2> SUFFICES ASSUME NEW T \in SUBSET At(t), T # {} PROVE \E p \in T : t.slots[p].next \notin T
      BY DEF Ends
    <2> DEFINE U == T \cap Occ(m)
    <2>1. CASE U # {}
      <3>1. PICK p \in U : m.slots[p].next \notin U
        BY <2>1, <1>1 DEF Sound, Ends
      <3>2. m.slots[p].next \notin T
        <4>1. m.slots[p].next = LASTNODE \/ m.slots[p].next \in Occ(m)
          BY <3>1 DEF Sound, Together
        <4>2. LASTNODE \notin T
          BY <1>1 DEF At, IsTable, LASTNODE
        <4> QED
          BY <3>1, <4>1, <4>2
      <3>3. CASE p # s
        BY <3>1, <3>2, <3>3, <1>5
      <3>4. CASE p = s
        <4>1. CASE new \in T
          BY <4>1, <3>2, <3>4, <1>1
        <4>2. CASE new \notin T
          BY <4>2, <3>1, <3>4, <1>1
        <4> QED
          BY <4>1, <4>2
      <3> QED
        BY <3>3, <3>4
    <2>2. CASE U = {} /\ new \in T
      <3>1. t.slots[new].next = LASTNODE \/ t.slots[new].next \in Occ(m)
        BY <1>1, <1>8
      <3>2. LASTNODE \notin T
        BY <1>1 DEF At, IsTable, LASTNODE
      <3> QED
        BY <2>2, <3>1, <3>2
    <2>3. CASE U = {} /\ new \notin T
      <3>1. PICK p \in T : m.slots[p].next \notin T
        BY <1>1 DEF Sound, Ends
      <3>2. p # s /\ p # new /\ p \in At(m)
        BY <2>3, <1>1
      <3> QED
        BY <3>1, <3>2, <1>2
    <2> QED
      BY <2>1, <2>2, <2>3
  <1>15. FreeBelow(t)
    BY <1>1, <1>4 DEF FreeBelow, TopFree
  <1> QED
    BY <1>1, <1>4, <1>9, <1>10, <1>11, <1>12, <1>13, <1>14, <1>15 DEF Sound

\* k is put into its main slot s, whose node moves to new: prev leads there now.
DisplacedIn(m, t, k, s, prev, new) ==
    /\ IsTable(t) /\ t.size = m.size /\ t.lastfree = new
    /\ t.slots[s].key = k /\ t.slots[s].next = LASTNODE
    /\ t.slots[new] = m.slots[s]
    /\ t.slots[prev].key = m.slots[prev].key /\ t.slots[prev].next = new
    /\ t.slots[prev].val = m.slots[prev].val
    /\ \A p \in At(m) : p # s /\ p # new /\ p # prev => t.slots[p] = m.slots[p]

\* So does a key that moves the node of another chain out of its main slot: the
\* nodes of that chain and their links are the same, with new for s.
LEMMA DisplacedSound ==
    ASSUME MapAssumption, NEW m, Sound(m), NEW k \in Key, k \notin KeysOf(m), NEW t,
           NEW s \in Occ(m), s = Main(m, k), Home(m, s) # s, NEW new, TopFree(m, new),
           NEW prev \in Occ(m), m.slots[prev].next = s, DisplacedIn(m, t, k, s, prev, new)
    PROVE  Sound(t) /\ Occ(t) = Occ(m) \cup {new}
  <1> DEFINE old(r) == IF r = new THEN s ELSE r
             led(x) == IF x = s THEN new ELSE x
  <1>1. /\ IsTable(m) /\ IsTable(t) /\ At(t) = At(m) /\ t.size = m.size /\ k # NIL
        /\ t.slots[s].key = k /\ t.slots[s].next = LASTNODE
        /\ t.slots[new] = m.slots[s]
        /\ t.slots[prev].key = m.slots[prev].key /\ t.slots[prev].next = new
        /\ t.lastfree = new
    BY DEF DisplacedIn, Sound, At, MapAssumption
  <1>2. \A p \in At(m) : p # s /\ p # new /\ p # prev => t.slots[p] = m.slots[p]
    BY DEF DisplacedIn
  <1>3. new \in At(m) /\ new \notin Occ(m) /\ s # new /\ s \in At(m) /\ m.slots[s].key # NIL
    BY DEF TopFree, Occ
  <1>4. m.slots[s].next # s
    <2>1. {s} \in SUBSET At(m) /\ {s} # {}
      BY <1>3
    <2>2. \E p \in {s} : m.slots[p].next \notin {s}
      BY <2>1 DEF Sound, Ends
    <2> QED
      BY <2>2
  <1>5. prev # s /\ prev # new /\ prev \in At(m) /\ m.slots[prev].key # NIL
    BY <1>3, <1>4 DEF Occ
  <1>6. LASTNODE \notin At(m)
    BY <1>1 DEF At, IsTable, LASTNODE
  <1>7. Occ(t) = Occ(m) \cup {new}
    <2> SUFFICES ASSUME NEW p \in At(m) PROVE t.slots[p].key # NIL <=> m.slots[p].key # NIL \/ p = new
      BY <1>1, <1>3 DEF Occ
    <2> QED
      BY <1>1, <1>2, <1>3, <1>5
  <1>8. \A p \in Occ(m) : Home(m, p) # s /\ Home(m, p) \in Occ(m) /\ Home(m, p) # new
    BY HeadIs, <1>3
  <1>9. \A p \in Occ(m) : m.slots[p].next = s => p = prev
    BY <1>6, <1>3 DEF Sound, OnePrev
  <1>10. \A p \in Occ(m) : m.slots[p].next # LASTNODE => m.slots[p].next \in Occ(m) /\ m.slots[p].next # new
    BY <1>3 DEF Sound, Together
  <1>11. ASSUME NEW r \in Occ(t), r # s
         PROVE  /\ old(r) \in Occ(m) /\ t.slots[r].key = m.slots[old(r)].key
                /\ t.slots[r].next = led(m.slots[old(r)].next) /\ Home(t, r) = Home(m, old(r))
    <2>1. CASE r = new
      BY <2>1, <1>1, <1>4 DEF Home, Main
    <2>2. CASE r = prev
      BY <2>2, <1>1, <1>5 DEF Home, Main
    <2>3. CASE r # new /\ r # prev
      <3>1. r \in Occ(m) /\ t.slots[r] = m.slots[r] /\ m.slots[r].next # s
        BY <2>3, <1>2, <1>7, <1>9, <1>11 DEF Occ
      <3> QED
        BY <3>1, <2>3, <1>1 DEF Home, Main
    <2> QED
      BY <2>1, <2>2, <2>3
  <1>12. Home(t, s) = s /\ s \in Occ(t)
    BY <1>1, <1>7 DEF Home, Main
  <1>13. \A r \in Occ(t) : r # s => r = new \/ r \in Occ(m)
    BY <1>7
  <1> HIDE DEF old, led
  <1>14. \A p, q \in Occ(t) : p # s /\ q # s /\ old(p) = old(q) => p = q
    BY DEF old
  <1>15. \A x : led(x) # s /\ (led(x) = LASTNODE <=> x = LASTNODE)
    BY <1>3, <1>6 DEF led
  <1>16. \A x, y \in Occ(m) : led(x) = led(y) => x = y
    BY <1>3 DEF led
  <1>17. OneEach(t)
    <2> SUFFICES ASSUME NEW p \in Occ(t), NEW q \in Occ(t), t.slots[p].key = t.slots[q].key PROVE p = q
      BY DEF OneEach
    <2>1. ASSUME NEW r \in Occ(t), r # s PROVE t.slots[r].key # k
      BY <2>1, <1>11 DEF KeysOf
    <2>2. CASE p = s \/ q = s
      BY <2>1, <2>2, <1>1
    <2>3. CASE p # s /\ q # s
      <3>1. old(p) = old(q)
        BY <2>3, <1>11 DEF Sound, OneEach
      <3> QED
        BY <3>1, <2>3, <1>14
    <2> QED
      BY <2>2, <2>3
  <1>18. Together(t)
    <2> SUFFICES ASSUME NEW p \in Occ(t), t.slots[p].next # LASTNODE
                 PROVE  t.slots[p].next \in Occ(t) /\ Home(t, t.slots[p].next) = Home(t, p)
      BY DEF Together
    <2>1. p # s
      BY <1>1
    <2> DEFINE x == m.slots[old(p)].next
    <2>2. t.slots[p].next = led(x) /\ Home(t, p) = Home(m, old(p)) /\ old(p) \in Occ(m)
      BY <2>1, <1>11
    <2>3. x # LASTNODE
      BY <2>2, <1>15
    <2>4. x \in Occ(m) /\ Home(m, x) = Home(m, old(p)) /\ x # new
      BY <2>2, <2>3, <1>10 DEF Sound, Together
    <2> HIDE DEF x
    <2>5. led(x) \in Occ(t) /\ led(x) # s /\ old(led(x)) = x
      BY <2>4, <1>3, <1>7 DEF led, old
    <2>6. Home(t, led(x)) = Home(m, x)
      BY <2>5, <1>11
    <2> QED
      BY <2>2, <2>4, <2>5, <2>6
  <1>19. OnePrev(t)
    <2> SUFFICES ASSUME NEW p \in Occ(t), NEW q \in Occ(t),
                        t.slots[p].next # LASTNODE, t.slots[p].next = t.slots[q].next
                 PROVE  p = q
      BY DEF OnePrev
    <2>1. p # s /\ q # s
      BY <1>1
    <2> DEFINE x == m.slots[old(p)].next
               y == m.slots[old(q)].next
    <2>2. t.slots[p].next = led(x) /\ t.slots[q].next = led(y) /\ old(p) \in Occ(m) /\ old(q) \in Occ(m)
      BY <2>1, <1>11
    <2>3. x # LASTNODE /\ y # LASTNODE
      BY <2>2, <1>15
    <2>4. x \in Occ(m) /\ y \in Occ(m)
      BY <2>2, <2>3, <1>10
    <2>5. x = y
      <3> HIDE DEF x, y
      <3> QED
        BY <2>2, <2>4, <1>16
    <2>6. old(p) = old(q)
      BY <2>2, <2>3, <2>5 DEF Sound, OnePrev
    <2> QED
      BY <2>1, <2>6, <1>14
  <1>20. HeadFirst(t)
    <2> SUFFICES ASSUME NEW p \in Occ(t) PROVE t.slots[p].next # Home(t, p)
      BY DEF HeadFirst
    <2>1. CASE p = s
      BY <2>1, <1>1, <1>3, <1>6, <1>12
    <2>2. CASE p # s
      <3>1. t.slots[p].next = led(m.slots[old(p)].next) /\ Home(t, p) = Home(m, old(p)) /\ old(p) \in Occ(m)
        BY <2>2, <1>11
      <3>2. m.slots[old(p)].next # Home(m, old(p))
        BY <3>1 DEF Sound, HeadFirst
      <3>3. Home(m, old(p)) # s /\ Home(m, old(p)) # new
        BY <3>1, <1>8
      <3> QED
        BY <3>1, <3>2, <3>3 DEF led
    <2> QED
      BY <2>1, <2>2
  <1>21. Reached(t)
    <2> SUFFICES ASSUME NEW p \in Occ(t), NEW C \in SUBSET At(t), Home(t, p) \in C, Held(t, C)
                 PROVE  p \in C
      BY DEF Reached
    <2>1. CASE p = s
      BY <2>1, <1>12
    <2>2. CASE p # s
      <3> DEFINE D == (C \ {new, s}) \cup {x \in {s} : new \in C}
      <3>1. old(p) \in Occ(m) /\ Home(m, old(p)) \in C
        BY <2>2, <1>11
      <3>2. Home(m, old(p)) \in D
        BY <3>1, <1>8
      <3>3. D \in SUBSET At(m)
        BY <1>1, <1>3
      <3>4. Held(m, D)
        <4> SUFFICES ASSUME NEW q \in D, q \in Occ(m), m.slots[q].next # LASTNODE
                     PROVE  m.slots[q].next \in D
          BY DEF Held
        <4> DEFINE x == m.slots[q].next
        <4>1. x # new /\ x # LASTNODE
          BY <1>10
        <4>2. \E r \in C : r \in Occ(t) /\ r # s /\ old(r) = q
          <5>1. CASE q = s
            BY <5>1, <1>3, <1>7 DEF old
          <5>2. CASE q # s
            BY <5>2, <1>3, <1>7 DEF old
          <5> QED
            BY <5>1, <5>2
        <4>3. PICK r \in C : r \in Occ(t) /\ r # s /\ old(r) = q
          BY <4>2
        <4>4. t.slots[r].next = led(x)
          BY <4>3, <1>11
        <4>5. led(x) \in C
          <5> HIDE DEF x
          <5>1. led(x) # LASTNODE
            BY <4>1, <1>15
          <5>2. t.slots[r].next \in C \cup {LASTNODE}
            BY <4>3 DEF Held
          <5> QED
            BY <5>1, <5>2, <4>4
        <4> HIDE DEF x
        <4>6. x \in D
          BY <4>1, <4>5 DEF led
        <4> QED
          BY <4>6 DEF x
      <3> HIDE DEF D
      <3>5. old(p) \in D
        BY <3>1, <3>2, <3>3, <3>4 DEF Sound, Reached
      <3> QED
        BY <3>5, <2>2, <1>3 DEF old, D
    <2> QED
      BY <2>1, <2>2
  <1>22. Ends(t)
    <2> SUFFICES ASSUME NEW T \in SUBSET At(t), T # {} PROVE \E p \in T : t.slots[p].next \notin T
      BY DEF Ends
    <2> DEFINE U == (T \cap Occ(m)) \cup {x \in {s} : new \in T}
    <2>0. LASTNODE \notin T
      BY <1>1, <1>6
    <2>1. CASE s \in T
      BY <2>0, <2>1, <1>1
    <2>2. CASE s \notin T /\ U # {}
      <3>1. U \in SUBSET At(m)
        BY <1>1, <1>3
      <3>2. PICK p \in U : m.slots[p].next \notin U
        <4> HIDE DEF U
        <4> QED
          BY <2>2, <3>1 DEF Sound, Ends
      <3> DEFINE r == IF p = s THEN new ELSE p
                 x == m.slots[p].next
      <3>3. r \in T /\ r \in Occ(t) /\ r # s /\ old(r) = p /\ p \in Occ(m)
        BY <2>2, <3>2, <1>3, <1>7 DEF old
      <3>4. t.slots[r].next = led(x)
        <4> HIDE DEF r
        <4> QED
          BY <3>3, <1>11
      <3>5. x = LASTNODE \/ x \in Occ(m)
        BY <3>3, <1>10
      <3>6. led(x) \notin T
        <4>1. x \notin U
          BY <3>2
        <4> HIDE DEF x
        <4> QED
          BY <4>1, <3>5, <2>0, <1>3 DEF led
      <3> QED
        BY <3>3, <3>4, <3>6
    <2>3. CASE s \notin T /\ U = {}
      <3>1. PICK p \in T : m.slots[p].next \notin T
        BY <1>1 DEF Sound, Ends
      <3>2. p # s /\ p # new /\ p # prev /\ p \in At(m)
        BY <2>3, <1>1, <3>1
      <3> QED
        BY <3>1, <3>2, <1>2
    <2> QED
      BY <2>1, <2>2, <2>3
  <1>23. FreeBelow(t)
    BY <1>1, <1>7 DEF FreeBelow, TopFree
  <1> QED
    BY <1>1, <1>7, <1>17, <1>18, <1>19, <1>20, <1>21, <1>22, <1>23 DEF Sound

\* nextfree finds the highest free slot, if there is one.
LEMMA NextfreeIs ==
    ASSUME NEW m, Sound(m), NEW x \in At(m), x \notin Occ(m)
    PROVE  TopFree(m, nextfree(m))
  <1> DEFINE F == {p \in Free(m) : p <= m.lastfree}
  <1>1. IsTable(m) /\ FreeBelow(m)
    BY DEF Sound
  <1>2. F = At(m) \ Occ(m)
    BY <1>1 DEF Free, Occ, IsTable, FreeBelow
  <1>3. nextfree(m) = IF F = {} THEN -1 ELSE CHOOSE p \in F : \A q \in F : q <= p
    BY DEF nextfree
  <1>4. F \in SUBSET (0 .. m.size) /\ F # {} /\ m.size \in Nat
    BY <1>1, <1>2 DEF At, IsTable
  <1>5. \E p \in F : \A q \in F : q <= p
    <2> HIDE DEF F
    <2> QED
      BY <1>4, Greatest
  <1>6. nextfree(m) \in F /\ \A q \in F : q <= nextfree(m)
    <2> HIDE DEF F
    <2> QED
      BY <1>3, <1>4, <1>5
  <1> QED
    BY <1>2, <1>6 DEF TopFree

\* A table with other nodes.
LEMMA WithIs ==
    ASSUME NEW m, IsTable(m), NEW s, NEW last \in At(m) \cup {-1}, s \in [At(m) -> NodeType(m)]
    PROVE  /\ IsTable(With(m, s, last)) /\ With(m, s, last).size = m.size
           /\ With(m, s, last).slots = s /\ With(m, s, last).lastfree = last
           /\ At(With(m, s, last)) = At(m)
  <1>1. /\ With(m, s, last).size = m.size /\ With(m, s, last).slots = s
        /\ With(m, s, last).lastfree = last
        /\ With(m, s, last) = [size |-> With(m, s, last).size, slots |-> With(m, s, last).slots,
                               lastfree |-> With(m, s, last).lastfree]
    BY DEF With
  <1>2. At(With(m, s, last)) = At(m)
    BY <1>1 DEF At
  <1>3. NodeType(With(m, s, last)) = NodeType(m)
    BY <1>2 DEF NodeType
  <1> QED
    BY <1>1, <1>2, <1>3 DEF IsTable

\* A node of a table.
LEMMA NodeTyped ==
    ASSUME NEW m, NEW k \in Key \cup {NIL}, NEW n \in At(m) \cup {LASTNODE}, NEW v \in Val \cup {NONE}
    PROVE  /\ Node(k, n, v) \in NodeType(m)
           /\ Node(k, n, v).key = k /\ Node(k, n, v).next = n /\ Node(k, n, v).val = v
  BY DEF Node, NodeType

\* k has the value v in m.
Has(m, k, v) == \E p \in Occ(m) : m.slots[p].key = k /\ m.slots[p].val = v

\* insert makes a node for k; what the other keys have stays.
Inserted(m, t, k) ==
    /\ Sound(t) /\ t.size = m.size /\ k \in KeysOf(t)
    /\ \A j, w : j # k => (Has(t, j, w) <=> Has(m, j, w))

\* insert, when the main slot is free.
LEMMA InsertFresh ==
    ASSUME MapAssumption, NEW m, Sound(m), NEW k \in Key, k \notin KeysOf(m),
           m.slots[Main(m, k)].key = NIL
    PROVE  Inserted(m, insert(m, k), k)
  <1> DEFINE s == Main(m, k)
             n == Node(k, LASTNODE, m.slots[s].val)
             f == [m.slots EXCEPT ![s] = n]
             t == With(m, f, m.lastfree)
  <1>1. IsTable(m) /\ s \in At(m) /\ s \notin Occ(m)
    BY MainIs DEF Sound, Occ
  <1>2. insert(m, k) = t
    BY DEF insert
  <1>3. n \in NodeType(m) /\ n.key = k /\ n.next = LASTNODE
    <2>1. /\ k \in Key \cup {NIL} /\ LASTNODE \in At(m) \cup {LASTNODE}
          /\ m.slots[s].val \in Val \cup {NONE}
      BY <1>1, NodeIs
    <2> HIDE DEF s
    <2> QED
      BY <2>1 DEF Node, NodeType
  <1> HIDE DEF n
  <1>4. f \in [At(m) -> NodeType(m)] /\ m.lastfree \in At(m) \cup {-1}
    BY <1>1, <1>3 DEF IsTable
  <1>5. f[s] = n /\ \A p \in At(m) : p # s => f[p] = m.slots[p]
    BY <1>1, <1>3 DEF IsTable
  <1> HIDE DEF f
  <1>6. IsTable(t) /\ t.size = m.size /\ t.slots = f /\ t.lastfree = m.lastfree /\ At(t) = At(m)
    BY <1>1, <1>4, WithIs
  <1> HIDE DEF t
  <1>7. FreshIn(m, t, k, s)
    BY <1>3, <1>5, <1>6 DEF FreshIn
  <1> HIDE DEF s
  <1>8. Sound(t) /\ Occ(t) = Occ(m) \cup {s}
    <2>1. s = Main(m, k)
      BY DEF s
    <2> QED
      BY <1>1, <1>7, <2>1, FreshSound
  <1>9. k \in KeysOf(t)
    BY <1>3, <1>5, <1>6, <1>8 DEF KeysOf
  <1>10. ASSUME NEW j, NEW w, j # k PROVE Has(t, j, w) <=> Has(m, j, w)
    <2>1. \A p \in Occ(m) : p # s /\ t.slots[p] = m.slots[p]
      BY <1>1, <1>5, <1>6 DEF Occ
    <2>2. t.slots[s].key = k
      BY <1>3, <1>5, <1>6
    <2> QED
      BY <1>8, <1>10, <2>1, <2>2 DEF Has
  <1> QED
    BY <1>2, <1>6, <1>8, <1>9, <1>10 DEF Inserted

\* insert, when the main slot has a node of its own chain.
LEMMA InsertSecond ==
    ASSUME MapAssumption, NEW m, Sound(m), NEW k \in Key, k \notin KeysOf(m),
           NEW s, s = Main(m, k), s \in Occ(m), Home(m, s) = s,
           NEW x \in At(m), x \notin Occ(m)
    PROVE  Inserted(m, insert_second(m, k, s), k)
  <1> DEFINE new == nextfree(m)
             n == Node(k, m.slots[s].next, m.slots[new].val)
             l == Linked(m, s, new)
             f == [m.slots EXCEPT ![new] = n, ![s] = l]
             t == With(m, f, new)
  <1>1. TopFree(m, new)
    BY NextfreeIs
  <1>2. insert_second(m, k, s) = t
    BY DEF insert_second
  <1> HIDE DEF new
  <1>3. IsTable(m) /\ s \in At(m) /\ new \in At(m) /\ new \notin Occ(m) /\ new # s
    BY <1>1 DEF Sound, Occ, TopFree
  <1>4. n \in NodeType(m) /\ n.key = k /\ n.next = m.slots[s].next
    BY <1>3, NodeIs, NodeTyped
  <1>5. l \in NodeType(m) /\ l.key = m.slots[s].key /\ l.next = new /\ l.val = m.slots[s].val
    BY <1>3, NodeIs, NodeTyped DEF Linked
  <1> HIDE DEF n, l
  <1>6. f \in [At(m) -> NodeType(m)] /\ new \in At(m) \cup {-1}
    BY <1>3, <1>4, <1>5 DEF IsTable
  <1>7. f[new] = n /\ f[s] = l /\ \A p \in At(m) : p # s /\ p # new => f[p] = m.slots[p]
    BY <1>3, <1>4, <1>5 DEF IsTable
  <1> HIDE DEF f
  <1>8. IsTable(t) /\ t.size = m.size /\ t.slots = f /\ t.lastfree = new /\ At(t) = At(m)
    BY <1>3, <1>6, WithIs
  <1> HIDE DEF t
  <1>9. SecondIn(m, t, k, s, new)
    BY <1>4, <1>5, <1>7, <1>8 DEF SecondIn
  <1>10. Sound(t) /\ Occ(t) = Occ(m) \cup {new}
    BY <1>1, <1>9, SecondSound
  <1>11. k \in KeysOf(t)
    BY <1>4, <1>7, <1>8, <1>10 DEF KeysOf
  <1>12. ASSUME NEW j, NEW w, j # k PROVE Has(t, j, w) <=> Has(m, j, w)
    <2>1. \A p \in Occ(m) : /\ p # new /\ t.slots[p].key = m.slots[p].key
                            /\ t.slots[p].val = m.slots[p].val
      BY <1>3, <1>5, <1>7, <1>8 DEF Occ
    <2>2. t.slots[new].key = k
      BY <1>4, <1>7, <1>8
    <2> QED
      BY <1>10, <1>12, <2>1, <2>2 DEF Has
  <1> QED
    BY <1>2, <1>8, <1>10, <1>11, <1>12 DEF Inserted

\* findprev: the node that leads to another of its chain.
LEMMA FindprevIs ==
    ASSUME MapAssumption, NEW m, Sound(m), NEW s \in Occ(m), Home(m, s) # s, NEW h, h = Home(m, s)
    PROVE  findprev(m, h, s) \in Occ(m) /\ m.slots[findprev(m, h, s)].next = s
  <1>1. h \in Occ(m) /\ Home(m, h) = h
    BY HeadIs
  <1>2. /\ \A q \in Chain(m, h) : q \in Occ(m)
        /\ \E q \in Chain(m, h) : m.slots[q].next = s
    BY <1>1, ChainNodes
  <1> QED
    BY <1>2 DEF findprev

\* insert, when the main slot has a node of another chain.
LEMMA InsertDisplacing ==
    ASSUME MapAssumption, NEW m, Sound(m), NEW k \in Key, k \notin KeysOf(m),
           NEW s, s = Main(m, k), s \in Occ(m), Home(m, s) # s,
           NEW x \in At(m), x \notin Occ(m)
    PROVE  Inserted(m, insert_displacing(m, k, s), k)
  <1> DEFINE new == nextfree(m)
             prev == findprev(m, Main(m, m.slots[s].key), s)
             n == Node(k, LASTNODE, m.slots[s].val)
             l == Linked(m, prev, new)
             f == [m.slots EXCEPT ![prev] = l, ![new] = m.slots[s], ![s] = n]
             t == With(m, f, new)
  <1>1. TopFree(m, new)
    BY NextfreeIs
  <1>2. insert_displacing(m, k, s) = t
    BY DEF insert_displacing
  <1>3. prev \in Occ(m) /\ m.slots[prev].next = s
    BY FindprevIs DEF Home
  <1> HIDE DEF new, prev
  <1>4. IsTable(m) /\ s \in At(m) /\ new \in At(m) /\ new \notin Occ(m) /\ new # s /\ prev \in At(m) /\ prev # new
    BY <1>1, <1>3 DEF Sound, Occ, TopFree
  <1>5. prev # s
    <2>1. {s} \in SUBSET At(m) /\ {s} # {}
      BY <1>4
    <2>2. \E p \in {s} : m.slots[p].next \notin {s}
      BY <2>1 DEF Sound, Ends
    <2> QED
      BY <2>2, <1>3
  <1>6. n \in NodeType(m) /\ n.key = k /\ n.next = LASTNODE
    <2>1. /\ k \in Key \cup {NIL} /\ LASTNODE \in At(m) \cup {LASTNODE}
          /\ m.slots[s].val \in Val \cup {NONE}
      BY <1>4, NodeIs
    <2> QED
      BY <2>1, NodeTyped
  <1>7. l \in NodeType(m) /\ l.key = m.slots[prev].key /\ l.next = new /\ l.val = m.slots[prev].val
    BY <1>4, NodeIs, NodeTyped DEF Linked
  <1> HIDE DEF n, l
  <1>8. f \in [At(m) -> NodeType(m)] /\ new \in At(m) \cup {-1}
    BY <1>4, <1>6, <1>7 DEF IsTable
  <1>9. f[new] = m.slots[s] /\ f[s] = n /\ f[prev] = l
        /\ \A p \in At(m) : p # s /\ p # new /\ p # prev => f[p] = m.slots[p]
    BY <1>4, <1>5, <1>6, <1>7 DEF IsTable
  <1> HIDE DEF f
  <1>10. IsTable(t) /\ t.size = m.size /\ t.slots = f /\ t.lastfree = new /\ At(t) = At(m)
    BY <1>4, <1>8, WithIs
  <1> HIDE DEF t
  <1>11. DisplacedIn(m, t, k, s, prev, new)
    BY <1>6, <1>7, <1>9, <1>10 DEF DisplacedIn
  <1>12. Sound(t) /\ Occ(t) = Occ(m) \cup {new}
    BY <1>1, <1>3, <1>11, DisplacedSound
  <1>13. k \in KeysOf(t)
    BY <1>6, <1>9, <1>10, <1>12 DEF KeysOf
  <1>14. ASSUME NEW j, NEW w, j # k PROVE Has(t, j, w) <=> Has(m, j, w)
    <2>1. \A p \in Occ(m) : /\ p # new
                            /\ p # s => /\ t.slots[p].key = m.slots[p].key
                                        /\ t.slots[p].val = m.slots[p].val
      BY <1>4, <1>7, <1>9, <1>10 DEF Occ
    <2>2. t.slots[s].key = k /\ t.slots[new] = m.slots[s]
      BY <1>6, <1>9, <1>10
    <2>3. ASSUME Has(t, j, w) PROVE Has(m, j, w)
      BY <1>12, <1>14, <2>1, <2>2, <2>3 DEF Has
    <2>4. ASSUME Has(m, j, w) PROVE Has(t, j, w)
      BY <1>12, <1>14, <2>1, <2>2, <2>4 DEF Has
    <2> QED
      BY <2>3, <2>4
  <1> QED
    BY <1>2, <1>10, <1>12, <1>13, <1>14 DEF Inserted

\* insert, whichever of the three it does; it needs a free slot.
LEMMA InsertIs ==
    ASSUME MapAssumption, NEW m, Sound(m), NEW k \in Key, k \notin KeysOf(m),
           NEW x \in At(m), x \notin Occ(m)
    PROVE  Inserted(m, insert(m, k), k)
  <1> DEFINE s == Main(m, k)
  <1>1. IsTable(m) /\ s \in At(m)
    BY MainIs DEF Sound
  <1>2. CASE m.slots[s].key = NIL
    BY <1>2, InsertFresh
  <1>3. CASE m.slots[s].key # NIL /\ Home(m, s) = s
    <2>1. insert(m, k) = insert_second(m, k, s)
      BY <1>3 DEF insert, Home
    <2>2. s \in Occ(m)
      BY <1>1, <1>3 DEF Occ
    <2> QED
      BY <1>3, <2>1, <2>2, InsertSecond
  <1>4. CASE m.slots[s].key # NIL /\ Home(m, s) # s
    <2>1. insert(m, k) = insert_displacing(m, k, s)
      BY <1>4 DEF insert, Home
    <2>2. s \in Occ(m)
      BY <1>1, <1>4 DEF Occ
    <2> QED
      BY <1>4, <2>1, <2>2, InsertDisplacing
  <1> QED
    BY <1>2, <1>3, <1>4

\* Only the value of the node at p is another.
Revalued(m, t, p, v) ==
    /\ IsTable(t) /\ t.size = m.size /\ t.lastfree = m.lastfree
    /\ \A q \in At(m) : t.slots[q].key = m.slots[q].key /\ t.slots[q].next = m.slots[q].next
    /\ \A q \in At(m) : t.slots[q].val = IF q = p THEN v ELSE m.slots[q].val

\* A new value leaves the links alone.
LEMMA RevaluedSound ==
    ASSUME NEW m, Sound(m), NEW p \in Occ(m), NEW v, NEW t, Revalued(m, t, p, v)
    PROVE  /\ Sound(t) /\ Occ(t) = Occ(m)
           /\ \A j, w : Has(t, j, w) <=> IF j = m.slots[p].key THEN w = v ELSE Has(m, j, w)
  <1>1. /\ IsTable(m) /\ IsTable(t) /\ At(t) = At(m) /\ t.size = m.size /\ t.lastfree = m.lastfree
        /\ \A q \in At(m) : t.slots[q].key = m.slots[q].key /\ t.slots[q].next = m.slots[q].next
        /\ \A q \in At(m) : t.slots[q].val = IF q = p THEN v ELSE m.slots[q].val
    BY DEF Revalued, Sound, At
  <1>2. Occ(t) = Occ(m)
    BY <1>1 DEF Occ
  <1>3. \A q \in Occ(m) : /\ q \in At(m) /\ t.slots[q].key = m.slots[q].key
                          /\ t.slots[q].next = m.slots[q].next /\ Home(t, q) = Home(m, q)
    BY <1>1 DEF Occ, Home, Main
  <1>4. OneEach(t) /\ Together(t) /\ OnePrev(t) /\ HeadFirst(t)
    <2>1. OneEach(t)
      BY <1>2, <1>3 DEF OneEach, Sound
    <2>2. Together(t)
      BY <1>2, <1>3 DEF Together, Sound
    <2>3. OnePrev(t)
      BY <1>2, <1>3 DEF OnePrev, Sound
    <2>4. HeadFirst(t)
      BY <1>2, <1>3 DEF HeadFirst, Sound
    <2> QED
      BY <2>1, <2>2, <2>3, <2>4
  <1>5. Reached(t)
    <2>1. \A C : Held(t, C) => Held(m, C)
      BY <1>2, <1>3 DEF Held
    <2> QED
      BY <1>1, <1>2, <1>3, <2>1 DEF Reached, Sound
  <1>6. Ends(t)
    <2> SUFFICES ASSUME NEW T \in SUBSET At(t), T # {} PROVE \E q \in T : t.slots[q].next \notin T
      BY DEF Ends
    <2>1. PICK q \in T : m.slots[q].next \notin T
      BY <1>1 DEF Sound, Ends
    <2> QED
      BY <1>1, <2>1
  <1>7. FreeBelow(t)
    BY <1>1, <1>2 DEF FreeBelow, Sound
  <1>8. ASSUME NEW j, NEW w PROVE Has(t, j, w) <=> IF j = m.slots[p].key THEN w = v ELSE Has(m, j, w)
    <2>1. \A q \in Occ(m) : m.slots[q].key = m.slots[p].key => q = p
      BY DEF Sound, OneEach
    <2>2. p \in At(m) /\ \A q \in Occ(m) : t.slots[q].val = IF q = p THEN v ELSE m.slots[q].val
      BY <1>1 DEF Occ
    <2> QED
      BY <1>2, <1>3, <2>1, <2>2 DEF Has
  <1> QED
    BY <1>1, <1>2, <1>4, <1>5, <1>6, <1>7, <1>8 DEF Sound

\* The node at p with another value.
Valued(m, p, k, v) == With(m, [m.slots EXCEPT ![p] = Node(k, m.slots[p].next, v)], m.lastfree)

\* That is what storing a value at p does.
LEMMA ValuedIs ==
    ASSUME NEW m, Sound(m), NEW p \in Occ(m), NEW k, k = m.slots[p].key, NEW v \in Val \cup {NONE}
    PROVE  Revalued(m, Valued(m, p, k, v), p, v)
  <1> DEFINE n == Node(k, m.slots[p].next, v)
             f == [m.slots EXCEPT ![p] = n]
             t == With(m, f, m.lastfree)
  <1>1. IsTable(m) /\ p \in At(m)
    BY DEF Sound, Occ
  <1>2. n \in NodeType(m) /\ n.key = k /\ n.next = m.slots[p].next /\ n.val = v
    <2>1. /\ k \in Key \cup {NIL} /\ m.slots[p].next \in At(m) \cup {LASTNODE}
          /\ v \in Val \cup {NONE}
      BY <1>1, NodeIs
    <2> QED
      BY <2>1 DEF Node, NodeType
  <1> HIDE DEF n
  <1>3. f \in [At(m) -> NodeType(m)] /\ m.lastfree \in At(m) \cup {-1}
    BY <1>1, <1>2 DEF IsTable
  <1>4. f[p] = n /\ \A q \in At(m) : q # p => f[q] = m.slots[q]
    BY <1>1, <1>2 DEF IsTable
  <1>5. Valued(m, p, k, v) = t
    BY DEF Valued, n
  <1> HIDE DEF f
  <1>6. IsTable(t) /\ t.size = m.size /\ t.slots = f /\ t.lastfree = m.lastfree
    BY <1>1, <1>3, WithIs
  <1> HIDE DEF t
  <1> QED
    BY <1>2, <1>4, <1>5, <1>6 DEF Revalued

\* k has the value v in t, and the other keys have what they have in m.
Put(m, t, k, v) ==
    /\ Sound(t) /\ t.size = m.size
    /\ \A j, w : Has(t, j, w) <=> IF j = k THEN w = v ELSE Has(m, j, w)

\* put stores the value at the node that insert has made.
LEMMA PutIs ==
    ASSUME MapAssumption, NEW m, Sound(m), NEW k \in Key, k \notin KeysOf(m), NEW v \in Val \cup {NONE},
           NEW x \in At(m), x \notin Occ(m)
    PROVE  Put(m, put(m, k, v), k, v)
  <1> DEFINE t == insert(m, k)
             p == CHOOSE q \in DOMAIN t.slots : t.slots[q].key = k
  <1>1. Inserted(m, t, k)
    BY InsertIs
  <1>2. put(m, k, v) = Valued(t, p, k, v)
    BY DEF put, Valued
  <1> HIDE DEF t
  <1>3. Sound(t) /\ t.size = m.size /\ k # NIL
    BY <1>1 DEF Inserted, MapAssumption
  <1>4. \E q \in Occ(t) : t.slots[q].key = k
    BY <1>1 DEF Inserted, KeysOf
  <1>5. DOMAIN t.slots = At(t)
    BY <1>3 DEF Sound, IsTable
  <1>6. p \in Occ(t) /\ t.slots[p].key = k
    BY <1>3, <1>4, <1>5 DEF Occ
  <1> HIDE DEF p
  <1> DEFINE u == Valued(t, p, k, v)
  <1>7. Revalued(t, u, p, v)
    BY <1>3, <1>6, ValuedIs
  <1> HIDE DEF u
  <1>8. Sound(u) /\ \A j, w : Has(u, j, w) <=> IF j = k THEN w = v ELSE Has(t, j, w)
    BY <1>3, <1>6, <1>7, RevaluedSound
  <1>9. \A j, w : j # k => (Has(t, j, w) <=> Has(m, j, w))
    BY <1>1 DEF Inserted
  <1>10. u.size = t.size /\ put(m, k, v) = u
    BY <1>2, <1>7 DEF Revalued, u
  <1> QED
    BY <1>3, <1>8, <1>9, <1>10 DEF Put

-----------------------------------------------------------------------------
(***************************************************************************)
(* Removal.                                                                *)
(***************************************************************************)

\* The node at b, which a leads to, is free now, and a leads where it led; a may
\* have taken its key.
Bypassed(m, t, a, b) ==
    /\ IsTable(t) /\ t.size = m.size /\ t.lastfree >= m.lastfree /\ t.lastfree >= b
    /\ t.slots[a].key \in {m.slots[a].key, m.slots[b].key}
    /\ t.slots[a].next = m.slots[b].next
    /\ t.slots[b].key = NIL /\ t.slots[b].next = m.slots[b].next
    /\ \A p \in At(m) : p # a /\ p # b => t.slots[p] = m.slots[p]

\* Taking a node out of a chain behind another one leaves the table as it should be.
LEMMA BypassedSound ==
    ASSUME MapAssumption, NEW m, Sound(m), NEW a \in Occ(m), NEW b \in Occ(m), m.slots[a].next = b,
           NEW t, Bypassed(m, t, a, b)
    PROVE  Sound(t) /\ Occ(t) = Occ(m) \ {b}
  <1>1. /\ IsTable(m) /\ IsTable(t) /\ At(t) = At(m) /\ t.size = m.size
        /\ t.slots[a].key \in {m.slots[a].key, m.slots[b].key} /\ t.slots[a].next = m.slots[b].next
        /\ t.slots[b].key = NIL /\ t.slots[b].next = m.slots[b].next
        /\ t.lastfree >= m.lastfree /\ t.lastfree >= b
    BY DEF Bypassed, Sound, At
  <1>2. \A p \in At(m) : p # a /\ p # b => t.slots[p] = m.slots[p]
    BY DEF Bypassed
  <1>3. a \in At(m) /\ b \in At(m) /\ LASTNODE \notin At(m) /\ m.slots[a].key # NIL /\ m.slots[b].key # NIL
    BY <1>1 DEF Occ, At, IsTable, LASTNODE
  <1>4. Home(m, a) = Home(m, b)
    BY <1>3 DEF Sound, Together
  <1>5. ASSUME NEW p \in At(m) PROVE m.slots[p].next # p
    <2>1. {p} \in SUBSET At(m) /\ {p} # {}
      OBVIOUS
    <2>2. \E q \in {p} : m.slots[q].next \notin {p}
      BY <2>1 DEF Sound, Ends
    <2> QED
      BY <2>2
  <1>6. a # b
    BY <1>3, <1>5
  <1>7. Occ(t) = Occ(m) \ {b}
    <2> SUFFICES ASSUME NEW p \in At(m) PROVE t.slots[p].key # NIL <=> m.slots[p].key # NIL /\ p # b
      BY <1>1 DEF Occ
    <2> QED
      BY <1>1, <1>2, <1>3, <1>6
  <1>8. \A p \in Occ(m) : p # a /\ p # b => t.slots[p] = m.slots[p]
    BY <1>2 DEF Occ
  <1>9. \A p \in Occ(t) : p \in Occ(m) /\ p # b /\ Home(t, p) = Home(m, p)
    <2>1. Home(t, a) = Home(m, a)
      BY <1>1, <1>4 DEF Home, Main
    <2>2. \A p \in Occ(t) : p # a => p \in Occ(m) /\ p # b /\ Home(t, p) = Home(m, p)
      BY <1>1, <1>7, <1>8 DEF Home, Main
    <2> QED
      BY <1>6, <1>7, <2>1, <2>2
  <1>10. \A p \in Occ(m) : m.slots[p].next = b => p = a
    BY <1>3 DEF Sound, OnePrev
  <1>11. m.slots[b].next # b /\ (m.slots[b].next # LASTNODE =>
           m.slots[b].next \in Occ(m) /\ Home(m, m.slots[b].next) = Home(m, b))
    BY <1>3, <1>5 DEF Sound, Together
  <1>12. \A p \in Occ(m) : Home(m, p) # b
    <2> SUFFICES ASSUME NEW p \in Occ(m), Home(m, p) = b PROVE FALSE
      OBVIOUS
    <2>1. Home(m, b) = b
      BY HeadIs
    <2> QED
      BY <2>1, <1>4 DEF Sound, HeadFirst
  <1>13. OneEach(t)
    <2> SUFFICES ASSUME NEW p \in Occ(t), NEW q \in Occ(t), t.slots[p].key = t.slots[q].key PROVE p = q
      BY DEF OneEach
    <2>1. ASSUME NEW r \in Occ(t), r # a PROVE t.slots[r].key # t.slots[a].key
      <3>1. r \in Occ(m) /\ r # b /\ t.slots[r] = m.slots[r]
        BY <2>1, <1>8, <1>9
      <3> QED
        BY <3>1, <2>1, <1>1 DEF Sound, OneEach
    <2>2. CASE p = a \/ q = a
      BY <2>1, <2>2
    <2>3. CASE p # a /\ q # a
      BY <2>3, <1>8, <1>9 DEF Sound, OneEach
    <2> QED
      BY <2>2, <2>3
  <1>14. Together(t)
    <2> SUFFICES ASSUME NEW p \in Occ(t), t.slots[p].next # LASTNODE
                 PROVE  t.slots[p].next \in Occ(t) /\ Home(t, t.slots[p].next) = Home(t, p)
      BY DEF Together
    <2>1. CASE p = a
      BY <2>1, <1>1, <1>4, <1>7, <1>9, <1>11
    <2>2. CASE p # a
      <3>1. p \in Occ(m) /\ t.slots[p] = m.slots[p] /\ m.slots[p].next # b
        BY <2>2, <1>8, <1>9, <1>10
      <3>2. m.slots[p].next \in Occ(m) /\ Home(m, m.slots[p].next) = Home(m, p)
        BY <3>1 DEF Sound, Together
      <3> QED
        BY <3>1, <3>2, <1>7, <1>9
    <2> QED
      BY <2>1, <2>2
  <1>15. OnePrev(t)
    <2> SUFFICES ASSUME NEW p \in Occ(t), NEW q \in Occ(t),
                        t.slots[p].next # LASTNODE, t.slots[p].next = t.slots[q].next
                 PROVE  p = q
      BY DEF OnePrev
    <2> DEFINE old(r) == IF r = a THEN b ELSE r
    <2>1. \A r \in Occ(t) : old(r) \in Occ(m) /\ t.slots[r].next = m.slots[old(r)].next
      BY <1>1, <1>8, <1>9
    <2>2. old(p) = old(q)
      <3> HIDE DEF old
      <3> QED
        BY <2>1 DEF Sound, OnePrev
    <2> QED
      BY <2>2, <1>9
  <1>16. HeadFirst(t)
    <2> SUFFICES ASSUME NEW p \in Occ(t) PROVE t.slots[p].next # Home(t, p)
      BY DEF HeadFirst
    <2>1. CASE p = a
      <3>1. m.slots[b].next # Home(m, b)
        BY DEF Sound, HeadFirst
      <3> QED
        BY <2>1, <3>1, <1>1, <1>4, <1>9
    <2>2. CASE p # a
      BY <2>2, <1>8, <1>9 DEF Sound, HeadFirst
    <2> QED
      BY <2>1, <2>2
  <1>17. Reached(t)
    <2> SUFFICES ASSUME NEW p \in Occ(t), NEW C \in SUBSET At(t), Home(t, p) \in C, Held(t, C)
                 PROVE  p \in C
      BY DEF Reached
    <2> DEFINE D == (C \ {b}) \cup {x \in {b} : a \in C}
    <2>1. Home(m, p) \in D /\ p \in Occ(m) /\ p # b
      BY <1>9, <1>12
    <2>2. D \in SUBSET At(m)
      BY <1>1, <1>3
    <2>3. Held(m, D)
      <3> SUFFICES ASSUME NEW q \in D, q \in Occ(m), m.slots[q].next # LASTNODE
                   PROVE  m.slots[q].next \in D
        BY DEF Held
      <3>0. a \in C => m.slots[b].next \in C \cup {LASTNODE}
        <4>1. a \in Occ(t)
          BY <1>6, <1>7
        <4> QED
          BY <4>1, <1>1 DEF Held
      <3>1. CASE q = b
        BY <3>0, <3>1, <1>11
      <3>2. CASE q = a
        BY <3>2, <1>6
      <3>3. CASE q # a /\ q # b
        <4>1. q \in C /\ q \in Occ(t) /\ t.slots[q] = m.slots[q] /\ m.slots[q].next # b
          BY <3>3, <1>7, <1>8, <1>10
        <4>2. m.slots[q].next \in C
          BY <4>1 DEF Held
        <4> QED
          BY <4>1, <4>2
      <3> QED
        BY <3>1, <3>2, <3>3
    <2>4. p \in D
      <3> HIDE DEF D
      <3> QED
        BY <2>1, <2>2, <2>3 DEF Sound, Reached
    <2> QED
      BY <2>1, <2>4
  <1>18. Ends(t)
    <2> SUFFICES ASSUME NEW T \in SUBSET At(t), T # {} PROVE \E p \in T : t.slots[p].next \notin T
      BY DEF Ends
    <2> DEFINE U == T \cup {x \in {b} : a \in T}
    <2>1. U \in SUBSET At(m) /\ U # {}
      BY <1>1, <1>3
    <2>2. PICK p \in U : m.slots[p].next \notin U
      <3> HIDE DEF U
      <3> QED
        BY <2>1 DEF Sound, Ends
    <2>3. p # a
      BY <2>2
    <2>4. CASE p = b /\ b \in T
      BY <2>2, <2>4, <1>1
    <2>5. CASE p = b /\ a \in T
      BY <2>2, <2>5, <1>1
    <2>6. CASE p # b
      BY <2>1, <2>2, <2>3, <2>6, <1>2
    <2> QED
      BY <2>2, <2>4, <2>5, <2>6
  <1>19. FreeBelow(t)
    <2> SUFFICES ASSUME NEW p \in At(m), p \notin Occ(t) PROVE p <= t.lastfree
      BY <1>1 DEF FreeBelow
    <2>1. CASE p = b
      BY <2>1, <1>1, <1>3 DEF IsTable, At
    <2>2. CASE p # b
      <3>1. p <= m.lastfree
        BY <2>2, <1>7 DEF Sound, FreeBelow
      <3> QED
        BY <3>1, <1>1 DEF IsTable, At
    <2> QED
      BY <2>1, <2>2
  <1> QED
    BY <1>1, <1>7, <1>13, <1>14, <1>15, <1>16, <1>17, <1>18, <1>19 DEF Sound

\* The only node of its chain, h, is free now.
Left(m, t, h) ==
    /\ IsTable(t) /\ t.size = m.size /\ t.lastfree >= m.lastfree /\ t.lastfree >= h
    /\ t.slots[h].key = NIL /\ t.slots[h].next = m.slots[h].next
    /\ \A p \in At(m) : p # h => t.slots[p] = m.slots[p]

\* So does taking out the only node of a chain.
LEMMA LeftSound ==
    ASSUME MapAssumption, NEW m, Sound(m), NEW h \in Occ(m), Home(m, h) = h, m.slots[h].next = LASTNODE,
           NEW t, Left(m, t, h)
    PROVE  Sound(t) /\ Occ(t) = Occ(m) \ {h}
  <1>1. /\ IsTable(m) /\ IsTable(t) /\ At(t) = At(m) /\ t.size = m.size
        /\ t.slots[h].key = NIL /\ t.slots[h].next = m.slots[h].next
        /\ t.lastfree >= m.lastfree /\ t.lastfree >= h
    BY DEF Left, Sound, At
  <1>2. \A p \in At(m) : p # h => t.slots[p] = m.slots[p]
    BY DEF Left
  <1>3. Occ(t) = Occ(m) \ {h} /\ h \in At(m)
    BY <1>1, <1>2 DEF Occ
  <1>4. \A p \in Occ(t) : p \in Occ(m) /\ p # h /\ t.slots[p] = m.slots[p] /\ Home(t, p) = Home(m, p)
    BY <1>1, <1>2, <1>3 DEF Occ, Home, Main
  <1>5. \A p \in Occ(m) : m.slots[p].next # h
    <2> SUFFICES ASSUME NEW p \in Occ(m), m.slots[p].next = h PROVE FALSE
      OBVIOUS
    <2>1. h # LASTNODE
      BY <1>1, <1>3 DEF At, IsTable, LASTNODE
    <2>2. Home(m, h) = Home(m, p)
      BY <2>1 DEF Sound, Together
    <2> QED
      BY <2>2 DEF Sound, HeadFirst
  <1>6. \A p \in Occ(m) : p # h => Home(m, p) # h
    <2> SUFFICES ASSUME NEW p \in Occ(m), Home(m, p) = h PROVE p \in {h}
      OBVIOUS
    <2>1. Held(m, {h}) /\ {h} \in SUBSET At(m) /\ h \in {h}
      BY <1>3 DEF Held
    <2> QED
      BY <2>1 DEF Sound, Reached
  <1>7. OneEach(t)
    BY <1>4 DEF OneEach, Sound
  <1>8. Together(t)
    BY <1>3, <1>4, <1>5 DEF Together, Sound
  <1>9. OnePrev(t)
    BY <1>4 DEF OnePrev, Sound
  <1>10. HeadFirst(t)
    BY <1>4 DEF HeadFirst, Sound
  <1>11. Reached(t)
    <2> SUFFICES ASSUME NEW p \in Occ(t), NEW C \in SUBSET At(t), Home(t, p) \in C, Held(t, C)
                 PROVE  p \in C
      BY DEF Reached
    <2> DEFINE D == C \ {h}
    <2>1. Home(m, p) \in D /\ p \in Occ(m) /\ D \in SUBSET At(m)
      BY <1>1, <1>4, <1>6
    <2>2. Held(m, D)
      <3> SUFFICES ASSUME NEW q \in D, q \in Occ(m) PROVE m.slots[q].next \in D \cup {LASTNODE}
        BY DEF Held
      <3>1. q \in Occ(t)
        BY <1>3
      <3> QED
        BY <3>1, <1>4, <1>5 DEF Held
    <2>3. p \in D
      <3> HIDE DEF D
      <3> QED
        BY <2>1, <2>2 DEF Sound, Reached
    <2> QED
      BY <2>3
  <1>12. Ends(t)
    <2> SUFFICES ASSUME NEW T \in SUBSET At(t), T # {} PROVE \E p \in T : t.slots[p].next \notin T
      BY DEF Ends
    <2>1. PICK p \in T : m.slots[p].next \notin T
      BY <1>1 DEF Sound, Ends
    <2>2. t.slots[p].next = m.slots[p].next
      BY <1>1, <1>2
    <2> QED
      BY <2>1, <2>2
  <1>13. FreeBelow(t)
    <2> SUFFICES ASSUME NEW p \in At(m), p \notin Occ(t) PROVE p <= t.lastfree
      BY <1>1 DEF FreeBelow
    <2>1. CASE p = h
      BY <2>1, <1>1, <1>3 DEF IsTable, At
    <2>2. CASE p # h
      <3>1. p <= m.lastfree
        BY <2>2, <1>3 DEF Sound, FreeBelow
      <3> QED
        BY <3>1, <1>1 DEF IsTable, At
    <2> QED
      BY <2>1, <2>2
  <1> QED
    BY <1>1, <1>3, <1>7, <1>8, <1>9, <1>10, <1>11, <1>12, <1>13 DEF Sound

\* free frees the slot of a node.
LEMMA SlotFreed ==
    ASSUME NEW m, IsTable(m), NEW p \in At(m)
    PROVE  /\ IsTable(free(m, p)) /\ free(m, p).size = m.size
           /\ free(m, p).lastfree >= m.lastfree /\ free(m, p).lastfree >= p
           /\ free(m, p).slots[p].key = NIL /\ free(m, p).slots[p].next = m.slots[p].next
           /\ \A q \in At(m) : q # p => free(m, p).slots[q] = m.slots[q]
  <1> DEFINE n == Node(NIL, m.slots[p].next, NONE)
             f == [m.slots EXCEPT ![p] = n]
             last == IF m.lastfree < p THEN p ELSE m.lastfree
             t == With(m, f, last)
  <1>1. n \in NodeType(m) /\ n.key = NIL /\ n.next = m.slots[p].next
    <2>1. m.slots[p].next \in At(m) \cup {LASTNODE} /\ NIL \in Key \cup {NIL} /\ NONE \in Val \cup {NONE}
      BY NodeIs
    <2> QED
      BY <2>1 DEF Node, NodeType
  <1> HIDE DEF n
  <1>2. f \in [At(m) -> NodeType(m)]
    BY <1>1 DEF IsTable
  <1>3. f[p] = n /\ \A q \in At(m) : q # p => f[q] = m.slots[q]
    BY <1>1 DEF IsTable
  <1>4. last \in At(m) \cup {-1} /\ last >= m.lastfree /\ last >= p
    BY DEF IsTable, At
  <1>5. free(m, p) = t
    BY DEF free, n
  <1> HIDE DEF f, last
  <1>6. IsTable(t) /\ t.size = m.size /\ t.slots = f /\ t.lastfree = last
    BY <1>2, <1>4, WithIs
  <1> HIDE DEF t
  <1> QED
    BY <1>1, <1>3, <1>4, <1>5, <1>6

\* k has no value in t, and the other keys have what they have in m.
Removed(m, t, k) ==
    /\ Sound(t) /\ t.size = m.size
    /\ \A j, w : Has(t, j, w) <=> j # k /\ Has(m, j, w)

\* The first node of a chain takes over the second.
LEMMA RemoveFirstIs ==
    ASSUME MapAssumption, NEW m, Sound(m), NEW p \in Occ(m), Home(m, p) = p, m.slots[p].next # LASTNODE
    PROVE  Removed(m, free(With(m, [m.slots EXCEPT ![p] = m.slots[m.slots[p].next]], m.lastfree),
                           m.slots[p].next), m.slots[p].key)
  <1> DEFINE b == m.slots[p].next
             f == [m.slots EXCEPT ![p] = m.slots[b]]
             u == With(m, f, m.lastfree)
             t == free(u, b)
  <1>1. IsTable(m) /\ p \in At(m) /\ b \in Occ(m) /\ b \in At(m)
    BY DEF Sound, Together, Occ
  <1>2. m.slots[b].key \in Key
    BY <1>1, OccIs
  <1>3. b # p
    BY DEF Sound, HeadFirst
  <1>4. f \in [At(m) -> NodeType(m)] /\ m.lastfree \in At(m) \cup {-1}
    BY <1>1 DEF IsTable
  <1>5. f[p] = m.slots[b] /\ \A q \in At(m) : q # p => f[q] = m.slots[q]
    BY <1>1 DEF IsTable
  <1> HIDE DEF b, f
  <1>6. IsTable(u) /\ u.size = m.size /\ u.slots = f /\ u.lastfree = m.lastfree /\ At(u) = At(m)
    BY <1>1, <1>4, WithIs
  <1> HIDE DEF u
  <1>7. /\ IsTable(t) /\ t.size = u.size /\ t.lastfree >= u.lastfree /\ t.lastfree >= b
        /\ t.slots[b].key = NIL /\ t.slots[b].next = u.slots[b].next
        /\ \A q \in At(u) : q # b => t.slots[q] = u.slots[q]
    BY <1>1, <1>6, SlotFreed
  <1> HIDE DEF t
  <1>8. Bypassed(m, t, p, b)
    BY <1>1, <1>3, <1>5, <1>6, <1>7 DEF Bypassed
  <1>9. m.slots[p].next = b
    BY DEF b
  <1>10. Sound(t) /\ Occ(t) = Occ(m) \ {b}
    BY <1>1, <1>8, <1>9, BypassedSound
  <1>11. t.slots[p] = m.slots[b] /\ \A q \in Occ(m) : q # p /\ q # b => t.slots[q] = m.slots[q]
    BY <1>1, <1>3, <1>5, <1>6, <1>7 DEF Occ
  <1>12. \A q \in Occ(m) : m.slots[q].key = m.slots[p].key => q = p
    BY DEF Sound, OneEach
  <1>13. ASSUME NEW j, NEW w PROVE Has(t, j, w) <=> j # m.slots[p].key /\ Has(m, j, w)
    <2>1. ASSUME Has(t, j, w) PROVE j # m.slots[p].key /\ Has(m, j, w)
      BY <2>1, <1>1, <1>3, <1>10, <1>11, <1>12 DEF Has
    <2>2. ASSUME j # m.slots[p].key, Has(m, j, w) PROVE Has(t, j, w)
      BY <2>2, <1>1, <1>3, <1>10, <1>11 DEF Has
    <2> QED
      BY <2>1, <2>2
  <1>14. Removed(m, t, m.slots[p].key)
    BY <1>6, <1>7, <1>10, <1>13 DEF Removed
  <1> QED
    BY <1>14 DEF t, u, f, b

\* The only node of a chain.
LEMMA RemoveOnly ==
    ASSUME MapAssumption, NEW m, Sound(m), NEW p \in Occ(m), Home(m, p) = p, m.slots[p].next = LASTNODE
    PROVE  Removed(m, free(m, p), m.slots[p].key)
  <1> DEFINE t == free(m, p)
  <1>1. IsTable(m) /\ p \in At(m)
    BY DEF Sound, Occ
  <1>2. /\ IsTable(t) /\ t.size = m.size /\ t.lastfree >= m.lastfree /\ t.lastfree >= p
        /\ t.slots[p].key = NIL /\ t.slots[p].next = m.slots[p].next
        /\ \A q \in At(m) : q # p => t.slots[q] = m.slots[q]
    BY <1>1, SlotFreed
  <1> HIDE DEF t
  <1>3. Left(m, t, p)
    BY <1>2 DEF Left
  <1>4. Sound(t) /\ Occ(t) = Occ(m) \ {p}
    BY <1>3, LeftSound
  <1>5. \A q \in Occ(m) : q # p => t.slots[q] = m.slots[q] /\ m.slots[q].key # m.slots[p].key
    BY <1>2 DEF Occ, Sound, OneEach
  <1>6. \A j, w : Has(t, j, w) <=> j # m.slots[p].key /\ Has(m, j, w)
    BY <1>4, <1>5 DEF Has
  <1>7. Removed(m, t, m.slots[p].key)
    BY <1>2, <1>4, <1>6 DEF Removed
  <1> QED
    BY <1>7 DEF t

\* Another node of a chain.
LEMMA RemoveOther ==
    ASSUME MapAssumption, NEW m, Sound(m), NEW p \in Occ(m), NEW h, h = Home(m, p), h # p
    PROVE  Removed(m, free(unlink(m, h, p), p), m.slots[p].key)
  <1> DEFINE prev == findprev(m, h, p)
             l == Linked(m, prev, m.slots[p].next)
             f == [m.slots EXCEPT ![prev] = l]
             u == With(m, f, m.lastfree)
             t == free(u, p)
  <1>1. IsTable(m) /\ p \in At(m)
    BY DEF Sound, Occ
  <1>2. prev \in Occ(m) /\ m.slots[prev].next = p
    BY FindprevIs
  <1>3. t = free(unlink(m, h, p), p)
    BY DEF unlink
  <1> HIDE DEF prev
  <1>4. prev \in At(m)
    BY <1>2 DEF Occ
  <1>5. prev # p
    <2>1. {p} \in SUBSET At(m) /\ {p} # {}
      BY <1>1
    <2>2. \E q \in {p} : m.slots[q].next \notin {p}
      BY <2>1 DEF Sound, Ends
    <2> QED
      BY <2>2, <1>2
  <1>6. /\ l \in NodeType(m) /\ l.key = m.slots[prev].key /\ l.next = m.slots[p].next
        /\ l.val = m.slots[prev].val
    <2>1. /\ m.slots[prev].key \in Key \cup {NIL} /\ m.slots[prev].val \in Val \cup {NONE}
          /\ m.slots[p].next \in At(m) \cup {LASTNODE}
      BY <1>1, <1>4, NodeIs
    <2> QED
      BY <2>1 DEF Linked, Node, NodeType
  <1> HIDE DEF l
  <1>7. f \in [At(m) -> NodeType(m)] /\ m.lastfree \in At(m) \cup {-1}
    BY <1>1, <1>6 DEF IsTable
  <1>8. f[prev] = l /\ \A q \in At(m) : q # prev => f[q] = m.slots[q]
    BY <1>1, <1>4 DEF IsTable
  <1> HIDE DEF f
  <1>9. IsTable(u) /\ u.size = m.size /\ u.slots = f /\ u.lastfree = m.lastfree /\ At(u) = At(m)
    BY <1>1, <1>7, WithIs
  <1> HIDE DEF u
  <1>10. /\ IsTable(t) /\ t.size = u.size /\ t.lastfree >= u.lastfree /\ t.lastfree >= p
         /\ t.slots[p].key = NIL /\ t.slots[p].next = u.slots[p].next
         /\ \A q \in At(u) : q # p => t.slots[q] = u.slots[q]
    BY <1>1, <1>9, SlotFreed
  <1> HIDE DEF t
  <1>11. Bypassed(m, t, prev, p)
    BY <1>1, <1>4, <1>5, <1>6, <1>8, <1>9, <1>10 DEF Bypassed
  <1>12. Sound(t) /\ Occ(t) = Occ(m) \ {p}
    BY <1>2, <1>11, BypassedSound
  <1>13. \A q \in Occ(m) : q # p => /\ t.slots[q].key = m.slots[q].key /\ t.slots[q].val = m.slots[q].val
                                    /\ m.slots[q].key # m.slots[p].key
    <2>1. \A q \in At(m) : q # p => t.slots[q] = f[q]
      BY <1>9, <1>10
    <2>2. \A q \in At(m) : q # p => t.slots[q].key = m.slots[q].key /\ t.slots[q].val = m.slots[q].val
      BY <2>1, <1>6, <1>8
    <2> QED
      BY <2>2 DEF Occ, Sound, OneEach
  <1>14. \A j, w : Has(t, j, w) <=> j # m.slots[p].key /\ Has(m, j, w)
    BY <1>12, <1>13 DEF Has
  <1>15. Removed(m, t, m.slots[p].key)
    BY <1>9, <1>10, <1>12, <1>14 DEF Removed
  <1> QED
    BY <1>3, <1>15

\* remove takes out the node of k, wherever in its chain it is.
LEMMA RemoveIs ==
    ASSUME MapAssumption, NEW m, Sound(m), NEW k \in KeysOf(m)
    PROVE  Removed(m, remove(m, k), k)
  <1>1. PICK p \in Occ(m) : m.slots[p].key = k
    BY DEF KeysOf
  <1>2. k \in Key
    BY <1>1, OccIs DEF Sound
  <1> DEFINE first == Main(m, k)
  <1>3. first = Home(m, p)
    BY <1>1 DEF Home
  <1>4. p \in Chain(m, first) /\ \A q \in Chain(m, first) : m.slots[q].key = k => q = p
    BY <1>1, <1>2, HoldingIs
  <1> DEFINE c == CHOOSE q \in Chain(m, first) : m.slots[q].key = k
  <1>5. c = p
    BY <1>1, <1>4
  <1>6. CASE p = first /\ m.slots[p].next # LASTNODE
    <2>1. remove(m, k) = free(With(m, [m.slots EXCEPT ![p] = m.slots[m.slots[p].next]], m.lastfree),
                              m.slots[p].next)
      BY <1>5, <1>6 DEF remove
    <2> QED
      BY <2>1, <1>1, <1>3, <1>6, RemoveFirstIs
  <1>7. CASE p = first /\ m.slots[p].next = LASTNODE
    <2>1. remove(m, k) = free(m, p)
      BY <1>5, <1>7 DEF remove
    <2> QED
      BY <2>1, <1>1, <1>3, <1>7, RemoveOnly
  <1>8. CASE p # first
    <2>1. remove(m, k) = free(unlink(m, first, p), p)
      BY <1>5, <1>8 DEF remove
    <2>2. Removed(m, free(unlink(m, first, p), p), m.slots[p].key)
      <3> HIDE DEF first
      <3> QED
        BY <1>3, <1>8, RemoveOther
    <2> QED
      BY <2>1, <2>2, <1>1
  <1> QED
    BY <1>6, <1>7, <1>8

-----------------------------------------------------------------------------
(***************************************************************************)
(* Larger and smaller tables.                                              *)
(***************************************************************************)

\* The new table has no nodes.
LEMMA EmptyIs ==
    ASSUME NEW n \in Nat \ {0}
    PROVE  Sound(Empty(n)) /\ Occ(Empty(n)) = {} /\ Empty(n).size = n
  <1> DEFINE t == Empty(n)
             node == Node(NIL, LASTNODE, NONE)
  <1>1. t.size = n /\ t.lastfree = n - 1 /\ t.slots = [p \in 0 .. n - 1 |-> node]
        /\ t = [size |-> t.size, slots |-> t.slots, lastfree |-> t.lastfree]
    BY DEF Empty, Nil
  <1>2. At(t) = 0 .. n - 1
    BY <1>1 DEF At
  <1>3. node \in NodeType(t) /\ node.key = NIL /\ node.next = LASTNODE
    BY DEF Node, NodeType
  <1> HIDE DEF t, node
  <1>4. IsTable(t)
    BY <1>1, <1>2, <1>3 DEF IsTable
  <1>5. \A p \in At(t) : t.slots[p].key = NIL /\ t.slots[p].next = LASTNODE
    BY <1>1, <1>2, <1>3
  <1>6. Occ(t) = {}
    BY <1>5 DEF Occ
  <1>7. OneEach(t) /\ Together(t) /\ OnePrev(t) /\ HeadFirst(t) /\ Reached(t)
    BY <1>6 DEF OneEach, Together, OnePrev, HeadFirst, Reached
  <1>8. Ends(t)
    <2> SUFFICES ASSUME NEW T \in SUBSET At(t), NEW p \in T PROVE t.slots[p].next \notin T
      BY DEF Ends
    <2>1. LASTNODE \notin At(t)
      BY <1>2 DEF LASTNODE
    <2> QED
      BY <1>5, <2>1
  <1>9. FreeBelow(t)
    BY <1>1, <1>2 DEF FreeBelow
  <1>10. Sound(t)
    BY <1>4, <1>7, <1>8, <1>9 DEF Sound
  <1> QED
    BY <1>1, <1>6, <1>10 DEF t

\* A table as large as the number of its keys and another has a free slot.
LEMMA SlotLeft ==
    ASSUME NEW t, Sound(t), NEW K, IsFiniteSet(K), Cardinality(K) <= t.size,
           KeysOf(t) \subseteq K, NEW k \in K, k \notin KeysOf(t)
    PROVE  \E x \in At(t) : x \notin Occ(t)
  <1> SUFFICES ASSUME At(t) \subseteq Occ(t) PROVE FALSE
    OBVIOUS
  <1>1. IsTable(t) /\ t.size \in Nat /\ At(t) = 0 .. t.size - 1
    BY DEF Sound, IsTable, At
  <1> DEFINE f == [p \in At(t) |-> t.slots[p].key]
             J == K \ {k}
  <1>2. f \in [At(t) -> J]
    BY DEF KeysOf
  <1>3. \A p, q \in At(t) : f[p] = f[q] => p = q
    BY DEF Sound, OneEach
  <1>4. f \in Injection(At(t), J)
    <2> HIDE DEF f, J
    <2> QED
      BY <1>2, <1>3 DEF Injection, IsInjective
  <1>5. IsFiniteSet(J) /\ Cardinality(J) = Cardinality(K) - 1
    BY FS_RemoveElement
  <1>6. Cardinality(At(t)) <= Cardinality(J)
    <2> HIDE DEF J, f
    <2> QED
      BY <1>4, <1>5, FS_Injection
  <1>7. Cardinality(At(t)) = t.size
    <2> DEFINE b == t.size - 1
    <2>1. 0 \in Int /\ b \in Int
      BY <1>1
    <2> HIDE DEF b
    <2>2. Cardinality(0 .. b) = IF 0 > b THEN 0 ELSE b - 0 + 1
      BY <2>1, FS_Interval
    <2> QED
      BY <1>1, <2>2 DEF b
  <1>8. Cardinality(K) \in Nat
    BY FS_CardinalityType
  <1> HIDE DEF J
  <1> QED
    BY <1>1, <1>5, <1>6, <1>7, <1>8

\* The tables of n slots.
Tables(n) ==
    [size : {n},
     slots : [0 .. n - 1 -> [key : Key \cup {NIL}, next : 0 .. n - 1 \cup {LASTNODE}, val : Val \cup {NONE}]],
     lastfree : 0 .. n - 1 \cup {-1}]

\* A table is one of them.
LEMMA InTables ==
    ASSUME NEW t, IsTable(t)
    PROVE  t \in Tables(t.size)
  <1>1. /\ t.slots \in [0 .. t.size - 1 -> [key : Key \cup {NIL}, next : 0 .. t.size - 1 \cup {LASTNODE},
                                            val : Val \cup {NONE}]]
        /\ t.lastfree \in 0 .. t.size - 1 \cup {-1}
        /\ t = [size |-> t.size, slots |-> t.slots, lastfree |-> t.lastfree]
    BY DEF IsTable, NodeType, At
  <1> QED
    BY <1>1 DEF Tables

\* The keys with their values in the slots before i of m.
Before(m, i, j, w) == \E p \in Occ(m) : p < i /\ m.slots[p].key = j /\ m.slots[p].val = w

\* These are what the table t of n slots has.
Rehashed(m, n, i, t) ==
    /\ Sound(t) /\ t.size = n
    /\ \A j, w : Has(t, j, w) <=> Before(m, i, j, w)

\* What a slot of the old table adds to the new one.
Rehash(m, i, t) ==
    IF m.slots[i - 1].key = NIL THEN t ELSE put(t, m.slots[i - 1].key, m.slots[i - 1].val)

\* A key has a value.
LEMMA HasKey ==
    ASSUME NEW m
    PROVE  \A j : j \in KeysOf(m) <=> \E w : Has(m, j, w)
  BY DEF KeysOf, Has

\* One step of resize.
LEMMA RehashStep ==
    ASSUME MapAssumption, NEW m, Sound(m), NEW n \in Nat \ {0},
           IsFiniteSet(KeysOf(m)), Cardinality(KeysOf(m)) <= n,
           NEW i \in 1 .. m.size, NEW t, Rehashed(m, n, i - 1, t)
    PROVE  Rehashed(m, n, i, Rehash(m, i, t))
  <1> DEFINE p == i - 1
  <1>1. IsTable(m) /\ p \in At(m) /\ p \in Int
    BY DEF Sound, IsTable, At
  <1>2. Sound(t) /\ t.size = n /\ \A j, w : Has(t, j, w) <=> Before(m, p, j, w)
    BY DEF Rehashed
  <1>3. CASE m.slots[p].key = NIL
    <2>1. Rehash(m, i, t) = t
      BY <1>3 DEF Rehash
    <2>2. \A q \in Occ(m) : q \in Int /\ q # p
      BY <1>1, <1>3 DEF Occ, At, IsTable
    <2>3. \A j, w : Before(m, i, j, w) <=> Before(m, p, j, w)
      BY <2>2 DEF Before
    <2> QED
      BY <1>2, <2>1, <2>3 DEF Rehashed
  <1>4. CASE m.slots[p].key # NIL
    <2> DEFINE k == m.slots[p].key
               v == m.slots[p].val
               u == put(t, k, v)
    <2>1. p \in Occ(m) /\ k \in Key /\ v \in Val \cup {NONE} /\ k \in KeysOf(m)
      BY <1>1, <1>4, NodeIs DEF Occ, KeysOf
    <2>2. Rehash(m, i, t) = u
      BY <1>4 DEF Rehash
    <2>3. \A q \in Occ(m) : q \in Int /\ (m.slots[q].key = k <=> q = p)
      BY <2>1, OccIs DEF Sound, OneEach
    <2>4. \A w : ~Before(m, p, k, w)
      BY <2>3 DEF Before
    <2> HIDE DEF p
    <2>5. k \notin KeysOf(t)
      BY <1>2, <2>4, HasKey
    <2>6. KeysOf(t) \subseteq KeysOf(m)
      <3> SUFFICES ASSUME NEW j \in KeysOf(t) PROVE j \in KeysOf(m)
        OBVIOUS
      <3>1. PICK w : Has(t, j, w)
        BY HasKey
      <3>2. Before(m, p, j, w)
        BY <1>2, <3>1
      <3> QED
        BY <3>2 DEF Before, KeysOf
    <2>7. PICK x \in At(t) : x \notin Occ(t)
      <3> HIDE DEF k
      <3> QED
        BY <1>2, <2>1, <2>5, <2>6, SlotLeft
    <2>8. Put(t, u, k, v)
      <3> HIDE DEF k, v
      <3> QED
        BY <1>2, <2>1, <2>5, <2>7, PutIs
    <2> HIDE DEF u
    <2>9. ASSUME NEW j, NEW w PROVE (IF j = k THEN w = v ELSE Before(m, p, j, w)) <=> Before(m, i, j, w)
      <3>1. \A q \in Occ(m) : q < i <=> q < p \/ q = p
        BY <2>3 DEF p
      <3>2. CASE j = k
        BY <3>1, <3>2, <2>1, <2>3 DEF Before
      <3>3. CASE j # k
        BY <3>1, <3>3, <2>3 DEF Before
      <3> QED
        BY <3>2, <3>3
    <2>10. \A j, w : Has(u, j, w) <=> IF j = k THEN w = v ELSE Has(t, j, w)
      BY <2>8 DEF Put
    <2>11. \A j, w : Has(u, j, w) <=> Before(m, i, j, w)
      <3> HIDE DEF k, v
      <3> QED
        BY <1>2, <2>9, <2>10
    <2>12. Sound(u) /\ u.size = n
      BY <1>2, <2>8 DEF Put
    <2> QED
      BY <2>2, <2>11, <2>12 DEF Rehashed
  <1> QED
    BY <1>3, <1>4

\* The table of n slots has what m has.
Carried(m, t, n) ==
    /\ Sound(t) /\ t.size = n
    /\ \A j, w : Has(t, j, w) <=> Has(m, j, w)

\* resize loses nothing, as long as the new table has room for all keys.
LEMMA ResizeIs ==
    ASSUME MapAssumption, NEW m, Sound(m), NEW n \in Nat \ {0},
           IsFiniteSet(KeysOf(m)), Cardinality(KeysOf(m)) <= n
    PROVE  Carried(m, resize(m, n), n)
  <1> DEFINE N == m.size
             S == Tables(n)
             start == Empty(n)
             step(i, t) == IF m.slots[i - 1].key = NIL THEN t
                           ELSE put(t, m.slots[i - 1].key, m.slots[i - 1].val)
             g == [x \in (1 .. N) \X S |-> IF Rehash(m, x[1], x[2]) \in S THEN Rehash(m, x[1], x[2]) ELSE start]
             body(h) == [i \in 0 .. m.size |-> IF i = 0 THEN Empty(n)
                           ELSE LET node == m.slots[i - 1]
                                IN IF node.key = NIL THEN h[i - 1] ELSE put(h[i - 1], node.key, node.val)]
             R == CHOOSE h : h = body(h)
  <1>0. N \in Nat
    BY DEF Sound, IsTable
  <1>1. Sound(start) /\ Occ(start) = {} /\ start.size = n
    BY EmptyIs
  <1> HIDE DEF start
  <1>2. start \in S
    <2>1. IsTable(start)
      BY <1>1 DEF Sound
    <2> QED
      BY <1>1, <2>1, InTables
  <1>3. g \in [(1 .. N) \X S -> S]
    <2> HIDE DEF S
    <2> QED
      BY <1>2
  <1>4. PICK f : Runs(f, N, S, start, g)
    <2> HIDE DEF N, g, S
    <2> QED
      BY <1>0, <1>2, <1>3, Recursion
  <1>5. f \in [0 .. N -> S] /\ f[0] = start /\ \A i \in 1 .. N : f[i] = g[<<i, f[i - 1]>>]
    BY <1>4 DEF Runs
  <1>6. ASSUME NEW i \in 1 .. N
        PROVE  f[i] = IF Rehash(m, i, f[i - 1]) \in S THEN Rehash(m, i, f[i - 1]) ELSE start
    <2>1. i - 1 \in 0 .. N
      BY <1>0
    <2>2. f[i - 1] \in S
      BY <2>1, <1>5
    <2> HIDE DEF S
    <2>3. g[<<i, f[i - 1]>>] = IF Rehash(m, i, f[i - 1]) \in S THEN Rehash(m, i, f[i - 1]) ELSE start
      BY <2>2
    <2> QED
      BY <1>5, <2>3
  <1>7. 0 .. N \subseteq {i \in 0 .. N : Rehashed(m, n, i, f[i])}
    <2> DEFINE P == {i \in 0 .. N : Rehashed(m, n, i, f[i])}
    <2>1. 0 \in P
      <3>1. \A j, w : ~Has(start, j, w)
        BY <1>1 DEF Has
      <3>2. \A j, w : ~Before(m, 0, j, w)
        <4>1. \A p \in Occ(m) : p \in Int /\ ~(p < 0)
          BY OccIs DEF Sound
        <4> QED
          BY <4>1 DEF Before
      <3>3. 0 \in 0 .. N
        BY <1>0
      <3> QED
        BY <1>1, <1>5, <3>1, <3>2, <3>3 DEF Rehashed
    <2>2. ASSUME NEW i \in 0 .. N, i < N, i \in P PROVE i + 1 \in P
      <3>1. i + 1 \in 1 .. N /\ i + 1 \in 0 .. N /\ (i + 1) - 1 = i
        BY <1>0, <2>2
      <3>2. Rehashed(m, n, (i + 1) - 1, f[i])
        BY <2>2, <3>1
      <3> DEFINE t == Rehash(m, i + 1, f[i])
      <3>3. Rehashed(m, n, i + 1, t)
        BY <3>1, <3>2, RehashStep
      <3> HIDE DEF t
      <3>4. t \in S
        BY <3>3, InTables DEF Rehashed, Sound
      <3>5. f[i + 1] = IF t \in S THEN t ELSE start
        <4> HIDE DEF S
        <4> QED
          BY <1>6, <3>1 DEF t
      <3> QED
        BY <3>1, <3>3, <3>4, <3>5
    <2> HIDE DEF P
    <2>3. 0 .. N \subseteq P
      BY <1>0, <2>1, <2>2, UpTo
    <2> QED
      BY <2>3 DEF P
  <1>8. ASSUME NEW i \in 1 .. N PROVE f[i] = Rehash(m, i, f[i - 1])
    <2>1. i - 1 \in 0 .. N
      BY <1>0
    <2>2. Rehashed(m, n, i - 1, f[i - 1])
      BY <1>7, <2>1
    <2>3. Rehashed(m, n, i, Rehash(m, i, f[i - 1]))
      BY <2>2, RehashStep
    <2>4. Rehash(m, i, f[i - 1]) \in S
      BY <2>3, InTables DEF Rehashed, Sound
    <2> HIDE DEF S
    <2> QED
      BY <1>6, <2>4
  <1>9. f = body(f)
    <2>1. ASSUME NEW i \in 0 .. N
          PROVE  f[i] = IF i = 0 THEN Empty(n) ELSE Rehash(m, i, f[i - 1])
      <3>1. i # 0 => i \in 1 .. N
        BY <1>0
      <3> QED
        BY <3>1, <1>5, <1>8 DEF start
    <2>2. f = [i \in 0 .. N |-> f[i]]
      BY <1>5
    <2>3. body(f) = [i \in 0 .. N |-> IF i = 0 THEN Empty(n) ELSE Rehash(m, i, f[i - 1])]
      BY DEF Rehash
    <2> QED
      BY <2>1, <2>2, <2>3
  <1>10. R = body(R)
    <2> HIDE DEF body
    <2> QED
      BY <1>9, Zenon
  <1>11. resize(m, n) = R[m.size]
    BY DEF resize
  <1> HIDE DEF R
  <1>12. ASSUME NEW i \in 0 .. N PROVE R[i] = IF i = 0 THEN Empty(n) ELSE Rehash(m, i, R[i - 1])
    BY <1>10 DEF Rehash
  <1>13. 0 .. N \subseteq {i \in 0 .. N : R[i] = f[i]}
    <2> DEFINE P == {i \in 0 .. N : R[i] = f[i]}
    <2>1. 0 \in P
      <3>1. 0 \in 0 .. N
        BY <1>0
      <3> QED
        BY <1>5, <1>12, <3>1 DEF start
    <2>2. ASSUME NEW i \in 0 .. N, i < N, i \in P PROVE i + 1 \in P
      <3>1. i + 1 \in 1 .. N /\ i + 1 \in 0 .. N /\ (i + 1) - 1 = i /\ i + 1 # 0
        BY <1>0, <2>2
      <3>2. R[i + 1] = Rehash(m, i + 1, R[i]) /\ f[i + 1] = Rehash(m, i + 1, f[i])
        BY <1>8, <1>12, <3>1
      <3> QED
        BY <2>2, <3>1, <3>2
    <2> HIDE DEF P
    <2>3. 0 .. N \subseteq P
      BY <1>0, <2>1, <2>2, UpTo
    <2> QED
      BY <2>3 DEF P
  <1>14. Rehashed(m, n, N, R[N])
    <2>1. N \in 0 .. N
      BY <1>0
    <2> QED
      BY <2>1, <1>7, <1>13
  <1>15. \A j, w : Before(m, N, j, w) <=> Has(m, j, w)
    <2>1. \A p \in Occ(m) : p < N
      BY DEF Occ, At, Sound, IsTable
    <2> QED
      BY <2>1 DEF Before, Has
  <1> QED
    BY <1>11, <1>14, <1>15 DEF Rehashed, Carried

\* The next size is larger.
LEMMA NextSizeIs ==
    ASSUME NEW n \in Nat, n < 2 ^ 30
    PROVE  be_nextsize(n) \in Nat /\ be_nextsize(n) > n
  <1>1. CASE n < 1024
    <2> DEFINE S == {c \in Capacities : c > n}
    <2>1. S \in SUBSET Nat /\ 1024 \in S
      BY <1>1 DEF Capacities
    <2>2. be_nextsize(n) = Min(S)
      BY <1>1 DEF be_nextsize
    <2>3. Min(S) \in S
      <3> HIDE DEF S
      <3> QED
        BY <2>1, Least DEF Min
    <2> QED
      BY <2>1, <2>2, <2>3
  <1>2. CASE n >= 1024
    <2> DEFINE K == {k \in 10 .. 30 : 2 ^ k > n}
               S == {2 ^ k : k \in K}
    <2>1. \A k \in K : 2 ^ k \in Int /\ 2 ^ k > n
      OBVIOUS
    <2>2. 30 \in K
      OBVIOUS
    <2> HIDE DEF K
    <2>3. S \in SUBSET Nat /\ S # {} /\ \A x \in S : x > n
      BY <2>1, <2>2
    <2>4. be_nextsize(n) = Min(S)
      BY <1>2 DEF be_nextsize, K
    <2>5. Min(S) \in S
      <3> HIDE DEF S
      <3> QED
        BY <2>3, Least DEF Min
    <2> HIDE DEF S
    <2> QED
      BY <2>3, <2>4, <2>5
  <1> QED
    BY <1>1, <1>2

-----------------------------------------------------------------------------
(***************************************************************************)
(* The map.                                                                *)
(***************************************************************************)

\* The keys the iterator has passed.
Passed == {slots[p].key : p \in {q \in Occ(Table) : q <= iter}}

MapInv ==
    /\ Sound(Table) /\ size \in 1 .. MaxSize
    /\ count = Cardinality(KeysOf(Table)) /\ count <= size
    /\ iter \in -1 .. size - 1
    /\ steady => seen = Passed

\* The keys are finitely many.
LEMMA KeysFinite ==
    ASSUME MapAssumption, NEW m, Sound(m)
    PROVE  /\ KeysOf(m) \subseteq Key /\ IsFiniteSet(KeysOf(m)) /\ Cardinality(KeysOf(m)) \in Nat
  <1>1. KeysOf(m) \subseteq Key
    BY OccIs DEF KeysOf, Sound
  <1>2. IsFiniteSet(KeysOf(m))
    BY <1>1, FS_Subset DEF MapAssumption
  <1> QED
    BY <1>1, <1>2, FS_CardinalityType

\* What the variables say of a table.
LEMMA TableIs ==
    ASSUME Sound(Table)
    PROVE  /\ Table.size = size /\ Table.slots = slots /\ Table.lastfree = lastfree
           /\ Position = At(Table) /\ DOMAIN slots = Position /\ Keys = KeysOf(Table)
           /\ Free(Table) = At(Table) \ Occ(Table)
           /\ \A p : p \in Occ(Table) <=> p \in Position /\ slots[p].key # NIL
  <1>1. Table.size = size /\ Table.slots = slots /\ Table.lastfree = lastfree
    BY DEF Table
  <1>2. Position = At(Table) /\ DOMAIN slots = Position
    BY <1>1 DEF Position, At, Sound, IsTable
  <1>3. \A p : p \in Occ(Table) <=> p \in Position /\ slots[p].key # NIL
    BY <1>1, <1>2 DEF Occ
  <1>4. Keys = KeysOf(Table)
    BY <1>1, <1>2, <1>3 DEF Keys, KeysOf
  <1>5. Free(Table) = At(Table) \ Occ(Table)
    BY <1>1, <1>2, <1>3 DEF Free
  <1> QED
    BY <1>1, <1>2, <1>3, <1>4, <1>5

\* The table after a step.
LEMMA BecomesIs ==
    ASSUME NEW t, Sound(t), Becomes(t)
    PROVE  Table' = t /\ size' = t.size
  <1>1. t = [size |-> t.size, slots |-> t.slots, lastfree |-> t.lastfree]
    BY DEF Sound, IsTable
  <1>2. size' = t.size /\ slots' = t.slots /\ lastfree' = t.lastfree
    BY DEF Becomes
  <1> QED
    BY <1>1, <1>2 DEF Table

\* be_map_new.
LEMMA MapInitInv == ASSUME MapAssumption, Init PROVE MapInv
  <1> DEFINE t == Empty(2)
  <1>1. Sound(t) /\ Occ(t) = {} /\ t.size = 2
    BY EmptyIs
  <1>2. Table = t
    BY <1>1 DEF Init, Table, Sound, IsTable
  <1>3. KeysOf(t) = {}
    BY <1>1 DEF KeysOf
  <1>4. Cardinality({}) = 0
    BY FS_EmptySet
  <1>5. Passed = {}
    BY <1>1, <1>2 DEF Passed
  <1>6. size \in 1 .. MaxSize
    BY DEF Init, MapAssumption
  <1> HIDE DEF t
  <1> QED
    BY <1>1, <1>2, <1>3, <1>4, <1>5, <1>6 DEF Init, MapInv

\* The value of a key is overwritten.
LEMMA OverwriteIs ==
    ASSUME MapAssumption, MapInv, NEW k \in Key, NEW v \in Val, Overwrite(k, v)
    PROVE  /\ Put(Table, Table', k, v) /\ Occ(Table') = Occ(Table) /\ k \in KeysOf(Table)
           /\ \A p \in Occ(Table) : slots'[p].key = slots[p].key
  <1>1. PICK p \in Holding(Table, k) : slots' = [slots EXCEPT ![p] = Node(k, slots[p].next, v)]
    BY DEF Overwrite
  <1>2. Sound(Table)
    BY DEF MapInv
  <1>3. /\ Table.slots = slots
        /\ \A q : q \in Occ(Table) <=> q \in Position /\ slots[q].key # NIL
    BY <1>2, TableIs
  <1>4. p \in Occ(Table) /\ slots[p].key = k
    <2>1. k \in KeysOf(Table)
      BY <1>1, <1>2, HoldingIs
    <2>2. PICK q \in Occ(Table) : Table.slots[q].key = k
      BY <2>1 DEF KeysOf
    <2>3. Holding(Table, k) = {q}
      BY <1>2, <2>2, HoldingIs
    <2> QED
      BY <1>1, <1>3, <2>2, <2>3
  <1> DEFINE t == Valued(Table, p, k, v)
  <1>5. Revalued(Table, t, p, v)
    BY <1>2, <1>3, <1>4, ValuedIs
  <1>6. Table' = t
    BY <1>1 DEF Overwrite, Table, Valued, With
  <1> HIDE DEF t
  <1>7. Sound(t) /\ Occ(t) = Occ(Table) /\ \A j, w : Has(t, j, w) <=> IF j = k THEN w = v ELSE Has(Table, j, w)
    BY <1>2, <1>3, <1>4, <1>5, RevaluedSound
  <1>8. \A q \in Occ(Table) : slots'[q].key = slots[q].key
    <2>1. slots' = t.slots
      BY <1>6 DEF Table
    <2> QED
      BY <1>3, <1>5, <2>1 DEF Revalued, Occ
  <1>9. k \in KeysOf(Table)
    BY <1>3, <1>4 DEF KeysOf
  <1>10. t.size = Table.size
    BY <1>5 DEF Revalued
  <1> QED
    BY <1>6, <1>7, <1>8, <1>9, <1>10 DEF Put

\* The keys after a key is put, ...
LEMMA KeysPut ==
    ASSUME NEW m, NEW t, NEW k, NEW v, Put(m, t, k, v)
    PROVE  KeysOf(t) = KeysOf(m) \cup {k}
  <1>1. \A j : j \in KeysOf(t) <=> \E w : Has(t, j, w)
    BY HasKey
  <1>2. \A j : j \in KeysOf(m) <=> \E w : Has(m, j, w)
    BY HasKey
  <1>3. \A j, w : Has(t, j, w) <=> IF j = k THEN w = v ELSE Has(m, j, w)
    BY DEF Put
  <1> QED
    BY <1>1, <1>2, <1>3

\* ... and after one is removed, ...
LEMMA KeysRemoved ==
    ASSUME NEW m, NEW t, NEW k, Removed(m, t, k)
    PROVE  KeysOf(t) = KeysOf(m) \ {k}
  <1>1. \A j : j \in KeysOf(t) <=> \E w : Has(t, j, w)
    BY HasKey
  <1>2. \A j : j \in KeysOf(m) <=> \E w : Has(m, j, w)
    BY HasKey
  <1>3. \A j, w : Has(t, j, w) <=> j # k /\ Has(m, j, w)
    BY DEF Removed
  <1> QED
    BY <1>1, <1>2, <1>3

\* ... and after all are carried over to another table.
LEMMA KeysCarried ==
    ASSUME NEW m, NEW t, NEW n, Carried(m, t, n)
    PROVE  KeysOf(t) = KeysOf(m)
  <1>1. \A j : j \in KeysOf(t) <=> \E w : Has(t, j, w)
    BY HasKey
  <1>2. \A j : j \in KeysOf(m) <=> \E w : Has(m, j, w)
    BY HasKey
  <1>3. \A j, w : Has(t, j, w) <=> Has(m, j, w)
    BY DEF Carried
  <1> QED
    BY <1>1, <1>2, <1>3

\* A new key is put into the table, or into a larger one.
LEMMA InsertKeyIs ==
    ASSUME MapAssumption, MapInv, NEW k \in Key, NEW v \in Val, Insert(k, v)
    PROVE  /\ k \notin KeysOf(Table) /\ Sound(Table')
           /\ size' \in 1 .. MaxSize /\ size' >= size /\ count < size'
           /\ \A j, w : Has(Table', j, w) <=> IF j = k THEN w = v ELSE Has(Table, j, w)
  <1> DEFINE n == be_nextsize(size)
             m == IF count >= size THEN resize(Table, n) ELSE Table
             t == put(m, k, v)
  <1>1. Sound(Table) /\ size \in 1 .. MaxSize /\ Table.size = size
        /\ count = Cardinality(KeysOf(Table)) /\ count <= size
    BY DEF MapInv, Table
  <1>2. KeysOf(Table) \subseteq Key /\ IsFiniteSet(KeysOf(Table)) /\ count \in Nat
    BY <1>1, KeysFinite
  <1>3. MaxSize \in Nat /\ MaxSize < 2 ^ 24
    BY DEF MapAssumption
  <1>4. k \notin KeysOf(Table)
    <2> SUFFICES ASSUME k \in KeysOf(Table) PROVE FALSE
      OBVIOUS
    <2>1. PICK q \in Occ(Table) : Table.slots[q].key = k
      BY DEF KeysOf
    <2>2. Holding(Table, k) = {q}
      BY <1>1, <2>1, HoldingIs
    <2> QED
      BY <2>2 DEF Insert
  <1>5. /\ Sound(m) /\ m.size \in 1 .. MaxSize /\ m.size >= size /\ count < m.size
        /\ \A j, w : Has(m, j, w) <=> Has(Table, j, w)
    <2>1. CASE count >= size
      <3>1. n \in Nat /\ n > size
        BY <1>1, <1>3, NextSizeIs
      <3>2. n <= MaxSize
        BY <2>1 DEF Insert
      <3> DEFINE r == resize(Table, n)
      <3> HIDE DEF n
      <3>3. Carried(Table, r, n)
        <4>1. n \in Nat \ {0} /\ Cardinality(KeysOf(Table)) <= n
          BY <1>1, <1>2, <3>1
        <4> QED
          BY <1>1, <1>2, <4>1, ResizeIs
      <3>4. m = r
        BY <2>1 DEF n
      <3> HIDE DEF r, m
      <3> QED
        BY <1>1, <1>2, <1>3, <3>1, <3>2, <3>3, <3>4 DEF Carried
    <2>2. CASE ~(count >= size)
      <3>1. m = Table
        BY <2>2
      <3> HIDE DEF m
      <3> QED
        BY <1>1, <1>2, <2>2, <3>1
    <2> QED
      BY <2>1, <2>2
  <1>6. Becomes(t)
    BY DEF Insert
  <1> HIDE DEF m
  <1>7. KeysOf(m) = KeysOf(Table)
    <2>1. \A j : j \in KeysOf(m) <=> \E w : Has(m, j, w)
      BY HasKey
    <2>2. \A j : j \in KeysOf(Table) <=> \E w : Has(Table, j, w)
      BY HasKey
    <2> QED
      BY <1>5, <2>1, <2>2
  <1>8. PICK x \in At(m) : x \notin Occ(m)
    <2> DEFINE K == KeysOf(Table) \cup {k}
    <2>1. IsFiniteSet(K) /\ Cardinality(K) = count + 1
      BY <1>1, <1>2, <1>4, FS_AddElement
    <2>2. Cardinality(K) <= m.size
      <3> HIDE DEF K
      <3> QED
        BY <1>2, <1>3, <1>5, <2>1
    <2>3. KeysOf(m) \subseteq K /\ k \in K
      BY <1>7
    <2> HIDE DEF K
    <2> QED
      BY <1>4, <1>5, <1>7, <2>1, <2>2, <2>3, SlotLeft
  <1>9. Put(m, t, k, v)
    BY <1>4, <1>5, <1>7, <1>8, PutIs
  <1> HIDE DEF t
  <1>10. Table' = t /\ size' = t.size
    BY <1>6, <1>9, BecomesIs DEF Put
  <1> QED
    BY <1>4, <1>5, <1>9, <1>10 DEF Put

\* The key of a chain's node goes, and nothing happens for another key.
LEMMA RemoveKeyIs ==
    ASSUME MapAssumption, MapInv, NEW k \in Key, be_map_remove(k)
    PROVE  IF k \in KeysOf(Table)
           THEN /\ Removed(Table, Table', k) /\ count' = count - 1 /\ size' = size
                /\ ret' = TRUE /\ steady' = FALSE
           ELSE ret' = FALSE /\ UNCHANGED <<size, slots, lastfree, count, steady>>
  <1>1. Sound(Table) /\ Table.slots = slots /\ Table.size = size
    BY DEF MapInv, Table
  <1> DEFINE there == \E p \in Chain(Table, Main(Table, k)) : slots[p].key = k
  <1>2. there <=> k \in KeysOf(Table)
    <2>1. ASSUME k \in KeysOf(Table) PROVE there
      <3>1. PICK q \in Occ(Table) : Table.slots[q].key = k
        BY <2>1 DEF KeysOf
      <3>2. q \in Chain(Table, Main(Table, k))
        BY <1>1, <3>1, HoldingIs
      <3> QED
        BY <1>1, <3>1, <3>2
    <2>2. ASSUME there PROVE k \in KeysOf(Table)
      <3>1. PICK q \in Chain(Table, Main(Table, k)) : slots[q].key = k
        BY <2>2
      <3>2. q \in Occ(Table)
        BY <1>1, <3>1, HoldingIs
      <3> QED
        BY <1>1, <3>1, <3>2 DEF KeysOf
    <2> QED
      BY <2>1, <2>2
  <1>3. /\ ret' = there
        /\ there => Becomes(remove(Table, k)) /\ count' = count - 1 /\ steady' = FALSE
        /\ ~there => UNCHANGED <<size, slots, lastfree, count, steady>>
    BY DEF be_map_remove
  <1> HIDE DEF there
  <1>4. CASE k \in KeysOf(Table)
    <2> DEFINE t == remove(Table, k)
    <2>1. Removed(Table, t, k)
      BY <1>1, <1>4, RemoveIs
    <2>2. Becomes(t)
      BY <1>2, <1>3, <1>4
    <2> HIDE DEF t
    <2>3. Table' = t /\ size' = t.size
      BY <2>1, <2>2, BecomesIs DEF Removed
    <2>4. t.size = size
      BY <1>1, <2>1 DEF Removed
    <2>5. ret' = TRUE
      BY <1>2, <1>3, <1>4
    <2> QED
      BY <1>2, <1>3, <1>4, <2>1, <2>3, <2>4, <2>5
  <1>5. CASE k \notin KeysOf(Table)
    <2>1. ret' = FALSE
      BY <1>2, <1>3, <1>5
    <2> QED
      BY <1>2, <1>3, <1>5, <2>1
  <1> QED
    BY <1>4, <1>5

\* The table is carried over to one that is as large as what it holds.
LEMMA CompactIs ==
    ASSUME MapAssumption, MapInv, be_map_compact
    PROVE  /\ Carried(Table, Table', IF count = 0 THEN 1 ELSE count)
           /\ size' \in 1 .. MaxSize /\ count <= size'
  <1> DEFINE n == IF count = 0 THEN 1 ELSE count
             t == resize(Table, n)
  <1>1. Sound(Table) /\ size \in 1 .. MaxSize /\ count = Cardinality(KeysOf(Table)) /\ count <= size
    BY DEF MapInv
  <1>2. IsFiniteSet(KeysOf(Table)) /\ count \in Nat
    BY <1>1, KeysFinite
  <1>3. MaxSize \in Nat /\ MaxSize >= 1
    BY DEF MapAssumption
  <1>4. n \in Nat \ {0} /\ n \in 1 .. MaxSize /\ count <= n
    BY <1>1, <1>2, <1>3
  <1>5. Becomes(t)
    BY DEF be_map_compact
  <1> HIDE DEF n
  <1>6. Carried(Table, t, n)
    BY <1>1, <1>2, <1>4, ResizeIs
  <1> HIDE DEF t
  <1>7. Table' = t /\ size' = t.size
    BY <1>5, <1>6, BecomesIs DEF Carried
  <1>8. t.size = n
    BY <1>6 DEF Carried
  <1> QED
    BY <1>4, <1>6, <1>7, <1>8 DEF n

\* Where an iterator may be.
LEMMA Begins ==
    ASSUME NEW n \in Int, n >= 1
    PROVE  -1 \in -1 .. n - 1 /\ \A i, k : k \in Int /\ k <= n /\ i \in -1 .. k - 1 => i \in -1 .. n - 1
  OBVIOUS

\* Every operation keeps the invariant.
LEMMA MapNextInv ==
    ASSUME MapAssumption, MapInv, [Next]_vars
    PROVE  MapInv'
  <1> USE DEF MapInv
  <1>0. /\ Sound(Table) /\ size \in 1 .. MaxSize /\ count <= size
        /\ count = Cardinality(KeysOf(Table)) /\ iter \in -1 .. size - 1
        /\ IsFiniteSet(KeysOf(Table)) /\ count \in Nat /\ MaxSize \in Nat
    BY KeysFinite DEF MapAssumption
  <1>1. ASSUME UNCHANGED <<size, slots, lastfree, count, iter, seen, steady>> PROVE MapInv'
    <2>1. Table' = Table
      BY <1>1 DEF Table
    <2>2. Passed' = Passed
      BY <1>1, <2>1 DEF Passed
    <2> QED
      BY <1>1, <2>1, <2>2
  <1>2. ASSUME NEW k \in Key, be_map_find(k) PROVE MapInv'
    BY <1>1, <1>2 DEF be_map_find
  <1>3. ASSUME NEW k \in Key, be_map_remove(k) PROVE MapInv'
    <2>1. CASE k \in KeysOf(Table)
      <3>1. Removed(Table, Table', k) /\ count' = count - 1 /\ size' = size /\ steady' = FALSE
        BY <1>3, <2>1, RemoveKeyIs
      <3>2. KeysOf(Table') = KeysOf(Table) \ {k}
        BY <3>1, KeysRemoved
      <3>3. Cardinality(KeysOf(Table')) = count - 1
        BY <1>0, <2>1, <3>2, FS_RemoveElement
      <3>4. iter' = iter
        BY <1>3 DEF be_map_remove
      <3>5. Sound(Table')
        BY <3>1 DEF Removed
      <3> QED
        BY <1>0, <3>1, <3>3, <3>4, <3>5
    <2>2. CASE k \notin KeysOf(Table)
      <3>1. UNCHANGED <<size, slots, lastfree, count, steady>>
        BY <1>3, <2>2, RemoveKeyIs
      <3> QED
        BY <1>1, <1>3, <3>1 DEF be_map_remove
    <2> QED
      BY <2>1, <2>2
  <1>4. ASSUME NEW k \in Key, NEW v \in Val, Overwrite(k, v) PROVE MapInv'
    <2>1. /\ Put(Table, Table', k, v) /\ Occ(Table') = Occ(Table) /\ k \in KeysOf(Table)
          /\ \A p \in Occ(Table) : slots'[p].key = slots[p].key
      BY <1>4, OverwriteIs
    <2>2. KeysOf(Table') = KeysOf(Table)
      BY <2>1, KeysPut
    <2>3. UNCHANGED <<size, count, iter, seen, steady>>
      BY <1>4 DEF Overwrite
    <2>4. Passed' = Passed
      BY <2>1, <2>3 DEF Passed
    <2>5. Sound(Table')
      BY <2>1 DEF Put
    <2> QED
      BY <1>0, <2>2, <2>3, <2>4, <2>5
  <1>5. ASSUME NEW k \in Key, NEW v \in Val, Insert(k, v) PROVE MapInv'
    <2>1. /\ k \notin KeysOf(Table) /\ Sound(Table')
          /\ size' \in 1 .. MaxSize /\ size' >= size /\ count < size'
          /\ \A j, w : Has(Table', j, w) <=> IF j = k THEN w = v ELSE Has(Table, j, w)
      BY <1>5, InsertKeyIs
    <2>2. KeysOf(Table') = KeysOf(Table) \cup {k}
      <3>1. \A j : j \in KeysOf(Table') <=> \E w : Has(Table', j, w)
        BY HasKey
      <3>2. \A j : j \in KeysOf(Table) <=> \E w : Has(Table, j, w)
        BY HasKey
      <3> QED
        BY <2>1, <3>1, <3>2
    <2>3. Cardinality(KeysOf(Table')) = count + 1
      BY <1>0, <2>1, <2>2, FS_AddElement
    <2>4. /\ count' = count + 1
          /\ iter' = IF count >= size THEN -1 ELSE iter
          /\ seen' = IF count >= size THEN {} ELSE seen
          /\ steady' = (count >= size)
      BY <1>5 DEF Insert
    <2>5. iter' \in -1 .. size' - 1
      <3>1. size' \in Int /\ size' >= 1 /\ size' >= size /\ size \in Int
        BY <1>0, <2>1
      <3>2. -1 \in -1 .. size' - 1
        BY <3>1, Begins
      <3>3. iter \in -1 .. size' - 1
        BY <1>0, <3>1, Begins
      <3> QED
        BY <2>4, <3>2, <3>3
    <2>6. steady' => seen' = Passed'
      <3> SUFFICES ASSUME count >= size PROVE Passed' = {} /\ seen' = {}
        BY <2>4
      <3>1. iter' = -1 /\ seen' = {}
        BY <2>4
      <3>2. \A p \in Occ(Table') : ~(p <= -1)
        BY <2>1, OccIs DEF Sound
      <3> QED
        BY <3>1, <3>2 DEF Passed
    <2>7. count' <= size'
      BY <1>0, <2>1, <2>4
    <2> QED
      BY <2>1, <2>3, <2>4, <2>5, <2>6, <2>7
  <1>6. ASSUME be_map_compact PROVE MapInv'
    <2>1. /\ Carried(Table, Table', IF count = 0 THEN 1 ELSE count)
          /\ size' \in 1 .. MaxSize /\ count <= size'
      BY <1>6, CompactIs
    <2>2. KeysOf(Table') = KeysOf(Table)
      BY <2>1, KeysCarried
    <2>3. iter' = -1 /\ seen' = {} /\ steady' = TRUE /\ count' = count
      BY <1>6 DEF be_map_compact
    <2>4. Sound(Table')
      BY <2>1 DEF Carried
    <2>5. Passed' = {}
      <3>1. \A p \in Occ(Table') : ~(p <= -1)
        BY <2>4, OccIs DEF Sound
      <3> QED
        BY <2>3, <3>1 DEF Passed
    <2>6. iter' \in -1 .. size' - 1
      <3>1. size' \in Int /\ size' >= 1
        BY <1>0, <2>1
      <3>2. -1 \in -1 .. size' - 1
        BY <3>1, Begins
      <3> QED
        BY <2>3, <3>2
    <2> QED
      BY <1>0, <2>1, <2>2, <2>3, <2>4, <2>5, <2>6
  <1>7. ASSUME be_map_next PROVE MapInv'
    <2>1. PICK p \in iter + 1 .. size - 1 :
            /\ slots[p].key # NIL /\ \A q \in iter + 1 .. p - 1 : slots[q].key = NIL
            /\ iter' = p /\ seen' = seen \cup {slots[p].key}
      BY <1>7 DEF be_map_next
    <2>2. UNCHANGED <<size, slots, lastfree, count, steady>>
      BY <1>7 DEF be_map_next
    <2>3. Table' = Table
      BY <2>2 DEF Table
    <2>4. \A q : q \in Occ(Table) <=> q \in Position /\ slots[q].key # NIL
      BY <1>0, TableIs
    <2>5. p \in Int /\ p > iter /\ p >= 0 /\ p <= size - 1 /\ p \in Occ(Table)
      BY <1>0, <2>1, <2>4 DEF Position
    <2>6. \A q \in Occ(Table) : q <= p <=> q <= iter \/ q = p
      <3> SUFFICES ASSUME NEW q \in Occ(Table), q > iter, q < p PROVE FALSE
        BY <1>0, <2>5, <2>4 DEF Position
      <3>1. q \in iter + 1 .. p - 1 /\ slots[q].key # NIL
        BY <1>0, <2>4, <2>5 DEF Position
      <3> QED
        BY <2>1, <3>1
    <2>7. Passed' = {slots[q].key : q \in {r \in Occ(Table) : r <= p}}
      BY <2>1, <2>2, <2>3 DEF Passed
    <2>8. Passed' = Passed \cup {slots[p].key}
      BY <2>5, <2>6, <2>7 DEF Passed
    <2>9. iter' \in -1 .. size - 1
      BY <1>0, <2>1, <2>5
    <2> QED
      BY <1>0, <2>1, <2>2, <2>3, <2>8, <2>9
  <1>8. ASSUME IterEnd PROVE MapInv'
    <2>1. iter' = -1 /\ seen' = {} /\ UNCHANGED <<size, slots, lastfree, count>>
      BY <1>8 DEF IterEnd
    <2>2. Table' = Table
      BY <2>1 DEF Table
    <2>3. Passed' = {}
      <3>1. \A p \in Occ(Table) : ~(p <= -1)
        BY <1>0, OccIs DEF Sound
      <3> QED
        BY <2>1, <2>2, <3>1 DEF Passed
    <2> QED
      BY <1>0, <2>1, <2>2, <2>3
  <1>9. CASE UNCHANGED vars
    BY <1>1, <1>9 DEF vars
  <1> QED
    BY <1>2, <1>3, <1>4, <1>5, <1>6, <1>7, <1>8, <1>9 DEF Next

\* The table of a map is linked as it must be, holds as many keys as the map
\* counts, and the iterator has returned the keys of the slots it has passed.
THEOREM MapKept == Spec => []MapInv
  <1>1. Init => MapInv
    BY MapAssumption, MapInitInv
  <1>2. MapInv /\ [Next]_vars => MapInv'
    BY MapAssumption, MapNextInv
  <1> QED
    BY <1>1, <1>2, PTL DEF Spec

\* The invariant implies what the operations rely on.
LEMMA LinkedIs == ASSUME MapAssumption, MapInv PROVE WellLinked
  <1>1. Sound(Table) /\ count = Cardinality(KeysOf(Table))
    BY DEF MapInv
  <1>2. /\ Table.slots = slots /\ Table.lastfree = lastfree /\ Position = At(Table)
        /\ Keys = KeysOf(Table) /\ Free(Table) = At(Table) \ Occ(Table)
        /\ \A p : p \in Occ(Table) <=> p \in Position /\ slots[p].key # NIL
    BY <1>1, TableIs
  <1>3. Findable
    <2>1. \A p \in Position : slots[p].key # NIL => Holding(Table, slots[p].key) = {p}
      <3> SUFFICES ASSUME NEW p \in Occ(Table) PROVE Holding(Table, slots[p].key) = {p}
        BY <1>2
      <3>1. slots[p].key \in Key
        BY <1>1, <1>2, OccIs DEF Sound
      <3> QED
        BY <1>1, <1>2, <3>1, HoldingIs
    <2> QED
      BY <1>1, <1>2, <2>1 DEF Findable
  <1>4. ChainsInUse
    <2> SUFFICES ASSUME NEW p \in Occ(Table) PROVE Chain(Table, p) \subseteq Occ(Table)
      BY <1>2 DEF ChainsInUse
    <2>1. Shut(Table, Occ(Table))
      BY <1>1 DEF Shut, Sound, Together
    <2>2. ChainOf(Table, p, Chain(Table, p))
      BY <1>1, <1>2, ChainIs DEF Sound
    <2> QED
      BY <2>1, <2>2 DEF ChainOf
  <1>5. WalksEnd
    <2> SUFFICES ASSUME NEW p \in Position PROVE \E q \in Chain(Table, p) : slots[q].next = LASTNODE
      BY DEF WalksEnd
    <2> DEFINE C == Chain(Table, p)
    <2>1. ChainOf(Table, p, C)
      BY <1>1, <1>2, ChainIs DEF Sound
    <2> HIDE DEF C
    <2>2. C \in SUBSET At(Table) /\ p \in C /\ Shut(Table, C)
      BY <2>1 DEF ChainOf
    <2>3. PICK q \in C : Table.slots[q].next \notin C
      BY <1>1, <2>2 DEF Sound, Ends
    <2> QED
      BY <1>2, <2>2, <2>3 DEF Shut, C
  <1>6. FreeBelowLastfree
    BY <1>1, <1>2 DEF FreeBelowLastfree, Sound, FreeBelow
  <1> QED
    BY <1>3, <1>4, <1>5, <1>6 DEF WellLinked

\* Lookup, insertion and removal find every key where it is, no chain leads
\* through a free slot, every walk along the links ends, and nextfree finds a
\* free slot as long as there is one.
THEOREM MapWellLinked == Spec => []WellLinked
  <1>1. MapInv => WellLinked
    BY MapAssumption, LinkedIs
  <1> QED
    BY <1>1, MapKept, PTL

\* An iterator that has come to the end has returned every key, if none has come
\* or gone since it began.
THEOREM MapIterComplete == Spec => []IterComplete
  <1>1. MapInv => IterComplete
    <2> SUFFICES ASSUME MapInv, steady, \A q \in iter + 1 .. size - 1 : slots[q].key = NIL
                 PROVE  seen = Keys
      BY DEF IterComplete
    <2>1. Sound(Table) /\ seen = Passed /\ iter \in -1 .. size - 1 /\ size \in Int
      BY MapAssumption DEF MapInv, MapAssumption
    <2>2. /\ \A p : p \in Occ(Table) <=> p \in Position /\ slots[p].key # NIL
          /\ Keys = KeysOf(Table) /\ Table.slots = slots
      BY <2>1, TableIs
    <2>3. \A p \in Occ(Table) : p <= iter
      <3> SUFFICES ASSUME NEW p \in Occ(Table), p > iter PROVE FALSE
        BY <2>1, <2>2 DEF Position
      <3>1. p \in iter + 1 .. size - 1 /\ slots[p].key # NIL
        BY <2>1, <2>2 DEF Position
      <3> QED
        BY <3>1
    <2> QED
      BY <2>1, <2>2, <2>3 DEF Passed, KeysOf
  <1> QED
    BY <1>1, MapKept, PTL

-----------------------------------------------------------------------------
(***************************************************************************)
(* The function.                                                           *)
(***************************************************************************)

MapOf(m) == [k \in KeysOf(m) |-> CHOOSE w : Has(m, k, w)]

\* What the map is to the reader of the table.
TheMap == [k \in Keys |-> slots[CHOOSE p \in Position : slots[p].key = k].val]

\* A key has one value.
LEMMA OneValue ==
    ASSUME NEW m, Sound(m)
    PROVE  \A k, v, w : Has(m, k, v) /\ Has(m, k, w) => v = w
  BY DEF Sound, OneEach, Has

\* The function of a table has the value of every key.
LEMMA MapOfIs ==
    ASSUME NEW m, Sound(m)
    PROVE  /\ DOMAIN MapOf(m) = KeysOf(m)
           /\ \A k \in KeysOf(m) : Has(m, k, MapOf(m)[k])
           /\ \A k \in KeysOf(m) : \A w : Has(m, k, w) => MapOf(m)[k] = w
  <1>1. DOMAIN MapOf(m) = KeysOf(m)
    BY DEF MapOf
  <1>2. \A k \in KeysOf(m) : MapOf(m)[k] = CHOOSE w : Has(m, k, w)
    BY DEF MapOf
  <1>3. \A k \in KeysOf(m) : \E w : Has(m, k, w)
    BY HasKey
  <1>4. \A k \in KeysOf(m) : Has(m, k, MapOf(m)[k])
    BY <1>2, <1>3
  <1> QED
    BY <1>1, <1>4, OneValue

\* What the slots of a table are to the reader.
SlotMap(m) ==
    [k \in {m.slots[p].key : p \in DOMAIN m.slots} \ {NIL} |->
       m.slots[CHOOSE p \in 0 .. m.size - 1 : m.slots[p].key = k].val]

\* That is the function of the table.
LEMMA SlotMapIs ==
    ASSUME NEW m, Sound(m)
    PROVE  SlotMap(m) = MapOf(m)
  <1> DEFINE K == {m.slots[p].key : p \in DOMAIN m.slots} \ {NIL}
  <1>1. DOMAIN m.slots = At(m) /\ 0 .. m.size - 1 = At(m)
    BY DEF Sound, IsTable, At
  <1>2. K = KeysOf(m)
    BY <1>1 DEF KeysOf, Occ
  <1> HIDE DEF K
  <1>3. ASSUME NEW k \in K
        PROVE  m.slots[CHOOSE p \in 0 .. m.size - 1 : m.slots[p].key = k].val = MapOf(m)[k]
    <2>1. k # NIL /\ \E p \in 0 .. m.size - 1 : m.slots[p].key = k
      BY <1>1, <1>2 DEF KeysOf, Occ
    <2> DEFINE p == CHOOSE q \in 0 .. m.size - 1 : m.slots[q].key = k
    <2>2. p \in At(m) /\ m.slots[p].key = k
      BY <1>1, <2>1
    <2> HIDE DEF p
    <2>3. Has(m, k, m.slots[p].val)
      BY <2>1, <2>2 DEF Has, Occ
    <2>4. MapOf(m)[k] = m.slots[p].val
      BY <1>2, <2>3, MapOfIs
    <2> QED
      BY <2>4 DEF p
  <1>4. MapOf(m) = [k \in K |-> MapOf(m)[k]]
    BY <1>2 DEF MapOf
  <1>5. SlotMap(m) = [k \in K |-> m.slots[CHOOSE p \in 0 .. m.size - 1 : m.slots[p].key = k].val]
    BY DEF SlotMap, K
  <1> QED
    BY <1>3, <1>4, <1>5

\* The map now and after a step.
LEMMA TheMapIs == TheMap = SlotMap(Table) /\ TheMap' = SlotMap(Table')
  BY DEF TheMap, SlotMap, Table, Keys, Position

\* Two tables that have the same are the same function.
LEMMA SameMap ==
    ASSUME NEW m, Sound(m), NEW t, Sound(t), \A j, w : Has(t, j, w) <=> Has(m, j, w)
    PROVE  MapOf(t) = MapOf(m)
  <1>1. \A j : j \in KeysOf(t) <=> \E w : Has(t, j, w)
    BY HasKey
  <1>2. \A j : j \in KeysOf(m) <=> \E w : Has(m, j, w)
    BY HasKey
  <1>3. KeysOf(t) = KeysOf(m)
    BY <1>1, <1>2
  <1>4. \A k \in KeysOf(t) : MapOf(t)[k] = MapOf(m)[k]
    BY <1>3, MapOfIs
  <1>5. MapOf(m) = [k \in KeysOf(m) |-> MapOf(m)[k]] /\ MapOf(t) = [k \in KeysOf(t) |-> MapOf(t)[k]]
    BY DEF MapOf
  <1> QED
    BY <1>3, <1>4, <1>5

\* What t has of m besides k.
Gains(m, t, k, v) == \A j, w : Has(t, j, w) <=> IF j = k THEN w = v ELSE Has(m, j, w)

Loses(m, t, k) == \A j, w : Has(t, j, w) <=> j # k /\ Has(m, j, w)

\* The functions with another value for a key, and without a key.
WithKey(g, k, v) == [j \in DOMAIN g \cup {k} |-> IF j = k THEN v ELSE g[j]]

WithoutKey(g, k) == [j \in DOMAIN g \ {k} |-> g[j]]

\* A key and its value are put into the function.
LEMMA PutMap ==
    ASSUME NEW m, Sound(m), NEW t, Sound(t), NEW k, NEW v, Gains(m, t, k, v)
    PROVE  MapOf(t) = WithKey(MapOf(m), k, v)
  <1>1. \A j : j \in KeysOf(t) <=> \E w : Has(t, j, w)
    BY HasKey
  <1>2. \A j : j \in KeysOf(m) <=> \E w : Has(m, j, w)
    BY HasKey
  <1>0. \A j, w : Has(t, j, w) <=> IF j = k THEN w = v ELSE Has(m, j, w)
    BY DEF Gains
  <1>3. KeysOf(t) = KeysOf(m) \cup {k} /\ DOMAIN MapOf(m) = KeysOf(m)
    BY <1>0, <1>1, <1>2, MapOfIs
  <1>4. ASSUME NEW j \in KeysOf(t) PROVE MapOf(t)[j] = IF j = k THEN v ELSE MapOf(m)[j]
    <2>1. CASE j = k
      BY <2>1, <1>0, <1>4, MapOfIs
    <2>2. CASE j # k
      <3>1. j \in KeysOf(m) /\ Has(m, j, MapOf(m)[j])
        BY <2>2, <1>3, <1>4, MapOfIs
      <3> QED
        BY <2>2, <3>1, <1>0, <1>4, MapOfIs
    <2> QED
      BY <2>1, <2>2
  <1>5. MapOf(t) = [j \in KeysOf(t) |-> MapOf(t)[j]]
    BY DEF MapOf
  <1> QED
    BY <1>3, <1>4, <1>5 DEF WithKey

\* A key goes from the function.
LEMMA RemovedMap ==
    ASSUME NEW m, Sound(m), NEW t, Sound(t), NEW k, Loses(m, t, k)
    PROVE  MapOf(t) = WithoutKey(MapOf(m), k)
  <1>1. \A j : j \in KeysOf(t) <=> \E w : Has(t, j, w)
    BY HasKey
  <1>2. \A j : j \in KeysOf(m) <=> \E w : Has(m, j, w)
    BY HasKey
  <1>0. \A j, w : Has(t, j, w) <=> j # k /\ Has(m, j, w)
    BY DEF Loses
  <1>3. KeysOf(t) = KeysOf(m) \ {k} /\ DOMAIN MapOf(m) = KeysOf(m)
    BY <1>0, <1>1, <1>2, MapOfIs
  <1>4. ASSUME NEW j \in KeysOf(t) PROVE MapOf(t)[j] = MapOf(m)[j]
    <2>1. j \in KeysOf(m) /\ j # k /\ Has(m, j, MapOf(m)[j])
      BY <1>3, <1>4, MapOfIs
    <2> QED
      BY <2>1, <1>0, <1>4, MapOfIs
  <1>5. MapOf(t) = [j \in KeysOf(t) |-> MapOf(t)[j]]
    BY DEF MapOf
  <1> QED
    BY <1>3, <1>4, <1>5 DEF WithoutKey

\* An empty table is the empty function.
LEMMA MapInitIs ==
    ASSUME MapAssumption, Init
    PROVE  TheMap = << >> /\ ret = NONE
  <1>1. Keys = {}
    <2>1. Sound(Empty(2)) /\ Occ(Empty(2)) = {} /\ Empty(2).size = 2
      BY EmptyIs
    <2>2. Table = Empty(2)
      BY <2>1 DEF Init, Table, Sound, IsTable
    <2> QED
      BY <2>1, <2>2, TableIs DEF KeysOf
  <1>2. TheMap = [k \in {} |-> slots[CHOOSE p \in Position : slots[p].key = k].val]
    BY <1>1 DEF TheMap
  <1>3. TheMap = << >>
    BY <1>2
  <1> QED
    BY <1>3 DEF Init

\* What a step does to the function, and what it answers.
Finds(k) == ret' = (IF k \in DOMAIN TheMap THEN TheMap[k] ELSE NONE) /\ TheMap' = TheMap

Puts(k, v) == TheMap' = WithKey(TheMap, k, v) /\ ret' = v

Removes(k) == TheMap' = WithoutKey(TheMap, k) /\ ret' = (k \in DOMAIN TheMap)

\* Every step does one of these, or changes neither the function nor the answer.
LEMMA MapStepIs ==
    ASSUME MapAssumption, MapInv, MapInv', [Next]_vars
    PROVE  \/ \E k \in Key : Finds(k) \/ Removes(k) \/ \E v \in Val : Puts(k, v)
           \/ UNCHANGED <<TheMap, ret>>
  <1>0. Sound(Table) /\ Sound(Table')
    BY DEF MapInv
  <1> DEFINE f == MapOf(Table)
  <1>1. TheMap = f /\ TheMap' = MapOf(Table')
    BY <1>0, TheMapIs, SlotMapIs
  <1>2. /\ DOMAIN f = KeysOf(Table)
        /\ \A k \in KeysOf(Table) : Has(Table, k, f[k])
        /\ \A k \in KeysOf(Table) : \A w : Has(Table, k, w) => f[k] = w
    BY <1>0, MapOfIs
  <1> HIDE DEF f
  <1>3. ASSUME UNCHANGED <<size, slots, lastfree>> PROVE TheMap' = TheMap
    <2>1. Table' = Table
      BY <1>3 DEF Table
    <2> QED
      BY <1>1, <2>1 DEF f
  <1>4. ASSUME NEW k \in Key, be_map_find(k) PROVE Finds(k)
    <2>1. TheMap' = TheMap
      BY <1>3, <1>4 DEF be_map_find
    <2>2. ret' = IF Holding(Table, k) = {} THEN NONE
                 ELSE slots[CHOOSE p \in Holding(Table, k) : TRUE].val
      BY <1>4 DEF be_map_find
    <2>3. CASE k \in KeysOf(Table)
      <3>1. PICK p \in Occ(Table) : Table.slots[p].key = k
        BY <2>3 DEF KeysOf
      <3>2. Holding(Table, k) = {p}
        BY <1>0, <3>1, HoldingIs
      <3>3. ret' = slots[p].val
        BY <2>2, <3>2
      <3>4. Has(Table, k, slots[p].val)
        BY <3>1 DEF Has, Table
      <3>5. f[k] = slots[p].val
        BY <1>2, <2>3, <3>4
      <3> QED
        BY <1>1, <1>2, <2>1, <2>3, <3>3, <3>5 DEF Finds
    <2>4. CASE k \notin KeysOf(Table)
      <3>1. ret' = NONE
        BY <1>0, <2>2, <2>4, HoldingIs
      <3> QED
        BY <1>1, <1>2, <2>1, <2>4, <3>1 DEF Finds
    <2> QED
      BY <2>3, <2>4
  <1>5. ASSUME NEW k \in Key, be_map_remove(k) PROVE Removes(k)
    <2>1. CASE k \in KeysOf(Table)
      <3>1. Removed(Table, Table', k) /\ ret' = TRUE
        BY <1>5, <2>1, RemoveKeyIs
      <3>2. Loses(Table, Table', k)
        BY <3>1 DEF Removed, Loses
      <3>3. MapOf(Table') = WithoutKey(f, k)
        BY <1>0, <3>2, RemovedMap DEF f
      <3> QED
        BY <1>1, <1>2, <2>1, <3>1, <3>3 DEF Removes
    <2>2. CASE k \notin KeysOf(Table)
      <3>1. ret' = FALSE /\ UNCHANGED <<size, slots, lastfree>>
        BY <1>5, <2>2, RemoveKeyIs
      <3>2. f = [j \in DOMAIN f |-> f[j]]
        BY DEF f, MapOf
      <3>3. DOMAIN f \ {k} = DOMAIN f
        BY <1>2, <2>2
      <3>4. TheMap' = WithoutKey(TheMap, k)
        BY <1>1, <1>3, <3>1, <3>2, <3>3 DEF WithoutKey
      <3>6. ~(k \in DOMAIN TheMap)
        BY <1>1, <1>2, <2>2
      <3>5. ret' = (k \in DOMAIN TheMap)
        <4>1. ret' = FALSE
          BY <3>1
        <4> DEFINE b == k \in DOMAIN TheMap
        <4>2. b \in BOOLEAN /\ ~b
          BY <3>6
        <4>3. b = FALSE
          <5> HIDE DEF b
          <5> QED
            BY <4>2
        <4> HIDE DEF b
        <4>4. ret' = b
          BY <4>1, <4>3
        <4> QED
          BY <4>4 DEF b
      <3> QED
        BY <3>4, <3>5 DEF Removes
    <2> QED
      BY <2>1, <2>2
  <1>6. ASSUME NEW k \in Key, NEW v \in Val, Overwrite(k, v) PROVE Puts(k, v)
    <2>1. Put(Table, Table', k, v)
      BY <1>6, OverwriteIs
    <2>2. Gains(Table, Table', k, v)
      BY <2>1 DEF Put, Gains
    <2>3. ret' = v
      BY <1>6 DEF Overwrite
    <2>4. MapOf(Table') = WithKey(f, k, v)
      BY <1>0, <2>2, PutMap DEF f
    <2> QED
      BY <1>1, <2>3, <2>4 DEF Puts
  <1>7. ASSUME NEW k \in Key, NEW v \in Val, Insert(k, v) PROVE Puts(k, v)
    <2>1. Gains(Table, Table', k, v)
      BY <1>7, InsertKeyIs DEF Gains
    <2>3. ret' = v
      BY <1>7 DEF Insert
    <2>4. MapOf(Table') = WithKey(f, k, v)
      BY <1>0, <2>1, PutMap DEF f
    <2> QED
      BY <1>1, <2>3, <2>4 DEF Puts
  <1>8. ASSUME be_map_compact PROVE UNCHANGED <<TheMap, ret>>
    <2>1. Carried(Table, Table', IF count = 0 THEN 1 ELSE count)
      BY <1>8, CompactIs
    <2>2. MapOf(Table') = f
      BY <1>0, <2>1, SameMap DEF Carried, f
    <2> QED
      BY <1>1, <1>8, <2>2 DEF be_map_compact
  <1>9. ASSUME be_map_next \/ IterEnd \/ UNCHANGED vars PROVE UNCHANGED <<TheMap, ret>>
    <2>1. UNCHANGED <<size, slots, lastfree, ret>>
      BY <1>9 DEF be_map_next, IterEnd, vars
    <2> QED
      BY <1>3, <2>1
  <1> QED
    BY <1>4, <1>5, <1>6, <1>7, <1>8, <1>9 DEF Next

\* The hash table implements a finite function from keys to values, with the
\* answers that be_map_find, be_map_insert and be_map_remove give.
THEOREM MapImplements == Spec => Implements
  <1>1. Init => Abstract!Init
    BY MapAssumption, MapInitIs DEF Abstract!Init, TheMap
  <1>2. MapInv /\ MapInv' /\ [Next]_vars => [Abstract!Next]_<<TheMap, ret>>
    <2> SUFFICES ASSUME MapInv, MapInv', [Next]_vars PROVE [Abstract!Next]_<<TheMap, ret>>
      OBVIOUS
    <2>1. \A k \in Key : Finds(k) => Abstract!Find(k)
      BY DEF Finds, Abstract!Find, TheMap
    <2>2. \A k \in Key : Removes(k) => Abstract!Remove(k)
      BY DEF Removes, WithoutKey, Abstract!Remove, TheMap
    <2>3. \A k \in Key, v \in Val : Puts(k, v) => Abstract!Insert(k, v)
      BY DEF Puts, WithKey, Abstract!Insert, TheMap
    <2> QED
      BY MapAssumption, MapStepIs, <2>1, <2>2, <2>3 DEF Abstract!Next
  <1> QED
    BY <1>1, <1>2, MapKept, PTL DEF Spec, Implements, Abstract!Spec, TheMap

-----------------------------------------------------------------------------
\* The least of a set of numbers.
LEMMA LeastIs ==
    ASSUME NEW S \in SUBSET Nat, S # {}
    PROVE  Min(S) \in S /\ \A k \in S : Min(S) <= k
  <1>1. \E x \in S : \A y \in S : x <= y
    BY Least
  <1>2. Min(S) \in S /\ \A y \in S : Min(S) =< y
    BY <1>1, Zenon DEF Min
  <1> QED
    BY <1>2

LEMMA Pow == 2 ^ 30 = 1073741824 /\ 2 ^ 28 = 268435456
  OBVIOUS

-----------------------------------------------------------------------------
(* Arrays. *)

Cell == Val \cup {NIL, JUNK}

\* An array with room for its elements.
IsArray(l) ==
    /\ l = [data |-> l.data, count |-> l.count]
    /\ l.data \in Seq(Cell) /\ l.count \in Nat /\ l.count <= Len(l.data)

\* The array l holds n elements, those of s.
Holds(l, s) == IsArray(l) /\ l.count = Len(s) /\ \A i \in 1 .. l.count : l.data[i] = s[i]

\* An array holds its items, and no other sequence.
LEMMA ItemsIs ==
    ASSUME NEW l, IsArray(l)
    PROVE  /\ Items(l) \in Seq(Cell) /\ Len(Items(l)) = l.count /\ DOMAIN Items(l) = 1 .. l.count
           /\ \A i \in 1 .. l.count : Items(l)[i] = l.data[i]
  BY DEF IsArray, Items

LEMMA HoldsItems == ASSUME NEW l, IsArray(l) PROVE Holds(l, Items(l))
  BY ItemsIs DEF Holds

LEMMA OnlyItems ==
    ASSUME NEW l, NEW s \in Seq(Cell), Holds(l, s)
    PROVE  Items(l) = s
  <1>1. IsArray(l) /\ l.count = Len(s) /\ l.count \in Nat
    BY DEF Holds, IsArray
  <1>2. /\ Items(l) \in Seq(Cell) /\ Len(Items(l)) = l.count
        /\ \A i \in 1 .. l.count : Items(l)[i] = l.data[i]
    BY <1>1, ItemsIs
  <1>3. \A i \in 1 .. l.count : Items(l)[i] = s[i]
    BY <1>2 DEF Holds
  <1> QED
    BY <1>1, <1>2, <1>3, SeqEqual

\* A sequence with an element for each number up to n.
LEMMA Tabled ==
    ASSUME NEW S, NEW n \in Nat, NEW f, f = [i \in 1 .. n |-> f[i]], \A i \in 1 .. n : f[i] \in S
    PROVE  f \in Seq(S) /\ Len(f) = n /\ DOMAIN f = 1 .. n
  <1>1. f \in [1 .. n -> S]
    BY Zenon
  <1> QED
    BY <1>1

\* An array with more room.
Roomier(l, g, n) ==
    /\ IsArray(g) /\ g.count = l.count /\ Len(g.data) >= n /\ Len(g.data) >= Len(l.data)
    /\ \A i \in 1 .. Len(l.data) : g.data[i] = l.data[i]
    /\ g = l \/ \A i \in 1 .. Len(g.data) : i > Len(l.data) => g.data[i] = JUNK

\* The parts of an array that is changed.
Array(d, n) == [data |-> d, count |-> n]

Refilled(g, d) == [g EXCEPT !.data = d]
Shaped(g, n, d) == [g EXCEPT !.count = n, !.data = d]
Lengthened(g, d, n) == [g EXCEPT !.data = d, !.count = n]

LEMMA Parts ==
    ASSUME NEW g, g = [data |-> g.data, count |-> g.count], NEW x, NEW n
    PROVE  /\ Refilled(g, x) = Array(x, g.count)
           /\ Shaped(g, n, x) = Array(x, n)
           /\ Lengthened(g, x, n) = Array(x, n)
  <1> DEFINE d == g.data
             c == g.count
  <1>1. g = [data |-> d, count |-> c]
    OBVIOUS
  <1> HIDE DEF d, c
  <1>2. [g EXCEPT !.data = x] = [data |-> x, count |-> c]
    BY <1>1
  <1>3. [g EXCEPT !.count = n] = [data |-> d, count |-> n]
    BY <1>1
  <1>4. [g EXCEPT !.count = n, !.data = x] = [data |-> x, count |-> n]
    <2> DEFINE h == [g EXCEPT !.count = n]
    <2> HIDE DEF h
    <2>1. h = [data |-> d, count |-> n]
      BY <1>3 DEF h
    <2>2. [h EXCEPT !.data = x] = [data |-> x, count |-> n]
      BY <2>1
    <2> QED
      BY <2>2 DEF h
  <1>5. [g EXCEPT !.data = x, !.count = n] = [data |-> x, count |-> n]
    <2> DEFINE h == [g EXCEPT !.data = x]
    <2> HIDE DEF h
    <2>1. h = [data |-> x, count |-> c]
      BY <1>2 DEF h
    <2>2. [h EXCEPT !.count = n] = [data |-> x, count |-> n]
      BY <2>1
    <2> QED
      BY <2>2 DEF h
  <1> QED
    BY <1>2, <1>3, <1>4, <1>5 DEF d, c, Refilled, Shaped, Lengthened, Array

Extend(l, n) == [l EXCEPT !.data = l.data \o Junk(n - Len(l.data))]

LEMMA Extended ==
    ASSUME NEW l, IsArray(l), NEW n \in Nat, n >= Len(l.data)
    PROVE  Roomier(l, Extend(l, n), n)
  <1> DEFINE j == Junk(n - Len(l.data))
             g == Extend(l, n)
  <1>1. l.data \in Seq(Cell) /\ Len(l.data) \in Nat /\ l = [data |-> l.data, count |-> l.count] /\ l.count \in Nat
        /\ l.count <= Len(l.data)
    BY DEF IsArray
  <1>2. n - Len(l.data) \in Nat /\ JUNK \in Cell
    BY <1>1 DEF Cell
  <1>3. j \in Seq(Cell) /\ Len(j) = n - Len(l.data) /\ \A i \in 1 .. Len(j) : j[i] = JUNK
    BY <1>2, Tabled DEF Junk
  <1> HIDE DEF j
  <1>4. /\ l.data \o j \in Seq(Cell) /\ Len(l.data \o j) = n
        /\ \A i \in 1 .. Len(l.data) : (l.data \o j)[i] = l.data[i]
        /\ \A i \in 1 .. n : i > Len(l.data) => (l.data \o j)[i] = JUNK
    BY <1>1, <1>3
  <1>5. g = [data |-> l.data \o j, count |-> l.count]
    <2> DEFINE x == l.data \o j
    <2>1. g = Refilled(l, x)
      BY DEF Extend, Refilled, j
    <2> HIDE DEF x, g
    <2>2. g = [data |-> x, count |-> l.count]
      BY <2>1, <1>1, Parts DEF Array
    <2> QED
      BY <2>2 DEF x
  <1> HIDE DEF g
  <1>6. Roomier(l, g, n)
    BY <1>1, <1>4, <1>5 DEF Roomier, IsArray
  <1> QED
    BY <1>6 DEF g

LEMMA GrownIs ==
    ASSUME NEW l, IsArray(l), l.count < 2 ^ 30
    PROVE  Roomier(l, Grown(l), l.count + 1)
  <1>1. l.data \in Seq(Cell) /\ Len(l.data) \in Nat /\ l.count \in Nat /\ l.count <= Len(l.data)
    BY DEF IsArray
  <1>2. CASE l.count < Len(l.data)
    BY <1>1, <1>2 DEF Grown, Roomier
  <1>3. CASE ~(l.count < Len(l.data))
    <2>1. Len(l.data) = l.count
      BY <1>1, <1>3
    <2>2. be_nextsize(Len(l.data)) \in Nat /\ be_nextsize(Len(l.data)) > Len(l.data)
      BY <1>1, <2>1, NextSizeIs
    <2>3. Grown(l) = Extend(l, be_nextsize(Len(l.data)))
      BY <1>3 DEF Grown, Extend
    <2>4. Roomier(l, Grown(l), be_nextsize(Len(l.data)))
      BY <1>1, <2>1, <2>2, <2>3, Extended
    <2> QED
      BY <1>1, <2>1, <2>2, <2>4 DEF Roomier, IsArray
  <1> QED
    BY <1>2, <1>3

LEMMA ReservedIs ==
    ASSUME NEW l, IsArray(l), NEW n \in Nat, n < 2 ^ 30
    PROVE  Roomier(l, Reserved(l, n), n)
  <1>1. l.data \in Seq(Cell) /\ Len(l.data) \in Nat /\ l.count \in Nat /\ l.count <= Len(l.data)
    BY DEF IsArray
  <1>2. be_nextsize(n) \in Nat /\ be_nextsize(n) > n
    BY NextSizeIs
  <1>3. CASE be_nextsize(n) <= Len(l.data)
    BY <1>1, <1>2, <1>3 DEF Reserved, Roomier
  <1>4. CASE ~(be_nextsize(n) <= Len(l.data))
    <2>1. Reserved(l, n) = Extend(l, be_nextsize(n))
      BY <1>4 DEF Reserved, Extend
    <2>2. Roomier(l, Reserved(l, n), be_nextsize(n))
      BY <1>1, <1>2, <1>4, <2>1, Extended
    <2> QED
      BY <1>1, <1>2, <2>2 DEF Roomier, IsArray
  <1> QED
    BY <1>3, <1>4

\* Cells of an array are written.
LEMMA Rewritten ==
    ASSUME NEW g, IsArray(g), NEW n \in 0 .. Len(g.data), NEW f,
           f = [i \in DOMAIN g.data |-> f[i]], \A i \in 1 .. Len(g.data) : f[i] \in Cell
    PROVE  IsArray(Array(f, n)) /\ Array(f, n).data = f /\ Array(f, n).count = n /\ Len(f) = Len(g.data)
  <1>1. g.data \in Seq(Cell) /\ Len(g.data) \in Nat /\ DOMAIN g.data = 1 .. Len(g.data)
    BY DEF IsArray
  <1>2. f \in Seq(Cell) /\ Len(f) = Len(g.data)
    BY <1>1, Tabled
  <1>3. IsArray(Array(f, n)) /\ Array(f, n).data = f /\ Array(f, n).count = n
    BY <1>1, <1>2 DEF IsArray, Array
  <1> QED
    BY <1>2, <1>3

LEMMA NewIs == Holds(be_list_new, << >>) /\ be_list_new = Array(be_list_new.data, 0)
  <1>1. Junk(2) \in Seq(Cell) /\ Len(Junk(2)) = 2
    BY Tabled DEF Junk, Cell
  <1> QED
    BY <1>1 DEF Holds, IsArray, be_list_new, Array

LEMMA PushIs ==
    ASSUME NEW l, IsArray(l), l.count < 2 ^ 30, NEW v \in Cell
    PROVE  Holds(be_list_push(l, v), Append(Items(l), v))
  <1> DEFINE g == Grown(l)
             f == [g.data EXCEPT ![l.count + 1] = v]
             p == be_list_push(l, v)
             n == l.count + 1
  <1>1. Roomier(l, g, n)
    BY GrownIs
  <1>2. IsArray(g) /\ g.count = l.count /\ g.data \in Seq(Cell) /\ g = [data |-> g.data, count |-> g.count]
        /\ l.count \in Nat /\ Len(g.data) \in Nat /\ n <= Len(g.data) /\ l.count <= Len(l.data) /\ Len(l.data) \in Nat
    BY <1>1 DEF Roomier, IsArray
  <1>3. p = Lengthened(g, f, g.count + 1)
    BY DEF be_list_push, Lengthened
  <1>4. f \in Seq(Cell) /\ Len(f) = Len(g.data) /\ f[n] = v /\ \A i \in 1 .. l.count : f[i] = g.data[i]
    BY <1>2
  <1>5. Items(l) \in Seq(Cell) /\ Len(Items(l)) = l.count /\ \A i \in 1 .. l.count : Items(l)[i] = l.data[i]
    BY ItemsIs
  <1>6. \A i \in 1 .. l.count : g.data[i] = l.data[i]
    BY <1>1, <1>2 DEF Roomier
  <1> HIDE DEF g, f, p, n
  <1>7. p = Array(f, n)
    BY <1>2, <1>3, Parts DEF n
  <1>8. IsArray(p) /\ p.data = f /\ p.count = n
    BY <1>2, <1>4, <1>7 DEF Array, IsArray, n
  <1> DEFINE t == Append(Items(l), v)
  <1>9. Len(t) = n /\ \A i \in 1 .. n : t[i] = f[i]
    BY <1>2, <1>4, <1>5, <1>6 DEF n
  <1> HIDE DEF t
  <1>10. Holds(p, t)
    BY <1>8, <1>9 DEF Holds
  <1> QED
    BY <1>10 DEF p, t

\* Two sequences, one behind the other.
Joins(S, t, a, b) ==
    /\ t \in Seq(S) /\ Len(t) = Len(a) + Len(b)
    /\ \A i \in 1 .. Len(a) : t[i] = a[i]
    /\ \A i \in 1 .. Len(b) : t[Len(a) + i] = b[i]

LEMMA Joined ==
    ASSUME NEW S, NEW a \in Seq(S), NEW b \in Seq(S)
    PROVE  Joins(S, a \o b, a, b)
  <1> DEFINE t == a \o b
  <1>1. t \in Seq(S) /\ Len(t) = Len(a) + Len(b)
    OBVIOUS
  <1>2. \A i \in 1 .. Len(a) : t[i] = a[i]
    OBVIOUS
  <1>3. \A i \in 1 .. Len(b) : t[Len(a) + i] = b[i]
    OBVIOUS
  <1> HIDE DEF t
  <1>4. Joins(S, t, a, b)
    BY <1>1, <1>2, <1>3 DEF Joins
  <1> QED
    BY <1>4 DEF t

LEMMA InsertAtIs ==
    ASSUME NEW s, NEW p, NEW v
    PROVE  InsertAt(s, p, v) = (SubSeq(s, 1, p - 1) \o <<v>>) \o SubSeq(s, p, Len(s))
  BY DEF InsertAt

\* An element that is put in, and one that is taken out.
PutIn(t, s, p, v) ==
    /\ t \in Seq(Cell) /\ Len(t) = Len(s) + 1
    /\ \A i \in 1 .. Len(s) + 1 : t[i] = IF i = p + 1 THEN v ELSE IF i <= p THEN s[i] ELSE s[i - 1]

OutOf(t, s, p) ==
    /\ t \in Seq(Cell) /\ Len(t) = Len(s) - 1
    /\ \A i \in 1 .. Len(s) - 1 : t[i] = IF i < p THEN s[i] ELSE s[i + 1]

LEMMA ElementIn ==
    ASSUME NEW s \in Seq(Cell), NEW v \in Cell, NEW p \in 0 .. Len(s)
    PROVE  PutIn(InsertAt(s, p + 1, v), s, p, v)
  <1> DEFINE a == SubSeq(s, 1, p)
             b == SubSeq(s, p + 1, Len(s))
  <1>1. a \in Seq(Cell) /\ Len(a) = p /\ \A i \in 1 .. p : a[i] = s[i]
    OBVIOUS
  <1>2. b \in Seq(Cell) /\ Len(b) = Len(s) - p /\ \A i \in 1 .. Len(s) - p : b[i] = s[p + i]
    OBVIOUS
  <1> DEFINE c == a \o <<v>>
             t == c \o b
  <1>3. InsertAt(s, p + 1, v) = t
    <2> DEFINE q == p + 1
    <2>1. q - 1 = p
      OBVIOUS
    <2> HIDE DEF q
    <2>2. InsertAt(s, q, v) = (SubSeq(s, 1, q - 1) \o <<v>>) \o SubSeq(s, q, Len(s))
      BY InsertAtIs
    <2>3. InsertAt(s, q, v) = (SubSeq(s, 1, p) \o <<v>>) \o SubSeq(s, q, Len(s))
      BY <2>1, <2>2
    <2> QED
      BY <2>3 DEF q
  <1> HIDE DEF a, b
  <1>6. c \in Seq(Cell) /\ Len(c) = p + 1 /\ c[p + 1] = v /\ \A i \in 1 .. p : c[i] = s[i]
    BY <1>1
  <1> HIDE DEF c
  <1>7. /\ t \in Seq(Cell) /\ Len(t) = Len(c) + Len(b) /\ \A i \in 1 .. Len(c) : t[i] = c[i]
        /\ \A i \in 1 .. Len(b) : t[Len(c) + i] = b[i]
    <2>1. Joins(Cell, t, c, b)
      BY <1>2, <1>6, Joined
    <2> HIDE DEF t
    <2> QED
      BY <2>1 DEF Joins
  <1>8. Len(s) \in Nat /\ p \in Nat /\ p <= Len(s)
    OBVIOUS
  <1>9. \A i \in 1 .. Len(s) + 1 : i \in 1 .. Len(c) \/ (i - (p + 1) \in 1 .. Len(b) /\ i = Len(c) + (i - (p + 1)))
    BY <1>2, <1>6, <1>8
  <1> HIDE DEF t
  <1>4. t \in Seq(Cell) /\ Len(t) = Len(s) + 1
    BY <1>2, <1>6, <1>7, <1>8
  <1>5. ASSUME NEW i \in 1 .. Len(s) + 1
        PROVE  t[i] = IF i = p + 1 THEN v ELSE IF i <= p THEN s[i] ELSE s[i - 1]
    <2>1. i <= p + 1 => t[i] = c[i]
      BY <1>6, <1>7, <1>8
    <2>2. i <= p => i \in 1 .. p
      BY <1>8
    <2>3. i > p + 1 => t[i] = b[i - (p + 1)]
      <3>1. CASE i > p + 1
        <4>1. i - (p + 1) \in 1 .. Len(b) /\ i = Len(c) + (i - (p + 1))
          BY <3>1, <1>6, <1>8, <1>9
        <4> QED
          BY <4>1, <1>7
      <3> QED
        BY <3>1
    <2>4. i > p + 1 => i - (p + 1) \in 1 .. Len(s) - p /\ p + (i - (p + 1)) = i - 1
      BY <1>8
    <2>5. CASE i = p + 1
      BY <2>1, <2>5, <1>6, <1>8
    <2>6. CASE i < p + 1
      BY <2>1, <2>2, <2>6, <1>6, <1>8
    <2>7. CASE i > p + 1
      BY <2>3, <2>4, <2>7, <1>2, <1>8
    <2> QED
      BY <2>5, <2>6, <2>7, <1>8
  <1> QED
    BY <1>3, <1>4, <1>5 DEF PutIn

LEMMA ElementOut ==
    ASSUME NEW s \in Seq(Cell), NEW p \in 1 .. Len(s)
    PROVE  OutOf(RemoveAt(s, p), s, p)
  <1> DEFINE a == SubSeq(s, 1, p - 1)
             b == SubSeq(s, p + 1, Len(s))
             t == a \o b
  <1>1. a \in Seq(Cell) /\ Len(a) = p - 1 /\ \A i \in 1 .. p - 1 : a[i] = s[i]
    OBVIOUS
  <1>2. b \in Seq(Cell) /\ Len(b) = Len(s) - p /\ \A i \in 1 .. Len(s) - p : b[i] = s[p + i]
    OBVIOUS
  <1>3. RemoveAt(s, p) = t
    BY DEF RemoveAt
  <1> HIDE DEF a, b
  <1>7. /\ t \in Seq(Cell) /\ Len(t) = Len(a) + Len(b) /\ \A i \in 1 .. Len(a) : t[i] = a[i]
        /\ \A i \in 1 .. Len(b) : t[Len(a) + i] = b[i]
    <2>1. Joins(Cell, t, a, b)
      BY <1>1, <1>2, Joined
    <2> HIDE DEF t
    <2> QED
      BY <2>1 DEF Joins
  <1> HIDE DEF t
  <1>8. Len(s) \in Nat /\ p \in Nat /\ p <= Len(s) /\ p >= 1
    OBVIOUS
  <1>4. t \in Seq(Cell) /\ Len(t) = Len(s) - 1
    BY <1>1, <1>2, <1>7, <1>8
  <1>5. ASSUME NEW i \in 1 .. Len(s) - 1 PROVE t[i] = IF i < p THEN s[i] ELSE s[i + 1]
    <2>1. CASE i < p
      <3>1. i \in 1 .. Len(a) /\ i \in 1 .. p - 1
        BY <2>1, <1>1, <1>8
      <3> QED
        BY <3>1, <2>1, <1>1, <1>7
    <2>2. CASE i >= p
      <3>1. i - (p - 1) \in 1 .. Len(b) /\ i - (p - 1) \in 1 .. Len(s) - p /\ p + (i - (p - 1)) = i + 1
            /\ Len(a) + (i - (p - 1)) = i
        BY <2>2, <1>1, <1>2, <1>8
      <3>2. t[i] = b[i - (p - 1)] /\ b[i - (p - 1)] = s[i + 1]
        BY <3>1, <1>2, <1>7
      <3> QED
        BY <3>2, <2>2, <1>8
    <2> QED
      BY <2>1, <2>2, <1>8
  <1> QED
    BY <1>3, <1>4, <1>5 DEF OutOf

\* What the parts of an array are.
LEMMA Fields ==
    ASSUME NEW l, IsArray(l)
    PROVE  /\ l = [data |-> l.data, count |-> l.count] /\ l.data \in Seq(Cell) /\ DOMAIN l.data = 1 .. Len(l.data)
           /\ l.count \in Nat /\ Len(l.data) \in Nat /\ l.count <= Len(l.data)
           /\ \A i \in 1 .. l.count : l.data[i] \in Cell
  BY DEF IsArray

LEMMA ListInsertIs ==
    ASSUME NEW l, IsArray(l), l.count < 2 ^ 30, NEW v \in Cell, NEW k \in Int
    PROVE  Holds(be_list_insert(l, k, v),
                 IF IndexOf(l, k) \in 0 .. l.count THEN InsertAt(Items(l), IndexOf(l, k) + 1, v) ELSE Items(l))
  <1> DEFINE g == Grown(l)
             p == IndexOf(l, k)
             n == l.count + 1
             f == [i \in DOMAIN g.data |-> CASE i = p + 1 -> v
                                             [] i \in p + 2 .. l.count + 1 -> g.data[i - 1]
                                             [] OTHER -> g.data[i]]
  <1>1. Roomier(l, g, n)
    BY GrownIs
  <1>2. IsArray(g) /\ g.count = l.count /\ n <= Len(g.data) /\ \A i \in 1 .. l.count : g.data[i] = l.data[i]
    BY <1>1, Fields DEF Roomier
  <1>3. CASE p \notin 0 .. l.count
    <2>1. be_list_insert(l, k, v) = l
      BY <1>3 DEF be_list_insert
    <2> QED
      BY <1>3, <2>1, HoldsItems
  <1>4. CASE p \in 0 .. l.count
    <2>1. be_list_insert(l, k, v) = Shaped(g, g.count + 1, f)
      BY <1>4 DEF be_list_insert, Shaped
    <2> HIDE DEF g
    <2>2. /\ g = [data |-> g.data, count |-> g.count] /\ DOMAIN g.data = 1 .. Len(g.data)
          /\ Len(g.data) \in Nat /\ l.count \in Nat /\ n \in 0 .. Len(g.data)
          /\ \A i \in 1 .. Len(g.data) : g.data[i] \in Cell
      BY <1>2, Fields
    <2>3. ASSUME NEW i \in 1 .. Len(g.data) PROVE f[i] \in Cell
      <3>1. i \in p + 2 .. l.count + 1 => i - 1 \in 1 .. Len(g.data)
        BY <1>4, <2>2
      <3> QED
        BY <3>1, <2>2
    <2>4. ASSUME NEW i \in 1 .. n
          PROVE  f[i] = IF i = p + 1 THEN v ELSE IF i <= p THEN g.data[i] ELSE g.data[i - 1]
      BY <1>4, <2>2
    <2>5. f = [i \in DOMAIN g.data |-> f[i]]
      OBVIOUS
    <2> HIDE DEF f, p
    <2>6. be_list_insert(l, k, v) = Array(f, n)
      BY <1>2, <2>1, <2>2, Parts
    <2>7. IsArray(Array(f, n)) /\ Array(f, n).data = f /\ Array(f, n).count = n
      BY <1>2, <2>2, <2>3, <2>5, Rewritten
    <2> DEFINE s == Items(l)
               t == InsertAt(s, p + 1, v)
    <2>8. s \in Seq(Cell) /\ Len(s) = l.count /\ \A i \in 1 .. l.count : s[i] = l.data[i]
      BY ItemsIs
    <2> HIDE DEF s
    <2>9. /\ t \in Seq(Cell) /\ Len(t) = n
          /\ \A i \in 1 .. n : t[i] = IF i = p + 1 THEN v ELSE IF i <= p THEN s[i] ELSE s[i - 1]
      <3>1. p \in 0 .. Len(s)
        BY <1>4, <2>8
      <3>2. PutIn(t, s, p, v)
        BY <3>1, <2>8, ElementIn
      <3> HIDE DEF t
      <3> QED
        BY <3>2, <2>8 DEF PutIn
    <2> HIDE DEF t
    <2>10. ASSUME NEW i \in 1 .. n PROVE f[i] = t[i]
      <3>1. (i <= p => i \in 1 .. l.count) /\ (i > p + 1 => i - 1 \in 1 .. l.count)
        BY <1>4, <2>2
      <3>2. i <= p => g.data[i] = s[i]
        BY <3>1, <1>2, <2>8
      <3>3. i > p + 1 => g.data[i - 1] = s[i - 1]
        BY <3>1, <1>2, <2>8
      <3> QED
        BY <3>2, <3>3, <1>4, <2>2, <2>4, <2>9
    <2>11. Holds(Array(f, n), t)
      BY <2>7, <2>9, <2>10 DEF Holds
    <2> QED
      BY <1>4, <2>6, <2>11 DEF t, s, p
  <1> QED
    BY <1>3, <1>4

LEMMA ListRemoveIs ==
    ASSUME NEW l, IsArray(l), NEW k \in Int
    PROVE  Holds(be_list_remove(l, k),
                 IF There(l, k) THEN RemoveAt(Items(l), IndexOf(l, k) + 1) ELSE Items(l))
  <1> DEFINE p == IndexOf(l, k) + 1
             n == l.count - 1
             f == [i \in DOMAIN l.data |-> IF i \in p .. n THEN l.data[i + 1] ELSE l.data[i]]
  <1>3. CASE ~There(l, k)
    <2>1. be_list_remove(l, k) = l
      BY <1>3 DEF be_list_remove
    <2> QED
      BY <1>3, <2>1, HoldsItems
  <1>4. CASE There(l, k)
    <2>1. be_list_remove(l, k) = Shaped(l, l.count - 1, f)
      BY <1>4 DEF be_list_remove, Shaped
    <2>2. /\ l = [data |-> l.data, count |-> l.count] /\ DOMAIN l.data = 1 .. Len(l.data)
          /\ Len(l.data) \in Nat /\ l.count \in Nat /\ n \in 0 .. Len(l.data) /\ p \in 1 .. l.count
          /\ \A i \in 1 .. Len(l.data) : l.data[i] \in Cell
      BY <1>4, Fields DEF There
    <2> HIDE DEF p
    <2>3. ASSUME NEW i \in 1 .. Len(l.data) PROVE f[i] \in Cell
      <3>1. i \in p .. n => i + 1 \in 1 .. Len(l.data)
        BY <1>4, <2>2, Fields
      <3> QED
        BY <3>1, <2>2
    <2>4. ASSUME NEW i \in 1 .. n PROVE f[i] = IF i < p THEN l.data[i] ELSE l.data[i + 1]
      BY <1>4, <2>2
    <2>5. f = [i \in DOMAIN l.data |-> f[i]]
      BY Zenon
    <2> HIDE DEF f
    <2>6. be_list_remove(l, k) = Array(f, n)
      BY <2>1, <2>2, Parts
    <2>7. IsArray(Array(f, n)) /\ Array(f, n).data = f /\ Array(f, n).count = n
      BY <2>2, <2>3, <2>5, Rewritten
    <2> DEFINE s == Items(l)
               t == RemoveAt(s, p)
    <2>8. s \in Seq(Cell) /\ Len(s) = l.count /\ \A i \in 1 .. l.count : s[i] = l.data[i]
      BY ItemsIs
    <2> HIDE DEF s
    <2>9. /\ t \in Seq(Cell) /\ Len(t) = n
          /\ \A i \in 1 .. n : t[i] = IF i < p THEN s[i] ELSE s[i + 1]
      <3>1. p \in 1 .. Len(s)
        BY <2>2, <2>8
      <3>2. OutOf(t, s, p)
        BY <3>1, <2>8, ElementOut
      <3> HIDE DEF t
      <3> QED
        BY <3>2, <2>8 DEF OutOf
    <2> HIDE DEF t
    <2>10. ASSUME NEW i \in 1 .. n PROVE f[i] = t[i]
      <3>1. i \in 1 .. l.count /\ i + 1 \in 1 .. l.count
        BY <2>2
      <3> QED
        BY <3>1, <2>4, <2>8, <2>9
    <2>11. Holds(Array(f, n), t)
      BY <2>7, <2>9, <2>10 DEF Holds
    <2> QED
      BY <1>4, <2>6, <2>11 DEF t, s, p
  <1> QED
    BY <1>3, <1>4

LEMMA SetIs ==
    ASSUME NEW l, IsArray(l), NEW v \in Cell, NEW k \in 0 .. l.count - 1
    PROVE  Holds([l EXCEPT !.data[k + 1] = v], [Items(l) EXCEPT ![k + 1] = v])
  <1> DEFINE f == [l.data EXCEPT ![k + 1] = v]
             s == Items(l)
             t == [s EXCEPT ![k + 1] = v]
  <1>1. [l EXCEPT !.data[k + 1] = v] = Refilled(l, f)
    BY DEF Refilled
  <1>2. /\ l = [data |-> l.data, count |-> l.count] /\ l.data \in Seq(Cell)
        /\ l.count \in Nat /\ Len(l.data) \in Nat /\ l.count <= Len(l.data)
    BY Fields
  <1>3. f \in Seq(Cell) /\ Len(f) = Len(l.data) /\ \A i \in 1 .. Len(l.data) : f[i] = IF i = k + 1 THEN v ELSE l.data[i]
    BY <1>2
  <1>4. s \in Seq(Cell) /\ Len(s) = l.count /\ \A i \in 1 .. l.count : s[i] = l.data[i]
    BY ItemsIs
  <1> HIDE DEF s
  <1>5. Len(t) = l.count /\ \A i \in 1 .. l.count : t[i] = IF i = k + 1 THEN v ELSE s[i]
    BY <1>2, <1>4
  <1> HIDE DEF f, t
  <1>6. Refilled(l, f) = Array(f, l.count)
    BY <1>2, Parts
  <1>7. Holds(Array(f, l.count), t)
    BY <1>2, <1>3, <1>4, <1>5 DEF Holds, IsArray, Array
  <1> QED
    BY <1>1, <1>6, <1>7 DEF t, s

LEMMA ReverseIs ==
    ASSUME NEW l, IsArray(l)
    PROVE  Holds(be_list_reverse(l), Reverse(Items(l)))
  <1> DEFINE f == [i \in DOMAIN l.data |-> IF i <= l.count THEN l.data[l.count + 1 - i] ELSE l.data[i]]
             s == Items(l)
             t == Reverse(s)
  <1>1. be_list_reverse(l) = Refilled(l, f)
    BY DEF be_list_reverse, Refilled
  <1>2. /\ l = [data |-> l.data, count |-> l.count] /\ l.data \in Seq(Cell) /\ DOMAIN l.data = 1 .. Len(l.data)
        /\ l.count \in Nat /\ Len(l.data) \in Nat /\ l.count <= Len(l.data)
    BY Fields
  <1>3. ASSUME NEW i \in 1 .. Len(l.data) PROVE f[i] \in Cell
    <2>1. i <= l.count => l.count + 1 - i \in 1 .. Len(l.data)
      BY <1>2
    <2> QED
      BY <2>1, <1>2
  <1>4. f = [i \in DOMAIN l.data |-> f[i]] /\ \A i \in 1 .. l.count : f[i] = l.data[l.count + 1 - i]
    BY <1>2
  <1> HIDE DEF f
  <1>5. IsArray(Array(f, l.count)) /\ Array(f, l.count).data = f /\ Array(f, l.count).count = l.count
    BY <1>2, <1>3, <1>4, Rewritten
  <1>6. s \in Seq(Cell) /\ Len(s) = l.count /\ \A i \in 1 .. l.count : s[i] = l.data[i]
    BY ItemsIs
  <1> HIDE DEF s
  <1>7. t = [i \in 1 .. l.count |-> s[(l.count - i) + 1]]
    BY <1>6 DEF Reverse
  <1>8. \A i \in 1 .. l.count : (l.count - i) + 1 \in 1 .. l.count /\ (l.count - i) + 1 = l.count + 1 - i
    BY <1>2
  <1>9. Len(t) = l.count /\ \A i \in 1 .. l.count : t[i] = f[i]
    <2> HIDE DEF t
    <2>1. Len(t) = l.count
      BY <1>2, <1>7
    <2>2. ASSUME NEW i \in 1 .. l.count PROVE t[i] = f[i]
      <3>1. t[i] = s[(l.count - i) + 1] /\ f[i] = l.data[l.count + 1 - i]
        BY <1>4, <1>7
      <3>2. (l.count - i) + 1 \in 1 .. l.count /\ (l.count - i) + 1 = l.count + 1 - i
        BY <1>8
      <3>3. s[(l.count - i) + 1] = l.data[(l.count - i) + 1]
        BY <3>2, <1>6
      <3> QED
        BY <3>1, <3>2, <3>3
    <2> QED
      BY <2>1, <2>2
  <1> HIDE DEF t
  <1>10. Refilled(l, f) = Array(f, l.count)
    BY <1>2, Parts
  <1>11. Holds(Array(f, l.count), t)
    BY <1>5, <1>9 DEF Holds
  <1> QED
    BY <1>1, <1>10, <1>11 DEF t, s

\* The elements a longer list gets are nil.
Padded(s, n) == IF n <= Len(s) THEN SubSeq(s, 1, n) ELSE s \o [i \in 1 .. n - Len(s) |-> NIL]

LEMMA PaddedIs ==
    ASSUME NEW s \in Seq(Cell), NEW n \in Nat
    PROVE  /\ Padded(s, n) \in Seq(Cell) /\ Len(Padded(s, n)) = n
           /\ \A i \in 1 .. n : Padded(s, n)[i] = IF i <= Len(s) THEN s[i] ELSE NIL
  <1>1. CASE n <= Len(s)
    <2> DEFINE t == SubSeq(s, 1, n)
    <2>1. t \in Seq(Cell) /\ Len(t) = n /\ \A i \in 1 .. n : t[i] = s[i]
      BY <1>1
    <2>2. Padded(s, n) = t
      BY <1>1 DEF Padded
    <2> HIDE DEF t
    <2> QED
      BY <1>1, <2>1, <2>2
  <1>2. CASE ~(n <= Len(s))
    <2> DEFINE m == n - Len(s)
               u == [i \in 1 .. m |-> NIL]
               t == s \o u
    <2>1. m \in Nat
      BY <1>2
    <2> HIDE DEF m
    <2>2. u \in Seq(Cell) /\ Len(u) = m /\ \A i \in 1 .. m : u[i] = NIL
      BY <2>1 DEF Cell
    <2>3. Padded(s, n) = t
      BY <1>2 DEF Padded, m
    <2> HIDE DEF u
    <2>4. Joins(Cell, t, s, u)
      BY <2>2, Joined
    <2> HIDE DEF t
    <2>5. t \in Seq(Cell) /\ Len(t) = n
      BY <2>2, <2>4, <1>2 DEF Joins, m
    <2>6. ASSUME NEW i \in 1 .. n PROVE t[i] = IF i <= Len(s) THEN s[i] ELSE NIL
      <3>1. CASE i <= Len(s)
        BY <3>1, <2>4 DEF Joins
      <3>2. CASE ~(i <= Len(s))
        <4>1. i - Len(s) \in 1 .. m /\ Len(s) + (i - Len(s)) = i
          BY <3>2, <2>1 DEF m
        <4> QED
          BY <3>2, <4>1, <2>2, <2>4 DEF Joins
      <3> QED
        BY <3>1, <3>2
    <2> QED
      BY <2>3, <2>5, <2>6
  <1> QED
    BY <1>1, <1>2

\* The cells that would come back.
Again(l, n) ==
    /\ n > l.count /\ be_nextsize(n) <= Len(l.data)
    /\ \E i \in l.count + 1 .. n : l.data[i] # NIL

LEMMA ListResizeIs ==
    ASSUME NEW l, IsArray(l), NEW n \in Nat, n < 2 ^ 30, ~Again(l, n)
    PROVE  Holds(be_list_resize(l, n), Padded(Items(l), n))
  <1> DEFINE s == Items(l)
             t == Padded(s, n)
  <1>1. s \in Seq(Cell) /\ Len(s) = l.count /\ \A i \in 1 .. l.count : s[i] = l.data[i]
    BY ItemsIs
  <1> HIDE DEF s
  <1>2. t \in Seq(Cell) /\ Len(t) = n /\ \A i \in 1 .. n : t[i] = IF i <= Len(s) THEN s[i] ELSE NIL
    BY <1>1, PaddedIs
  <1> HIDE DEF t
  <1>3. CASE n = l.count
    <2>1. be_list_resize(l, n) = l
      BY <1>3 DEF be_list_resize
    <2>2. Holds(l, t)
      BY <1>1, <1>2, <1>3, Fields DEF Holds
    <2> QED
      BY <2>1, <2>2 DEF s, t
  <1>4. CASE n # l.count
    <2> DEFINE g == Reserved(l, n)
               h == [i \in DOMAIN g.data |-> IF i \in l.count + 1 .. n THEN NIL ELSE g.data[i]]
               f == IF g = l THEN g.data ELSE h
    <2>1. Roomier(l, g, n)
      BY ReservedIs
    <2>2. be_list_resize(l, n) = Shaped(g, n, f)
      BY <1>4 DEF be_list_resize, Shaped
    <2>3. g = l => be_nextsize(n) <= Len(l.data)
      <3>1. SUFFICES ASSUME ~(be_nextsize(n) <= Len(l.data)), g = l PROVE FALSE
        OBVIOUS
      <3>2. be_nextsize(n) \in Nat /\ be_nextsize(n) > n
        BY NextSizeIs
      <3>3. g = Extend(l, be_nextsize(n))
        BY <3>1 DEF Reserved, Extend
      <3>4. be_nextsize(n) >= Len(l.data)
        BY <3>1, <3>2, Fields
      <3>5. Roomier(l, Extend(l, be_nextsize(n)), be_nextsize(n))
        BY <3>2, <3>4, Extended
      <3>6. Len(l.data) >= be_nextsize(n)
        BY <3>1, <3>3, <3>5 DEF Roomier
      <3> QED
        BY <3>1, <3>6
    <2> HIDE DEF g
    <2>4. /\ IsArray(g) /\ g.count = l.count /\ n <= Len(g.data) /\ \A i \in 1 .. l.count : g.data[i] = l.data[i]
      BY <2>1, Fields DEF Roomier
    <2>5. /\ g = [data |-> g.data, count |-> g.count] /\ DOMAIN g.data = 1 .. Len(g.data)
          /\ Len(g.data) \in Nat /\ l.count \in Nat /\ n \in 0 .. Len(g.data) /\ g.data \in Seq(Cell)
          /\ \A i \in 1 .. Len(g.data) : g.data[i] \in Cell
      BY <2>4, Fields
    <2>6. f = [i \in DOMAIN g.data |-> f[i]]
      <3>1. g.data = [i \in DOMAIN g.data |-> g.data[i]]
        BY <2>5
      <3>2. h = [i \in DOMAIN g.data |-> h[i]]
        OBVIOUS
      <3> HIDE DEF h
      <3> QED
        BY <3>1, <3>2
    <2>7. ASSUME NEW i \in 1 .. Len(g.data) PROVE f[i] \in Cell
      BY <2>5 DEF Cell
    <2>8. ASSUME NEW i \in 1 .. n PROVE f[i] = t[i]
      <3>1. CASE i <= l.count
        <4>1. f[i] = g.data[i]
          BY <3>1, <2>5
        <4> QED
          BY <3>1, <4>1, <1>1, <1>2, <2>4, <2>5
      <3>2. CASE i > l.count
        <4>1. t[i] = NIL
          BY <3>2, <1>1, <1>2, <2>5
        <4>2. CASE g = l
          <5>1. be_nextsize(n) <= Len(l.data) /\ n > l.count /\ i \in l.count + 1 .. n
            BY <4>2, <3>2, <2>3, <2>5
          <5>2. l.data[i] = NIL
            BY <5>1 DEF Again
          <5> QED
            BY <4>1, <4>2, <5>2
        <4>3. CASE g # l
          BY <4>1, <4>3, <3>2, <2>5
        <4> QED
          BY <4>2, <4>3
      <3> QED
        BY <3>1, <3>2, <2>5
    <2> HIDE DEF f, h
    <2>9. be_list_resize(l, n) = Array(f, n)
      BY <2>2, <2>5, Parts
    <2>10. IsArray(Array(f, n)) /\ Array(f, n).data = f /\ Array(f, n).count = n
      BY <2>4, <2>5, <2>6, <2>7, Rewritten
    <2>11. Holds(Array(f, n), t)
      BY <2>8, <2>10, <1>2 DEF Holds
    <2> QED
      BY <2>9, <2>11 DEF t, s
  <1> QED
    BY <1>3, <1>4

LEMMA MergeIs ==
    ASSUME NEW l, IsArray(l), NEW s \in Seq(Cell), l.count + Len(s) < 2 ^ 30
    PROVE  Holds(be_list_merge(l, s), Items(l) \o s)
  <1> DEFINE a == Items(l)
             t == a \o s
             n == l.count + Len(s)
  <1>1. a \in Seq(Cell) /\ Len(a) = l.count /\ \A i \in 1 .. l.count : a[i] = l.data[i]
    BY ItemsIs
  <1>0. l.count \in Nat /\ Len(s) \in Nat /\ n \in Nat
    BY Fields
  <1> HIDE DEF a
  <1>2. Joins(Cell, t, a, s)
    BY <1>1, Joined
  <1> HIDE DEF t
  <1>3. t \in Seq(Cell) /\ Len(t) = n
    BY <1>1, <1>2 DEF Joins
  <1>4. ASSUME NEW i \in 1 .. n PROVE t[i] = IF i <= l.count THEN l.data[i] ELSE s[i - l.count]
    <2>1. CASE i <= l.count
      BY <2>1, <1>0, <1>1, <1>2 DEF Joins
    <2>2. CASE ~(i <= l.count)
      <3>1. i - l.count \in 1 .. Len(s) /\ Len(a) + (i - l.count) = i
        BY <2>2, <1>0, <1>1
      <3> QED
        BY <2>2, <3>1, <1>2 DEF Joins
    <2> QED
      BY <2>1, <2>2
  <1>5. CASE n = 0
    <2>1. be_list_merge(l, s) = l
      BY <1>5 DEF be_list_merge
    <2>2. Holds(l, t)
      BY <1>0, <1>3, <1>4, <1>5, Fields DEF Holds
    <2> QED
      BY <2>1, <2>2 DEF a, t
  <1>6. CASE n # 0
    <2> DEFINE g == Reserved(l, n)
               f == [i \in DOMAIN g.data |-> IF i \in l.count + 1 .. l.count + Len(s)
                                             THEN s[i - l.count] ELSE g.data[i]]
    <2>1. Roomier(l, g, n)
      BY <1>0, ReservedIs
    <2>2. be_list_merge(l, s) = Shaped(g, g.count + Len(s), f)
      BY <1>6 DEF be_list_merge, Shaped
    <2> HIDE DEF g
    <2>3. IsArray(g) /\ g.count = l.count /\ n <= Len(g.data) /\ \A i \in 1 .. l.count : g.data[i] = l.data[i]
      BY <2>1, Fields DEF Roomier
    <2>4. /\ g = [data |-> g.data, count |-> g.count] /\ DOMAIN g.data = 1 .. Len(g.data)
          /\ Len(g.data) \in Nat /\ n \in 0 .. Len(g.data)
          /\ \A i \in 1 .. Len(g.data) : g.data[i] \in Cell
      BY <1>0, <2>3, Fields
    <2>5. f = [i \in DOMAIN g.data |-> f[i]]
      OBVIOUS
    <2>6. ASSUME NEW i \in 1 .. Len(g.data) PROVE f[i] \in Cell
      <3>1. i \in l.count + 1 .. l.count + Len(s) => i - l.count \in 1 .. Len(s)
        BY <1>0
      <3>2. i \in l.count + 1 .. l.count + Len(s) => s[i - l.count] \in Cell
        BY <3>1
      <3> QED
        BY <2>4, <3>2
    <2>7. ASSUME NEW i \in 1 .. n PROVE f[i] = t[i]
      BY <1>0, <1>4, <2>3, <2>4
    <2> HIDE DEF f
    <2>9. be_list_merge(l, s) = Array(f, n)
      BY <2>2, <2>3, <2>4, Parts
    <2> HIDE DEF n
    <2>10. IsArray(Array(f, n)) /\ Array(f, n).data = f /\ Array(f, n).count = n
      BY <2>3, <2>4, <2>5, <2>6, Rewritten
    <2>11. Holds(Array(f, n), t)
      BY <2>7, <2>10, <1>3 DEF Holds
    <2> QED
      BY <2>9, <2>11 DEF t, a
  <1> QED
    BY <1>5, <1>6

\* The greatest of a set of numbers up to a bound.
LEMMA MaxIs ==
    ASSUME NEW n \in Nat, NEW S \in SUBSET (1 .. n), S # {}
    PROVE  Max(S) \in S /\ \A k \in S : k <= Max(S)
  <1>1. PICK m \in S : \A k \in S : k <= m
    <2>1. S \in SUBSET (0 .. n)
      OBVIOUS
    <2> QED
      BY <2>1, Greatest
  <1>2. \E x \in S : \A y \in S : x >= y
    BY <1>1
  <1>3. Max(S) \in S /\ \A y \in S : Max(S) >= y
    BY <1>2, Zenon DEF Max
  <1> QED
    BY <1>3

-----------------------------------------------------------------------------
(* Folds. *)

\* The elements of s are pushed one by one: a value for every set of positions.
Pushes(g, s, m) ==
    g = [q \in SUBSET (1 .. m) |->
           IF q = {} THEN be_list_new ELSE be_list_push(g[q \ {Max(q)}], s[Max(q)])]

LEMMA PushesExist ==
    ASSUME NEW n \in Nat, NEW s
    PROVE  \E g : Pushes(g, s, n)
  <1> DEFINE P == {m \in 0 .. n : \E g : Pushes(g, s, m)}
  <1>1. 0 \in P
    <2> DEFINE g == [q \in SUBSET (1 .. 0) |-> be_list_new]
    <2>1. \A q \in SUBSET (1 .. 0) : q = {}
      OBVIOUS
    <2>2. g = [q \in SUBSET (1 .. 0) |->
                 IF q = {} THEN be_list_new ELSE be_list_push(g[q \ {Max(q)}], s[Max(q)])]
      BY <2>1, Zenon
    <2> HIDE DEF g
    <2>3. Pushes(g, s, 0)
      BY <2>2 DEF Pushes
    <2> QED
      BY <2>3
  <1>2. ASSUME NEW m \in 0 .. n, m < n, m \in P PROVE m + 1 \in P
    <2>1. PICK g : Pushes(g, s, m)
      BY <1>2
    <2> DEFINE h == [q \in SUBSET (1 .. m + 1) |->
                       IF m + 1 \in q THEN be_list_push(g[q \ {m + 1}], s[m + 1]) ELSE g[q]]
    <2>2. ASSUME NEW q \in SUBSET (1 .. m + 1)
          PROVE  h[q] = IF q = {} THEN be_list_new ELSE be_list_push(h[q \ {Max(q)}], s[Max(q)])
      <3>1. CASE m + 1 \in q
        <4>1. Max(q) = m + 1
          <5>1. m + 1 \in Nat /\ q # {}
            BY <3>1
          <5>2. Max(q) \in q /\ m + 1 <= Max(q)
            BY <5>1, <3>1, MaxIs
          <5>3. Max(q) \in 1 .. m + 1
            BY <5>2
          <5> QED
            BY <5>1, <5>2, <5>3
        <4>2. q \ {m + 1} \in SUBSET (1 .. m + 1) /\ m + 1 \notin q \ {m + 1}
          OBVIOUS
        <4>3. h[q \ {m + 1}] = g[q \ {m + 1}]
          BY <4>2
        <4>4. h[q] = be_list_push(g[q \ {m + 1}], s[m + 1])
          BY <3>1
        <4> HIDE DEF h
        <4> QED
          BY <4>1, <4>3, <4>4, <3>1
      <3>2. CASE m + 1 \notin q
        <4>1. q \in SUBSET (1 .. m)
          BY <3>2
        <4>2. h[q] = g[q]
          BY <3>2
        <4>3. g[q] = IF q = {} THEN be_list_new ELSE be_list_push(g[q \ {Max(q)}], s[Max(q)])
          BY <4>1, <2>1 DEF Pushes
        <4>4. q \ {Max(q)} \in SUBSET (1 .. m + 1) /\ m + 1 \notin q \ {Max(q)}
          BY <3>2
        <4>5. h[q \ {Max(q)}] = g[q \ {Max(q)}]
          BY <4>4
        <4> HIDE DEF h
        <4> QED
          BY <4>2, <4>3, <4>5
      <3> QED
        BY <3>1, <3>2
    <2>3. h = [q \in SUBSET (1 .. m + 1) |-> h[q]]
      OBVIOUS
    <2> HIDE DEF h
    <2>4. Pushes(h, s, m + 1)
      BY <2>2, <2>3 DEF Pushes
    <2>5. m + 1 \in 0 .. n
      BY <1>2
    <2> QED
      BY <2>4, <2>5
  <1> HIDE DEF P
  <1>3. n \in P
    BY <1>1, <1>2, UpTo
  <1> QED
    BY <1>3 DEF P

PushSteps(f, s, n) ==
    f[0] = be_list_new /\ \A i \in 1 .. n : f[i] = be_list_push(f[i - 1], s[i])

LEMMA PushGoes ==
    ASSUME NEW n \in Nat, NEW s, DOMAIN s = 1 .. n
    PROVE  \E f : PushSteps(f, s, n) /\ FoldLeft(be_list_push, be_list_new, s) = f[n]
  <1> DEFINE body(k) == [q \in SUBSET (DOMAIN s) |->
                           IF q = {} THEN be_list_new ELSE be_list_push(k[q \ {Max(q)}], s[Max(q)])]
             K == CHOOSE k : k = body(k)
             f == [i \in 0 .. n |-> K[1 .. i]]
  <1>1. FoldLeft(be_list_push, be_list_new, s) = K[DOMAIN s]
    BY DEF FoldLeft, MapThenFoldSet
  <1>2. PICK g : Pushes(g, s, n)
    BY PushesExist
  <1>3. g = body(g)
    BY <1>2 DEF Pushes
  <1>4. K = body(K)
    <2> HIDE DEF body
    <2> QED
      BY <1>3, Zenon
  <1> HIDE DEF K
  <1>5. f[0] = be_list_new
    <2>1. f[0] = K[1 .. 0] /\ 1 .. 0 = {}
      OBVIOUS
    <2>2. K[{}] = be_list_new
      BY <1>4
    <2> HIDE DEF f
    <2> QED
      BY <2>1, <2>2
  <1>6. ASSUME NEW i \in 1 .. n PROVE f[i] = be_list_push(f[i - 1], s[i])
    <2>1. 1 .. i \in SUBSET (DOMAIN s) /\ 1 .. i # {} /\ i \in 1 .. i
      OBVIOUS
    <2>2. Max(1 .. i) = i
      <3>1. Max(1 .. i) \in 1 .. i /\ i <= Max(1 .. i)
        BY <2>1, MaxIs
      <3> QED
        BY <3>1
    <2>3. (1 .. i) \ {i} = 1 .. i - 1
      OBVIOUS
    <2>4. K[1 .. i] = be_list_push(K[(1 .. i) \ {Max(1 .. i)}], s[Max(1 .. i)])
      BY <1>4, <2>1, Zenon
    <2>5. f[i] = K[1 .. i] /\ f[i - 1] = K[1 .. i - 1]
      OBVIOUS
    <2> HIDE DEF f
    <2> QED
      BY <2>2, <2>3, <2>4, <2>5
  <1>8. f[n] = K[DOMAIN s]
    OBVIOUS
  <1>9. FoldLeft(be_list_push, be_list_new, s) = f[n]
    BY <1>1, <1>8
  <1> HIDE DEF f, K
  <1> QED
    BY <1>5, <1>6, <1>9 DEF PushSteps

Pushed(f, s, i) == Holds(f[i], SubSeq(s, 1, i))

\* Pushing the elements of a sequence makes a list of them.
LEMMA PushedAll ==
    ASSUME NEW s \in Seq(Cell), Len(s) < 2 ^ 30
    PROVE  Holds(FoldLeft(be_list_push, be_list_new, s), s)
  <1> DEFINE n == Len(s)
  <1>1. n \in Nat /\ DOMAIN s = 1 .. n
    OBVIOUS
  <1>2. PICK f : PushSteps(f, s, n) /\ FoldLeft(be_list_push, be_list_new, s) = f[n]
    BY <1>1, PushGoes
  <1> DEFINE P == {i \in 0 .. n : Pushed(f, s, i)}
  <1>3. 0 \in P
    <2>1. SubSeq(s, 1, 0) = << >>
      OBVIOUS
    <2>2. f[0] = be_list_new
      BY <1>2 DEF PushSteps
    <2>3. Pushed(f, s, 0)
      BY <2>1, <2>2, NewIs DEF Pushed
    <2> QED
      BY <1>1, <2>3
  <1>4. ASSUME NEW i \in 0 .. n, i < n, i \in P PROVE i + 1 \in P
    <2> DEFINE t == SubSeq(s, 1, i)
    <2>0. Holds(f[i], t)
      BY <1>4 DEF Pushed
    <2>1. IsArray(f[i]) /\ t \in Seq(Cell) /\ Len(t) = i /\ f[i].count = i
      BY <1>4, <2>0 DEF Holds
    <2>2. Items(f[i]) = t
      BY <2>0, <2>1, OnlyItems
    <2>3. i + 1 \in 1 .. n /\ s[i + 1] \in Cell /\ (i + 1) - 1 = i
      BY <1>1, <1>4
    <2>4. f[i + 1] = be_list_push(f[i], s[i + 1])
      BY <1>2, <2>3 DEF PushSteps
    <2>5. f[i].count < 2 ^ 30
      BY <2>1, <1>1, <1>4
    <2>6. Holds(be_list_push(f[i], s[i + 1]), Append(t, s[i + 1]))
      BY <2>1, <2>2, <2>3, <2>5, PushIs
    <2>7. Append(t, s[i + 1]) = SubSeq(s, 1, i + 1)
      BY <2>3
    <2> HIDE DEF t
    <2>8. Pushed(f, s, i + 1)
      BY <2>4, <2>6, <2>7 DEF Pushed
    <2> QED
      BY <1>1, <1>4, <2>8
  <1> HIDE DEF P, n
  <1>5. n \in P
    BY <1>1, <1>3, <1>4, UpTo
  <1>6. Holds(f[n], SubSeq(s, 1, n))
    BY <1>5 DEF P, Pushed
  <1>7. SubSeq(s, 1, n) = s
    BY DEF n
  <1> QED
    BY <1>2, <1>6, <1>7

\* What a part adds to a text.
Parted(parts, x) == parts \o (IF parts = << >> THEN <<x>> ELSE <<"delimiter", x>>)

PartSteps(f, s, n) ==
    f[0] = << >> /\ \A i \in 1 .. n : f[i] = Parted(f[i - 1], s[i])

\* The parts are added one by one: a value for every set of positions.
PartSets(g, s, m) ==
    g = [q \in SUBSET (1 .. m) |->
           IF q = {} THEN << >> ELSE Parted(g[q \ {Max(q)}], s[Max(q)])]

LEMMA PartSetsExist ==
    ASSUME NEW n \in Nat, NEW s
    PROVE  \E g : PartSets(g, s, n)
  <1> DEFINE P == {m \in 0 .. n : \E g : PartSets(g, s, m)}
  <1>1. 0 \in P
    <2> DEFINE g == [q \in SUBSET (1 .. 0) |-> << >>]
    <2>1. \A q \in SUBSET (1 .. 0) : q = {}
      OBVIOUS
    <2>2. g = [q \in SUBSET (1 .. 0) |->
                 IF q = {} THEN << >> ELSE Parted(g[q \ {Max(q)}], s[Max(q)])]
      BY <2>1, Zenon
    <2> HIDE DEF g
    <2>3. PartSets(g, s, 0)
      BY <2>2 DEF PartSets
    <2> QED
      BY <2>3
  <1>2. ASSUME NEW m \in 0 .. n, m < n, m \in P PROVE m + 1 \in P
    <2>1. PICK g : PartSets(g, s, m)
      BY <1>2
    <2> DEFINE h == [q \in SUBSET (1 .. m + 1) |->
                       IF m + 1 \in q THEN Parted(g[q \ {m + 1}], s[m + 1]) ELSE g[q]]
    <2>2. ASSUME NEW q \in SUBSET (1 .. m + 1)
          PROVE  h[q] = IF q = {} THEN << >> ELSE Parted(h[q \ {Max(q)}], s[Max(q)])
      <3>1. CASE m + 1 \in q
        <4>1. Max(q) = m + 1
          <5>1. m + 1 \in Nat /\ q # {}
            BY <3>1
          <5>2. Max(q) \in q /\ m + 1 <= Max(q)
            BY <5>1, <3>1, MaxIs
          <5>3. Max(q) \in 1 .. m + 1
            BY <5>2
          <5> QED
            BY <5>1, <5>2, <5>3
        <4>2. q \ {m + 1} \in SUBSET (1 .. m + 1) /\ m + 1 \notin q \ {m + 1}
          OBVIOUS
        <4>3. h[q \ {m + 1}] = g[q \ {m + 1}]
          BY <4>2
        <4>4. h[q] = Parted(g[q \ {m + 1}], s[m + 1])
          BY <3>1
        <4> HIDE DEF h
        <4> QED
          BY <4>1, <4>3, <4>4, <3>1
      <3>2. CASE m + 1 \notin q
        <4>1. q \in SUBSET (1 .. m)
          BY <3>2
        <4>2. h[q] = g[q]
          BY <3>2
        <4>3. g[q] = IF q = {} THEN << >> ELSE Parted(g[q \ {Max(q)}], s[Max(q)])
          BY <4>1, <2>1 DEF PartSets
        <4>4. q \ {Max(q)} \in SUBSET (1 .. m + 1) /\ m + 1 \notin q \ {Max(q)}
          BY <3>2
        <4>5. h[q \ {Max(q)}] = g[q \ {Max(q)}]
          BY <4>4
        <4> HIDE DEF h
        <4> QED
          BY <4>2, <4>3, <4>5
      <3> QED
        BY <3>1, <3>2
    <2>3. h = [q \in SUBSET (1 .. m + 1) |-> h[q]]
      OBVIOUS
    <2> HIDE DEF h
    <2>4. PartSets(h, s, m + 1)
      BY <2>2, <2>3 DEF PartSets
    <2>5. m + 1 \in 0 .. n
      BY <1>2
    <2> QED
      BY <2>4, <2>5
  <1> HIDE DEF P
  <1>3. n \in P
    BY <1>1, <1>2, UpTo
  <1> QED
    BY <1>3 DEF P

LEMMA PartGoes ==
    ASSUME NEW n \in Nat, NEW s, DOMAIN s = 1 .. n
    PROVE  \E f : PartSteps(f, s, n) /\ FoldLeft(Parted, << >>, s) = f[n]
  <1> DEFINE body(k) == [q \in SUBSET (DOMAIN s) |->
                           IF q = {} THEN << >> ELSE Parted(k[q \ {Max(q)}], s[Max(q)])]
             K == CHOOSE k : k = body(k)
             f == [i \in 0 .. n |-> K[1 .. i]]
  <1>1. FoldLeft(Parted, << >>, s) = K[DOMAIN s]
    BY DEF FoldLeft, MapThenFoldSet
  <1>2. PICK g : PartSets(g, s, n)
    BY PartSetsExist
  <1>3. g = body(g)
    BY <1>2 DEF PartSets
  <1>4. K = body(K)
    <2> HIDE DEF body
    <2> QED
      BY <1>3, Zenon
  <1> HIDE DEF K
  <1>5. f[0] = << >>
    <2>1. f[0] = K[1 .. 0] /\ 1 .. 0 = {}
      OBVIOUS
    <2>2. K[{}] = << >>
      BY <1>4
    <2> HIDE DEF f
    <2> QED
      BY <2>1, <2>2
  <1>6. ASSUME NEW i \in 1 .. n PROVE f[i] = Parted(f[i - 1], s[i])
    <2>1. 1 .. i \in SUBSET (DOMAIN s) /\ 1 .. i # {} /\ i \in 1 .. i
      OBVIOUS
    <2>2. Max(1 .. i) = i
      <3>1. Max(1 .. i) \in 1 .. i /\ i <= Max(1 .. i)
        BY <2>1, MaxIs
      <3> QED
        BY <3>1
    <2>3. (1 .. i) \ {i} = 1 .. i - 1
      OBVIOUS
    <2>4. K[1 .. i] = Parted(K[(1 .. i) \ {Max(1 .. i)}], s[Max(1 .. i)])
      BY <1>4, <2>1, Zenon
    <2>5. f[i] = K[1 .. i] /\ f[i - 1] = K[1 .. i - 1]
      OBVIOUS
    <2> HIDE DEF f
    <2> QED
      BY <2>2, <2>3, <2>4, <2>5
  <1>8. f[n] = K[DOMAIN s]
    OBVIOUS
  <1>9. FoldLeft(Parted, << >>, s) = f[n]
    BY <1>1, <1>8
  <1> HIDE DEF f, K
  <1> QED
    BY <1>5, <1>6, <1>9 DEF PartSteps

\* What a list of parts is: the elements, and a delimiter between them.
Spaced(s, n) == [i \in 1 .. 2 * n - 1 |-> IF i % 2 = 1 THEN s[(i + 1) \div 2] ELSE "delimiter"]

LEMMA SpacedIs ==
    ASSUME NEW s, NEW n \in Nat, NEW S, \A i \in 1 .. n : s[i] \in S, "delimiter" \in S
    PROVE  /\ Spaced(s, n) \in Seq(S) /\ Len(Spaced(s, n)) = IF n = 0 THEN 0 ELSE 2 * n - 1
           /\ Spaced(s, 0) = << >>
           /\ n > 0 => Spaced(s, n) # << >>
  <1> DEFINE t == Spaced(s, n)
             m == IF n = 0 THEN 0 ELSE 2 * n - 1
  <1>1. 1 .. 2 * n - 1 = 1 .. m /\ m \in Nat
    OBVIOUS
  <1>2. \A i \in 1 .. m : i % 2 = 1 => (i + 1) \div 2 \in 1 .. n
    OBVIOUS
  <1>3. t = [i \in 1 .. m |-> IF i % 2 = 1 THEN s[(i + 1) \div 2] ELSE "delimiter"]
    BY <1>1 DEF Spaced
  <1> HIDE DEF t
  <1>4. t = [i \in 1 .. m |-> t[i]]
    BY <1>3
  <1>5. \A i \in 1 .. m : t[i] \in S
    BY <1>2, <1>3
  <1> HIDE DEF m
  <1>6. t \in Seq(S) /\ Len(t) = m
    BY <1>1, <1>4, <1>5, Tabled
  <1>7. n > 0 => t # << >>
    BY <1>6 DEF m
  <1>8. Spaced(s, 0) = << >>
    BY DEF Spaced
  <1> QED
    BY <1>6, <1>7, <1>8 DEF t, m

LEMMA SpacedNext ==
    ASSUME NEW s, NEW n \in Nat, NEW S, \A i \in 1 .. n + 1 : s[i] \in S, "delimiter" \in S
    PROVE  Parted(Spaced(s, n), s[n + 1]) = Spaced(s, n + 1)
  <1> DEFINE a == Spaced(s, n)
             b == IF a = << >> THEN <<s[n + 1]>> ELSE <<"delimiter", s[n + 1]>>
             t == a \o b
             u == Spaced(s, n + 1)
  <1>1. a \in Seq(S) /\ Len(a) = (IF n = 0 THEN 0 ELSE 2 * n - 1) /\ (n > 0 <=> a # << >>)
    BY SpacedIs
  <1>2. u \in Seq(S) /\ Len(u) = 2 * n + 1
    BY SpacedIs
  <1>3. \A i \in 1 .. 2 * n - 1 : a[i] = IF i % 2 = 1 THEN s[(i + 1) \div 2] ELSE "delimiter"
    BY DEF Spaced
  <1>4. \A i \in 1 .. 2 * n + 1 : u[i] = IF i % 2 = 1 THEN s[(i + 1) \div 2] ELSE "delimiter"
    BY DEF Spaced
  <1> HIDE DEF a, u
  <1>5. Parted(a, s[n + 1]) = t
    BY DEF Parted
  <1>6. s[n + 1] \in S
    OBVIOUS
  <1>7. CASE n = 0
    <2>1. b = <<s[n + 1]>> /\ a = << >>
      BY <1>1, <1>7
    <2>2. t = <<s[1]>>
      BY <2>1, <1>7
    <2>3. u[1] = s[1]
      BY <1>4, <1>7
    <2> HIDE DEF t
    <2>4. Len(u) = 1
      BY <1>2, <1>7
    <2>5. t = u
      BY <2>2, <2>3, <2>4, <1>2, <1>6, <1>7
    <2>6. Parted(a, s[n + 1]) = u
      BY <1>5, <2>5 DEF t
    <2> QED
      BY <2>6 DEF a, u
  <1>8. CASE n > 0
    <2>1. b = <<"delimiter", s[n + 1]>> /\ Len(a) = 2 * n - 1
      BY <1>1, <1>8
    <2> HIDE DEF b
    <2>2. b \in Seq(S) /\ Len(b) = 2 /\ b[1] = "delimiter" /\ b[2] = s[n + 1]
      BY <2>1, <1>6
    <2>3. Joins(S, t, a, b)
      BY <2>2, <1>1, Joined
    <2> HIDE DEF t
    <2>4. t \in Seq(S) /\ Len(t) = 2 * n + 1
      BY <2>1, <2>2, <2>3 DEF Joins
    <2>5. ASSUME NEW i \in 1 .. 2 * n + 1 PROVE t[i] = u[i]
      <3>1. CASE i \in 1 .. 2 * n - 1
        <4>1. t[i] = a[i]
          BY <3>1, <2>1, <2>3 DEF Joins
        <4> QED
          BY <3>1, <4>1, <1>3, <1>4
      <3>2. CASE i = 2 * n
        <4>1. Len(a) + 1 = i /\ 1 \in 1 .. Len(b)
          BY <3>2, <2>1, <2>2
        <4>2. t[i] = b[1]
          BY <4>1, <2>3 DEF Joins
        <4>3. i % 2 = 0
          BY <3>2
        <4> QED
          BY <4>2, <4>3, <2>2, <1>4
      <3>3. CASE i = 2 * n + 1
        <4>1. Len(a) + 2 = i /\ 2 \in 1 .. Len(b)
          BY <3>3, <2>1, <2>2
        <4>2. t[i] = b[2]
          BY <4>1, <2>3 DEF Joins
        <4>3. i % 2 = 1 /\ (i + 1) \div 2 = n + 1
          BY <3>3
        <4> QED
          BY <4>2, <4>3, <2>2, <1>4
      <3> QED
        BY <3>1, <3>2, <3>3
    <2>6. t = u
      BY <2>4, <2>5, <1>2, SeqEqual
    <2> QED
      BY <1>5, <2>6 DEF a, u, t
  <1> QED
    BY <1>7, <1>8

\* concat puts a delimiter between the elements.
LEMMA ConcatIs ==
    ASSUME NEW s, NEW S, s \in Seq(S), "delimiter" \in S
    PROVE  FoldLeft(Parted, << >>, s) = Spaced(s, Len(s))
  <1> DEFINE n == Len(s)
  <1>1. n \in Nat /\ DOMAIN s = 1 .. n /\ \A i \in 1 .. n : s[i] \in S
    OBVIOUS
  <1>2. PICK f : PartSteps(f, s, n) /\ FoldLeft(Parted, << >>, s) = f[n]
    BY <1>1, PartGoes
  <1> HIDE DEF n
  <1> DEFINE P == {i \in 0 .. n : f[i] = Spaced(s, i)}
  <1>3. 0 \in P
    <2>1. Spaced(s, 0) = << >>
      BY DEF Spaced
    <2> QED
      BY <1>1, <1>2, <2>1 DEF PartSteps
  <1>4. ASSUME NEW i \in 0 .. n, i < n, i \in P PROVE i + 1 \in P
    <2>1. i + 1 \in 1 .. n /\ i + 1 - 1 = i /\ i \in Nat /\ f[i] = Spaced(s, i)
      BY <1>1, <1>4
    <2>2. f[i + 1] = Parted(Spaced(s, i), s[i + 1])
      BY <1>2, <2>1 DEF PartSteps
    <2>3. \A j \in 1 .. i + 1 : s[j] \in S
      BY <1>1, <1>4
    <2>4. f[i + 1] = Spaced(s, i + 1)
      BY <2>1, <2>2, <2>3, SpacedNext
    <2> QED
      BY <1>1, <2>1, <2>4
  <1> HIDE DEF P
  <1>5. n \in P
    BY <1>1, <1>3, <1>4, UpTo
  <1> QED
    BY <1>2, <1>5 DEF P, n

-----------------------------------------------------------------------------
(* Lists and vectors. *)

Sized(l) == IsArray(l) /\ Len(l.data) <= MaxCapacity

\* A vector is an array and the index of its last element.
Arr(v) == Array(v.data, v.count)

IsVector(v) ==
    /\ v = [data |-> v.data, count |-> v.count, end |-> v.end]
    /\ v.data \in Seq(Cell) /\ v.count \in Nat /\ v.count <= Len(v.data)
    /\ v.end = v.count - 1 /\ Len(v.data) <= MaxCapacity

ListInv ==
    /\ Sized(list) /\ walked \in Nat /\ moved \in BOOLEAN
    /\ IsVector(vec)

LEMMA SizedIs ==
    ASSUME ListAssumption, NEW l, Sized(l)
    PROVE  l.count \in Nat /\ l.count <= 268435456 /\ l.count < 2 ^ 30 /\ Items(l) \in Seq(Cell) /\ Len(Items(l)) = l.count
  <1>1. MaxCapacity \in Nat /\ MaxCapacity <= 268435456
    <2>1. MaxCapacity \in 2 .. 2 ^ 28
      BY DEF ListAssumption
    <2> QED
      BY <2>1, Pow
  <1> QED
    BY <1>1, Fields, ItemsIs, Pow DEF Sized

\* What a call does to the list and returns, for calls that say so by Changed and Returned.
Says(c, l, r) ==
    Items(l) = AbstractL!Changed(c, Items(list)) /\ r = AbstractL!Returned(c, Items(list))

InPlace == {"push", "insert", "remove", "pop", "setitem", "resize", "reverse", "item", "range", "pick",
            "find", "equal", "size", "concat"}

LEMMA ChangeIs ==
    ASSUME NEW c, NEW l, NEW r, Change(c, l, r), ListInv, IsArray(l), c.op \in InPlace, Says(c, l, r)
    PROVE  AbstractL!Next /\ ListInv'
  <1>1. /\ call' = c /\ result' = r /\ list' = l /\ walked' = walked /\ vec' = vec /\ moved' \in BOOLEAN
        /\ Len(l.data) <= MaxCapacity
    BY DEF Change, ListInv
  <1>2. ListInv'
    BY <1>1 DEF ListInv, Sized, IsArray, IsVector
  <1>3. c.op \notin {"next", "iter", "init", "merge", "copy", "vector_push", "vector_remove_end",
                     "vector_resize", "vector_clear", "vector_end"}
    BY DEF InPlace
  <1>4. AbstractL!Advanced(c) = walked
    BY <1>3 DEF AbstractL!Advanced
  <1>5. AbstractL!Stacked(c, Items(vec)) = Items(vec)
    BY <1>3 DEF AbstractL!Stacked
  <1>6. AbstractL!Next
    BY <1>1, <1>3, <1>4, <1>5 DEF AbstractL!Next, Says
  <1> QED
    BY <1>2, <1>6

LEMMA m_pushIs ==
    ASSUME ListAssumption, ListInv, NEW v \in Elements, m_push(v) PROVE AbstractL!Next /\ ListInv'
  <1> DEFINE c == [op |-> "push", v |-> v]
             l == be_list_push(list, v)
             r == <<"done">>
  <1>1. Change(c, l, r)
    BY DEF m_push
  <1>2. Sized(list) /\ IsArray(list)
    BY DEF ListInv, Sized
  <1>3. v \in Cell
    BY DEF Cell, Elements
  <1>4. Holds(l, Append(Items(list), v))
    BY <1>2, <1>3, SizedIs, PushIs
  <1> HIDE DEF l
  <1>5. Items(l) = Append(Items(list), v) /\ IsArray(l)
    <2>1. Append(Items(list), v) \in Seq(Cell)
      BY <1>2, <1>3, SizedIs
    <2> QED
      BY <1>4, <2>1, OnlyItems DEF Holds
  <1>6. AbstractL!Changed(c, Items(list)) = Append(Items(list), v)
    BY DEF AbstractL!Changed
  <1>7. AbstractL!Returned(c, Items(list)) = r
    BY DEF AbstractL!Returned
  <1>8. Says(c, l, r)
    BY <1>5, <1>6, <1>7 DEF Says
  <1>9. c.op \in InPlace
    BY DEF InPlace
  <1> HIDE DEF c, r
  <1> QED
    BY <1>1, <1>5, <1>8, <1>9, ChangeIs

LEMMA concat_same == ASSUME NEW l PROVE list_concat(l) = FoldLeft(Parted, << >>, Items(l))
  BY DEF list_concat, FoldLeft, MapThenFoldSet, Parted

LEMMA HeldIs ==
    ASSUME NEW l, NEW t \in Seq(Cell), Holds(l, t)
    PROVE  Items(l) = t /\ IsArray(l)
  BY OnlyItems DEF Holds

\* The index that a number means, in the array and in the sequence.
LEMMA IndexIs ==
    ASSUME NEW l, IsArray(l), NEW k \in Int
    PROVE  /\ AbstractL!At(Items(l), k) = IndexOf(l, k) /\ IndexOf(l, k) \in Int
           /\ (AbstractL!In(Items(l), k) <=> There(l, k))
           /\ There(l, k) => /\ IndexOf(l, k) + 1 \in 1 .. Len(Items(l))
                             /\ Items(l)[IndexOf(l, k) + 1] = l.data[IndexOf(l, k) + 1]
  <1> DEFINE s == Items(l)
             p == IndexOf(l, k)
  <1>1. /\ Len(s) = l.count /\ l.count \in Nat /\ \A i \in 1 .. l.count : s[i] = l.data[i]
    BY ItemsIs, Fields
  <1> HIDE DEF s
  <1>2. AbstractL!At(s, k) = p /\ p \in Int
    BY <1>1 DEF AbstractL!At, IndexOf
  <1>3. AbstractL!In(s, k) <=> There(l, k)
    BY <1>1, <1>2 DEF AbstractL!In, There
  <1>4. There(l, k) => p \in 0 .. l.count - 1
    BY DEF There
  <1> HIDE DEF p
  <1>5. There(l, k) => p + 1 \in 1 .. Len(s) /\ s[p + 1] = l.data[p + 1]
    BY <1>1, <1>2, <1>4
  <1> QED
    BY <1>2, <1>3, <1>5 DEF s, p

LEMMA m_insertIs ==
    ASSUME ListAssumption, ListInv, NEW v \in Elements, NEW k \in Int, m_insert(k, v)
    PROVE  AbstractL!Next /\ ListInv'
  <1> DEFINE c == [op |-> "insert", k |-> k, v |-> v]
             l == be_list_insert(list, k, v)
             r == <<"done">>
             s == Items(list)
             p == IndexOf(list, k)
             t == IF p \in 0 .. list.count THEN InsertAt(s, p + 1, v) ELSE s
  <1>1. Change(c, l, r)
    BY DEF m_insert
  <1>2. Sized(list) /\ IsArray(list)
    BY DEF ListInv, Sized
  <1>3. v \in Cell
    BY DEF Cell, Elements
  <1>4. Holds(l, t)
    BY <1>2, <1>3, SizedIs, ListInsertIs
  <1>5. s \in Seq(Cell) /\ Len(s) = list.count
    BY <1>2, ItemsIs
  <1>6. AbstractL!At(s, k) = p
    BY <1>2, IndexIs
  <1> HIDE DEF l, s, p
  <1>7. t \in Seq(Cell)
    <2>1. p \in 0 .. list.count => InsertAt(s, p + 1, v) \in Seq(Cell)
      BY <1>3, <1>5, ElementIn DEF PutIn
    <2> QED
      BY <2>1, <1>5
  <1>8. Items(l) = t /\ IsArray(l)
    BY <1>4, <1>7, HeldIs
  <1>9. AbstractL!Changed(c, s) = t
    BY <1>5, <1>6 DEF AbstractL!Changed, InsertAt, AbstractL!InsertAt
  <1>10. AbstractL!Returned(c, s) = r
    BY DEF AbstractL!Returned
  <1>11. Says(c, l, r)
    BY <1>8, <1>9, <1>10 DEF Says, s
  <1>12. c.op \in InPlace
    BY DEF InPlace
  <1> HIDE DEF c, r
  <1> QED
    BY <1>1, <1>8, <1>11, <1>12, ChangeIs

\* The list without an element that is there.
Without(s, l, k) == IF There(l, k) THEN RemoveAt(s, IndexOf(l, k) + 1) ELSE s

LEMMA WithoutIs ==
    ASSUME NEW l, IsArray(l), NEW k \in Int
    PROVE  Items(be_list_remove(l, k)) = Without(Items(l), l, k) /\ IsArray(be_list_remove(l, k))
  <1> DEFINE s == Items(l)
             p == IndexOf(l, k) + 1
  <1>1. s \in Seq(Cell) /\ (There(l, k) => p \in 1 .. Len(s))
    BY ItemsIs, IndexIs
  <1>2. There(l, k) => RemoveAt(s, p) \in Seq(Cell)
    <2> HIDE DEF s, p
    <2> QED
      BY <1>1, ElementOut DEF OutOf
  <1>3. Without(s, l, k) \in Seq(Cell)
    BY <1>1, <1>2 DEF Without
  <1>4. Holds(be_list_remove(l, k), Without(s, l, k))
    BY ListRemoveIs DEF Without
  <1> QED
    BY <1>3, <1>4, HeldIs

LEMMA m_removeIs ==
    ASSUME ListAssumption, ListInv, NEW k \in Int, m_remove(k)
    PROVE  AbstractL!Next /\ ListInv'
  <1> DEFINE c == [op |-> "remove", k |-> k]
             l == be_list_remove(list, k)
             r == <<"done">>
             s == Items(list)
             t == Without(s, list, k)
  <1>1. Change(c, l, r)
    BY DEF m_remove
  <1>2. IsArray(list)
    BY DEF ListInv, Sized
  <1>3. Items(l) = t /\ IsArray(l)
    BY <1>2, WithoutIs
  <1>4. AbstractL!At(s, k) = IndexOf(list, k) /\ (AbstractL!In(s, k) <=> There(list, k))
    BY <1>2, IndexIs
  <1> HIDE DEF l, s
  <1>9. AbstractL!Changed(c, s) = t
    BY <1>4 DEF AbstractL!Changed, Without, RemoveAt, AbstractL!RemoveAt
  <1>10. AbstractL!Returned(c, s) = r
    BY DEF AbstractL!Returned
  <1>11. Says(c, l, r)
    BY <1>3, <1>9, <1>10 DEF Says, s
  <1>12. c.op \in InPlace
    BY DEF InPlace
  <1> HIDE DEF c, r
  <1> QED
    BY <1>1, <1>3, <1>11, <1>12, ChangeIs

\* Reading an element.
LEMMA ElementIs ==
    ASSUME NEW l, IsArray(l), NEW k \in Int
    PROVE  AbstractL!Element(Items(l), k) = be_getindex(l, k)
  <1>1. CASE There(l, k)
    BY <1>1, IndexIs DEF AbstractL!Element, be_getindex
  <1>2. CASE ~There(l, k)
    BY <1>2, IndexIs DEF AbstractL!Element, be_getindex
  <1> QED
    BY <1>1, <1>2

LEMMA m_popIs ==
    ASSUME ListAssumption, ListInv, NEW k \in Int, m_pop(k)
    PROVE  AbstractL!Next /\ ListInv'
  <1> DEFINE c == [op |-> "pop", k |-> k]
             l == IF There(list, k) THEN be_list_remove(list, k) ELSE list
             r == be_getindex(list, k)
             s == Items(list)
             t == Without(s, list, k)
  <1>1. Change(c, l, r)
    BY DEF m_pop
  <1>2. IsArray(list)
    BY DEF ListInv, Sized
  <1>3. Items(l) = t /\ IsArray(l)
    BY <1>2, WithoutIs DEF Without
  <1>4. AbstractL!At(s, k) = IndexOf(list, k) /\ (AbstractL!In(s, k) <=> There(list, k))
    BY <1>2, IndexIs
  <1>5. AbstractL!Element(s, k) = r
    BY <1>2, ElementIs
  <1> HIDE DEF l, s
  <1>9. AbstractL!Changed(c, s) = t
    BY <1>4 DEF AbstractL!Changed, Without, RemoveAt, AbstractL!RemoveAt
  <1>10. AbstractL!Returned(c, s) = r
    BY <1>5 DEF AbstractL!Returned
  <1>11. Says(c, l, r)
    BY <1>3, <1>9, <1>10 DEF Says, s
  <1>12. c.op \in InPlace
    BY DEF InPlace
  <1> HIDE DEF c, r
  <1> QED
    BY <1>1, <1>3, <1>11, <1>12, ChangeIs

LEMMA m_setitemIs ==
    ASSUME ListAssumption, Rare = {}, ListInv, NEW v \in Elements, NEW k \in Int, m_setitem(k, v)
    PROVE  AbstractL!Next /\ ListInv'
  <1> DEFINE c == [op |-> "setitem", k |-> k, v |-> v]
             l == IF k \in 0 .. list.count - 1 THEN [list EXCEPT !.data[k + 1] = v] ELSE list
             r == IF k < list.count THEN <<"done">> ELSE <<"index_error">>
             s == Items(list)
             t == IF k \in 0 .. list.count - 1 THEN [s EXCEPT ![k + 1] = v] ELSE s
  <1>1. Change(c, l, r) /\ k >= 0
    BY DEF m_setitem
  <1>2. IsArray(list) /\ list.count \in Nat
    BY Fields DEF ListInv, Sized
  <1>3. v \in Cell
    BY DEF Cell, Elements
  <1>4. Holds(l, t)
    BY <1>2, <1>3, SetIs, HoldsItems
  <1>5. s \in Seq(Cell) /\ Len(s) = list.count
    BY <1>2, ItemsIs
  <1>6. IndexOf(list, k) = k /\ (There(list, k) <=> k < list.count)
    BY <1>1, <1>2 DEF IndexOf, There
  <1>7. AbstractL!At(s, k) = k /\ (AbstractL!In(s, k) <=> k < list.count)
    BY <1>2, <1>6, IndexIs
  <1> HIDE DEF l, s
  <1>8. t \in Seq(Cell)
    BY <1>3, <1>5
  <1>9. Items(l) = t /\ IsArray(l)
    BY <1>4, <1>8, HeldIs
  <1>10. AbstractL!Changed(c, s) = t
    BY <1>1, <1>2, <1>7 DEF AbstractL!Changed
  <1>11. AbstractL!Returned(c, s) = r
    BY <1>7 DEF AbstractL!Returned
  <1>12. Says(c, l, r)
    BY <1>9, <1>10, <1>11 DEF Says, s
  <1>13. c.op \in InPlace
    BY DEF InPlace
  <1> HIDE DEF c, r, t
  <1> QED
    BY <1>1, <1>9, <1>12, <1>13, ChangeIs

LEMMA m_resizeIs ==
    ASSUME ListAssumption, Rare = {}, ListInv, NEW n \in 0 .. MaxIndex, m_resize(n)
    PROVE  AbstractL!Next /\ ListInv'
  <1> DEFINE c == [op |-> "resize", n |-> n]
             l == be_list_resize(list, n)
             r == <<"done">>
             s == Items(list)
             t == Padded(s, n)
  <1>1. Change(c, l, r) /\ ~Again(list, n)
    BY DEF m_resize, Regrows, Again
  <1>2. IsArray(list)
    BY DEF ListInv, Sized
  <1>3. n \in Nat /\ n < 2 ^ 30
    <2>1. MaxIndex \in 0 .. 2 ^ 28
      BY DEF ListAssumption
    <2> QED
      BY <2>1, Pow
  <1>4. Holds(l, t)
    BY <1>1, <1>2, <1>3, ListResizeIs
  <1>5. s \in Seq(Cell)
    BY <1>2, ItemsIs
  <1> HIDE DEF l, s
  <1>6. t \in Seq(Cell)
    BY <1>3, <1>5, PaddedIs
  <1>7. Items(l) = t /\ IsArray(l)
    BY <1>4, <1>6, HeldIs
  <1>8. AbstractL!Resized(s, n) = t
    BY DEF AbstractL!Resized, Padded
  <1>9. AbstractL!Changed(c, s) = t
    BY <1>8 DEF AbstractL!Changed
  <1>10. AbstractL!Returned(c, s) = r
    BY DEF AbstractL!Returned
  <1>11. Says(c, l, r)
    BY <1>7, <1>9, <1>10 DEF Says, s
  <1>12. c.op \in InPlace
    BY DEF InPlace
  <1> HIDE DEF c, r, t
  <1> QED
    BY <1>1, <1>7, <1>11, <1>12, ChangeIs

LEMMA m_reverseIs ==
    ASSUME ListAssumption, ListInv, m_reverse
    PROVE  AbstractL!Next /\ ListInv'
  <1> DEFINE c == [op |-> "reverse"]
             l == be_list_reverse(list)
             r == <<"done">>
             s == Items(list)
             t == Reverse(s)
  <1>1. Change(c, l, r)
    BY DEF m_reverse
  <1>2. IsArray(list)
    BY DEF ListInv, Sized
  <1>3. Holds(l, t)
    BY <1>2, ReverseIs
  <1>4. s \in Seq(Cell)
    BY <1>2, ItemsIs
  <1> HIDE DEF l, s
  <1>5. t \in Seq(Cell)
    <2>1. Len(s) \in Nat /\ \A i \in 1 .. Len(s) : (Len(s) - i) + 1 \in 1 .. Len(s)
      BY <1>4
    <2>2. t = [i \in 1 .. Len(s) |-> s[(Len(s) - i) + 1]]
      BY DEF Reverse
    <2>3. \A i \in 1 .. Len(s) : s[(Len(s) - i) + 1] \in Cell
      BY <1>4, <2>1
    <2> HIDE DEF t
    <2> QED
      BY <2>1, <2>2, <2>3
  <1>7. Items(l) = t /\ IsArray(l)
    BY <1>3, <1>5, HeldIs
  <1>9. AbstractL!Changed(c, s) = t
    BY DEF AbstractL!Changed, AbstractL!Reverse, Reverse
  <1>10. AbstractL!Returned(c, s) = r
    BY DEF AbstractL!Returned
  <1>11. Says(c, l, r)
    BY <1>7, <1>9, <1>10 DEF Says, s
  <1>12. c.op \in InPlace
    BY DEF InPlace
  <1> HIDE DEF c, r, t
  <1> QED
    BY <1>1, <1>7, <1>11, <1>12, ChangeIs

-----------------------------------------------------------------------------
(* Calls that read. *)

ReadOps == {"item", "range", "pick", "find", "equal", "size", "concat"}

LEMMA ReadingIs ==
    ASSUME NEW c, NEW r, Reading(c, r), ListInv, c.op \in ReadOps, r = AbstractL!Returned(c, Items(list))
    PROVE  AbstractL!Next /\ ListInv'
  <1>1. Change(c, list, r)
    BY DEF Reading
  <1>2. c.op \in InPlace /\ c.op \notin {"push", "insert", "remove", "pop", "setitem", "resize", "reverse",
                                         "init", "merge"}
    BY DEF InPlace, ReadOps
  <1>3. AbstractL!Changed(c, Items(list)) = Items(list)
    BY <1>2 DEF AbstractL!Changed
  <1>4. Says(c, list, r)
    BY <1>3 DEF Says
  <1>5. IsArray(list)
    BY DEF ListInv, Sized
  <1> QED
    BY <1>1, <1>2, <1>4, <1>5, ChangeIs

LEMMA itemIs ==
    ASSUME ListInv, NEW k \in Int, Reading([op |-> "item", k |-> k], be_getindex(list, k))
    PROVE  AbstractL!Next /\ ListInv'
  <1> DEFINE c == [op |-> "item", k |-> k]
  <1>1. AbstractL!Element(Items(list), k) = be_getindex(list, k)
    BY ElementIs DEF ListInv, Sized
  <1>2. AbstractL!Returned(c, Items(list)) = be_getindex(list, k)
    BY <1>1 DEF AbstractL!Returned
  <1>3. c.op \in ReadOps
    BY DEF ReadOps
  <1> HIDE DEF c
  <1>4. Reading(c, be_getindex(list, k))
    BY DEF c
  <1> QED
    BY <1>2, <1>3, <1>4, ReadingIs

\* The elements of a range.
LEMMA RangeIs ==
    ASSUME NEW l, IsArray(l), l.count < 2 ^ 30, NEW j \in Int, NEW k \in Int
    PROVE  Items(item_range(l, j, k)) = AbstractL!Between(Items(l), j, k)
  <1> DEFINE lower == IF IndexOf(l, j) < 0 THEN 0 ELSE IndexOf(l, j)
             upper == IF IndexOf(l, k) < l.count THEN IndexOf(l, k) ELSE l.count - 1
             q == [i \in 1 .. upper - lower + 1 |-> l.data[lower + i]]
             s == Items(l)
             t == SubSeq(s, lower + 1, upper + 1)
  <1>1. item_range(l, j, k) = FoldLeft(be_list_push, be_list_new, q)
    BY DEF item_range
  <1>2. /\ s \in Seq(Cell) /\ Len(s) = l.count /\ l.count \in Nat /\ \A i \in 1 .. l.count : s[i] = l.data[i]
    BY ItemsIs, Fields
  <1>3. IndexOf(l, j) \in Int /\ IndexOf(l, k) \in Int
    BY IndexIs
  <1>4. lower \in Nat /\ upper \in Int /\ upper + 1 <= l.count
    BY <1>2, <1>3
  <1>5. AbstractL!Between(s, j, k) = t
    <2>1. AbstractL!At(s, j) = IndexOf(l, j) /\ AbstractL!At(s, k) = IndexOf(l, k)
      BY IndexIs
    <2>2. (IF IndexOf(l, k) < l.count THEN IndexOf(l, k) + 1 ELSE l.count) = upper + 1
      BY <1>2, <1>3
    <2>3. AbstractL!Between(s, j, k) = SubSeq(s, (IF IndexOf(l, j) < 0 THEN 0 ELSE IndexOf(l, j)) + 1,
                                             IF IndexOf(l, k) < l.count THEN IndexOf(l, k) + 1 ELSE l.count)
      BY <2>1, <1>2 DEF AbstractL!Between
    <2> QED
      BY <2>2, <2>3
  <1> HIDE DEF lower, upper, s
  <1>6. CASE upper < lower
    <2>1. q = << >> /\ t = << >>
      BY <1>2, <1>4, <1>6
    <2> HIDE DEF q
    <2>2. q \in Seq(Cell) /\ Len(q) = 0
      BY <2>1
    <2>3. Holds(FoldLeft(be_list_push, be_list_new, q), q)
      <3>1. Len(q) < 2 ^ 30
        BY <2>2, Pow
      <3> QED
        BY <2>2, <3>1, PushedAll
    <2>4. Items(item_range(l, j, k)) = q
      BY <1>1, <2>2, <2>3, HeldIs
    <2> QED
      BY <1>5, <2>1, <2>4 DEF s
  <1>7. CASE upper >= lower
    <2> DEFINE n == upper - lower + 1
    <2>1. n \in Nat /\ n <= l.count /\ \A i \in 1 .. n : lower + i \in 1 .. l.count
      BY <1>4, <1>7, <1>2
    <2>2. t \in Seq(Cell) /\ Len(t) = n /\ \A i \in 1 .. n : t[i] = s[lower + i]
      <3>1. lower + 1 \in 1 .. Len(s) /\ upper + 1 \in 1 .. Len(s) /\ lower + 1 <= upper + 1
        BY <1>2, <1>4, <1>7
      <3>2. Len(t) = n /\ t \in Seq(Cell)
        BY <1>2, <1>4, <3>1
      <3>3. \A i \in 1 .. n : t[i] = s[lower + i]
        BY <1>2, <1>4, <3>1
      <3> QED
        BY <3>2, <3>3
    <2>3. q = [i \in 1 .. n |-> l.data[lower + i]]
      OBVIOUS
    <2> HIDE DEF n, q, t
    <2>4. \A i \in 1 .. n : q[i] = s[lower + i] /\ q[i] \in Cell
      BY <1>2, <2>1, <2>3
    <2>5. q = [i \in 1 .. n |-> q[i]]
      BY <2>3
    <2>6. q \in Seq(Cell) /\ Len(q) = n
      BY <2>1, <2>4, <2>5, Tabled
    <2>7. q = t
      BY <2>2, <2>4, <2>6, SeqEqual
    <2>8. Len(q) < 2 ^ 30
      BY <2>1, <2>6, <1>2, Pow
    <2>9. Holds(FoldLeft(be_list_push, be_list_new, q), q)
      BY <2>6, <2>8, PushedAll
    <2>10. Items(item_range(l, j, k)) = q
      BY <1>1, <2>6, <2>9, HeldIs
    <2> QED
      BY <1>5, <2>7, <2>10 DEF s
  <1> QED
    BY <1>4, <1>6, <1>7

LEMMA rangeIs ==
    ASSUME ListAssumption, ListInv, NEW j \in Int, NEW k \in Int,
           Reading([op |-> "range", j |-> j, k |-> k], <<"list", Items(item_range(list, j, k))>>)
    PROVE  AbstractL!Next /\ ListInv'
  <1> DEFINE c == [op |-> "range", j |-> j, k |-> k]
             x == Items(item_range(list, j, k))
             r == <<"list", x>>
  <1>1. Sized(list) /\ IsArray(list)
    BY DEF ListInv, Sized
  <1>2. x = AbstractL!Between(Items(list), j, k)
    BY <1>1, SizedIs, RangeIs
  <1>3. Reading(c, r)
    OBVIOUS
  <1> HIDE DEF x
  <1>4. AbstractL!Returned(c, Items(list)) = r
    BY <1>2 DEF AbstractL!Returned
  <1>5. c.op \in ReadOps
    BY DEF ReadOps
  <1> HIDE DEF c, r
  <1> QED
    BY <1>3, <1>4, <1>5, ReadingIs

LEMMA pickIs ==
    ASSUME ListAssumption, ListInv, NEW j \in Int, NEW k \in Int,
           Reading([op |-> "pick", s |-> <<j, k>>], <<"list", Items(item_list(list, <<j, k>>))>>)
    PROVE  AbstractL!Next /\ ListInv'
  <1> DEFINE ks == <<j, k>>
             c == [op |-> "pick", s |-> ks]
             x == Items(item_list(list, ks))
             r == <<"list", x>>
             s == Items(list)
             q == [i \in DOMAIN ks |-> IF ks[i] \in 0 .. list.count - 1 THEN list.data[ks[i] + 1] ELSE NIL]
  <1>1. Sized(list) /\ IsArray(list)
    BY DEF ListInv, Sized
  <1>2. item_list(list, ks) = FoldLeft(be_list_push, be_list_new, q)
    BY DEF item_list
  <1>3. s \in Seq(Cell) /\ Len(s) = list.count /\ list.count \in Nat /\ \A i \in 1 .. list.count : s[i] = list.data[i]
    BY <1>1, ItemsIs, Fields
  <1> HIDE DEF s
  <1>4. DOMAIN ks = 1 .. 2 /\ \A i \in 1 .. 2 : ks[i] \in Int
    OBVIOUS
  <1> HIDE DEF ks
  <1>5. \A i \in 1 .. 2 : q[i] = IF ks[i] \in 0 .. list.count - 1 THEN s[ks[i] + 1] ELSE NIL
    <2> SUFFICES ASSUME NEW i \in 1 .. 2
                 PROVE  q[i] = IF ks[i] \in 0 .. list.count - 1 THEN s[ks[i] + 1] ELSE NIL
      OBVIOUS
    <2>1. q[i] = IF ks[i] \in 0 .. list.count - 1 THEN list.data[ks[i] + 1] ELSE NIL
      BY <1>4
    <2>2. ks[i] \in 0 .. list.count - 1 => s[ks[i] + 1] = list.data[ks[i] + 1]
      BY <1>3
    <2> HIDE DEF q
    <2> QED
      BY <2>1, <2>2
  <1>6. q = [i \in 1 .. 2 |-> q[i]]
    BY <1>4
  <1>7. \A i \in 1 .. 2 : q[i] \in Cell
    BY <1>3, <1>4, <1>5 DEF Cell
  <1>8. AbstractL!Picked(s, ks) = [i \in 1 .. 2 |-> IF ks[i] \in 0 .. list.count - 1 THEN s[ks[i] + 1] ELSE NIL]
    BY <1>3, <1>4 DEF AbstractL!Picked
  <1> HIDE DEF q
  <1>9. AbstractL!Picked(s, ks) = q
    BY <1>5, <1>6, <1>8
  <1>10. q \in Seq(Cell) /\ Len(q) = 2
    BY <1>6, <1>7, Tabled
  <1>11. Holds(FoldLeft(be_list_push, be_list_new, q), q)
    <2>1. Len(q) < 2 ^ 30
      BY <1>10, Pow
    <2> QED
      BY <1>10, <2>1, PushedAll
  <1>12. x = q
    BY <1>2, <1>10, <1>11, HeldIs
  <1>13. Reading(c, r)
    BY DEF ks
  <1> HIDE DEF x
  <1>14. AbstractL!Returned(c, s) = r
    BY <1>9, <1>12 DEF AbstractL!Returned
  <1>15. c.op \in ReadOps
    BY DEF ReadOps
  <1> HIDE DEF c, r
  <1> QED
    BY <1>13, <1>14, <1>15, ReadingIs DEF s

LEMMA findIs ==
    ASSUME ListInv, NEW v, Reading([op |-> "find", v |-> v], m_find(list, v))
    PROVE  AbstractL!Next /\ ListInv'
  <1> DEFINE c == [op |-> "find", v |-> v]
             r == m_find(list, v)
             s == Items(list)
             hits == {i \in 1 .. list.count : list.data[i] = v}
             I == {i \in 1 .. Len(s) : s[i] = v}
  <1>1. Len(s) = list.count /\ \A i \in 1 .. list.count : s[i] = list.data[i]
    BY ItemsIs DEF ListInv, Sized
  <1> HIDE DEF s
  <1>2. hits = I
    BY <1>1
  <1>3. r = <<"value", IF hits = {} THEN NIL ELSE Min(hits) - 1>>
    BY DEF m_find
  <1>4. AbstractL!Contains(s, v) <=> I # {}
    BY DEF AbstractL!Contains
  <1>5. AbstractL!SelectInSeq(s, LAMBDA e : e = v) = IF I # {} THEN Min(I) ELSE 0
    BY DEF AbstractL!SelectInSeq, AbstractL!Min, Min
  <1>6. AbstractL!Returned(c, s) =
          <<"value", IF AbstractL!Contains(s, v) THEN AbstractL!SelectInSeq(s, LAMBDA e : e = v) - 1 ELSE NIL>>
    BY DEF AbstractL!Returned
  <1> HIDE DEF hits, I
  <1>7. AbstractL!Returned(c, s) = r
    BY <1>2, <1>3, <1>4, <1>5, <1>6
  <1>8. c.op \in ReadOps
    BY DEF ReadOps
  <1> HIDE DEF c
  <1>9. Reading(c, r)
    BY DEF c
  <1> HIDE DEF r
  <1> QED
    BY <1>7, <1>8, <1>9, ReadingIs DEF s

LEMMA equalIs ==
    ASSUME ListAssumption, ListInv, NEW u \in Literals,
           Reading([op |-> "equal", s |-> u], <<"value", list_equal(list, u)>>)
    PROVE  AbstractL!Next /\ ListInv'
  <1> DEFINE c == [op |-> "equal", s |-> u]
             x == list_equal(list, u)
             r == <<"value", x>>
             s == Items(list)
             y == s = u
  <1>1. s \in Seq(Cell) /\ Len(s) = list.count /\ \A i \in 1 .. list.count : s[i] = list.data[i]
    BY ItemsIs DEF ListInv, Sized
  <1>2. u \in Seq(Cell)
    BY DEF ListAssumption, Cell
  <1> HIDE DEF s
  <1>3. x <=> y
    <2>1. x => y
      <3>1. x => Len(s) = Len(u) /\ \A i \in 1 .. Len(s) : s[i] = u[i]
        BY <1>1 DEF list_equal
      <3> QED
        BY <3>1, <1>1, <1>2, SeqEqual
    <2>2. y => x
      BY <1>1, <1>2 DEF list_equal
    <2> QED
      BY <2>1, <2>2
  <1>4. x \in BOOLEAN /\ y \in BOOLEAN
    BY DEF list_equal
  <1>5. Reading(c, r)
    OBVIOUS
  <1>6. AbstractL!Returned(c, s) = <<"value", y>>
    BY DEF AbstractL!Returned
  <1> HIDE DEF x, y
  <1>7. x = y
    BY <1>3, <1>4
  <1>8. c.op \in ReadOps
    BY DEF ReadOps
  <1> HIDE DEF c
  <1>9. AbstractL!Returned(c, s) = r
    BY <1>6, <1>7
  <1> HIDE DEF r
  <1> QED
    BY <1>5, <1>8, <1>9, ReadingIs DEF s

LEMMA sizeIs ==
    ASSUME ListInv, Reading([op |-> "size"], <<"value", list.count>>)
    PROVE  AbstractL!Next /\ ListInv'
  <1> DEFINE c == [op |-> "size"]
             r == <<"value", list.count>>
  <1>1. Len(Items(list)) = list.count
    BY ItemsIs DEF ListInv, Sized
  <1>2. AbstractL!Returned(c, Items(list)) = r
    BY <1>1 DEF AbstractL!Returned
  <1>3. c.op \in ReadOps
    BY DEF ReadOps
  <1>4. Reading(c, r)
    OBVIOUS
  <1> HIDE DEF c, r
  <1> QED
    BY <1>2, <1>3, <1>4, ReadingIs

LEMMA concatIs ==
    ASSUME ListInv, Reading([op |-> "concat"], <<"parts", list_concat(list)>>)
    PROVE  AbstractL!Next /\ ListInv'
  <1> DEFINE c == [op |-> "concat"]
             x == list_concat(list)
             r == <<"parts", x>>
             s == Items(list)
  <1>1. s \in Seq(Cell)
    BY ItemsIs DEF ListInv, Sized
  <1>2. x = FoldLeft(Parted, << >>, s)
    BY concat_same
  <1> HIDE DEF s
  <1>3. x = Spaced(s, Len(s))
    <2>1. s \in Seq(Cell \cup {"delimiter"}) /\ "delimiter" \in Cell \cup {"delimiter"}
      BY <1>1
    <2> QED
      BY <1>2, <2>1, ConcatIs
  <1>4. Reading(c, r)
    OBVIOUS
  <1> HIDE DEF x
  <1>5. AbstractL!Returned(c, s) = r
    BY <1>3 DEF AbstractL!Returned, Spaced
  <1>6. c.op \in ReadOps
    BY DEF ReadOps
  <1> HIDE DEF c, r
  <1> QED
    BY <1>4, <1>5, <1>6, ReadingIs DEF s

LEMMA ReadIs ==
    ASSUME ListAssumption, ListInv, Read PROVE AbstractL!Next /\ ListInv'
  <1>1. Index \subseteq Int
    BY DEF Index
  <1> QED
    BY <1>1, itemIs, rangeIs, pickIs, findIs, equalIs, sizeIs, concatIs DEF Read

\* The variable gets another list.
LEMMA NewListIs ==
    ASSUME NEW c, NEW l, New(c, l), ListInv, IsArray(l), c.op \in {"init", "merge", "copy"},
           Items(l) = AbstractL!Changed(c, Items(list))
    PROVE  AbstractL!Next /\ ListInv'
  <1>1. /\ call' = c /\ result' = <<"done">> /\ list' = l /\ walked' = 0 /\ vec' = vec /\ moved' = FALSE
        /\ Len(l.data) <= MaxCapacity
    BY DEF New
  <1>2. ListInv'
    BY <1>1 DEF ListInv, Sized, IsArray, IsVector
  <1>3. c.op \notin {"item", "pop", "range", "pick", "find", "size", "equal", "concat", "setitem", "next",
                     "vector_push", "vector_remove_end", "vector_resize", "vector_clear", "vector_end"}
    OBVIOUS
  <1>4. AbstractL!Advanced(c) = 0
    BY DEF AbstractL!Advanced
  <1>5. AbstractL!Stacked(c, Items(vec)) = Items(vec)
    BY <1>3 DEF AbstractL!Stacked
  <1>6. AbstractL!Returned(c, Items(list)) = <<"done">>
    BY <1>3 DEF AbstractL!Returned
  <1>7. AbstractL!Next
    BY <1>1, <1>3, <1>4, <1>5, <1>6 DEF AbstractL!Next
  <1> QED
    BY <1>2, <1>7

LEMMA initIs ==
    ASSUME ListAssumption, ListInv, NEW s \in Literals, New([op |-> "init", s |-> s], m_init(s))
    PROVE  AbstractL!Next /\ ListInv'
  <1> DEFINE c == [op |-> "init", s |-> s]
             l == m_init(s)
  <1>1. New(c, l)
    OBVIOUS
  <1>2. s \in Seq(Cell) /\ Len(s) < 2 ^ 30
    <2>1. s \in Seq(Cell) /\ Len(s) < 2 ^ 28
      BY DEF ListAssumption, Cell
    <2> QED
      BY <2>1, Pow
  <1>3. Holds(l, s)
    BY <1>2, PushedAll DEF m_init
  <1> HIDE DEF l
  <1>4. Items(l) = s /\ IsArray(l)
    BY <1>2, <1>3, HeldIs
  <1>5. AbstractL!Changed(c, Items(list)) = s
    BY DEF AbstractL!Changed
  <1>6. c.op \in {"init", "merge", "copy"}
    OBVIOUS
  <1> HIDE DEF c
  <1> QED
    BY <1>1, <1>4, <1>5, <1>6, NewListIs

LEMMA mergeIs ==
    ASSUME ListAssumption, ListInv, NEW s \in Literals, New([op |-> "merge", s |-> s], m_merge(list, s))
    PROVE  AbstractL!Next /\ ListInv'
  <1> DEFINE c == [op |-> "merge", s |-> s]
             a == Items(list)
             k == be_list_merge(be_list_new, a)
             l == m_merge(list, s)
  <1>1. New(c, l)
    OBVIOUS
  <1>2. s \in Seq(Cell) /\ Len(s) \in Nat /\ Len(s) < 2 ^ 28
    BY DEF ListAssumption, Cell
  <1>3. a \in Seq(Cell) /\ Len(a) \in Nat /\ Len(a) <= 2 ^ 28
    <2>1. a \in Seq(Cell) /\ Len(a) = list.count /\ list.count \in Nat /\ list.count <= 268435456
      BY SizedIs DEF ListInv
    <2> QED
      BY <2>1, Pow
  <1> HIDE DEF a
  <1>0. Len(a) < 2 ^ 30 /\ Len(a) + Len(s) < 2 ^ 30
    BY <1>2, <1>3, Pow
  <1>4. IsArray(be_list_new) /\ be_list_new.count = 0 /\ Items(be_list_new) = << >>
    <2>1. << >> \in Seq(Cell)
      OBVIOUS
    <2> QED
      BY <2>1, NewIs, HeldIs DEF Holds
  <1>5. Holds(k, a)
    <2>1. be_list_new.count + Len(a) = Len(a)
      BY <1>3, <1>4
    <2>2. be_list_new.count + Len(a) < 2 ^ 30
      BY <1>0, <2>1
    <2>3. Holds(be_list_merge(be_list_new, a), Items(be_list_new) \o a)
      BY <1>3, <1>4, <2>2, MergeIs, Zenon
    <2>4. << >> \o a = a
      BY <1>3
    <2> QED
      BY <1>4, <2>3, <2>4
  <1>6. l = be_list_merge(k, s)
    BY DEF m_merge, a
  <1> HIDE DEF k, l
  <1>7. IsArray(k) /\ Items(k) = a /\ k.count = Len(a)
    BY <1>3, <1>5, HeldIs DEF Holds
  <1>8. Holds(l, a \o s)
    <2>1. k.count + Len(s) < 2 ^ 30
      BY <1>0, <1>7
    <2> QED
      BY <1>2, <1>6, <1>7, <2>1, MergeIs
  <1>9. Items(l) = a \o s /\ IsArray(l)
    <2>1. a \o s \in Seq(Cell)
      BY <1>2, <1>3
    <2> QED
      BY <1>8, <2>1, HeldIs
  <1>10. AbstractL!Changed(c, a) = a \o s
    BY DEF AbstractL!Changed
  <1>11. c.op \in {"init", "merge", "copy"}
    OBVIOUS
  <1> HIDE DEF c
  <1> QED
    BY <1>1, <1>9, <1>10, <1>11, NewListIs DEF a

LEMMA ReplaceIs ==
    ASSUME ListAssumption, ListInv, Replace PROVE AbstractL!Next /\ ListInv'
  <1>1. CASE New([op |-> "copy"], list)
    <2> DEFINE c == [op |-> "copy"]
    <2>1. AbstractL!Changed(c, Items(list)) = Items(list)
      BY DEF AbstractL!Changed
    <2>2. c.op \in {"init", "merge", "copy"} /\ New(c, list) /\ IsArray(list)
      BY <1>1 DEF ListInv, Sized
    <2> HIDE DEF c
    <2> QED
      BY <2>1, <2>2, NewListIs
  <1> QED
    BY <1>1, initIs, mergeIs DEF Replace

-----------------------------------------------------------------------------
(* Iterators. *)

LEMMA m_iterIs ==
    ASSUME ListInv, m_iter PROVE AbstractL!Next /\ ListInv'
  <1>1. call' = [op |-> "iter"] /\ result' = <<"done">> /\ list' = list /\ walked' = 0 /\ vec' = vec /\ moved' = FALSE
    BY DEF m_iter
  <1>2. ListInv'
    BY <1>1 DEF ListInv, Sized, IsArray, IsVector
  <1> DEFINE c == [op |-> "iter"]
  <1>3. /\ AbstractL!Changed(c, Items(list)) = Items(list) /\ AbstractL!Advanced(c) = 0
        /\ AbstractL!Stacked(c, Items(vec)) = Items(vec) /\ AbstractL!Returned(c, Items(list)) = <<"done">>
    BY DEF AbstractL!Changed, AbstractL!Advanced, AbstractL!Stacked, AbstractL!Returned
  <1>4. c.op # "vector_end"
    OBVIOUS
  <1> HIDE DEF c
  <1>5. AbstractL!Next
    BY <1>1, <1>3, <1>4 DEF AbstractL!Next, c
  <1> QED
    BY <1>2, <1>5

LEMMA iter_closureIs ==
    ASSUME ListInv, Rare = {}, iter_closure PROVE AbstractL!Next /\ ListInv'
  <1> DEFINE c == [op |-> "next"]
             s == Items(list)
  <1>1. call' = c /\ list' = list /\ vec' = vec /\ moved' = moved /\ moved = FALSE
    BY DEF iter_closure, ListInv
  <1>2. /\ walked >= list.count => result' = <<"stop_iteration">> /\ walked' = walked
        /\ ~(walked >= list.count) => result' = <<"value", list.data[walked + 1]>> /\ walked' = walked + 1
    BY <1>1 DEF iter_closure
  <1>3. /\ Len(s) = list.count /\ list.count \in Nat /\ walked \in Nat
        /\ \A i \in 1 .. list.count : s[i] = list.data[i]
    BY ItemsIs DEF ListInv, Sized, IsArray
  <1>4. ListInv'
    BY <1>1, <1>2, <1>3 DEF ListInv, Sized, IsArray, IsVector
  <1>5. /\ AbstractL!Changed(c, s) = s /\ AbstractL!Stacked(c, Items(vec)) = Items(vec) /\ c.op # "vector_end"
    BY DEF AbstractL!Changed, AbstractL!Stacked
  <1>6. AbstractL!Advanced(c) = IF walked < Len(s) THEN walked + 1 ELSE walked
    BY DEF AbstractL!Advanced
  <1>7. AbstractL!Returned(c, s) = IF walked < Len(s) THEN <<"value", s[walked + 1]>> ELSE <<"stop_iteration">>
    BY DEF AbstractL!Returned
  <1>8. Items(list)' = s
    BY <1>1
  <1> HIDE DEF s, c
  <1>9. walked' = AbstractL!Advanced(c) /\ result' = AbstractL!Returned(c, s)
    <2>1. CASE walked < Len(s)
      <3>1. walked + 1 \in 1 .. list.count
        BY <1>3, <2>1
      <3> QED
        BY <1>2, <1>3, <1>6, <1>7, <2>1, <3>1
    <2>2. CASE ~(walked < Len(s))
      BY <1>2, <1>3, <1>6, <1>7, <2>2
    <2> QED
      BY <2>1, <2>2
  <1>10. AbstractL!Next
    BY <1>1, <1>5, <1>8, <1>9 DEF AbstractL!Next, s
  <1> QED
    BY <1>4, <1>10

-----------------------------------------------------------------------------
(* Vectors. *)

VectorOps == {"vector_push", "vector_remove_end", "vector_resize", "vector_clear", "vector_release", "vector_end"}

\* A vector with an array d of n elements.
OfVector(v, d, n) == v = [data |-> d, count |-> n, end |-> n - 1]

LEMMA VectorItems ==
    ASSUME NEW v, IsVector(v)
    PROVE  /\ Items(v) \in Seq(Cell) /\ Len(Items(v)) = v.count /\ \A i \in 1 .. v.count : Items(v)[i] = v.data[i]
           /\ v.count \in Nat
  BY DEF IsVector, Items

\* A vector of the elements of t.
LEMMA VectorOf ==
    ASSUME NEW v, NEW d \in Seq(Cell), NEW t \in Seq(Cell), OfVector(v, d, Len(t)), Len(t) <= Len(d),
           Len(d) <= MaxCapacity, \A i \in 1 .. Len(t) : d[i] = t[i]
    PROVE  IsVector(v) /\ Items(v) = t /\ v.data = d
  <1>1. v.data = d /\ v.count = Len(t) /\ v.end = Len(t) - 1
    BY DEF OfVector
  <1>2. IsVector(v)
    BY <1>1 DEF IsVector, OfVector
  <1>3. Len(Items(v)) = Len(t) /\ Items(v) \in Seq(Cell) /\ \A i \in 1 .. Len(t) : Items(v)[i] = t[i]
    BY <1>1, <1>2, VectorItems
  <1>4. Items(v) = t
    BY <1>3, SeqEqual
  <1> QED
    BY <1>1, <1>2, <1>4

\* A call of a vector.
LEMMA VectorIs ==
    ASSUME NEW c, NEW v, NEW r, Vector(c, v, r), ListInv, IsVector(v), c.op \in VectorOps,
           Items(v) = AbstractL!Stacked(c, Items(vec)),
           r = IF c.op = "vector_end" THEN <<"value", AbstractL!Last(Items(vec))>> ELSE <<"done">>
    PROVE  AbstractL!Next /\ ListInv'
  <1>1. call' = c /\ result' = r /\ list' = list /\ walked' = walked /\ vec' = v /\ moved' = moved
    BY DEF Vector
  <1>2. ListInv'
    BY <1>1 DEF ListInv, Sized, IsArray, IsVector
  <1>3. c.op \notin {"item", "pop", "range", "pick", "find", "size", "equal", "concat", "setitem", "next",
                     "push", "insert", "remove", "resize", "reverse", "init", "merge", "iter", "copy"}
    BY DEF VectorOps
  <1>4. AbstractL!Changed(c, Items(list)) = Items(list) /\ AbstractL!Advanced(c) = walked
        /\ AbstractL!Returned(c, Items(list)) = <<"done">>
    BY <1>3 DEF AbstractL!Changed, AbstractL!Advanced, AbstractL!Returned
  <1>5. AbstractL!Next
    BY <1>1, <1>4 DEF AbstractL!Next
  <1> QED
    BY <1>2, <1>5

\* A vector whose count becomes n.
Counted(v, n) == [v EXCEPT !.count = n, !.end = n - 1]

LEMMA CountedIs ==
    ASSUME NEW v, IsVector(v), NEW n \in 0 .. v.count
    PROVE  OfVector(Counted(v, n), v.data, n)
  <1> DEFINE d == v.data
             k == v.count
             e == v.end
             m == n - 1
             h == [v EXCEPT !.count = n]
  <1>1. v = [data |-> d, count |-> k, end |-> e]
    BY DEF IsVector
  <1> HIDE DEF d, k, e, h, m
  <1>2. h = [data |-> d, count |-> n, end |-> e]
    BY <1>1 DEF h
  <1>3. [h EXCEPT !.end = m] = [data |-> d, count |-> n, end |-> m]
    BY <1>2
  <1> QED
    BY <1>3 DEF h, m, d, Counted, OfVector

\* The vector keeps its first n elements.
LEMMA ShorterIs ==
    ASSUME ListInv, NEW v, NEW n \in 0 .. vec.count, OfVector(v, vec.data, n)
    PROVE  IsVector(v) /\ Items(v) = SubSeq(Items(vec), 1, n)
  <1> DEFINE s == Items(vec)
             t == SubSeq(s, 1, n)
             d == vec.data
  <1>1. /\ s \in Seq(Cell) /\ Len(s) = vec.count /\ \A i \in 1 .. vec.count : s[i] = d[i]
        /\ vec.count \in Nat
    BY VectorItems DEF ListInv
  <1>2. d \in Seq(Cell) /\ vec.count <= Len(d) /\ Len(d) <= MaxCapacity
    BY DEF ListInv, IsVector
  <1>0. OfVector(v, d, n)
    OBVIOUS
  <1> HIDE DEF s, d
  <1>3. t \in Seq(Cell) /\ Len(t) = n /\ \A i \in 1 .. n : t[i] = s[i]
    BY <1>1
  <1>4. \A i \in 1 .. n : d[i] = t[i]
    BY <1>1, <1>3
  <1> HIDE DEF t
  <1>5. Len(t) <= Len(d)
    BY <1>1, <1>2, <1>3
  <1>6. OfVector(v, d, Len(t)) /\ \A i \in 1 .. Len(t) : d[i] = t[i]
    BY <1>0, <1>3, <1>4
  <1> QED
    BY <1>2, <1>3, <1>5, <1>6, VectorOf DEF s, t

LEMMA remove_endIs ==
    ASSUME ListInv, be_vector_remove_end PROVE AbstractL!Next /\ ListInv'
  <1> DEFINE c == [op |-> "vector_remove_end"]
             v == [vec EXCEPT !.count = @ - 1, !.end = @ - 1]
             n == vec.count - 1
  <1>1. Vector(c, v, <<"done">>) /\ vec.count > 0
    BY DEF be_vector_remove_end
  <1>2. IsVector(vec) /\ vec.count \in Nat /\ vec.end = n
    BY DEF ListInv, IsVector
  <1>3. n \in 0 .. vec.count
    BY <1>1, <1>2
  <1>4. v = Counted(vec, n)
    BY <1>2 DEF Counted
  <1> HIDE DEF v, n
  <1>5. IsVector(v) /\ Items(v) = SubSeq(Items(vec), 1, n)
    BY <1>2, <1>3, <1>4, CountedIs, ShorterIs
  <1>6. AbstractL!Stacked(c, Items(vec)) = SubSeq(Items(vec), 1, n)
    <2>1. Len(Items(vec)) - 1 = n
      BY VectorItems DEF ListInv, n
    <2>2. AbstractL!Stacked(c, Items(vec)) = AbstractL!Front(Items(vec))
      BY DEF AbstractL!Stacked
    <2>3. AbstractL!Front(Items(vec)) = SubSeq(Items(vec), 1, Len(Items(vec)) - 1)
      BY DEF AbstractL!Front
    <2> QED
      BY <2>1, <2>2, <2>3
  <1>7. c.op \in VectorOps /\ c.op # "vector_end"
    BY DEF VectorOps
  <1> HIDE DEF c
  <1> QED
    BY <1>1, <1>5, <1>6, <1>7, VectorIs

\* What be_vector_resize makes of the vector: an array that begins like the old one
\* and has room for n elements.
LEMMA be_vector_resizeIs ==
    ASSUME ListAssumption, ListInv, NEW n \in Nat, n < 2 ^ 30, n # vec.count
    PROVE  LET v == be_vector_resize(n)
           IN /\ OfVector(v, v.data, n) /\ v.data \in Seq(Cell)
              /\ n <= Len(v.data) /\ Len(v.data) \in Nat /\ Len(vec.data) <= Len(v.data)
              /\ \A i \in 1 .. Len(vec.data) : v.data[i] = vec.data[i]
  <1> DEFINE k == be_nextsize(n) - Len(vec.data)
             new == Junk(k)
             d == vec.data \o new
             v == be_vector_resize(n)
  <1>1. vec.data \in Seq(Cell) /\ Len(vec.data) \in Nat
    BY DEF ListInv, IsVector
  <1>2. be_nextsize(n) \in Nat /\ be_nextsize(n) > n
    BY NextSizeIs
  <1>3. new = [i \in 1 .. k |-> JUNK] /\ k \in Int
    BY <1>1, <1>2 DEF Junk
  <1> HIDE DEF new, k
  <1>4. new \in Seq(Cell) /\ Len(new) = IF k > 0 THEN k ELSE 0
    <2>1. CASE k > 0
      <3>1. new = [i \in 1 .. k |-> new[i]] /\ k \in Nat /\ \A i \in 1 .. k : new[i] \in Cell
        BY <1>3, <2>1 DEF Cell
      <3> QED
        BY <2>1, <3>1, Tabled
    <2>2. CASE ~(k > 0)
      <3>1. 1 .. k = 1 .. 0
        BY <1>3, <2>2
      <3>2. new = << >>
        BY <1>3, <3>1
      <3> QED
        BY <2>2, <3>2
    <2> QED
      BY <2>1, <2>2
  <1>5. Joins(Cell, d, vec.data, new)
    BY <1>1, <1>4, Joined
  <1>6. v = [data |-> d, count |-> n, end |-> n - 1] /\ v.data = d
    BY DEF be_vector_resize, new, k
  <1> HIDE DEF d, v
  <1>7. d \in Seq(Cell) /\ Len(d) = Len(vec.data) + Len(new) /\ \A i \in 1 .. Len(vec.data) : d[i] = vec.data[i]
    BY <1>5 DEF Joins
  <1>8. n <= Len(d) /\ Len(d) \in Nat /\ Len(vec.data) <= Len(d)
    <2>1. k = be_nextsize(n) - Len(vec.data)
      BY DEF k
    <2> QED
      BY <1>1, <1>2, <1>3, <1>4, <1>7, <2>1
  <1>9. OfVector(v, d, n)
    BY <1>6 DEF OfVector
  <1> QED
    BY <1>6, <1>7, <1>8, <1>9 DEF v

\* The counts that a vector can have are small enough for be_nextsize.
LEMMA CountSmall ==
    ASSUME ListAssumption, ListInv PROVE vec.count \in Nat /\ vec.count + 1 < 2 ^ 30
  <1>1. MaxCapacity \in Nat /\ MaxCapacity <= 268435456
    <2>1. MaxCapacity \in 2 .. 2 ^ 28
      BY DEF ListAssumption
    <2> QED
      BY <2>1, Pow
  <1>2. vec.count \in Nat /\ vec.count <= Len(vec.data) /\ Len(vec.data) <= MaxCapacity /\ Len(vec.data) \in Nat
    BY DEF ListInv, IsVector
  <1> QED
    BY <1>1, <1>2, Pow

LEMMA vm_state_restoreIs ==
    ASSUME ListAssumption, ListInv, NEW n \in Nat, vm_state_restore(n) PROVE AbstractL!Next /\ ListInv'
  <1> DEFINE c == [op |-> "vector_resize", n |-> n]
             v == be_vector_resize(n)
             s == Items(vec)
             t == SubSeq(s, 1, n)
  <1>1. Vector(c, v, <<"done">>) /\ n <= vec.count
    BY DEF vm_state_restore
  <1>0. vec.count \in Nat /\ vec.count + 1 < 2 ^ 30
    BY CountSmall
  <1>2. IsVector(vec) /\ vec.count \in Nat /\ vec.end = vec.count - 1 /\ n < 2 ^ 30
    <2>1. n <= vec.count
      BY <1>1
    <2>2. n < 2 ^ 30
      BY <1>0, <2>1, Pow
    <2> QED
      BY <2>2 DEF ListInv, IsVector
  <1>3. /\ s \in Seq(Cell) /\ Len(s) = vec.count /\ \A i \in 1 .. vec.count : s[i] = vec.data[i]
        /\ vec.count <= Len(vec.data) /\ Len(vec.data) \in Nat
    BY <1>2, VectorItems DEF IsVector
  <1> HIDE DEF s
  <1>4. t \in Seq(Cell) /\ Len(t) = n /\ \A i \in 1 .. n : t[i] = s[i]
    BY <1>1, <1>2, <1>3
  <1> HIDE DEF t
  <1>5. IsVector(v) /\ Items(v) = t
    <2>1. CASE n = vec.count
      <3>1. v = vec
        BY <2>1 DEF be_vector_resize
      <3>2. t = s
        BY <1>3, <1>4, <2>1, SeqEqual
      <3> QED
        BY <1>2, <3>1, <3>2 DEF s
    <2>2. CASE n # vec.count
      <3>1. /\ OfVector(v, v.data, n) /\ v.data \in Seq(Cell) /\ n <= Len(v.data)
            /\ \A i \in 1 .. Len(vec.data) : v.data[i] = vec.data[i]
        BY <1>2, <2>2, be_vector_resizeIs
      <3>2. Len(v.data) <= MaxCapacity
        BY <1>1 DEF Vector
      <3> HIDE DEF v
      <3>3. \A i \in 1 .. n : v.data[i] = t[i]
        <4>1. n <= vec.count /\ vec.count \in Nat
          BY <1>1, <1>2
        <4>2. \A i \in 1 .. n : i \in 1 .. vec.count /\ i \in 1 .. Len(vec.data)
          BY <1>3, <4>1
        <4> QED
          BY <1>3, <1>4, <3>1, <4>2
      <3>4. OfVector(v, v.data, Len(t)) /\ Len(t) <= Len(v.data) /\ \A i \in 1 .. Len(t) : v.data[i] = t[i]
        BY <1>4, <3>1, <3>3
      <3> QED
        BY <1>4, <3>1, <3>2, <3>4, VectorOf
    <2> QED
      BY <2>1, <2>2
  <1>6. AbstractL!Stacked(c, s) = t
    BY DEF AbstractL!Stacked, t
  <1>7. c.op \in VectorOps /\ c.op # "vector_end"
    BY DEF VectorOps
  <1> HIDE DEF c, v
  <1> QED
    BY <1>1, <1>5, <1>6, <1>7, VectorIs DEF s

LEMMA global_newIs ==
    ASSUME ListAssumption, ListInv, global_new_anonymous PROVE AbstractL!Next /\ ListInv'
  <1> DEFINE c == [op |-> "vector_push", v |-> NIL]
             n == vec.count + 1
             u == be_vector_resize(n)
             d == [u.data EXCEPT ![n] = NIL]
             v == [u EXCEPT !.data = [@ EXCEPT ![u.end + 1] = NIL]]
             s == Items(vec)
             t == Append(s, NIL)
  <1>1. Vector(c, v, <<"done">>)
    BY DEF global_new_anonymous
  <1>2. /\ IsVector(vec) /\ vec.count \in Nat /\ n \in Nat /\ n # vec.count /\ n < 2 ^ 30
        /\ vec.count <= Len(vec.data) /\ Len(vec.data) \in Nat
    BY CountSmall DEF ListInv, IsVector
  <1>3. /\ OfVector(u, u.data, n) /\ u.data \in Seq(Cell) /\ n <= Len(u.data) /\ Len(u.data) \in Nat
        /\ \A i \in 1 .. Len(vec.data) : u.data[i] = vec.data[i]
    BY <1>2, be_vector_resizeIs
  <1> HIDE DEF u
  <1>4. v = [data |-> d, count |-> n, end |-> n - 1]
    <2> DEFINE e == u.data
               m == n - 1
    <2>1. u = [data |-> e, count |-> n, end |-> m]
      BY <1>3 DEF OfVector
    <2>2. u.end = m
      <3> HIDE DEF e, m, n
      <3> QED
        BY <2>1
    <2>3. u.end + 1 = n
      BY <1>2, <2>2
    <2>5. v = [u EXCEPT !.data = d]
      BY <2>3
    <2> HIDE DEF e, m, d, n, v
    <2>4. [u EXCEPT !.data = d] = [data |-> d, count |-> n, end |-> m]
      BY <2>1
    <2> QED
      BY <2>4, <2>5 DEF m
  <1>5. NIL \in Cell
    BY DEF Cell
  <1>6. /\ d \in Seq(Cell) /\ Len(d) = Len(u.data) /\ d[n] = NIL
        /\ \A i \in 1 .. vec.count : d[i] = vec.data[i]
    <2> DEFINE e == u.data
    <2>1. e \in Seq(Cell) /\ Len(e) \in Nat /\ n \in 1 .. Len(e)
      BY <1>2, <1>3
    <2>2. \A i \in 1 .. vec.count : i # n /\ i \in 1 .. Len(e) /\ e[i] = vec.data[i]
      BY <1>2, <1>3
    <2>3. d = [e EXCEPT ![n] = NIL] /\ Len(u.data) = Len(e)
      OBVIOUS
    <2> HIDE DEF d, e, n
    <2>4. d \in Seq(Cell) /\ Len(d) = Len(e) /\ d[n] = NIL
      BY <1>5, <2>1, <2>3
    <2>5. \A i \in 1 .. vec.count : d[i] = vec.data[i]
      BY <2>1, <2>2, <2>3
    <2> QED
      BY <2>3, <2>4, <2>5
  <1> HIDE DEF d
  <1>7. s \in Seq(Cell) /\ Len(s) = vec.count /\ \A i \in 1 .. vec.count : s[i] = vec.data[i]
    BY <1>2, VectorItems
  <1> HIDE DEF s
  <1>8. t \in Seq(Cell) /\ Len(t) = n /\ t[n] = NIL /\ \A i \in 1 .. vec.count : t[i] = s[i]
    BY <1>2, <1>5, <1>7
  <1> HIDE DEF t
  <1>9. \A i \in 1 .. Len(t) : d[i] = t[i]
    BY <1>2, <1>6, <1>7, <1>8
  <1>10. OfVector(v, d, Len(t)) /\ v.data = d
    <2>1. Len(t) = n
      BY <1>8
    <2> HIDE DEF v, n
    <2> QED
      BY <1>4, <2>1 DEF OfVector
  <1>11. Len(d) <= MaxCapacity
    BY <1>1, <1>10 DEF Vector
  <1> HIDE DEF v
  <1>12. IsVector(v) /\ Items(v) = t
    <2>1. Len(t) <= Len(d)
      BY <1>3, <1>6, <1>8
    <2> HIDE DEF n
    <2> QED
      BY <1>6, <1>8, <1>9, <1>10, <1>11, <2>1, VectorOf
  <1>13. AbstractL!Stacked(c, s) = t
    BY DEF AbstractL!Stacked, t
  <1>14. c.op \in VectorOps /\ c.op # "vector_end"
    BY DEF VectorOps
  <1> HIDE DEF c
  <1> QED
    BY <1>1, <1>12, <1>13, <1>14, VectorIs DEF s

LEMMA vector_clearIs ==
    ASSUME ListInv, be_vector_clear PROVE AbstractL!Next /\ ListInv'
  <1> DEFINE c == [op |-> "vector_clear", n |-> 0]
             v == [vec EXCEPT !.count = 0, !.end = -1]
  <1>1. Vector(c, v, <<"done">>)
    BY DEF be_vector_clear
  <1>2. IsVector(vec) /\ vec.count \in Nat /\ 0 \in 0 .. vec.count
    BY DEF ListInv, IsVector
  <1>4. v = Counted(vec, 0)
    BY DEF Counted
  <1> HIDE DEF v
  <1>5. IsVector(v) /\ Items(v) = SubSeq(Items(vec), 1, 0)
    BY <1>2, <1>4, CountedIs, ShorterIs
  <1>6. AbstractL!Stacked(c, Items(vec)) = SubSeq(Items(vec), 1, 0)
    BY DEF AbstractL!Stacked
  <1>7. c.op \in VectorOps /\ c.op # "vector_end"
    BY DEF VectorOps
  <1> HIDE DEF c
  <1> QED
    BY <1>1, <1>5, <1>6, <1>7, VectorIs

LEMMA vector_endIs ==
    ASSUME ListInv, be_vector_end PROVE AbstractL!Next /\ ListInv'
  <1> DEFINE c == [op |-> "vector_end"]
             r == <<"value", vec.data[vec.end + 1]>>
             s == Items(vec)
  <1>1. Vector(c, vec, r) /\ vec.count > 0
    BY DEF be_vector_end
  <1>2. IsVector(vec) /\ vec.count \in Nat /\ vec.end + 1 = vec.count
    BY DEF ListInv, IsVector
  <1>3. Len(s) = vec.count /\ s[vec.count] = vec.data[vec.count]
    BY <1>1, <1>2, VectorItems
  <1>4. AbstractL!Last(s) = s[Len(s)]
    BY DEF AbstractL!Last
  <1>5. AbstractL!Stacked(c, s) = s
    BY DEF AbstractL!Stacked
  <1>6. r = <<"value", AbstractL!Last(s)>>
    BY <1>2, <1>3, <1>4
  <1>7. c.op \in VectorOps /\ c.op = "vector_end"
    BY DEF VectorOps
  <1> HIDE DEF c, r
  <1> QED
    BY <1>1, <1>2, <1>5, <1>6, <1>7, VectorIs DEF s

LEMMA vector_pushIs ==
    ASSUME ListAssumption, ListInv, NEW x \in Val, be_vector_push_c(x) PROVE AbstractL!Next /\ ListInv'
  <1> DEFINE c == [op |-> "vector_push", v |-> x]
             full == vec.count >= Len(vec.data)
             cap == be_nextsize(Len(vec.data))
             new == [i \in 1 .. cap - Len(vec.data) |-> NIL]
             data == IF full THEN vec.data \o new ELSE vec.data
             end == IF full THEN vec.count ELSE vec.end + 1
             d == [data EXCEPT ![end + 1] = x]
             v == [data |-> d, count |-> vec.count + 1, end |-> end]
             s == Items(vec)
             t == Append(s, x)
  <1>1. Vector(c, v, <<"done">>)
    BY DEF be_vector_push_c
  <1>2. /\ IsVector(vec) /\ vec.count \in Nat /\ vec.end = vec.count - 1 /\ vec.count <= Len(vec.data)
        /\ vec.data \in Seq(Cell) /\ Len(vec.data) \in Nat
    BY DEF ListInv, IsVector
  <1>3. end = vec.count
    BY <1>2
  <1>4. cap \in Nat /\ cap > Len(vec.data)
    <2>1. MaxCapacity \in Nat /\ MaxCapacity < 2 ^ 30
      <3>1. MaxCapacity \in 0 .. 2 ^ 28
        BY DEF ListAssumption
      <3> QED
        BY <3>1, Pow
    <2>2. Len(vec.data) < 2 ^ 30
      BY <1>2, <2>1 DEF ListInv, IsVector
    <2> QED
      BY <1>2, <2>2, NextSizeIs
  <1> HIDE DEF cap
  <1>5. new \in Seq(Cell) /\ Len(new) = cap - Len(vec.data)
    <2> DEFINE n == cap - Len(vec.data)
    <2>1. new = [i \in 1 .. n |-> NIL] /\ n \in Nat
      BY <1>2, <1>4
    <2> HIDE DEF n, new
    <2>2. new = [i \in 1 .. n |-> new[i]]
      BY <2>1
    <2>3. \A i \in 1 .. n : new[i] \in Cell
      BY <2>1 DEF Cell
    <2>4. new \in Seq(Cell) /\ Len(new) = n
      BY <2>1, <2>2, <2>3, Tabled
    <2> QED
      BY <2>4 DEF n
  <1> HIDE DEF new
  <1>6. /\ data \in Seq(Cell) /\ vec.count + 1 <= Len(data) /\ \A i \in 1 .. vec.count : data[i] = vec.data[i]
    <2>1. CASE full
      <3>1. Joins(Cell, vec.data \o new, vec.data, new)
        BY <1>2, <1>5, Joined
      <3>2. data = vec.data \o new
        BY <2>1
      <3>3. Len(vec.data) <= vec.count
        BY <1>2, <2>1
      <3>4. vec.count = Len(vec.data)
        BY <1>2, <3>3
      <3> HIDE DEF data, full
      <3>5. data \in Seq(Cell) /\ Len(data) = cap
        BY <1>2, <1>4, <1>5, <3>1, <3>2 DEF Joins
      <3>6. \A i \in 1 .. vec.count : data[i] = vec.data[i]
        BY <3>1, <3>2, <3>4 DEF Joins
      <3> QED
        BY <1>2, <1>4, <3>4, <3>5, <3>6
    <2>2. CASE ~full
      BY <1>2, <2>2
    <2> QED
      BY <2>1, <2>2
  <1> HIDE DEF data, end
  <1>7. x \in Cell
    BY DEF Cell
  <1>8. /\ d \in Seq(Cell) /\ Len(d) = Len(data) /\ d[vec.count + 1] = x
        /\ \A i \in 1 .. vec.count : d[i] = vec.data[i]
    BY <1>2, <1>3, <1>6, <1>7
  <1> HIDE DEF d
  <1>9. s \in Seq(Cell) /\ Len(s) = vec.count /\ \A i \in 1 .. vec.count : s[i] = vec.data[i]
    BY <1>2, VectorItems
  <1> HIDE DEF s
  <1>10. t \in Seq(Cell) /\ Len(t) = vec.count + 1 /\ t[vec.count + 1] = x
         /\ \A i \in 1 .. vec.count : t[i] = s[i]
    BY <1>2, <1>7, <1>9
  <1> HIDE DEF t
  <1>11. \A i \in 1 .. Len(t) : d[i] = t[i]
    BY <1>2, <1>8, <1>9, <1>10
  <1>12. OfVector(v, d, Len(t))
    <2> DEFINE n == vec.count + 1
               m == n - 1
    <2>1. end = m /\ Len(t) = n
      BY <1>2, <1>3, <1>10
    <2>2. v = [data |-> d, count |-> n, end |-> end]
      OBVIOUS
    <2> HIDE DEF n, v
    <2>3. OfVector(v, d, n)
      BY <2>1, <2>2 DEF OfVector
    <2> QED
      BY <2>1, <2>3
  <1>13. Len(d) <= MaxCapacity
    BY <1>1 DEF Vector
  <1> HIDE DEF v
  <1>14. IsVector(v) /\ Items(v) = t
    BY <1>6, <1>8, <1>10, <1>11, <1>12, <1>13, VectorOf
  <1>15. AbstractL!Stacked(c, s) = t
    BY DEF AbstractL!Stacked, t
  <1>16. c.op \in VectorOps /\ c.op # "vector_end"
    BY DEF VectorOps
  <1> HIDE DEF c
  <1> QED
    BY <1>1, <1>14, <1>15, <1>16, VectorIs DEF s

LEMMA releaseIs ==
    ASSUME ListAssumption, ListInv, be_vector_release PROVE AbstractL!Next /\ ListInv'
  <1> DEFINE c == [op |-> "vector_release"]
             v == CASE vec.count = 0 -> [data |-> <<>>, count |-> 0, end |-> -1]
                    [] vec.count # 0 -> [vec EXCEPT !.data = SubSeq(@, 1, vec.count), !.end = vec.count - 1]
             s == Items(vec)
             n == vec.count
  <1>1. Vector(c, v, <<"done">>)
    BY DEF be_vector_release
  <1>2. /\ IsVector(vec) /\ n \in Nat /\ vec.data \in Seq(Cell) /\ n <= Len(vec.data)
        /\ s \in Seq(Cell) /\ Len(s) = n
    BY VectorItems DEF ListInv, IsVector
  <1>3. OfVector(v, s, n)
    <2>1. CASE n = 0
      <3>1. v = [data |-> <<>>, count |-> 0, end |-> -1]
        BY <2>1
      <3>2. s = << >>
        BY <1>2, <2>1
      <3> QED
        BY <2>1, <3>1, <3>2 DEF OfVector
    <2>2. CASE n # 0
      <3> DEFINE e == vec.end
                 d == vec.data
                 m == n - 1
                 h == [vec EXCEPT !.data = s]
      <3>1. v = [vec EXCEPT !.data = s, !.end = m]
        BY <2>2 DEF Items
      <3>2. vec = [data |-> d, count |-> n, end |-> e]
        BY <1>2 DEF IsVector
      <3> HIDE DEF v, d, n, e, h, m, s
      <3>3. h = [data |-> s, count |-> n, end |-> e]
        BY <3>2 DEF h
      <3>4. [h EXCEPT !.end = m] = [data |-> s, count |-> n, end |-> m]
        BY <3>3
      <3> QED
        BY <3>1, <3>4 DEF h, m, OfVector
    <2> QED
      BY <2>1, <2>2
  <1>4. n <= MaxCapacity
    <2>1. Len(vec.data) <= MaxCapacity /\ Len(vec.data) \in Nat
      BY <1>2 DEF IsVector
    <2>2. MaxCapacity \in Nat
      BY DEF ListAssumption
    <2> QED
      BY <1>2, <2>1, <2>2
  <1> HIDE DEF v, s, n
  <1>5. IsVector(v) /\ Items(v) = s
    <2>1. OfVector(v, s, Len(s)) /\ Len(s) <= MaxCapacity
      BY <1>2, <1>3, <1>4
    <2>2. Len(s) <= Len(s) /\ \A i \in 1 .. Len(s) : s[i] = s[i]
      BY <1>2
    <2> QED
      BY <1>2, <2>1, <2>2, VectorOf
  <1>6. AbstractL!Stacked(c, s) = s
    BY DEF AbstractL!Stacked
  <1>7. c.op \in VectorOps /\ c.op # "vector_end"
    BY DEF VectorOps
  <1> HIDE DEF c
  <1> QED
    BY <1>1, <1>5, <1>6, <1>7, VectorIs DEF s

-----------------------------------------------------------------------------
(* The refinement. *)

LEMMA ListStepIs ==
    ASSUME ListAssumption, ListInv, Rare = {}, ListNext \/ VectorNext PROVE AbstractL!Next /\ ListInv'
  <1>1. Index \subseteq Int /\ 0 .. MaxIndex \subseteq Nat
    BY DEF Index
  <1>2. CASE ListNext
    BY <1>1, <1>2, m_pushIs, m_insertIs, m_setitemIs, m_removeIs, m_popIs, m_resizeIs, m_reverseIs, ReadIs,
       ReplaceIs, m_iterIs, iter_closureIs DEF ListNext
  <1>3. CASE VectorNext
    BY <1>1, <1>3, vector_pushIs, global_newIs, remove_endIs, vm_state_restoreIs, vector_clearIs, releaseIs,
       vector_endIs
       DEF VectorNext
  <1> QED
    BY <1>2, <1>3

LEMMA ListStepOrStays ==
    ASSUME ListAssumption, ListInv, Rare = {}, [ListNext \/ VectorNext]_listVars
    PROVE  /\ ListInv'
           /\ [AbstractL!Next]_<<call, Items(list), walked, Items(vec), result>>
  <1>1. CASE UNCHANGED listVars
    BY <1>1 DEF listVars, ListInv, Sized, IsArray, IsVector, Items
  <1>2. CASE ListNext \/ VectorNext
    BY <1>2, ListStepIs
  <1> QED
    BY <1>1, <1>2

LEMMA ListInitIs ==
    ASSUME ListAssumption, ListInit PROVE ListInv /\ AbstractL!Init
  <1>1. list = be_list_new /\ walked = 0 /\ moved = FALSE /\ vec = be_vector_init /\ result = <<"done">>
    BY DEF ListInit
  <1>2. MaxCapacity \in Nat /\ MaxCapacity >= 2
    BY DEF ListAssumption
  <1>3. Sized(list) /\ Items(list) = << >>
    <2>1. << >> \in Seq(Cell)
      OBVIOUS
    <2>2. IsArray(be_list_new) /\ Items(be_list_new) = << >>
      BY <2>1, NewIs, HeldIs
    <2>3. Len(be_list_new.data) = 2
      BY DEF be_list_new, Junk
    <2> QED
      BY <1>1, <1>2, <2>2, <2>3 DEF Sized
  <1>4. IsVector(vec) /\ Items(vec) = << >>
    <2>1. <<NIL, NIL>> \in Seq(Cell) /\ Len(<<NIL, NIL>>) = 2
      BY DEF Cell
    <2>2. OfVector(vec, <<NIL, NIL>>, 0)
      BY <1>1 DEF be_vector_init, OfVector
    <2> DEFINE d == <<NIL, NIL>>
               t == << >>
    <2>3. t \in Seq(Cell) /\ Len(t) = 0
      OBVIOUS
    <2>4. OfVector(vec, d, Len(t)) /\ \A i \in 1 .. Len(t) : d[i] = t[i]
      BY <2>2, <2>3
    <2>5. Len(t) <= Len(d) /\ Len(d) <= MaxCapacity /\ d \in Seq(Cell)
      BY <1>2, <2>1, <2>3
    <2> HIDE DEF d, t
    <2>6. IsVector(vec) /\ Items(vec) = t
      BY <2>3, <2>4, <2>5, VectorOf
    <2> QED
      BY <2>6 DEF t
  <1>5. ListInv
    BY <1>1, <1>3, <1>4 DEF ListInv
  <1> QED
    BY <1>1, <1>3, <1>4, <1>5 DEF AbstractL!Init

\* Lists and vectors in arrays that grow implement sequences and stacks, as long as
\* none of the rare events happens (be_list.c, be_listlib.c, be_vector.c).
THEOREM ListsImplement ==
    ASSUME Rare = {}
    PROVE  ListSpec => ListImplements
  <1>1. ListInit => ListInv /\ AbstractL!Init
    BY ListAssumption, ListInitIs
  <1>2. ListInv /\ [ListNext \/ VectorNext]_listVars => ListInv'
    BY ListAssumption, ListStepOrStays
  <1>3. ListInv /\ [ListNext \/ VectorNext]_listVars
            => [AbstractL!Next]_<<call, Items(list), walked, Items(vec), result>>
    BY ListAssumption, ListStepOrStays
  <1> QED
    BY <1>1, <1>2, <1>3, PTL DEF ListSpec, ListImplements, AbstractL!Spec

=============================================================================
