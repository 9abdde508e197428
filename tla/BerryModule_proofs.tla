------------------------- MODULE BerryModule_proofs -------------------------
(***************************************************************************)
(* Proofs about imports, for any modules, files and paths.                 *)
(***************************************************************************)
EXTENDS BerryModule, FiniteSetTheorems, SequenceTheorems, WellFoundedInduction, TLAPS


----------------------------------------------------------------------------
(* Numbers. *)

\* A set of numbers that is not empty has a least one.
LEMMA Least ==
    ASSUME NEW S \in SUBSET Nat, S # {}
    PROVE  \E n \in S : \A k \in S : n <= k
  <1> DEFINE less == OpToRel(<, Nat)
  <1>1. \E n \in S : \A k \in S : <<k, n>> \notin less
    <2>1. IsWellFoundedOn(less, Nat)
      BY NatLessThanWellFounded
    <2> HIDE DEF less
    <2> QED
      BY <2>1, WFMin
  <1>2. PICK n \in S : \A k \in S : <<k, n>> \notin less
    BY <1>1
  <1>3. ASSUME NEW k \in S PROVE n <= k
    <2>1. <<k, n>> \in Nat \X Nat /\ <<k, n>> \notin {p \in Nat \X Nat : p[1] < p[2]}
      BY <1>2, Zenon DEF OpToRel
    <2> QED
      BY <2>1
  <1> QED
    BY <1>3

\* One up to n has a greatest.
LEMMA Greatest ==
    ASSUME NEW n \in Nat, NEW S \in SUBSET (0 .. n), S # {}
    PROVE  \E m \in S : \A k \in S : k <= m
  <1> DEFINE T == {n - k : k \in S}
  <1>0. \A k \in S : k \in Nat /\ n - k \in Nat
    OBVIOUS
  <1>1. T \in SUBSET Nat /\ T # {}
    BY <1>0
  <1>2. PICK d \in T : \A k \in T : d <= k
    <2> HIDE DEF T
    <2> QED
      BY <1>1, Least
  <1>3. PICK m \in S : d = n - m
    BY <1>2
  <1>4. ASSUME NEW k \in S PROVE k <= m
    <2>1. n - k \in T
      OBVIOUS
    <2>2. n - m <= n - k
      BY <2>1, <1>2, <1>3
    <2> QED
      BY <2>2, <1>0
  <1> QED
    BY <1>4

\* Induction up to n.
LEMMA UpTo ==
    ASSUME NEW n \in Nat, NEW P, 0 \in P,
           \A i \in 0 .. n : i < n /\ i \in P => i + 1 \in P
    PROVE  0 .. n \subseteq P
  <1> SUFFICES ASSUME (0 .. n) \ P # {} PROVE FALSE
    OBVIOUS
  <1>1. PICK m \in (0 .. n) \ P : \A k \in (0 .. n) \ P : m <= k
    <2>1. (0 .. n) \ P \in SUBSET Nat
      OBVIOUS
    <2> QED
      BY <2>1, Least
  <1>2. m - 1 \in 0 .. n /\ m - 1 \in P
    BY <1>1
  <1> QED
    BY <1>1, <1>2

LEMMA MaxIs ==
    ASSUME NEW n \in Nat, NEW S \in SUBSET (1 .. n), S # {}
    PROVE  Max(S) \in S /\ \A k \in S : k <= Max(S)
  <1>1. PICK m \in S : \A k \in S : k <= m
    <2>1. S \in SUBSET (0 .. n)
      OBVIOUS
    <2> QED
      BY <2>1, Greatest
  <1>2. \E x \in S : \A y \in S : x >= y
    BY <1>1
  <1>3. Max(S) \in S /\ \A y \in S : Max(S) >= y
    BY <1>2, Zenon DEF Max
  <1> QED
    BY <1>3

----------------------------------------------------------------------------
(* The search. *)

\* What a fold computes for the sets of indices up to m.
SearchesUpTo(g, s, nm, m) ==
    g = [q \in SUBSET (1 .. m) |->
           IF q = {} THEN NotFound ELSE open_libfile(g[q \ {Max(q)}], nm, s[Max(q)])]

LEMMA SearchesUpToExist ==
    ASSUME NEW n \in Nat, NEW s, NEW nm
    PROVE  \E g : SearchesUpTo(g, s, nm, n)
  <1> DEFINE P == {m \in 0 .. n : \E g : SearchesUpTo(g, s, nm, m)}
  <1>1. 0 \in P
    <2> DEFINE g == [q \in SUBSET (1 .. 0) |-> NotFound]
    <2>1. \A q \in SUBSET (1 .. 0) : q = {}
      OBVIOUS
    <2>2. g = [q \in SUBSET (1 .. 0) |->
                 IF q = {} THEN NotFound ELSE open_libfile(g[q \ {Max(q)}], nm, s[Max(q)])]
      BY <2>1, Zenon
    <2> HIDE DEF g
    <2>3. SearchesUpTo(g, s, nm, 0)
      BY <2>2 DEF SearchesUpTo
    <2> QED
      BY <2>3
  <1>2. ASSUME NEW m \in 0 .. n, m < n, m \in P PROVE m + 1 \in P
    <2>1. PICK g : SearchesUpTo(g, s, nm, m)
      BY <1>2
    <2> DEFINE h == [q \in SUBSET (1 .. m + 1) |->
                       IF m + 1 \in q THEN open_libfile(g[q \ {m + 1}], nm, s[m + 1]) ELSE g[q]]
    <2>2. ASSUME NEW q \in SUBSET (1 .. m + 1)
          PROVE  h[q] = IF q = {} THEN NotFound ELSE open_libfile(h[q \ {Max(q)}], nm, s[Max(q)])
      <3>1. CASE m + 1 \in q
        <4>1. Max(q) = m + 1
          <5>1. m + 1 \in Nat /\ q # {}
            BY <3>1
          <5>2. Max(q) \in q /\ m + 1 <= Max(q)
            BY <5>1, <3>1, MaxIs
          <5>3. Max(q) \in 1 .. m + 1
            BY <5>2
          <5> QED
            BY <5>1, <5>2, <5>3
        <4>2. q \ {m + 1} \in SUBSET (1 .. m + 1) /\ m + 1 \notin q \ {m + 1}
          OBVIOUS
        <4>3. h[q \ {m + 1}] = g[q \ {m + 1}]
          BY <4>2
        <4>4. h[q] = open_libfile(g[q \ {m + 1}], nm, s[m + 1])
          BY <3>1
        <4> HIDE DEF h
        <4> QED
          BY <4>1, <4>3, <4>4, <3>1
      <3>2. CASE m + 1 \notin q
        <4>1. q \in SUBSET (1 .. m)
          BY <3>2
        <4>2. h[q] = g[q]
          BY <3>2
        <4>3. g[q] = IF q = {} THEN NotFound ELSE open_libfile(g[q \ {Max(q)}], nm, s[Max(q)])
          BY <4>1, <2>1 DEF SearchesUpTo
        <4>4. q \ {Max(q)} \in SUBSET (1 .. m + 1) /\ m + 1 \notin q \ {Max(q)}
          BY <3>2
        <4>5. h[q \ {Max(q)}] = g[q \ {Max(q)}]
          BY <4>4
        <4> HIDE DEF h
        <4> QED
          BY <4>2, <4>3, <4>5
      <3> QED
        BY <3>1, <3>2
    <2>3. h = [q \in SUBSET (1 .. m + 1) |-> h[q]]
      OBVIOUS
    <2> HIDE DEF h
    <2>4. SearchesUpTo(h, s, nm, m + 1)
      BY <2>2, <2>3 DEF SearchesUpTo
    <2>5. m + 1 \in 0 .. n
      BY <1>2
    <2> QED
      BY <2>4, <2>5
  <1> HIDE DEF P
  <1>3. n \in P
    BY <1>1, <1>2, UpTo
  <1> QED
    BY <1>3 DEF P

SearchOf(nm, s) == FoldLeft(LAMBDA t, p : open_libfile(t, nm, p), NotFound, s)

\* What the search has found after each place.
Goes(f, n, s, nm) ==
    /\ f[0] = NotFound
    /\ \A i \in 1 .. n : f[i] = open_libfile(f[i - 1], nm, s[i])
    /\ SearchOf(nm, s) = f[n]


LEMMA SearchGoes ==
    ASSUME NEW n \in Nat, NEW s, NEW nm, DOMAIN s = 1 .. n
    PROVE  \E f : Goes(f, n, s, nm)
  <1> DEFINE body(k) == [q \in SUBSET (DOMAIN s) |->
                           IF q = {} THEN NotFound ELSE open_libfile(k[q \ {Max(q)}], nm, s[Max(q)])]
             K == CHOOSE k : k = body(k)
             f == [i \in 0 .. n |-> K[1 .. i]]
  <1>1. SearchOf(nm, s) = K[DOMAIN s]
    BY DEF SearchOf, FoldLeft, MapThenFoldSet
  <1>2. PICK g : SearchesUpTo(g, s, nm, n)
    BY SearchesUpToExist
  <1>3. g = body(g)
    BY <1>2 DEF SearchesUpTo
  <1>4. K = body(K)
    <2> HIDE DEF body
    <2> QED
      BY <1>3, Zenon
  <1> HIDE DEF K
  <1>5. f[0] = NotFound
    <2>1. f[0] = K[1 .. 0] /\ 1 .. 0 = {}
      OBVIOUS
    <2>2. K[{}] = NotFound
      BY <1>4
    <2> HIDE DEF f
    <2> QED
      BY <2>1, <2>2
  <1>6. ASSUME NEW i \in 1 .. n PROVE f[i] = open_libfile(f[i - 1], nm, s[i])
    <2>1. 1 .. i \in SUBSET (DOMAIN s) /\ 1 .. i # {} /\ i \in 1 .. i
      OBVIOUS
    <2>2. Max(1 .. i) = i
      <3>1. Max(1 .. i) \in 1 .. i /\ i <= Max(1 .. i)
        BY <2>1, MaxIs
      <3> QED
        BY <3>1
    <2>3. (1 .. i) \ {i} = 1 .. i - 1
      OBVIOUS
    <2>4. K[1 .. i] = open_libfile(K[(1 .. i) \ {Max(1 .. i)}], nm, s[Max(1 .. i)])
      BY <1>4, <2>1, Zenon
    <2>5. f[i] = K[1 .. i] /\ f[i - 1] = K[1 .. i - 1]
      OBVIOUS
    <2> HIDE DEF f
    <2> QED
      BY <2>2, <2>3, <2>4, <2>5
  <1>8. f[n] = K[DOMAIN s]
    OBVIOUS
  <1>9. SearchOf(nm, s) = f[n]
    BY <1>1, <1>8
  <1> HIDE DEF f, K
  <1> QED
    BY <1>5, <1>6, <1>9, Zenon DEF Goes

Place == {"here", "lib", "flash"}
Search == [found : 0 .. 3, place : {""} \cup Place, missed : Nat]

LEMMA MissedCounts ==
    ASSUME NEW X, NEW Y, NEW t \in [found : X, place : Y, missed : Nat]
    PROVE  [t EXCEPT !.missed = @ + 1] = [found |-> t.found, place |-> t.place, missed |-> t.missed + 1]
  OBVIOUS

LEMMA SearchIs ==
    ASSUME NEW t \in Search
    PROVE  /\ t.found \in 0 .. 3 /\ t.place \in {""} \cup Place /\ t.missed \in Nat
           /\ t = [found |-> t.found, place |-> t.place, missed |-> t.missed]
           /\ [t EXCEPT !.missed = @ + 1] = [found |-> t.found, place |-> t.place, missed |-> t.missed + 1]
  <1> DEFINE X == 0 .. 3
             Y == {""} \cup Place
  <1>1. t \in [found : X, place : Y, missed : Nat]
    BY DEF Search
  <1> HIDE DEF X, Y
  <1>2. t.found \in X /\ t.place \in Y /\ t.missed \in Nat
    BY <1>1
  <1>3. t = [found |-> t.found, place |-> t.place, missed |-> t.missed]
    BY <1>1
  <1>4. [t EXCEPT !.missed = @ + 1] = [found |-> t.found, place |-> t.place, missed |-> t.missed + 1]
    BY <1>1, MissedCounts, Zenon
  <1> QED
    BY <1>2, <1>3, <1>4, Zenon DEF X, Y

LEMMA SearchMade ==
    ASSUME NEW r \in 0 .. 3, NEW p \in {""} \cup Place, NEW k \in Nat
    PROVE  /\ [found |-> r, place |-> p, missed |-> k] \in Search
           /\ [found |-> r, place |-> p, missed |-> k].found = r
           /\ [found |-> r, place |-> p, missed |-> k].place = p
  BY DEF Search

\* One file is tried.
TriedIs(t, u, nm, p, r) ==
    /\ u \in Search
    /\ t.found # 0 => u.found = t.found /\ u.place = t.place
    /\ t.found = 0 /\ Exists(nm, p, r) => u.found = r /\ u.place = p
    /\ t.found = 0 /\ ~Exists(nm, p, r) => u.found = 0 /\ u.place = t.place

LEMMA TriedIsOne ==
    ASSUME NEW t \in Search, NEW nm, NEW p \in Place, NEW r \in 1 .. 3
    PROVE  TriedIs(t, Tried(t, nm, p, r), nm, p, r)
  <1> DEFINE there == Exists(nm, p, r)
  <1>0. t.found \in 0 .. 3 /\ t.place \in {""} \cup Place /\ t.missed \in Nat
    BY SearchIs, Zenon
  <1>b. [t EXCEPT !.missed = @ + 1] = [found |-> t.found, place |-> t.place, missed |-> t.missed + 1]
    BY SearchIs, Zenon
  <1>1. CASE t.found # 0
    <2>1. Tried(t, nm, p, r) = t
      BY <1>1 DEF Tried
    <2> QED
      BY <2>1, <1>1 DEF TriedIs
  <1>2. CASE t.found = 0 /\ there
    <2>1. Tried(t, nm, p, r) = [found |-> r, place |-> p, missed |-> t.missed]
      BY <1>2 DEF Tried
    <2> HIDE DEF there
    <2>2. /\ [found |-> r, place |-> p, missed |-> t.missed] \in Search
          /\ [found |-> r, place |-> p, missed |-> t.missed].found = r
          /\ [found |-> r, place |-> p, missed |-> t.missed].place = p
      <3>1. r \in 0 .. 3
        OBVIOUS
      <3>2. p \in {""} \cup Place /\ t.missed \in Nat
        BY <1>0, Zenon
      <3> QED
        BY <3>1, <3>2, SearchMade, Zenon
    <2> QED
      BY <2>1, <2>2, <1>2 DEF TriedIs, there
  <1>3. CASE t.found = 0 /\ ~there
    <2>1. Tried(t, nm, p, r) = [t EXCEPT !.missed = @ + 1]
      BY <1>3 DEF Tried
    <2> HIDE DEF there
    <2>2. /\ [found |-> t.found, place |-> t.place, missed |-> t.missed + 1] \in Search
          /\ [found |-> t.found, place |-> t.place, missed |-> t.missed + 1].found = t.found
          /\ [found |-> t.found, place |-> t.place, missed |-> t.missed + 1].place = t.place
      <3>1. t.missed \in Nat
        BY <1>0, Zenon
      <3>2. t.missed + 1 \in Nat
        BY <3>1
      <3> QED
        BY <3>2, <1>0, SearchMade, Zenon
    <2> QED
      BY <2>1, <2>2, <1>b, <1>3 DEF TriedIs, there
  <1> QED
    BY <1>1, <1>2, <1>3

\* What is found in a place: the first suffix there.
FoundIn(t, u, nm, p) ==
    /\ u \in Search
    /\ t.found # 0 => u.found = t.found /\ u.place = t.place
    /\ t.found = 0 => \/ u.found = 0 /\ u.place = t.place /\ \A r \in 1 .. 3 : ~Exists(nm, p, r)
                      \/ /\ u.found # 0 /\ u.place = p /\ Exists(nm, p, u.found)
                         /\ \A r \in 1 .. u.found - 1 : ~Exists(nm, p, r)

LEMMA OpenFinds ==
    ASSUME NEW t \in Search, NEW nm, NEW p \in Place
    PROVE  FoundIn(t, open_libfile(t, nm, p), nm, p)
  <1> DEFINE u == Tried(t, nm, p, 1)
             v == Tried(u, nm, p, 2)
             w == Tried(v, nm, p, 3)
             here(r) == Exists(nm, p, r)
  <1>0. open_libfile(t, nm, p) = w
    BY DEF open_libfile
  <1>1. TriedIs(t, u, nm, p, 1)
    BY TriedIsOne
  <1>2. u \in Search
    BY <1>1 DEF TriedIs
  <1> HIDE DEF u
  <1>3. TriedIs(u, v, nm, p, 2)
    BY <1>2, TriedIsOne
  <1>4. v \in Search
    BY <1>3 DEF TriedIs
  <1> HIDE DEF v
  <1>5. TriedIs(v, w, nm, p, 3)
    BY <1>4, TriedIsOne
  <1> HIDE DEF w
  <1>6. w \in Search
    BY <1>5 DEF TriedIs
  <1>7. t.found # 0 => w.found = t.found /\ w.place = t.place
    BY <1>1, <1>3, <1>5 DEF TriedIs
  <1>8. t.found = 0 /\ here(1) => w.found = 1 /\ w.place = p
    BY <1>1, <1>3, <1>5 DEF TriedIs
  <1>9. t.found = 0 /\ ~here(1) /\ here(2) => w.found = 2 /\ w.place = p
    BY <1>1, <1>3, <1>5 DEF TriedIs
  <1>10. t.found = 0 /\ ~here(1) /\ ~here(2) /\ here(3) => w.found = 3 /\ w.place = p
    BY <1>1, <1>3, <1>5 DEF TriedIs
  <1>11. t.found = 0 /\ ~here(1) /\ ~here(2) /\ ~here(3) => w.found = 0 /\ w.place = t.place
    BY <1>1, <1>3, <1>5 DEF TriedIs
  <1>12. 1 .. 3 = {1, 2, 3} /\ 1 .. (1 - 1) = {} /\ 1 .. (2 - 1) = {1} /\ 1 .. (3 - 1) = {1, 2}
    OBVIOUS
  <1>13. t.found = 0 => \/ w.found = 0 /\ w.place = t.place /\ \A r \in {1, 2, 3} : ~here(r)
                        \/ /\ w.found # 0 /\ w.place = p /\ here(w.found)
                           /\ \A r \in 1 .. w.found - 1 : ~here(r)
    <2> HIDE DEF here
    <2> QED
      BY <1>8, <1>9, <1>10, <1>11, <1>12
  <1> QED
    BY <1>0, <1>6, <1>7, <1>12, <1>13, Zenon DEF FoundIn

\* What the search has found after i places.
NotIn(nm, ps, n) == \A j \in 1 .. n : \A r \in 1 .. 3 : ~Exists(nm, ps[j], r)
FoundAt(t, nm, ps, j) ==
    /\ t.found # 0 /\ t.place = ps[j] /\ Exists(nm, ps[j], t.found)
    /\ \A r \in 1 .. t.found - 1 : ~Exists(nm, ps[j], r)
    /\ NotIn(nm, ps, j - 1)
Searched(t, nm, ps, i) ==
    /\ t \in Search
    /\ \/ t.found = 0 /\ t.place = "" /\ NotIn(nm, ps, i)
       \/ \E j \in 1 .. i : FoundAt(t, nm, ps, j)

LEMMA SearchStep ==
    ASSUME NEW nm, NEW ps \in Seq(Place), NEW i \in 0 .. Len(ps), i < Len(ps),
           NEW t, Searched(t, nm, ps, i)
    PROVE  Searched(open_libfile(t, nm, ps[i + 1]), nm, ps, i + 1)
  <1> DEFINE u == open_libfile(t, nm, ps[i + 1])
  <1>0. i \in Nat /\ i + 1 \in 1 .. Len(ps) /\ ps[i + 1] \in Place
    OBVIOUS
  <1>1. FoundIn(t, u, nm, ps[i + 1])
    BY <1>0, OpenFinds DEF Searched
  <1> HIDE DEF u
  <1>2. u \in Search
    BY <1>1 DEF FoundIn
  <1>3. ASSUME NEW j \in 1 .. i, FoundAt(t, nm, ps, j) PROVE \E k \in 1 .. i + 1 : FoundAt(u, nm, ps, k)
    <2>1. u.found = t.found /\ u.place = t.place
      BY <1>1, <1>3 DEF FoundIn, FoundAt
    <2>2. FoundAt(u, nm, ps, j)
      BY <2>1, <1>3 DEF FoundAt
    <2>3. j \in 1 .. i + 1
      BY <1>0
    <2> QED
      BY <2>2, <2>3
  <1>4. ASSUME t.found = 0, t.place = "", NotIn(nm, ps, i) PROVE Searched(u, nm, ps, i + 1)
    <2>1. CASE u.found = 0 /\ u.place = t.place /\ \A r \in 1 .. 3 : ~Exists(nm, ps[i + 1], r)
      <3>1. \A j \in 1 .. i + 1 : j \in 1 .. i \/ j = i + 1
        BY <1>0
      <3>2. NotIn(nm, ps, i + 1)
        BY <3>1, <2>1, <1>4, Zenon DEF NotIn
      <3> QED
        BY <3>2, <2>1, <1>2, <1>4, Zenon DEF Searched
    <2>2. CASE /\ u.found # 0 /\ u.place = ps[i + 1] /\ Exists(nm, ps[i + 1], u.found)
               /\ \A r \in 1 .. u.found - 1 : ~Exists(nm, ps[i + 1], r)
      <3>1. (i + 1) - 1 = i /\ i + 1 \in 1 .. i + 1
        BY <1>0
      <3>2. FoundAt(u, nm, ps, i + 1)
        BY <3>1, <2>2, <1>4, Zenon DEF FoundAt
      <3> QED
        BY <3>1, <3>2, <1>2, Zenon DEF Searched
    <2> QED
      BY <2>1, <2>2, <1>1, <1>4 DEF FoundIn
  <1>5. ASSUME \E j \in 1 .. i : FoundAt(t, nm, ps, j) PROVE Searched(u, nm, ps, i + 1)
    <2>1. \E k \in 1 .. i + 1 : FoundAt(u, nm, ps, k)
      BY <1>3, <1>5
    <2> QED
      BY <2>1, <1>2, Zenon DEF Searched
  <1>6. Searched(u, nm, ps, i + 1)
    BY <1>4, <1>5 DEF Searched
  <1> QED
    BY <1>6 DEF u

LEMMA PlacesAre ==
    ASSUME NEW from \in Place, paths \in Seq(Place)
    PROVE  /\ Places(from) \in Seq(Place)
           /\ DOMAIN Places(from) = 1 .. Len(Places(from)) /\ Len(Places(from)) \in Nat
  <1>1. Reverse(paths) \in Seq(Place)
    BY DEF Reverse
  <1>2. <<from>> \in Seq(Place)
    OBVIOUS
  <1>3. Places(from) \in Seq(Place)
    BY <1>1, <1>2 DEF Places
  <1> QED
    BY <1>3

\* Search: load_package finds a file in the first place that has one, with the first
\* suffix that it has there (open_libfile, load_package).
LEMMA PackageSearched ==
    ASSUME NEW nm, NEW from \in Place, paths \in Seq(Place)
    PROVE  Searched(load_package(nm, from), nm, Places(from), Len(Places(from)))
  <1> DEFINE ps == Places(from)
             n == Len(ps)
  <1>1. ps \in Seq(Place) /\ DOMAIN ps = 1 .. n /\ n \in Nat
    BY PlacesAre
  <1>2. load_package(nm, from) = SearchOf(nm, ps)
    BY DEF load_package, SearchOf
  <1> HIDE DEF ps, n
  <1>3. PICK f : Goes(f, n, ps, nm)
    BY <1>1, SearchGoes
  <1>a. /\ f[0] = NotFound
        /\ \A i \in 1 .. n : f[i] = open_libfile(f[i - 1], nm, ps[i])
        /\ SearchOf(nm, ps) = f[n]
    BY <1>3, Zenon DEF Goes
  <1> DEFINE P == {i \in 0 .. n : Searched(f[i], nm, ps, i)}
  <1>4. 0 \in P
    <2>1. NotFound \in Search /\ NotFound.found = 0 /\ NotFound.place = ""
      BY DEF NotFound, Search
    <2>2. NotIn(nm, ps, 0)
      BY DEF NotIn
    <2>3. Searched(f[0], nm, ps, 0)
      BY <2>1, <2>2, <1>a DEF Searched
    <2> QED
      BY <2>3, <1>1
  <1>5. ASSUME NEW i \in 0 .. n, i < n, i \in P PROVE i + 1 \in P
    <2>1. Searched(f[i], nm, ps, i)
      BY <1>5
    <2>2. Searched(open_libfile(f[i], nm, ps[i + 1]), nm, ps, i + 1)
      BY <2>1, <1>1, <1>5, SearchStep DEF n
    <2>3. i + 1 \in 1 .. n /\ (i + 1) - 1 = i /\ i + 1 \in 0 .. n
      BY <1>1, <1>5
    <2>4. f[i + 1] = open_libfile(f[i], nm, ps[i + 1])
      BY <2>3, <1>a
    <2> QED
      BY <2>2, <2>3, <2>4
  <1> HIDE DEF P
  <1>6. n \in P
    BY <1>1, <1>4, <1>5, UpTo
  <1>7. Searched(f[n], nm, ps, n)
    BY <1>6 DEF P
  <1> QED
    BY <1>2, <1>a, <1>7 DEF ps, n

\* The number of the place of a file, and of its suffix.
LEMMA PlaceNumbered ==
    ASSUME NEW ps \in Seq(Place), NEW p, p \in Range(ps)
    PROVE  /\ PlaceNumber(ps, p) \in 1 .. Len(ps)
           /\ ps[PlaceNumber(ps, p)] = p
           /\ \A j \in 1 .. PlaceNumber(ps, p) - 1 : ps[j] # p
  <1> DEFINE S == {i \in 1 .. Len(ps) : ps[i] = p}
  <1>1. DOMAIN ps = 1 .. Len(ps) /\ Len(ps) \in Nat
    OBVIOUS
  <1>2. S \in SUBSET Nat /\ S # {}
    <2>1. \E i \in DOMAIN ps : ps[i] = p
      BY DEF Range
    <2> QED
      BY <2>1, <1>1
  <1>3. PICK i \in S : \A k \in S : i <= k
    <2> HIDE DEF S
    <2> QED
      BY <1>2, Least
  <1>4. i \in DOMAIN ps /\ ps[i] = p /\ \A j \in 1 .. i - 1 : ps[j] # p
    <2>1. ASSUME NEW j \in 1 .. i - 1, ps[j] = p PROVE FALSE
      <3>1. j \in S /\ j < i
        BY <2>1, <1>1, <1>3
      <3> HIDE DEF S
      <3> QED
        BY <3>1, <1>2, <1>3
    <2> QED
      BY <2>1, <1>1, <1>3
  <1> DEFINE n == PlaceNumber(ps, p)
  <1>5. n \in DOMAIN ps /\ ps[n] = p /\ \A j \in 1 .. n - 1 : ps[j] # p
    BY <1>4, Zenon DEF PlaceNumber
  <1> QED
    BY <1>5, <1>1

LEMMA OneTwoThree == 1 .. 3 = {1, 2, 3}
  OBVIOUS

LEMMA SuffixesAre ==
    /\ DOMAIN sfxs = {1, 2, 3}
    /\ sfxs[1] = "" /\ sfxs[2] = ".bec" /\ sfxs[3] = ".be"
  BY DEF sfxs

LEMMA SuffixNumbered ==
    ASSUME NEW x, x \in {"", ".bec", ".be"}
    PROVE  SuffixNumber(x) \in 1 .. 3 /\ sfxs[SuffixNumber(x)] = x
  <1>1. \E s \in DOMAIN sfxs : sfxs[s] = x
    BY SuffixesAre, Zenon
  <1>2. SuffixNumber(x) \in DOMAIN sfxs /\ sfxs[SuffixNumber(x)] = x
    BY <1>1, Zenon DEF SuffixNumber
  <1> QED
    BY <1>2, SuffixesAre, OneTwoThree, Zenon

LEMMA ThreeStrings == "" # ".bec" /\ "" # ".be" /\ ".bec" # ".be"
  BY Zenon

\* Two suffixes with one number are one.
LEMMA SuffixOnce ==
    ASSUME NEW r \in 1 .. 3
    PROVE  /\ sfxs[r] \in {"", ".bec", ".be"}
           /\ SuffixNumber(sfxs[r]) = r
  <1>2. r = 1 \/ r = 2 \/ r = 3
    OBVIOUS
  <1>3. sfxs[r] \in {"", ".bec", ".be"}
    BY SuffixesAre, <1>2, Zenon
  <1> DEFINE n == SuffixNumber(sfxs[r])
  <1>4. n \in 1 .. 3 /\ sfxs[n] = sfxs[r]
    BY <1>3, SuffixNumbered, Zenon
  <1>5. n = 1 \/ n = 2 \/ n = 3
    BY <1>4, OneTwoThree, Zenon
  <1> HIDE DEF n
  <1>6. CASE r = 1
    <2>1. n = r
      BY <1>4, <1>5, <1>6, SuffixesAre, ThreeStrings, Zenon
    <2> QED
      BY <1>3, <2>1, Zenon DEF n
  <1>7. CASE r = 2
    <2>1. n = r
      BY <1>4, <1>5, <1>7, SuffixesAre, ThreeStrings, Zenon
    <2> QED
      BY <1>3, <2>1, Zenon DEF n
  <1>8. CASE r = 3
    <2>1. n = r
      BY <1>4, <1>5, <1>8, SuffixesAre, ThreeStrings, Zenon
    <2> QED
      BY <1>3, <2>1, Zenon DEF n
  <1> QED
    BY <1>2, <1>6, <1>7, <1>8, Zenon

\* A file of the module in one of the places: its place and suffix by their numbers.
LEMMA FileNumbered ==
    ASSUME files \in FileSystems, NEW ps \in Seq(Place), NEW nm,
           NEW f \in files, f.name = nm, f.place \in Range(ps)
    PROVE  /\ PlaceNumber(ps, f.place) \in 1 .. Len(ps) /\ ps[PlaceNumber(ps, f.place)] = f.place
           /\ SuffixNumber(f.suffix) \in 1 .. 3 /\ sfxs[SuffixNumber(f.suffix)] = f.suffix
           /\ Exists(nm, ps[PlaceNumber(ps, f.place)], SuffixNumber(f.suffix))
           /\ f # Absent
  <1>1. f # Absent /\ f.suffix \in {"", ".bec", ".be"}
    BY ModuleAssumption, Zenon
  <1>2. SuffixNumber(f.suffix) \in 1 .. 3 /\ sfxs[SuffixNumber(f.suffix)] = f.suffix
    BY <1>1, SuffixNumbered, Zenon
  <1>3. PlaceNumber(ps, f.place) \in 1 .. Len(ps) /\ ps[PlaceNumber(ps, f.place)] = f.place
    BY PlaceNumbered, Zenon
  <1>4. Exists(nm, ps[PlaceNumber(ps, f.place)], SuffixNumber(f.suffix))
    BY <1>2, <1>3, Zenon DEF Exists
  <1> QED
    BY <1>1, <1>2, <1>3, <1>4, Zenon

\* What the search says of the file, and what is meant.
Says(t) == <<t.place, IF t.found = 0 THEN "" ELSE sfxs[t.found]>>
Means(f) == IF f = Absent THEN <<"", "">> ELSE <<f.place, f.suffix>>

LEMMA NothingFound ==
    ASSUME files \in FileSystems, paths \in Seq(Place), NEW from \in Place, NEW nm,
           NotIn(nm, Places(from), Len(Places(from)))
    PROVE  Nearest(nm, from) = Absent
  <1> DEFINE ps == Places(from)
  <1>1. ps \in Seq(Place)
    BY PlacesAre
  <1>2. Nearest(nm, from) = Absent \/ \E f \in files : f.name = nm /\ f.place \in Range(ps)
    BY Zenon DEF Nearest
  <1> HIDE DEF ps
  <1>3. ASSUME NEW f \in files, f.name = nm, f.place \in Range(ps) PROVE FALSE
    <2>1. /\ PlaceNumber(ps, f.place) \in 1 .. Len(ps)
          /\ SuffixNumber(f.suffix) \in 1 .. 3
          /\ Exists(nm, ps[PlaceNumber(ps, f.place)], SuffixNumber(f.suffix))
      BY <1>1, <1>3, FileNumbered, Zenon
    <2> QED
      BY <2>1, Zenon DEF NotIn, ps
  <1> QED
    BY <1>2, <1>3, Zenon

\* No file of the module is nearer than the j-th place and the r-th suffix.
NoneNearer(nm, ps, j, r) ==
    \A f \in files : f.name = nm /\ f.place \in Range(ps) =>
        \/ j < PlaceNumber(ps, f.place)
        \/ j = PlaceNumber(ps, f.place) /\ r <= SuffixNumber(f.suffix)

LEMMA FoundNone ==
    ASSUME files \in FileSystems, NEW ps \in Seq(Place), NEW nm,
           NEW t \in Search, NEW j \in 1 .. Len(ps), FoundAt(t, nm, ps, j)
    PROVE  NoneNearer(nm, ps, j, t.found)
  <1> SUFFICES ASSUME NEW f \in files, f.name = nm, f.place \in Range(ps)
               PROVE  \/ j < PlaceNumber(ps, f.place)
                      \/ j = PlaceNumber(ps, f.place) /\ t.found <= SuffixNumber(f.suffix)
    BY DEF NoneNearer
  <1> DEFINE a == PlaceNumber(ps, f.place)
             b == SuffixNumber(f.suffix)
  <1>1. a \in 1 .. Len(ps) /\ b \in 1 .. 3 /\ Exists(nm, ps[a], b)
    BY FileNumbered, Zenon
  <1> HIDE DEF a, b
  <1>2. t.found \in 0 .. 3
    BY SearchIs, Zenon
  <1> DEFINE k == t.found
  <1>3. ~(a \in 1 .. j - 1)
    BY <1>1, Zenon DEF FoundAt, NotIn
  <1>4. a = j => ~(b \in 1 .. k - 1)
    BY <1>1, Zenon DEF FoundAt
  <1> HIDE DEF k
  <1>5. k \in 0 .. 3
    BY <1>2 DEF k
  <1>6. j < a \/ (j = a /\ k <= b)
    BY <1>1, <1>3, <1>4, <1>5
  <1> QED
    BY <1>6, Zenon DEF a, b, k

\* The file that was found is as near as any.
LEMMA FoundIsNear ==
    ASSUME files \in FileSystems, NEW ps \in Seq(Place), NEW nm,
           NEW t \in Search, NEW j \in 1 .. Len(ps), FoundAt(t, nm, ps, j)
    PROVE  \E g \in files : /\ g.name = nm /\ g.place \in Range(ps)
                            /\ PlaceNumber(ps, g.place) = j /\ SuffixNumber(g.suffix) = t.found
  <1>1. t.found \in 0 .. 3 /\ t.found # 0
    BY SearchIs, Zenon DEF FoundAt
  <1> DEFINE k == t.found
  <1>2. k \in 1 .. 3
    <2> HIDE DEF k
    <2>1. k \in 0 .. 3 /\ k # 0
      BY <1>1 DEF k
    <2> QED
      BY <2>1
  <1>3. PICK g \in files : g.name = nm /\ g.place = ps[j] /\ g.suffix = sfxs[k]
    BY Zenon DEF FoundAt, Exists
  <1>4. SuffixNumber(g.suffix) = k
    BY <1>2, <1>3, SuffixOnce, Zenon
  <1>5. g.place \in Range(ps)
    <2>1. j \in DOMAIN ps
      OBVIOUS
    <2> QED
      BY <2>1, <1>3, Zenon DEF Range
  <1> DEFINE i == PlaceNumber(ps, g.place)
  <1>6. /\ i \in 1 .. Len(ps) /\ ps[i] = ps[j]
        /\ \A h \in 1 .. i - 1 : ps[h] # ps[j]
    BY <1>3, <1>5, PlaceNumbered, Zenon
  <1> HIDE DEF i
  <1>7. ~(j \in 1 .. i - 1)
    BY <1>6, Zenon
  <1>8. ~(i \in 1 .. j - 1)
    <2>1. Exists(nm, ps[i], k)
      BY <1>6, Zenon DEF FoundAt
    <2> QED
      BY <2>1, <1>2, Zenon DEF FoundAt, NotIn
  <1> HIDE DEF k
  <1>9. i = j
    BY <1>6, <1>7, <1>8
  <1> QED
    BY <1>3, <1>4, <1>5, <1>9, Zenon DEF i, k

\* The file that is meant is in the place and has the suffix that the search found.
LEMMA NearestFound ==
    ASSUME files \in FileSystems, paths \in Seq(Place), NEW from \in Place, NEW nm,
           NEW t \in Search, NEW j \in 1 .. Len(Places(from)), FoundAt(t, nm, Places(from), j)
    PROVE  LET f == Nearest(nm, from)
           IN  f \in files /\ f # Absent /\ f.place = t.place /\ f.suffix = sfxs[t.found]
  <1> DEFINE ps == Places(from)
             near(f) == \A g \in files : g.name = nm /\ g.place \in Range(ps) => AsNear(ps, f, g)
  <1>1. ps \in Seq(Place)
    BY PlacesAre
  <1>2. NoneNearer(nm, ps, j, t.found)
    BY <1>1, FoundNone, Zenon
  <1>3. PICK g \in files : /\ g.name = nm /\ g.place \in Range(ps)
                           /\ PlaceNumber(ps, g.place) = j /\ SuffixNumber(g.suffix) = t.found
    BY <1>1, FoundIsNear, Zenon
  <1>4. near(g)
    BY <1>2, <1>3, Zenon DEF NoneNearer, AsNear
  <1> DEFINE fs == {f \in files : f.name = nm /\ f.place \in Range(ps)}
             f == Nearest(nm, from)
  <1>5. fs # {}
    BY <1>3
  <1>6. f = CHOOSE x \in fs : \A y \in fs : AsNear(ps, x, y)
    BY <1>5, Zenon DEF Nearest
  <1>7. f \in fs /\ \A y \in fs : AsNear(ps, f, y)
    <2>1. g \in fs /\ \A y \in fs : AsNear(ps, g, y)
      BY <1>3, <1>4, Zenon
    <2> HIDE DEF fs, f
    <2> QED
      BY <2>1, <1>6, Zenon
  <1>8. f \in files /\ f.name = nm /\ f.place \in Range(ps) /\ AsNear(ps, f, g)
    BY <1>3, <1>7, Zenon
  <1> HIDE DEF f, fs, near
  <1> DEFINE a == PlaceNumber(ps, f.place)
             b == SuffixNumber(f.suffix)
             k == t.found
  <1>9. a < j \/ (a = j /\ b <= k)
    BY <1>3, <1>8, Zenon DEF AsNear
  <1>10. j < a \/ (j = a /\ k <= b)
    BY <1>2, <1>8, Zenon DEF NoneNearer
  <1>11. /\ a \in 1 .. Len(ps) /\ ps[a] = f.place
         /\ b \in 1 .. 3 /\ sfxs[b] = f.suffix /\ f # Absent
    BY <1>1, <1>8, FileNumbered, Zenon
  <1>12. k \in 0 .. 3
    BY SearchIs, Zenon
  <1> HIDE DEF a, b, k
  <1>13. a = j /\ b = k
    <2>1. a \in 1 .. Len(ps) /\ b \in 1 .. 3
      BY <1>11
    <2> QED
      BY <2>1, <1>9, <1>10, <1>12
  <1>14. f.place = t.place
    BY <1>11, <1>13, Zenon DEF FoundAt, ps
  <1>15. f.suffix = sfxs[t.found]
    BY <1>11, <1>13, Zenon DEF k
  <1> QED
    BY <1>8, <1>11, <1>14, <1>15, Zenon DEF f

\* Meant: the search finds the file that is meant, or none where there is none.
LEMMA SearchIsMeant ==
    ASSUME files \in FileSystems, paths \in Seq(Place), NEW from \in Place, NEW nm
    PROVE  /\ load_package(nm, from) \in Search
           /\ load_package(nm, from).found # 0 => load_package(nm, from).place \in Place
           /\ Says(load_package(nm, from)) = Means(Nearest(nm, from))
  <1> DEFINE t == load_package(nm, from)
             ps == Places(from)
             n == Len(ps)
  <1>1. Searched(t, nm, ps, n)
    BY PackageSearched, Zenon
  <1> HIDE DEF t
  <1>2. t \in Search
    BY <1>1 DEF Searched
  <1>3. ASSUME t.found = 0, t.place = "", NotIn(nm, ps, n) PROVE Says(t) = Means(Nearest(nm, from))
    <2>1. Nearest(nm, from) = Absent
      BY <1>3, NothingFound, Zenon
    <2> QED
      BY <2>1, <1>3, Zenon DEF Says, Means
  <1>4. ASSUME NEW j \in 1 .. n, FoundAt(t, nm, ps, j) PROVE Says(t) = Means(Nearest(nm, from))
    <2> DEFINE f == Nearest(nm, from)
    <2>1. f # Absent /\ f.place = t.place /\ f.suffix = sfxs[t.found]
      BY <1>2, <1>4, NearestFound, Zenon
    <2>2. t.found # 0
      BY <1>4, Zenon DEF FoundAt
    <2> HIDE DEF f
    <2>3. Says(t) = Means(f)
      BY <2>1, <2>2, Zenon DEF Says, Means
    <2> QED
      BY <2>3 DEF f
  <1>5. Says(t) = Means(Nearest(nm, from))
    BY <1>1, <1>3, <1>4, Zenon DEF Searched
  <1>6. t.found # 0 => t.place \in Place
    <2>1. t.found # 0 => \E j \in 1 .. n : t.place = ps[j]
      BY <1>1, Zenon DEF Searched, FoundAt
    <2>2. \A j \in 1 .. n : ps[j] \in Place
      <3>1. ps \in Seq(Place)
        BY PlacesAre
      <3> HIDE DEF ps
      <3> QED
        BY <3>1
    <2> QED
      BY <2>1, <2>2, Zenon
  <1> QED
    BY <1>2, <1>5, <1>6, Zenon DEF t

----------------------------------------------------------------------------
(* The modules whose code runs. *)

Value == {Absent, Number} \cup {Made(k) : k \in Nat} \cup {Native(m) : m \in ModuleNames}
Frame == [name : ModuleNames \cup {Absent}, place : Place, phase : {"body", "init"}, value : Value,
          buffer : BOOLEAN, extra : Nat]

\* The main program, and modules in files; a module has its path until its code ends.
Frames(s) ==
    /\ s \in Seq(Frame) /\ Len(s) # 0
    /\ s[1].name = Absent /\ s[1].phase = "body" /\ ~s[1].buffer
    /\ \A k \in 2 .. Len(s) : /\ s[k].name \in ModuleNames \ Natives
                              /\ s[k].buffer <=> s[k].phase = "body"

LEMMA FrameFields ==
    ASSUME NEW N, NEW P, NEW H, NEW V,
           NEW f \in [name : N, place : P, phase : H, value : V, buffer : BOOLEAN, extra : Nat]
    PROVE  /\ f.name \in N /\ f.place \in P /\ f.phase \in H /\ f.value \in V
           /\ f.buffer \in BOOLEAN /\ f.extra \in Nat
  OBVIOUS

LEMMA FrameMade ==
    ASSUME NEW N, NEW P, NEW H, NEW V,
           NEW n \in N, NEW p \in P, NEW h \in H, NEW v \in V, NEW b \in BOOLEAN, NEW e \in Nat
    PROVE  [name |-> n, place |-> p, phase |-> h, value |-> v, buffer |-> b, extra |-> e]
             \in [name : N, place : P, phase : H, value : V, buffer : BOOLEAN, extra : Nat]
  OBVIOUS

LEMMA ExtraSet ==
    ASSUME NEW N, NEW P, NEW H, NEW V, NEW e \in Nat,
           NEW f \in [name : N, place : P, phase : H, value : V, buffer : BOOLEAN, extra : Nat]
    PROVE  [f EXCEPT !.extra = e]
             = [name |-> f.name, place |-> f.place, phase |-> f.phase, value |-> f.value,
                buffer |-> f.buffer, extra |-> e]
  OBVIOUS

LEMMA FrameIs ==
    ASSUME NEW f \in Frame
    PROVE  /\ f.name \in ModuleNames \cup {Absent} /\ f.place \in Place /\ f.phase \in {"body", "init"}
           /\ f.value \in Value /\ f.buffer \in BOOLEAN /\ f.extra \in Nat
  BY FrameFields, Zenon DEF Frame

\* The same frame with other values above it.
Alike(f, g) == /\ f.name = g.name /\ f.place = g.place /\ f.phase = g.phase
               /\ f.value = g.value /\ f.buffer = g.buffer

LEMMA FrameExtra ==
    ASSUME NEW f \in Frame, NEW e \in Nat
    PROVE  [f EXCEPT !.extra = e] \in Frame /\ Alike([f EXCEPT !.extra = e], f)
           /\ [f EXCEPT !.extra = e].extra = e
  <1> DEFINE g == [name |-> f.name, place |-> f.place, phase |-> f.phase, value |-> f.value,
                   buffer |-> f.buffer, extra |-> e]
  <1>1. [f EXCEPT !.extra = e] = g
    <2> DEFINE N == ModuleNames \cup {Absent}
               H == {"body", "init"}
    <2>1. f \in [name : N, place : Place, phase : H, value : Value, buffer : BOOLEAN, extra : Nat]
      BY DEF Frame
    <2> HIDE DEF N, H
    <2> QED
      BY <2>1, ExtraSet
  <1>2. g \in Frame
    BY FrameIs, FrameMade, Zenon DEF Frame
  <1>3. Alike(g, f) /\ g.extra = e
    BY DEF Alike
  <1> HIDE DEF g
  <1> QED
    BY <1>1, <1>2, <1>3, Zenon

\* The first k frames.
LEMMA Popped ==
    ASSUME NEW s, Frames(s), NEW k \in 1 .. Len(s)
    PROVE  /\ Frames(SubSeq(s, 1, k)) /\ Len(SubSeq(s, 1, k)) = k
           /\ \A i \in 1 .. k : SubSeq(s, 1, k)[i] = s[i]
  <1> DEFINE u == SubSeq(s, 1, k)
  <1>1. s \in Seq(Frame) /\ Len(s) \in Nat
    BY DEF Frames
  <1>2. u \in Seq(Frame) /\ Len(u) = k /\ \A i \in 1 .. k : u[i] = s[i]
    BY <1>1
  <1> HIDE DEF u
  <1>3. k # 0 /\ 1 \in 1 .. k /\ \A i \in 2 .. k : i \in 2 .. Len(s) /\ i \in 1 .. k
    BY <1>1
  <1>4. Frames(u)
    <2>1. u[1].name = Absent /\ u[1].phase = "body" /\ ~u[1].buffer
      BY <1>2, <1>3, Zenon DEF Frames
    <2>2. ASSUME NEW i \in 2 .. k
          PROVE  u[i].name \in ModuleNames \ Natives /\ (u[i].buffer <=> u[i].phase = "body")
      BY <1>2, <1>3, Zenon DEF Frames
    <2> QED
      BY <1>2, <1>3, <2>1, <2>2, Zenon DEF Frames
  <1> QED
    BY <1>2, <1>4, Zenon DEF u

\* A frame above them, with some values above the last one.
Entered(s, e, f) == Append([s EXCEPT ![Len(s)].extra = e], f)

LEMMA Pushed ==
    ASSUME NEW s, Frames(s), NEW e \in Nat, NEW f \in Frame,
           f.name \in ModuleNames \ Natives, f.buffer, f.phase = "body"
    PROVE  /\ Frames(Entered(s, e, f)) /\ Len(Entered(s, e, f)) = Len(s) + 1
           /\ Entered(s, e, f)[Len(s) + 1] = f
           /\ \A i \in 1 .. Len(s) : /\ Alike(Entered(s, e, f)[i], s[i])
                                     /\ Entered(s, e, f)[i].extra = IF i = Len(s) THEN e ELSE s[i].extra
  <1> DEFINE n == Len(s)
             g == [s[n] EXCEPT !.extra = e]
             w == [s EXCEPT ![n] = g]
             u == Append(w, f)
  <1>1. s \in Seq(Frame) /\ n \in Nat /\ n # 0 /\ n \in 1 .. n
    BY DEF Frames
  <1>2. s[n] \in Frame
    BY <1>1
  <1>3. g \in Frame /\ Alike(g, s[n]) /\ g.extra = e
    BY <1>2, FrameExtra, Zenon
  <1>4. Entered(s, e, f) = u
    BY DEF Entered
  <1> HIDE DEF g
  <1>5. w \in Seq(Frame) /\ Len(w) = n /\ \A i \in 1 .. n : w[i] = IF i = n THEN g ELSE s[i]
    BY <1>1, <1>3
  <1> HIDE DEF w
  <1>6. u \in Seq(Frame) /\ Len(u) = n + 1 /\ u[n + 1] = f /\ \A i \in 1 .. n : u[i] = w[i]
    BY <1>5, <1>1
  <1> HIDE DEF u
  <1>7. ASSUME NEW i \in 1 .. n PROVE Alike(u[i], s[i]) /\ u[i].extra = IF i = n THEN e ELSE s[i].extra
    <2>1. CASE i = n
      BY <2>1, <1>3, <1>5, <1>6, Zenon
    <2>2. CASE i # n
      <3>1. u[i] = s[i]
        BY <2>2, <1>5, <1>6, Zenon
      <3> QED
        BY <3>1, <2>2, Zenon DEF Alike
    <2> QED
      BY <2>1, <2>2
  <1>8. n + 1 # 0 /\ 1 \in 1 .. n /\ \A i \in 2 .. n + 1 : i = n + 1 \/ (i \in 2 .. n /\ i \in 1 .. n)
    BY <1>1
  <1>9. Frames(u)
    <2>1. u[1].name = Absent /\ u[1].phase = "body" /\ ~u[1].buffer
      BY <1>7, <1>8, Zenon DEF Frames, Alike
    <2>2. ASSUME NEW i \in 2 .. n + 1
          PROVE  u[i].name \in ModuleNames \ Natives /\ (u[i].buffer <=> u[i].phase = "body")
      <3>1. CASE i = n + 1
        BY <3>1, <1>6, Zenon
      <3>2. CASE i \in 2 .. n /\ i \in 1 .. n
        <4>1. u[i].name = s[i].name /\ u[i].buffer = s[i].buffer /\ u[i].phase = s[i].phase
          BY <3>2, <1>7, Zenon DEF Alike
        <4>2. s[i].name \in ModuleNames \ Natives /\ (s[i].buffer <=> s[i].phase = "body")
          BY <3>2, Zenon DEF Frames
        <4> QED
          BY <4>1, <4>2
      <3> QED
        BY <3>1, <3>2, <1>8, Zenon
    <2> QED
      BY <1>6, <1>8, <2>1, <2>2, Zenon DEF Frames
  <1> QED
    BY <1>4, <1>6, <1>7, <1>9, Zenon DEF n

\* The last frame goes on with its init function.
LEMMA Ended ==
    ASSUME NEW s, Frames(s), NEW f \in Frame, s[Len(s)].name # Absent,
           f.name = s[Len(s)].name, ~f.buffer, f.phase = "init", f.extra = s[Len(s)].extra
    PROVE  /\ Frames([s EXCEPT ![Len(s)] = f]) /\ Len([s EXCEPT ![Len(s)] = f]) = Len(s)
           /\ \A i \in 1 .. Len(s) : /\ [s EXCEPT ![Len(s)] = f][i].name = s[i].name
                                     /\ [s EXCEPT ![Len(s)] = f][i].extra = s[i].extra
                                     /\ i # Len(s) => [s EXCEPT ![Len(s)] = f][i] = s[i]
           /\ [s EXCEPT ![Len(s)] = f][Len(s)] = f
  <1> DEFINE n == Len(s)
             u == [s EXCEPT ![n] = f]
  <1>1. s \in Seq(Frame) /\ n \in Nat /\ n # 0 /\ n \in 1 .. n
    BY DEF Frames
  <1>2. u \in Seq(Frame) /\ Len(u) = n /\ u[n] = f /\ \A i \in 1 .. n : i # n => u[i] = s[i]
    BY <1>1
  <1> HIDE DEF u
  <1>3. n # 1
    BY Zenon DEF Frames
  <1> HIDE DEF n
  <1>4. 1 \in 1 .. n /\ n \in 2 .. n /\ \A i \in 2 .. n : i \in 1 .. n
    BY <1>1, <1>3
  <1>5. \A i \in 1 .. n : u[i].name = s[i].name /\ u[i].extra = s[i].extra
    BY <1>2, Zenon DEF n
  <1>6. Frames(u)
    <2>1. u[1].name = Absent /\ u[1].phase = "body" /\ ~u[1].buffer
      BY <1>2, <1>3, <1>4, Zenon DEF Frames
    <2>2. ASSUME NEW i \in 2 .. n
          PROVE  u[i].name \in ModuleNames \ Natives /\ (u[i].buffer <=> u[i].phase = "body")
      <3>1. CASE i = n
        <4>1. "init" # "body"
          OBVIOUS
        <4>2. f.name \in ModuleNames \ Natives
          BY <1>4, Zenon DEF Frames, n
        <4> QED
          BY <3>1, <1>2, <4>1, <4>2, Zenon
      <3>2. CASE i # n
        BY <3>2, <1>2, <1>4, Zenon DEF Frames, n
      <3> QED
        BY <3>1, <3>2
    <2> QED
      BY <1>1, <1>2, <2>1, <2>2, Zenon DEF Frames
  <1> QED
    BY <1>2, <1>5, <1>6, Zenon DEF n, u

----------------------------------------------------------------------------
(* The invariant. *)

Suffix == {"", ".bec", ".be"}
Got == Value \cup (({""} \cup Place) \X Suffix)
Named == ModuleNames \cup {Absent}

ModuleTypes ==
    /\ files \in FileSystems /\ paths \in Seq(Place)
    /\ loaded \in [ModuleNames -> Value] /\ first \in [ModuleNames -> Value]
    /\ buffers \in Nat /\ executions \in Nat
    /\ got \in [module : Named, is : Got, means : Got]
    /\ cycled \subseteq ModuleNames /\ lost \in Nat /\ missed \in BOOLEAN
    /\ left \in [imports : Nat, writes : Nat]

\* A module whose code runs is in no cache yet, and its code runs once, but for names in C.
Distinct(s, l, C) ==
    \A k \in 2 .. Len(s) : s[k].name \notin C =>
        /\ l[s[k].name] = Absent
        /\ \A j \in 2 .. Len(s) : s[j].name = s[k].name => j = k
Agree(l, h, C) == \A m \in ModuleNames \ C : l[m] = h[m]
Cache == Agree(loaded, first, cycled) /\ Distinct(importing, loaded, cycled)

\* The frames that have their path.
Buffered(s) == {k \in DOMAIN s : s[k].buffer}
Clean(s) == \A k \in DOMAIN s : s[k].extra = 0
Balance ==
    /\ buffers = Cardinality(Buffered(importing)) + lost
    /\ ~missed => Clean(importing)

ModuleInv ==
    /\ ModuleTypes
    /\ Frames(importing)
    /\ Cache
    /\ OneModule
    /\ Balance

LEMMA FramesDomain ==
    ASSUME NEW s, Frames(s)
    PROVE  DOMAIN s = 1 .. Len(s) /\ Len(s) \in Nat \ {0} /\ s \in Seq(Frame)
  BY DEF Frames

LEMMA BufferedFinite ==
    ASSUME NEW s, Frames(s)
    PROVE  IsFiniteSet(Buffered(s)) /\ Cardinality(Buffered(s)) \in Nat
  <1> DEFINE n == Len(s)
             B == Buffered(s)
  <1>1. DOMAIN s = 1 .. n /\ n \in Nat
    BY FramesDomain
  <1>2. B \subseteq 1 .. n
    BY <1>1 DEF Buffered
  <1> HIDE DEF n, B
  <1>3. IsFiniteSet(1 .. n)
    <2>1. 1 \in Int /\ n \in Int
      BY <1>1
    <2> QED
      BY <2>1, FS_Interval
  <1>4. IsFiniteSet(B)
    BY <1>2, <1>3, FS_Subset
  <1>5. Cardinality(B) \in Nat
    BY <1>4, FS_CardinalityType
  <1> QED
    BY <1>4, <1>5 DEF B

\* The frames above the k-th that have their path.
BufferedAbove(s, k) == {j \in k + 1 .. Len(s) : s[j].buffer}

\* Frames that are left take their paths with them.
LEMMA PoppedBuffered ==
    ASSUME NEW s, Frames(s), NEW k \in 1 .. Len(s)
    PROVE  /\ Cardinality(Buffered(s)) = Cardinality(Buffered(SubSeq(s, 1, k))) + Cardinality(BufferedAbove(s, k))
           /\ Cardinality(BufferedAbove(s, k)) \in Nat
           /\ (\A j \in k + 1 .. Len(s) : ~s[j].buffer) => Buffered(SubSeq(s, 1, k)) = Buffered(s)
           /\ Clean(s) => Clean(SubSeq(s, 1, k))
  <1> DEFINE u == SubSeq(s, 1, k)
             n == Len(s)
             B == Buffered(s)
             L == Buffered(u)
             H == BufferedAbove(s, k)
  <1>1. Frames(u) /\ Len(u) = k /\ \A i \in 1 .. k : u[i] = s[i]
    BY Popped
  <1> HIDE DEF u
  <1>2. DOMAIN s = 1 .. n /\ n \in Nat /\ DOMAIN u = 1 .. k /\ k \in Nat
    BY <1>1, FramesDomain
  <1>3. /\ \A i \in 1 .. k : i \in 1 .. n /\ i \notin k + 1 .. n
        /\ \A i \in k + 1 .. n : i \in 1 .. n
        /\ \A i \in 1 .. n : i \in 1 .. k \/ i \in k + 1 .. n
    BY <1>2
  <1>4. B = {i \in 1 .. n : s[i].buffer} /\ L = {i \in 1 .. k : s[i].buffer}
    BY <1>1, <1>2 DEF Buffered
  <1>5. H = {i \in k + 1 .. n : s[i].buffer}
    BY DEF BufferedAbove
  <1>6. B = L \cup H /\ L \cap H = {}
    BY <1>3, <1>4, <1>5
  <1>7. IsFiniteSet(B) /\ Cardinality(B) \in Nat
    BY BufferedFinite
  <1> HIDE DEF B, L, H
  <1>8. IsFiniteSet(L) /\ IsFiniteSet(H)
    <2>1. L \subseteq B /\ H \subseteq B
      BY <1>6
    <2> QED
      BY <2>1, <1>7, FS_Subset
  <1>9. Cardinality(L) \in Nat /\ Cardinality(H) \in Nat
    BY <1>8, FS_CardinalityType
  <1>10. Cardinality(B) = Cardinality(L) + Cardinality(H)
    <2>1. Cardinality(L \cup H) = Cardinality(L) + Cardinality(H) - Cardinality(L \cap H)
      BY <1>8, FS_Union
    <2>2. Cardinality(L \cap H) = 0
      BY <1>6, FS_EmptySet
    <2> QED
      BY <2>1, <2>2, <1>6, <1>9
  <1>11. Clean(s) => Clean(u)
    BY <1>1, <1>2, <1>3, Zenon DEF Clean
  <1>12. (\A j \in k + 1 .. n : ~s[j].buffer) => L = B
    <2>1. (\A j \in k + 1 .. n : ~s[j].buffer) => H = {}
      BY <1>5
    <2> QED
      BY <2>1, <1>6
  <1> QED
    BY <1>9, <1>10, <1>11, <1>12 DEF u, B, L, H, n

\* The last frame is left.
LEMMA FrontBuffered ==
    ASSUME NEW s, Frames(s), Len(s) # 1
    PROVE  /\ Front(s) = SubSeq(s, 1, Len(s) - 1) /\ Len(s) - 1 \in 1 .. Len(s)
           /\ ~s[Len(s)].buffer => Buffered(Front(s)) = Buffered(s)
           /\ s[Len(s)].buffer => Cardinality(Buffered(Front(s))) = Cardinality(Buffered(s)) - 1
  <1> DEFINE n == Len(s)
             k == n - 1
             u == SubSeq(s, 1, k)
  <1>1. DOMAIN s = 1 .. n /\ n \in Nat \ {0}
    BY FramesDomain
  <1>2. k \in 1 .. n /\ k + 1 .. n = {n} /\ n \in 1 .. n
    BY <1>1
  <1>3. Front(s) = u
    BY DEF Front
  <1> HIDE DEF k
  <1>4. ~s[n].buffer => Buffered(u) = Buffered(s)
    <2>1. ~s[n].buffer => \A j \in k + 1 .. n : ~s[j].buffer
      BY <1>2
    <2> QED
      BY <2>1, <1>2, PoppedBuffered
  <1>5. ASSUME s[n].buffer PROVE Cardinality(Buffered(u)) = Cardinality(Buffered(s)) - 1
    <2>1. Frames(u) /\ Len(u) = k /\ \A i \in 1 .. k : u[i] = s[i]
      BY <1>2, Popped
    <2> HIDE DEF u
    <2>2. DOMAIN u = 1 .. k
      BY <2>1, FramesDomain
    <2>3. n \in Buffered(s)
      BY <1>1, <1>2, <1>5, Zenon DEF Buffered
    <2> HIDE DEF n
    <2>4. \A i \in 1 .. n : (i \in 1 .. k) <=> (i # n)
      <3>1. n \in Nat
        BY <1>1
      <3> QED
        BY <3>1 DEF k
    <2>5. \A i \in 1 .. k : i \in 1 .. n
      BY <1>1 DEF k
    <2>6. Buffered(u) = Buffered(s) \ {n}
      <3>1. Buffered(u) \subseteq Buffered(s) \ {n}
        BY <2>1, <2>2, <2>4, <2>5, <1>1, Zenon DEF Buffered
      <3>2. Buffered(s) \ {n} \subseteq Buffered(u)
        BY <2>1, <2>2, <2>4, <2>5, <1>1, Zenon DEF Buffered
      <3> QED
        BY <3>1, <3>2
    <2> QED
      BY <2>3, <2>6, BufferedFinite, FS_RemoveElement
  <1> QED
    BY <1>2, <1>3, <1>4, <1>5 DEF n, k

\* A frame comes.
LEMMA PushedBuffered ==
    ASSUME NEW s, Frames(s), NEW e \in Nat, NEW f \in Frame,
           f.name \in ModuleNames \ Natives, f.buffer, f.phase = "body"
    PROVE  /\ Cardinality(Buffered(Entered(s, e, f))) = Cardinality(Buffered(s)) + 1
           /\ Clean(s) /\ e = 0 /\ f.extra = 0 => Clean(Entered(s, e, f))
  <1> DEFINE n == Len(s)
             u == Entered(s, e, f)
  <1>1. DOMAIN s = 1 .. n /\ n \in Nat \ {0}
    BY FramesDomain
  <1>2. /\ Frames(u) /\ Len(u) = n + 1 /\ u[n + 1] = f
        /\ \A i \in 1 .. n : Alike(u[i], s[i]) /\ u[i].extra = IF i = n THEN e ELSE s[i].extra
    BY Pushed
  <1> HIDE DEF u
  <1>3. DOMAIN u = 1 .. n + 1
    BY <1>2, FramesDomain
  <1> HIDE DEF n
  <1>4. /\ \A i \in 1 .. n + 1 : i \in 1 .. n \/ i = n + 1
        /\ \A i \in 1 .. n : i \in 1 .. n + 1
        /\ n + 1 \notin 1 .. n /\ n + 1 \in 1 .. n + 1
    BY <1>1
  <1> DEFINE top == n + 1
  <1> HIDE DEF top
  <1>5. /\ \A i \in 1 .. top : i \in 1 .. n \/ i = top
        /\ \A i \in 1 .. n : i \in 1 .. top
        /\ top \notin 1 .. n /\ top \in 1 .. top
        /\ DOMAIN u = 1 .. top /\ u[top] = f
    BY <1>2, <1>3, <1>4 DEF top
  <1>6. Buffered(u) = Buffered(s) \cup {top}
    <2>1. \A i \in 1 .. n : u[i].buffer = s[i].buffer
      BY <1>2, Zenon DEF Alike
    <2>2. Buffered(u) \subseteq Buffered(s) \cup {top}
      BY <1>1, <1>5, <2>1, Zenon DEF Buffered
    <2>3. Buffered(s) \cup {top} \subseteq Buffered(u)
      BY <1>1, <1>5, <2>1, Zenon DEF Buffered
    <2> QED
      BY <2>2, <2>3
  <1>7. top \notin Buffered(s)
    BY <1>1, <1>5, Zenon DEF Buffered
  <1>8. Cardinality(Buffered(u)) = Cardinality(Buffered(s)) + 1
    BY <1>6, <1>7, BufferedFinite, FS_AddElement
  <1>9. ASSUME Clean(s), e = 0, f.extra = 0 PROVE Clean(u)
    BY <1>1, <1>2, <1>5, <1>9, Zenon DEF Clean
  <1> QED
    BY <1>8, <1>9 DEF u

\* The last frame gives its path up.
LEMMA EndedBuffered ==
    ASSUME NEW s, Frames(s), NEW f \in Frame, s[Len(s)].name # Absent, s[Len(s)].buffer,
           f.name = s[Len(s)].name, ~f.buffer, f.phase = "init", f.extra = s[Len(s)].extra
    PROVE  /\ Cardinality(Buffered([s EXCEPT ![Len(s)] = f])) = Cardinality(Buffered(s)) - 1
           /\ Clean(s) => Clean([s EXCEPT ![Len(s)] = f])
  <1> DEFINE n == Len(s)
             u == [s EXCEPT ![n] = f]
  <1>1. DOMAIN s = 1 .. n /\ n \in Nat \ {0}
    BY FramesDomain
  <1>2. /\ Frames(u) /\ Len(u) = n /\ u[n] = f
        /\ \A i \in 1 .. n : u[i].extra = s[i].extra /\ (i # n => u[i] = s[i])
    BY Ended, Zenon
  <1> HIDE DEF u
  <1>3. DOMAIN u = 1 .. n
    BY <1>2, FramesDomain
  <1> HIDE DEF n
  <1>4. n \in 1 .. n
    BY <1>1
  <1>5. n \in Buffered(s)
    BY <1>1, <1>4, Zenon DEF Buffered, n
  <1>6. Buffered(u) = Buffered(s) \ {n}
    <2>1. Buffered(u) \subseteq Buffered(s) \ {n}
      BY <1>1, <1>2, <1>3, Zenon DEF Buffered
    <2>2. Buffered(s) \ {n} \subseteq Buffered(u)
      BY <1>1, <1>2, <1>3, Zenon DEF Buffered
    <2> QED
      BY <2>1, <2>2
  <1>7. Cardinality(Buffered(u)) = Cardinality(Buffered(s)) - 1
    BY <1>5, <1>6, BufferedFinite, FS_RemoveElement
  <1>8. Clean(s) => Clean(u)
    BY <1>1, <1>2, <1>3, Zenon DEF Clean
  <1> QED
    BY <1>7, <1>8 DEF u, n

----------------------------------------------------------------------------
(* Names. *)

LEMMA DistinctPopped ==
    ASSUME NEW s, Frames(s), NEW k \in 1 .. Len(s), NEW l, NEW C, Distinct(s, l, C)
    PROVE  Distinct(SubSeq(s, 1, k), l, C)
  <1> DEFINE u == SubSeq(s, 1, k)
  <1>1. Len(u) = k /\ \A i \in 1 .. k : u[i] = s[i]
    BY Popped
  <1> HIDE DEF u
  <1>2. \A i \in 2 .. k : i \in 1 .. k /\ i \in 2 .. Len(s)
    BY FramesDomain
  <1>3. Distinct(u, l, C)
    BY <1>1, <1>2, Zenon DEF Distinct
  <1> QED
    BY <1>3 DEF u

LEMMA DistinctPushed ==
    ASSUME NEW s, Frames(s), NEW e \in Nat, NEW f \in Frame,
           f.name \in ModuleNames \ Natives, f.buffer, f.phase = "body",
           NEW l, NEW C, Distinct(s, l, C), l[f.name] = Absent,
           f.name \notin C => \A k \in DOMAIN s : s[k].name # f.name
    PROVE  Distinct(Entered(s, e, f), l, C)
  <1> DEFINE n == Len(s)
             u == Entered(s, e, f)
  <1>1. DOMAIN s = 1 .. n /\ n \in Nat \ {0}
    BY FramesDomain
  <1>2. Len(u) = n + 1 /\ u[n + 1] = f /\ \A i \in 1 .. n : Alike(u[i], s[i])
    BY Pushed
  <1> HIDE DEF u, n
  <1>3. \A i \in 2 .. n + 1 : i = n + 1 \/ (i \in 2 .. n /\ i \in 1 .. n)
    BY <1>1
  <1> DEFINE top == n + 1
  <1> HIDE DEF top
  <1>4. \A i \in 1 .. n : u[i].name = s[i].name /\ (f.name \notin C => s[i].name # f.name)
    BY <1>1, <1>2, Zenon DEF Alike
  <1>5. /\ Len(u) = top /\ u[top] = f
        /\ \A i \in 2 .. top : i = top \/ (i \in 2 .. n /\ i \in 1 .. n)
    BY <1>2, <1>3 DEF top
  <1>d. \A i \in 2 .. n : s[i].name \notin C =>
          /\ l[s[i].name] = Absent
          /\ \A j \in 2 .. n : s[j].name = s[i].name => j = i
    BY Zenon DEF Distinct, n
  <1>6. ASSUME NEW i \in 2 .. top, u[i].name \notin C PROVE l[u[i].name] = Absent
    <2>1. CASE i = top
      BY <2>1, <1>5, Zenon
    <2>2. CASE i \in 2 .. n /\ i \in 1 .. n
      BY <2>2, <1>4, <1>6, <1>d, Zenon
    <2> QED
      BY <2>1, <2>2, <1>5, Zenon
  <1>7. ASSUME NEW i \in 2 .. top, NEW j \in 2 .. top, u[i].name \notin C, u[j].name = u[i].name PROVE j = i
    <2>1. CASE i = top
      BY <2>1, <1>4, <1>5, <1>7, Zenon
    <2>2. CASE j = top
      BY <2>2, <1>4, <1>5, <1>7, Zenon
    <2>3. CASE i \in 2 .. n /\ i \in 1 .. n /\ j \in 2 .. n /\ j \in 1 .. n
      BY <2>3, <1>4, <1>7, <1>d, Zenon
    <2> QED
      BY <2>1, <2>2, <2>3, <1>5, Zenon
  <1>8. Distinct(u, l, C)
    BY <1>5, <1>6, <1>7, Zenon DEF Distinct
  <1> QED
    BY <1>8 DEF u

LEMMA DistinctEnded ==
    ASSUME NEW s, Frames(s), NEW f \in Frame, s[Len(s)].name # Absent,
           f.name = s[Len(s)].name, ~f.buffer, f.phase = "init", f.extra = s[Len(s)].extra,
           NEW l, NEW C, Distinct(s, l, C)
    PROVE  Distinct([s EXCEPT ![Len(s)] = f], l, C)
  <1> DEFINE n == Len(s)
             u == [s EXCEPT ![n] = f]
  <1>1. Len(u) = n /\ \A i \in 1 .. n : u[i].name = s[i].name
    BY Ended, Zenon
  <1> HIDE DEF u
  <1>2. \A i \in 2 .. n : i \in 1 .. n
    BY FramesDomain
  <1>3. Distinct(u, l, C)
    BY <1>1, <1>2, Zenon DEF Distinct
  <1> QED
    BY <1>3 DEF u, n

\* The module whose code ended comes into the cache.
LEMMA DistinctCached ==
    ASSUME NEW s, Frames(s), Len(s) # 1, NEW l \in [ModuleNames -> Value], NEW v, NEW C, Distinct(s, l, C)
    PROVE  Distinct(Front(s), [l EXCEPT ![s[Len(s)].name] = v], C)
  <1> DEFINE n == Len(s)
             k == n - 1
             u == Front(s)
             m == s[n].name
             w == [l EXCEPT ![m] = v]
  <1>0. n \in Nat \ {0} /\ n # 1
    BY FramesDomain
  <1> HIDE DEF n
  <1>a. n \in Nat /\ n > 1
    BY <1>0
  <1>1. k \in 1 .. n
    BY <1>a
  <1>2. u = SubSeq(s, 1, k)
    BY DEF Front, n
  <1>3. Len(u) = k /\ \A i \in 1 .. k : u[i] = s[i]
    BY <1>1, <1>2, Popped DEF n
  <1> HIDE DEF u
  <1>4. \A i \in 2 .. k : i \in 1 .. k /\ i \in 2 .. n /\ i # n
    BY <1>a
  <1>5. n \in 2 .. n
    BY <1>a
  <1> HIDE DEF k
  <1>6. \A i \in 2 .. k : (s[i].name \notin C => s[i].name # m) /\ s[i].name \in ModuleNames
    BY <1>4, <1>5, Zenon DEF Distinct, Frames, m, n
  <1>7. \A x \in ModuleNames : x # m => w[x] = l[x]
    OBVIOUS
  <1> HIDE DEF w, m
  <1>8. ASSUME NEW i \in 2 .. k, u[i].name \notin C PROVE w[u[i].name] = Absent
    BY <1>8, <1>3, <1>4, <1>6, <1>7, Zenon DEF Distinct, n
  <1>9. ASSUME NEW i \in 2 .. k, NEW j \in 2 .. k, u[i].name \notin C, u[j].name = u[i].name PROVE j = i
    BY <1>3, <1>4, <1>9, Zenon DEF Distinct, n
  <1>10. Distinct(u, w, C)
    BY <1>3, <1>8, <1>9, Zenon DEF Distinct
  <1> QED
    BY <1>10 DEF u, w, m, n

\* A module comes into the cache whose code does not run, unless its name is in C.
LEMMA DistinctSet ==
    ASSUME NEW s, Frames(s), NEW l \in [ModuleNames -> Value], NEW m \in ModuleNames, NEW v,
           NEW C, Distinct(s, l, C), m \notin C => \A k \in 2 .. Len(s) : s[k].name # m
    PROVE  Distinct(s, [l EXCEPT ![m] = v], C)
  <1> DEFINE w == [l EXCEPT ![m] = v]
  <1>1. \A x \in ModuleNames : x # m => w[x] = l[x]
    OBVIOUS
  <1> HIDE DEF w
  <1>2. \A k \in 2 .. Len(s) : s[k].name \in ModuleNames
    BY Zenon DEF Frames
  <1>3. Distinct(s, w, C)
    BY <1>1, <1>2, Zenon DEF Distinct
  <1> QED
    BY <1>3 DEF w

\* More names are excepted.
LEMMA DistinctMore ==
    ASSUME NEW s, NEW l, NEW C, NEW D, C \subseteq D, Distinct(s, l, C)
    PROVE  Distinct(s, l, D)
  BY Zenon DEF Distinct

LEMMA AgreeMore ==
    ASSUME NEW l, NEW h, NEW C, NEW D, C \subseteq D, Agree(l, h, C)
    PROVE  Agree(l, h, D)
  BY Zenon DEF Agree

\* What the cache and the meaning of a name become.
LEMMA AgreeSet ==
    ASSUME NEW l \in [ModuleNames -> Value], NEW h \in [ModuleNames -> Value], NEW C, Agree(l, h, C),
           NEW m \in ModuleNames, NEW v, NEW w, m \notin C => v = w
    PROVE  Agree([l EXCEPT ![m] = v], [h EXCEPT ![m] = w], C)
  <1> DEFINE L == [l EXCEPT ![m] = v]
             H == [h EXCEPT ![m] = w]
  <1>1. L[m] = v /\ H[m] = w /\ \A x \in ModuleNames : x # m => L[x] = l[x] /\ H[x] = h[x]
    OBVIOUS
  <1> HIDE DEF L, H
  <1>2. Agree(L, H, C)
    BY <1>1, Zenon DEF Agree
  <1> QED
    BY <1>2 DEF L, H

----------------------------------------------------------------------------
(* The steps. *)

LEMMA Gotten ==
    ASSUME NEW N, NEW G, NEW m \in N, NEW v \in G, NEW w \in G
    PROVE  /\ [module |-> m, is |-> v, means |-> w] \in [module : N, is : G, means : G]
           /\ [module |-> m, is |-> v, means |-> w].module = m
           /\ [module |-> m, is |-> v, means |-> w].is = v /\ [module |-> m, is |-> v, means |-> w].means = w
  OBVIOUS

\* An import that gives v, where the name means w.
LEMMA GotKept ==
    ASSUME NEW m \in Named, NEW v \in Got, NEW w \in Got, got' = [module |-> m, is |-> v, means |-> w],
           m \notin cycled' => v = w
    PROVE  got' \in [module : Named, is : Got, means : Got] /\ OneModule'
  <1>1. got' \in [module : Named, is : Got, means : Got] /\ got'.module = m /\ got'.is = v /\ got'.means = w
    BY Gotten, Zenon
  <1> QED
    BY <1>1, Zenon DEF OneModule

\* What was got stays as it is while more names are excepted.
LEMMA OneModuleMore ==
    ASSUME OneModule, got' = got, cycled \subseteq cycled'
    PROVE  OneModule'
  BY Zenon DEF OneModule

LEMMA LeftFields ==
    ASSUME NEW x \in [imports : Nat, writes : Nat]
    PROVE  /\ x.imports > 0 => [x EXCEPT !.imports = @ - 1] \in [imports : Nat, writes : Nat]
           /\ x.writes > 0 => [x EXCEPT !.writes = @ - 1] \in [imports : Nat, writes : Nat]
  OBVIOUS

\* Nothing changes but what the last import gave.
LEMMA ImportCachedKeeps ==
    ASSUME ModuleInv, NEW m \in ModuleNames, ImportCached(m),
           left' \in [imports : Nat, writes : Nat], UNCHANGED <<files, paths>>
    PROVE  ModuleInv'
  <1> DEFINE v == loaded[m]
             w == IF first[m] = Absent THEN v ELSE first[m]
  <1>1. loaded \in [ModuleNames -> Value] /\ first \in [ModuleNames -> Value]
    BY Zenon DEF ModuleInv, ModuleTypes
  <1>2. v \in Value /\ first[m] \in Value
    BY <1>1
  <1>3. v \in Got /\ w \in Got
    BY <1>2, Zenon DEF Got
  <1>4. /\ got' = [module |-> m, is |-> v, means |-> w]
        /\ importing' = importing /\ loaded' = loaded /\ buffers' = buffers /\ executions' = executions
        /\ first' = first /\ cycled' = cycled /\ lost' = lost /\ missed' = missed
    BY Zenon DEF ImportCached, Gives
  <1>5. m \notin cycled' => v = w
    BY <1>4, Zenon DEF ModuleInv, Cache, Agree
  <1> HIDE DEF v, w
  <1>6. got' \in [module : Named, is : Got, means : Got] /\ OneModule'
    BY <1>3, <1>4, <1>5, GotKept, Zenon DEF Named
  <1>7. ModuleTypes'
    BY <1>4, <1>6, Zenon DEF ModuleInv, ModuleTypes
  <1>8. Frames(importing)' /\ Cache' /\ Balance'
    BY <1>4, Zenon DEF ModuleInv, Cache, Balance
  <1> QED
    BY <1>6, <1>7, <1>8, Zenon DEF ModuleInv

\* A module comes into the cache whose name meant nothing before.
LEMMA ImportNativeKeeps ==
    ASSUME ModuleInv, NEW m \in ModuleNames, ImportNative(m),
           left' \in [imports : Nat, writes : Nat], UNCHANGED <<files, paths>>
    PROVE  ModuleInv'
  <1> DEFINE v == Native(m)
             w == IF first[m] = Absent THEN v ELSE first[m]
  <1>1. loaded \in [ModuleNames -> Value] /\ first \in [ModuleNames -> Value]
    BY Zenon DEF ModuleInv, ModuleTypes
  <1>2. v \in Value /\ first[m] \in Value
    BY <1>1, Zenon DEF Value
  <1>3. v \in Got /\ w \in Got
    BY <1>2, Zenon DEF Got
  <1>4. /\ got' = [module |-> m, is |-> v, means |-> w]
        /\ importing' = importing /\ buffers' = buffers /\ executions' = executions
        /\ cycled' = cycled /\ lost' = lost /\ missed' = missed
        /\ loaded' = [loaded EXCEPT ![m] = v]
        /\ first' = [first EXCEPT ![m] = w]
        /\ loaded[m] = Absent /\ m \in Natives
    BY DEF ImportNative, Gives, Keeps, Cached
  <1>5. Agree(loaded, first, cycled) /\ Distinct(importing, loaded, cycled) /\ (m \notin cycled => v = w)
    BY <1>4, Zenon DEF ModuleInv, Cache, Agree
  <1>6. w \in Value
    BY <1>2, Zenon
  <1> HIDE DEF v, w
  <1>7. got' \in [module : Named, is : Got, means : Got] /\ OneModule'
    BY <1>3, <1>4, <1>5, GotKept, Zenon DEF Named
  <1>8. loaded' \in [ModuleNames -> Value] /\ first' \in [ModuleNames -> Value]
    BY <1>1, <1>2, <1>4, <1>6
  <1>9. ModuleTypes'
    BY <1>4, <1>7, <1>8, Zenon DEF ModuleInv, ModuleTypes
  <1>10. Cache'
    <2>1. \A k \in 2 .. Len(importing) : importing[k].name # m
      BY <1>4, Zenon DEF ModuleInv, Frames
    <2>2. Distinct(importing, loaded', cycled)
      BY <2>1, <1>1, <1>4, <1>5, DistinctSet, Zenon DEF ModuleInv
    <2>3. Agree(loaded', first', cycled)
      BY <1>1, <1>4, <1>5, AgreeSet, Zenon
    <2> QED
      BY <1>4, <2>2, <2>3, Zenon DEF Cache
  <1>11. Frames(importing)' /\ Balance'
    BY <1>4, Zenon DEF ModuleInv, Balance
  <1> QED
    BY <1>7, <1>9, <1>10, <1>11, Zenon DEF ModuleInv

\* Programs are left, and their paths with them.
LEMMA UnwindKeeps ==
    ASSUME ModuleInv, NEW k \in 1 .. Len(importing), Unwind(k),
           UNCHANGED <<buffers, loaded, first, cycled, missed>>
    PROVE  /\ Frames(importing)' /\ Cache' /\ Balance'
           /\ cycled' = cycled /\ missed' = missed /\ lost' \in Nat
  <1> DEFINE s == importing
             u == SubSeq(s, 1, k)
             more == Cardinality(BufferedAbove(s, k))
  <1>1. Frames(s) /\ Cache /\ Balance /\ lost \in Nat
    BY Zenon DEF ModuleInv, ModuleTypes
  <1>2. importing' = u /\ lost' = lost + more
    BY Zenon DEF Unwind, BufferedAbove
  <1>3. /\ loaded' = loaded /\ first' = first /\ buffers' = buffers
        /\ cycled' = cycled /\ missed' = missed
    OBVIOUS
  <1>4. /\ Cardinality(Buffered(s)) = Cardinality(Buffered(u)) + more
        /\ more \in Nat
        /\ Clean(s) => Clean(u)
    BY <1>1, PoppedBuffered, Zenon
  <1>5. Frames(u)
    BY <1>1, Popped, Zenon
  <1>6. Distinct(u, loaded, cycled)
    BY <1>1, DistinctPopped, Zenon DEF Cache
  <1>7. Cardinality(Buffered(u)) \in Nat
    BY <1>5, BufferedFinite
  <1> HIDE DEF u, more
  <1>8. Cache'
    BY <1>1, <1>2, <1>3, <1>6, Zenon DEF Cache
  <1>9. Balance'
    <2>1. buffers = Cardinality(Buffered(s)) + lost
      BY <1>1, Zenon DEF Balance
    <2>2. buffers = Cardinality(Buffered(u)) + lost'
      BY <2>1, <1>1, <1>2, <1>4, <1>7
    <2>3. ~missed => Clean(u)
      BY <1>1, <1>4, Zenon DEF Balance
    <2> QED
      BY <2>2, <2>3, <1>2, <1>3 DEF Balance
  <1>10. lost' \in Nat
    BY <1>1, <1>2, <1>4
  <1> QED
    BY <1>2, <1>3, <1>5, <1>8, <1>9, <1>10, Zenon

LEMMA SaysGot ==
    ASSUME NEW t \in Search
    PROVE  Says(t) \in Got
  <1>1. t.place \in {""} \cup Place /\ t.found \in 0 .. 3
    BY SearchIs, Zenon
  <1> DEFINE k == t.found
             x == IF k = 0 THEN "" ELSE sfxs[k]
  <1>2. k = 0 \/ k \in 1 .. 3
    <2>1. k \in 0 .. 3
      BY <1>1, Zenon
    <2> HIDE DEF k
    <2> QED
      BY <2>1
  <1>3. x \in Suffix
    BY <1>2, SuffixOnce, Zenon DEF Suffix
  <1>4. Says(t) = <<t.place, x>>
    BY Zenon DEF Says
  <1> HIDE DEF x
  <1>5. <<t.place, x>> \in (({""} \cup Place) \X Suffix)
    BY <1>1, <1>3, Zenon
  <1> QED
    BY <1>4, <1>5, Zenon DEF Got

\* The frame of a module that is imported.
BodyOf(m, p) == [name |-> m, place |-> p, phase |-> "body", value |-> Absent, buffer |-> TRUE, extra |-> 0]

LEMMA BodyIs ==
    ASSUME NEW m \in ModuleNames, NEW p \in Place
    PROVE  /\ BodyOf(m, p) \in Frame
           /\ BodyOf(m, p).name = m /\ BodyOf(m, p).phase = "body"
           /\ BodyOf(m, p).buffer /\ BodyOf(m, p).extra = 0
  <1> DEFINE N == ModuleNames \cup {Absent}
             H == {"body", "init"}
  <1>1. m \in N /\ "body" \in H /\ Absent \in Value /\ TRUE \in BOOLEAN /\ 0 \in Nat
    BY Zenon DEF Value
  <1>a. 0 \in Nat
    OBVIOUS
  <1> HIDE DEF N, H
  <1>2. BodyOf(m, p) \in [name : N, place : Place, phase : H, value : Value, buffer : BOOLEAN, extra : Nat]
    BY <1>1, <1>a, FrameMade, Zenon DEF BodyOf
  <1>3. /\ BodyOf(m, p).name = m /\ BodyOf(m, p).phase = "body"
        /\ BodyOf(m, p).buffer /\ BodyOf(m, p).extra = 0
    BY DEF BodyOf
  <1> QED
    BY <1>2, <1>3, Zenon DEF Frame, N, H

\* The code of a module in a file begins.
Begins(m, t) ==
    /\ Enter(m, t.place, "body", Absent, TRUE, Running.extra + t.missed)
    /\ buffers' = buffers + 1
    /\ Noted(m) /\ missed' = (missed \/ t.missed > 0)
    /\ UNCHANGED lost

LEMMA BeginsKeeps ==
    ASSUME ModuleInv, NEW m \in ModuleNames, m \notin Natives, loaded[m] = Absent,
           NEW t \in Search, t.place \in Place, Begins(m, t), UNCHANGED <<loaded, first>>
    PROVE  /\ Frames(importing)' /\ Cache' /\ Balance' /\ buffers' \in Nat
           /\ cycled' \subseteq ModuleNames /\ lost' = lost /\ missed' \in BOOLEAN
  <1> DEFINE s == importing
             n == Len(s)
             f == BodyOf(m, t.place)
             e == s[n].extra + t.missed
             u == Entered(s, e, f)
             cycles == InProgress(m)
             misses == t.missed > 0
  <1>1. /\ Frames(s) /\ Cache /\ Balance /\ buffers \in Nat
        /\ cycled \subseteq ModuleNames /\ lost \in Nat /\ missed \in BOOLEAN
    BY Zenon DEF ModuleInv, ModuleTypes
  <1>2. importing' = u
    BY Zenon DEF Begins, Enter, Running, Last, Entered, BodyOf
  <1>3. buffers' = buffers + 1 /\ lost' = lost
    BY Zenon DEF Begins
  <1>4. cycled' = (IF cycles THEN cycled \cup {m} ELSE cycled) /\ missed' = (missed \/ misses)
    BY Zenon DEF Begins, Noted
  <1>5. /\ f \in Frame /\ f.name = m /\ f.name \in ModuleNames \ Natives /\ f.phase = "body"
        /\ f.buffer /\ f.extra = 0
    BY BodyIs, Zenon
  <1>6. s[n] \in Frame /\ n \in DOMAIN s
    BY <1>1, FramesDomain
  <1>7. s[n].extra \in Nat /\ t.missed \in Nat
    BY <1>6, FrameIs, SearchIs, Zenon
  <1>8. e \in Nat
    BY <1>7
  <1>9. ~misses /\ s[n].extra = 0 => e = 0
    BY <1>7
  <1>10. ~cycles => \A k \in DOMAIN s : s[k].name # f.name
    BY <1>5, Zenon DEF InProgress
  <1> HIDE DEF f, e, cycles
  <1>m. misses \in BOOLEAN
    OBVIOUS
  <1> HIDE DEF misses
  <1>11. /\ cycled \subseteq cycled' /\ cycled' \subseteq ModuleNames
         /\ m \notin cycled' => ~cycles
    <2>1. CASE cycles
      BY <2>1, <1>1, <1>4
    <2>2. CASE ~cycles
      BY <2>2, <1>1, <1>4
    <2> QED
      BY <2>1, <2>2
  <1>17. missed' \in BOOLEAN /\ (~missed' => ~missed /\ ~misses)
    BY <1>1, <1>4, <1>m, Zenon
  <1>12. Frames(u)
    BY <1>1, <1>5, <1>8, Pushed, Zenon
  <1>13. /\ Cardinality(Buffered(u)) = Cardinality(Buffered(s)) + 1
         /\ Clean(s) /\ e = 0 /\ f.extra = 0 => Clean(u)
    BY <1>1, <1>5, <1>8, PushedBuffered, Zenon
  <1>14. Cache'
    <2>1. Distinct(s, loaded, cycled')
      BY <1>1, <1>11, DistinctMore, Zenon DEF Cache
    <2>2. Agree(loaded, first, cycled')
      BY <1>1, <1>11, AgreeMore, Zenon DEF Cache
    <2>3. f.name \notin cycled' => \A k \in DOMAIN s : s[k].name # f.name
      BY <1>5, <1>10, <1>11, Zenon
    <2>4. Distinct(u, loaded, cycled')
      BY <1>1, <1>5, <1>8, <2>1, <2>3, DistinctPushed, Zenon
    <2> HIDE DEF u
    <2> QED
      BY <1>2, <2>2, <2>4, Zenon DEF Cache
  <1>15. Balance'
    <2>1. Cardinality(Buffered(s)) \in Nat
      BY <1>1, BufferedFinite
    <2> HIDE DEF u
    <2>2. buffers' = Cardinality(Buffered(u)) + lost'
      <3>1. buffers = Cardinality(Buffered(s)) + lost
        BY <1>1, Zenon DEF Balance
      <3> QED
        BY <3>1, <1>1, <1>3, <1>13, <2>1
    <2>3. ~missed' => Clean(u)
      <3>1. ~missed' => Clean(s)
        BY <1>1, <1>17, Zenon DEF Balance
      <3>2. Clean(s) => s[n].extra = 0
        BY <1>6, Zenon DEF Clean
      <3> QED
        BY <3>1, <3>2, <1>5, <1>9, <1>17, <1>13, Zenon
    <2> QED
      BY <1>2, <2>2, <2>3, Zenon DEF Balance
  <1>16. buffers' \in Nat
    BY <1>1, <1>3
  <1> HIDE DEF u
  <1> QED
    BY <1>2, <1>3, <1>11, <1>12, <1>14, <1>15, <1>16, <1>17, Zenon

\* A module in a file: its code begins, or there is none, or it does not compile.
LEMMA ImportFileKeeps ==
    ASSUME ModuleInv, NEW m \in ModuleNames, ImportFile(m),
           left' \in [imports : Nat, writes : Nat], UNCHANGED <<files, paths>>
    PROVE  ModuleInv'
  <1> DEFINE from == Running.place
             t == load_package(m, from)
             f == Nearest(m, from)
  <1>1. files \in FileSystems /\ paths \in Seq(Place) /\ Frames(importing)
    BY Zenon DEF ModuleInv, ModuleTypes
  <1>2. from \in Place
    <2>1. importing[Len(importing)] \in Frame
      BY <1>1, FramesDomain
    <2> QED
      BY <2>1, FrameIs, Zenon DEF Running, Last
  <1>3. t \in Search /\ (t.found # 0 => t.place \in Place) /\ Says(t) = Means(f)
    BY <1>1, <1>2, SearchIsMeant, Zenon
  <1>4. /\ got' = [module |-> Absent, is |-> Says(t), means |-> Means(f)]
        /\ \/ Loads(t, f) /\ Begins(m, t)
           \/ (\E k \in DOMAIN importing : Unwind(k)) /\ UNCHANGED <<buffers, cycled, missed>>
    BY Zenon DEF ImportFile, Says, Means, Begins
  <1>5. /\ loaded[m] = Absent /\ m \notin Natives
        /\ loaded' = loaded /\ executions' = executions /\ first' = first
    BY Zenon DEF ImportFile
  <1>6. Loads(t, f) => t.found # 0
    BY Zenon DEF Loads
  <1> HIDE DEF t, f, from
  <1>7. Says(t) \in Got /\ Means(f) \in Got
    BY <1>3, SaysGot, Zenon
  <1>8. got' \in [module : Named, is : Got, means : Got] /\ OneModule'
    BY <1>3, <1>4, <1>7, GotKept, Zenon DEF Named
  <1>9. /\ Frames(importing)' /\ Cache' /\ Balance' /\ buffers' \in Nat
        /\ cycled' \subseteq ModuleNames /\ lost' \in Nat /\ missed' \in BOOLEAN
    <2>1. CASE Loads(t, f) /\ Begins(m, t)
      <3>1. lost \in Nat
        BY Zenon DEF ModuleInv, ModuleTypes
      <3> QED
        BY <3>1, <2>1, <1>3, <1>5, <1>6, BeginsKeeps, Zenon
    <2>2. CASE (\E k \in DOMAIN importing : Unwind(k)) /\ UNCHANGED <<buffers, cycled, missed>>
      <3>1. PICK k \in 1 .. Len(importing) : Unwind(k)
        BY <2>2, <1>1, FramesDomain, Zenon
      <3>2. buffers \in Nat /\ cycled \subseteq ModuleNames /\ missed \in BOOLEAN
        BY Zenon DEF ModuleInv, ModuleTypes
      <3>3. buffers' = buffers /\ cycled' = cycled /\ missed' = missed
        BY <2>2
      <3> QED
        BY <3>1, <3>2, <3>3, <1>5, UnwindKeeps, Zenon
    <2> QED
      BY <2>1, <2>2, <1>4, Zenon
  <1>10. ModuleTypes'
    BY <1>5, <1>8, <1>9, Zenon DEF ModuleInv, ModuleTypes
  <1> QED
    BY <1>8, <1>9, <1>10, Zenon DEF ModuleInv

LEMMA ImportKeeps ==
    ASSUME ModuleInv, NEW m \in ModuleNames, Import(m)
    PROVE  ModuleInv'
  <1>1. left' \in [imports : Nat, writes : Nat]
    <2>1. left \in [imports : Nat, writes : Nat]
      BY Zenon DEF ModuleInv, ModuleTypes
    <2>2. left.imports > 0 /\ left' = [left EXCEPT !.imports = @ - 1]
      BY Zenon DEF Import
    <2> QED
      BY <2>1, <2>2, LeftFields, Zenon
  <1>2. UNCHANGED <<files, paths>>
    BY DEF Import
  <1>3. ImportCached(m) \/ ImportNative(m) \/ ImportFile(m)
    BY Zenon DEF Import
  <1> QED
    BY <1>1, <1>2, <1>3, ImportCachedKeeps, ImportNativeKeeps, ImportFileKeeps, Zenon

\* The module's code or its init function has ended, and the importing program goes on.
Returns(v) ==
    /\ importing' = Front(importing)
    /\ Cached(Running.name, v) /\ Keeps(Running.name, v) /\ Gives(v, Running.name)

LEMMA ReturnsKeeps ==
    ASSUME ModuleInv, Len(importing) # 1, NEW v \in Value, Returns(v), cycled' = cycled
    PROVE  /\ Frames(importing)' /\ Cache' /\ OneModule'
           /\ loaded' \in [ModuleNames -> Value] /\ first' \in [ModuleNames -> Value]
           /\ got' \in [module : Named, is : Got, means : Got]
  <1> DEFINE s == importing
             n == Len(s)
             m == s[n].name
             w == IF first[m] = Absent THEN v ELSE first[m]
             k == n - 1
  <1>1. Frames(s) /\ loaded \in [ModuleNames -> Value] /\ first \in [ModuleNames -> Value]
    BY Zenon DEF ModuleInv, ModuleTypes
  <1>2. n \in Nat \ {0} /\ n # 1
    BY <1>1, FramesDomain
  <1> HIDE DEF n
  <1>3. n \in 2 .. n /\ k \in 1 .. n
    <2>1. n \in Nat /\ n > 1
      BY <1>2
    <2> QED
      BY <2>1
  <1>4. m \in ModuleNames
    BY <1>1, <1>3, Zenon DEF Frames, n
  <1>5. /\ importing' = Front(s)
        /\ loaded' = [loaded EXCEPT ![m] = v]
        /\ first' = [first EXCEPT ![m] = w]
        /\ got' = [module |-> m, is |-> v, means |-> w]
    BY DEF Returns, Cached, Keeps, Gives, Running, Last, n
  <1> HIDE DEF m
  <1>6. v \in Got /\ w \in Value /\ w \in Got
    <2>1. first[m] \in Value
      BY <1>1, <1>4
    <2> QED
      BY <2>1, Zenon DEF Got
  <1>7. Agree(loaded, first, cycled) /\ Distinct(s, loaded, cycled)
    BY Zenon DEF ModuleInv, Cache
  <1>8. m \notin cycled => v = w
    <2>1. m \notin cycled => loaded[m] = Absent
      BY <1>3, <1>7, Zenon DEF Distinct, m, n
    <2>2. m \notin cycled => first[m] = Absent
      BY <2>1, <1>4, <1>7, Zenon DEF Agree
    <2> QED
      BY <2>2, Zenon
  <1> HIDE DEF w
  <1>9. got' \in [module : Named, is : Got, means : Got] /\ OneModule'
    BY <1>4, <1>5, <1>6, <1>8, GotKept, Zenon DEF Named
  <1>10. loaded' \in [ModuleNames -> Value] /\ first' \in [ModuleNames -> Value]
    BY <1>1, <1>5, <1>6
  <1>11. Frames(importing)'
    <2>1. Frames(SubSeq(s, 1, k))
      BY <1>1, <1>3, Popped DEF n
    <2>2. Front(s) = SubSeq(s, 1, k)
      BY DEF Front, n
    <2> QED
      BY <2>1, <2>2, <1>5, Zenon
  <1>12. Cache'
    <2>1. Agree(loaded', first', cycled)
      BY <1>1, <1>4, <1>5, <1>7, <1>8, AgreeSet, Zenon
    <2>2. Distinct(Front(s), loaded', cycled)
      BY <1>1, <1>2, <1>5, <1>7, DistinctCached, Zenon DEF m, n
    <2> QED
      BY <2>1, <2>2, <1>5, Zenon DEF Cache
  <1> QED
    BY <1>9, <1>10, <1>11, <1>12, Zenon

LEMMA PhaseSet ==
    ASSUME NEW N, NEW P, NEW H, NEW V, NEW x \in H,
           NEW f \in [name : N, place : P, phase : H, value : V, buffer : BOOLEAN, extra : Nat]
    PROVE  [f EXCEPT !.phase = x]
             = [name |-> f.name, place |-> f.place, phase |-> x, value |-> f.value,
                buffer |-> f.buffer, extra |-> f.extra]
  OBVIOUS

LEMMA ValueSet ==
    ASSUME NEW N, NEW P, NEW H, NEW V, NEW x \in V,
           NEW f \in [name : N, place : P, phase : H, value : V, buffer : BOOLEAN, extra : Nat]
    PROVE  [f EXCEPT !.value = x]
             = [name |-> f.name, place |-> f.place, phase |-> f.phase, value |-> x,
                buffer |-> f.buffer, extra |-> f.extra]
  OBVIOUS

LEMMA BufferSet ==
    ASSUME NEW N, NEW P, NEW H, NEW V, NEW x \in BOOLEAN,
           NEW f \in [name : N, place : P, phase : H, value : V, buffer : BOOLEAN, extra : Nat]
    PROVE  [f EXCEPT !.buffer = x]
             = [name |-> f.name, place |-> f.place, phase |-> f.phase, value |-> f.value,
                buffer |-> x, extra |-> f.extra]
  OBVIOUS

\* The frame of a module whose init function is called.
InitOf(f, v) == [f EXCEPT !.phase = "init", !.value = v, !.buffer = FALSE]

LEMMA InitIs ==
    ASSUME NEW f \in Frame, NEW v \in Value
    PROVE  /\ InitOf(f, v) \in Frame /\ InitOf(f, v).name = f.name /\ InitOf(f, v).extra = f.extra
           /\ ~InitOf(f, v).buffer /\ InitOf(f, v).phase = "init"
  <1> DEFINE N == ModuleNames \cup {Absent}
             H == {"body", "init"}
             F == [name : N, place : Place, phase : H, value : Value, buffer : BOOLEAN, extra : Nat]
             new(h, x, b) == [name |-> f.name, place |-> f.place, phase |-> h, value |-> x,
                              buffer |-> b, extra |-> f.extra]
             g == [f EXCEPT !.phase = "init"]
             h == [g EXCEPT !.value = v]
             no == FALSE
  <1>1. F = Frame
    BY DEF Frame
  <1>2. InitOf(f, v) = [h EXCEPT !.buffer = no]
    BY DEF InitOf
  <1>3. "init" \in H /\ no \in BOOLEAN
    BY Zenon
  <1>n. ~no
    OBVIOUS
  <1> HIDE DEF no
  <1>4. f.name \in N /\ f.place \in Place /\ f.extra \in Nat /\ f.value \in Value /\ f.buffer \in BOOLEAN
    BY FrameIs, Zenon
  <1> HIDE DEF N, H
  <1>5. ASSUME NEW x \in Value, NEW b \in BOOLEAN PROVE new("init", x, b) \in F
    BY <1>3, <1>4, <1>5, FrameMade, Zenon
  <1>6. g = new("init", f.value, f.buffer) /\ g \in F
    <2>1. g = new("init", f.value, f.buffer)
      <3>1. f \in F
        BY <1>1
      <3>2. "init" \in H
        BY <1>3
      <3> QED
        BY <3>1, <3>2, PhaseSet
    <2> HIDE DEF g, new, F
    <2> QED
      BY <2>1, <1>4, <1>5, Zenon
  <1>7. g.name = f.name /\ g.place = f.place /\ g.phase = "init" /\ g.buffer = f.buffer /\ g.extra = f.extra
    <2> HIDE DEF g
    <2> QED
      BY <1>6
  <1> HIDE DEF g
  <1>8. h = new("init", v, f.buffer) /\ h \in F
    <2>1. h = [name |-> g.name, place |-> g.place, phase |-> g.phase, value |-> v,
               buffer |-> g.buffer, extra |-> g.extra]
      BY <1>6, ValueSet
    <2> HIDE DEF h, F
    <2>2. h = new("init", v, f.buffer)
      BY <2>1, <1>7
    <2> HIDE DEF new
    <2> QED
      BY <2>2, <1>4, <1>5, Zenon
  <1>9. h.name = f.name /\ h.place = f.place /\ h.phase = "init" /\ h.value = v /\ h.extra = f.extra
    <2> HIDE DEF h
    <2> QED
      BY <1>8
  <1> HIDE DEF h
  <1>10. [h EXCEPT !.buffer = no] = new("init", v, no)
    <2>1. [h EXCEPT !.buffer = no]
            = [name |-> h.name, place |-> h.place, phase |-> h.phase, value |-> h.value,
               buffer |-> no, extra |-> h.extra]
      BY <1>8, <1>3, BufferSet
    <2> QED
      BY <2>1, <1>9
  <1>11. new("init", v, no) \in F
    BY <1>3, <1>5, Zenon
  <1>12. /\ new("init", v, no).name = f.name /\ new("init", v, no).extra = f.extra
         /\ ~new("init", v, no).buffer /\ new("init", v, no).phase = "init"
    BY <1>n
  <1> HIDE DEF new, F
  <1> QED
    BY <1>1, <1>2, <1>10, <1>11, <1>12, Zenon

\* The frame that runs.
LEMMA RunningIs ==
    ASSUME Frames(importing)
    PROVE  /\ Running = importing[Len(importing)] /\ Running \in Frame
           /\ Running.name # Absent \/ Running.phase = "init" => Len(importing) # 1
           /\ Len(importing) # 1 => (Running.buffer <=> Running.phase = "body") /\ Running.name # Absent
           /\ Running.buffer => Cardinality(Buffered(importing)) # 0
  <1> DEFINE s == importing
             n == Len(s)
  <1>1. DOMAIN s = 1 .. n /\ n \in Nat \ {0} /\ s \in Seq(Frame)
    BY FramesDomain
  <1>2. n \in 1 .. n /\ s[n] \in Frame
    BY <1>1
  <1>3. Running = s[n]
    BY Zenon DEF Running, Last
  <1>4. s[1].name = Absent /\ s[1].phase # "init"
    <2>1. "body" # "init"
      OBVIOUS
    <2> QED
      BY <2>1, Zenon DEF Frames
  <1>5. n # 1 => n \in 2 .. n
    <2> HIDE DEF n
    <2> QED
      BY <1>1
  <1>6. n # 1 => s[n].name \in ModuleNames /\ (s[n].buffer <=> s[n].phase = "body")
    BY <1>5, Zenon DEF Frames
  <1>7. n # 1 => s[n].name # Absent
    BY <1>6, ModuleAssumption, Zenon
  <1>8. ASSUME s[n].buffer PROVE Cardinality(Buffered(s)) # 0
    <2>1. n \in Buffered(s)
      BY <1>1, <1>2, <1>8, Zenon DEF Buffered
    <2>2. IsFiniteSet(Buffered(s))
      BY BufferedFinite
    <2> QED
      BY <2>1, <2>2, FS_EmptySet
  <1> HIDE DEF n
  <1>9. s[n].name # Absent \/ s[n].phase = "init" => n # 1
    BY <1>4, Zenon
  <1> QED
    BY <1>2, <1>3, <1>6, <1>7, <1>8, <1>9, Zenon DEF n

\* The code of a module ends.
LEMMA EndsKeeps ==
    ASSUME ModuleInv, NEW v \in {Number, Fresh}, NEW init \in BOOLEAN, Ends(v, init)
    PROVE  ModuleInv'
  <1> DEFINE s == importing
             n == Len(s)
             f == s[n]
             u == [s EXCEPT ![n] = InitOf(f, v)]
             B == Buffered(s)
  <1>1. Frames(s) /\ buffers \in Nat /\ executions \in Nat /\ lost \in Nat /\ Balance
    BY Zenon DEF ModuleInv, ModuleTypes
  <1>2. f \in Frame /\ Running = f /\ n # 1 /\ f.buffer /\ f.name # Absent /\ Cardinality(B) # 0
    BY <1>1, RunningIs, Zenon DEF Ends
  <1>3. Cardinality(B) \in Nat
    BY <1>1, BufferedFinite, Zenon
  <1>4. buffers = Cardinality(B) + lost /\ (~missed => Clean(s))
    BY <1>1, Zenon DEF Balance
  <1>5. v \in Value
    <2>1. executions + 1 \in Nat
      BY <1>1
    <2> QED
      BY <2>1, Zenon DEF Value, Fresh
  <1>6. /\ buffers' = buffers - 1
        /\ executions' = IF v = Fresh THEN executions + 1 ELSE executions
        /\ files' = files /\ paths' = paths /\ left' = left
        /\ cycled' = cycled /\ lost' = lost /\ missed' = missed
    BY DEF Ends
  <1>7. /\ init => importing' = u /\ loaded' = loaded /\ first' = first /\ got' = got
        /\ ~init => Returns(v)
    BY <1>2, Zenon DEF Ends, Set, Returns, InitOf
  <1> HIDE DEF u, B, f
  <1>8. buffers' \in Nat
    BY <1>1, <1>2, <1>3, <1>4, <1>6
  <1>9. executions' \in Nat
    BY <1>1, <1>6
  <1>10. CASE init
    <2> DEFINE g == InitOf(f, v)
    <2>1. g \in Frame /\ g.name = f.name /\ g.extra = f.extra /\ ~g.buffer /\ g.phase = "init"
      BY <1>2, <1>5, InitIs, Zenon
    <2>2. u = [s EXCEPT ![n] = g]
      BY DEF u
    <2> HIDE DEF g
    <2>3. Frames(u)
      BY <1>1, <1>2, <2>1, <2>2, Ended, Zenon DEF f
    <2>4. Cardinality(Buffered(u)) = Cardinality(B) - 1 /\ (Clean(s) => Clean(u))
      BY <1>1, <1>2, <2>1, <2>2, EndedBuffered, Zenon DEF f, B
    <2>5. Distinct(s, loaded, cycled) => Distinct(u, loaded, cycled)
      BY <1>1, <1>2, <2>1, <2>2, DistinctEnded, Zenon DEF f
    <2>6. importing' = u /\ loaded' = loaded /\ first' = first /\ got' = got
      BY <1>7, <1>10, Zenon
    <2>7. Cache'
      <3>1. Cache
        BY Zenon DEF ModuleInv
      <3> QED
        BY <3>1, <1>6, <2>5, <2>6, Zenon DEF Cache
    <2>8. OneModule'
      BY <1>6, <2>6, OneModuleMore, Zenon DEF ModuleInv
    <2>9. ModuleTypes'
      BY <1>6, <1>8, <1>9, <2>6, Zenon DEF ModuleInv, ModuleTypes
    <2>10. Balance'
      <3>1. buffers' = Cardinality(Buffered(u)) + lost'
        BY <1>1, <1>3, <1>4, <1>6, <2>4
      <3> QED
        BY <3>1, <1>4, <1>6, <2>4, <2>6, Zenon DEF Balance
    <2> QED
      BY <2>3, <2>6, <2>7, <2>8, <2>9, <2>10, Zenon DEF ModuleInv
  <1>11. CASE ~init
    <2>1. Returns(v)
      BY <1>7, <1>11, Zenon
    <2>2. /\ Frames(importing)' /\ Cache' /\ OneModule'
          /\ loaded' \in [ModuleNames -> Value] /\ first' \in [ModuleNames -> Value]
          /\ got' \in [module : Named, is : Got, means : Got]
      BY <1>2, <1>5, <1>6, <2>1, ReturnsKeeps, Zenon
    <2>3. importing' = Front(s)
      BY <2>1, Zenon DEF Returns
    <2>4. /\ Front(s) = SubSeq(s, 1, n - 1) /\ n - 1 \in 1 .. n
          /\ Cardinality(Buffered(Front(s))) = Cardinality(B) - 1
      BY <1>1, <1>2, FrontBuffered, Zenon DEF f, B
    <2>5. Clean(s) => Clean(Front(s))
      BY <1>1, <2>4, PoppedBuffered, Zenon
    <2>6. ModuleTypes'
      BY <1>6, <1>8, <1>9, <2>2, Zenon DEF ModuleInv, ModuleTypes
    <2>7. Balance'
      <3> DEFINE w == Front(s)
      <3> HIDE DEF w
      <3>1. Cardinality(Buffered(w)) = Cardinality(B) - 1
        BY <2>4, Zenon DEF w
      <3>3. buffers' = Cardinality(Buffered(w)) + lost'
        BY <1>1, <1>3, <1>4, <1>6, <3>1
      <3>4. importing' = w
        BY <2>3 DEF w
      <3>5. Clean(s) => Clean(w)
        BY <2>5 DEF w
      <3> QED
        BY <3>3, <3>4, <3>5, <1>4, <1>6, Zenon DEF Balance
    <2> QED
      BY <2>2, <2>6, <2>7, Zenon DEF ModuleInv
  <1> QED
    BY <1>10, <1>11

\* The init function of a module ends.
LEMMA InitEndsKeeps ==
    ASSUME ModuleInv, NEW v \in {Number, Running.value}, InitEnds(v)
    PROVE  ModuleInv'
  <1> DEFINE s == importing
             n == Len(s)
  <1>1. Frames(s) /\ Balance
    BY Zenon DEF ModuleInv
  <1>2. Running \in Frame /\ Running = s[n] /\ n # 1 /\ ~s[n].buffer
    <2>1. "init" # "body"
      OBVIOUS
    <2>2. Running.phase = "init"
      BY Zenon DEF InitEnds
    <2> QED
      BY <1>1, <2>1, <2>2, RunningIs, Zenon
  <1>3. v \in Value
    BY <1>2, FrameIs, Zenon DEF Value
  <1>4. /\ Returns(v) /\ cycled' = cycled /\ lost' = lost /\ missed' = missed
        /\ files' = files /\ paths' = paths /\ buffers' = buffers /\ executions' = executions /\ left' = left
    BY DEF InitEnds, Returns
  <1>5. /\ Frames(importing)' /\ Cache' /\ OneModule'
        /\ loaded' \in [ModuleNames -> Value] /\ first' \in [ModuleNames -> Value]
        /\ got' \in [module : Named, is : Got, means : Got]
    BY <1>2, <1>3, <1>4, ReturnsKeeps, Zenon
  <1>6. importing' = Front(s)
    BY <1>4, Zenon DEF Returns
  <1>7. /\ Front(s) = SubSeq(s, 1, n - 1) /\ n - 1 \in 1 .. n
        /\ Buffered(Front(s)) = Buffered(s)
    BY <1>1, <1>2, FrontBuffered, Zenon
  <1>8. Clean(s) => Clean(Front(s))
    BY <1>1, <1>7, PoppedBuffered, Zenon
  <1>9. ModuleTypes'
    BY <1>4, <1>5, Zenon DEF ModuleInv, ModuleTypes
  <1>10. Balance'
    BY <1>1, <1>4, <1>6, <1>7, <1>8, Zenon DEF Balance
  <1> QED
    BY <1>5, <1>9, <1>10, Zenon DEF ModuleInv

\* The code or the init function of a module fails.
LEMMA FailKeeps ==
    ASSUME ModuleInv, Fail
    PROVE  ModuleInv'
  <1>1. Frames(importing)
    BY Zenon DEF ModuleInv
  <1>2. PICK k \in 1 .. Len(importing) : Unwind(k)
    <2>1. \A k \in 1 .. Len(importing) - 1 : k \in 1 .. Len(importing)
      BY <1>1, FramesDomain
    <2> QED
      BY <2>1, Zenon DEF Fail
  <1>3. /\ files' = files /\ paths' = paths /\ loaded' = loaded /\ buffers' = buffers
        /\ executions' = executions /\ first' = first /\ got' = got /\ left' = left
        /\ cycled' = cycled /\ missed' = missed
    BY DEF Fail
  <1>4. /\ Frames(importing)' /\ Cache' /\ Balance'
        /\ lost' \in Nat
    BY <1>2, <1>3, UnwindKeeps, Zenon
  <1>5. OneModule'
    BY <1>3, OneModuleMore, Zenon DEF ModuleInv
  <1>6. ModuleTypes'
    BY <1>3, <1>4, Zenon DEF ModuleInv, ModuleTypes
  <1> QED
    BY <1>4, <1>5, <1>6, Zenon DEF ModuleInv

\* A program sets a module.
LEMMA SetKeeps ==
    ASSUME ModuleInv, NEW m \in ModuleNames, NEW v \in Value, setmodule(m, v)
    PROVE  ModuleInv'
  <1> DEFINE cycles == InProgress(m)
  <1>1. /\ Frames(importing) /\ Cache /\ OneModule
        /\ loaded \in [ModuleNames -> Value] /\ first \in [ModuleNames -> Value]
        /\ left \in [imports : Nat, writes : Nat] /\ cycled \subseteq ModuleNames
    BY Zenon DEF ModuleInv, ModuleTypes
  <1>2. left' \in [imports : Nat, writes : Nat]
    <2>1. left.writes > 0 /\ left' = [left EXCEPT !.writes = @ - 1]
      BY Zenon DEF setmodule, Write
    <2> QED
      BY <1>1, <2>1, LeftFields, Zenon
  <1>3. /\ loaded' = [loaded EXCEPT ![m] = v] /\ first' = [first EXCEPT ![m] = v]
        /\ files' = files /\ paths' = paths /\ importing' = importing /\ buffers' = buffers
        /\ executions' = executions /\ got' = got /\ lost' = lost /\ missed' = missed
    BY DEF setmodule, Cached
  <1>4. cycled' = IF cycles THEN cycled \cup {m} ELSE cycled
    BY Zenon DEF setmodule, Noted
  <1>5. ~cycles => \A k \in DOMAIN importing : importing[k].name # m
    BY Zenon DEF InProgress
  <1> HIDE DEF cycles
  <1>6. cycled \subseteq cycled' /\ cycled' \subseteq ModuleNames /\ (m \notin cycled' => ~cycles)
    <2>1. CASE cycles
      BY <2>1, <1>1, <1>4
    <2>2. CASE ~cycles
      BY <2>2, <1>1, <1>4
    <2> QED
      BY <2>1, <2>2
  <1>7. loaded' \in [ModuleNames -> Value] /\ first' \in [ModuleNames -> Value]
    BY <1>1, <1>3
  <1>8. Cache'
    <2>1. Agree(loaded, first, cycled') /\ Distinct(importing, loaded, cycled')
      BY <1>1, <1>6, AgreeMore, DistinctMore, Zenon DEF Cache
    <2>2. \A k \in 2 .. Len(importing) : k \in DOMAIN importing
      BY <1>1, FramesDomain
    <2>3. m \notin cycled' => \A k \in 2 .. Len(importing) : importing[k].name # m
      BY <2>2, <1>5, <1>6, Zenon
    <2>4. Distinct(importing, loaded', cycled')
      BY <2>1, <2>3, <1>1, <1>3, DistinctSet, Zenon
    <2>5. Agree(loaded', first', cycled')
      BY <2>1, <1>1, <1>3, AgreeSet, Zenon
    <2> QED
      BY <2>4, <2>5, <1>3, Zenon DEF Cache
  <1>9. OneModule'
    BY <1>1, <1>3, <1>6, OneModuleMore, Zenon
  <1>10. Balance'
    BY <1>3, <1>6, Zenon DEF ModuleInv, Balance
  <1>11. ModuleTypes'
    BY <1>2, <1>3, <1>6, <1>7, Zenon DEF ModuleInv, ModuleTypes
  <1> QED
    BY <1>1, <1>3, <1>8, <1>9, <1>10, <1>11, Zenon DEF ModuleInv

\* A program adds to the path.
LEMMA PathKeeps ==
    ASSUME ModuleInv, pathSet("flash")
    PROVE  ModuleInv'
  <1>1. paths \in Seq(Place) /\ left \in [imports : Nat, writes : Nat]
    BY Zenon DEF ModuleInv, ModuleTypes
  <1>2. left' \in [imports : Nat, writes : Nat]
    <2>1. left.writes > 0 /\ left' = [left EXCEPT !.writes = @ - 1]
      BY Zenon DEF pathSet, Write
    <2> QED
      BY <1>1, <2>1, LeftFields, Zenon
  <1>3. /\ paths' = Append(paths, "flash")
        /\ files' = files /\ loaded' = loaded /\ importing' = importing /\ buffers' = buffers
        /\ executions' = executions /\ first' = first /\ got' = got
        /\ cycled' = cycled /\ lost' = lost /\ missed' = missed
    BY DEF pathSet
  <1>4. paths' \in Seq(Place)
    <2>1. "flash" \in Place
      BY DEF Place
    <2> QED
      BY <2>1, <1>1, <1>3
  <1>5. ModuleTypes'
    BY <1>2, <1>3, <1>4, Zenon DEF ModuleInv, ModuleTypes
  <1>6. Frames(importing)' /\ Cache' /\ OneModule' /\ Balance'
    BY <1>3, Zenon DEF ModuleInv, Cache, OneModule, Balance
  <1> QED
    BY <1>5, <1>6, Zenon DEF ModuleInv

LEMMA ModuleStutters ==
    ASSUME ModuleInv, UNCHANGED moduleVars
    PROVE  ModuleInv'
  <1>1. /\ files' = files /\ paths' = paths /\ loaded' = loaded /\ importing' = importing
        /\ buffers' = buffers /\ executions' = executions /\ first' = first /\ got' = got
        /\ cycled' = cycled /\ lost' = lost /\ missed' = missed /\ left' = left
    BY DEF moduleVars
  <1>2. ModuleTypes'
    BY <1>1, Zenon DEF ModuleInv, ModuleTypes
  <1>3. Frames(importing)' /\ Cache' /\ OneModule' /\ Balance'
    BY <1>1, Zenon DEF ModuleInv, Cache, OneModule, Balance
  <1> QED
    BY <1>2, <1>3, Zenon DEF ModuleInv

LEMMA ModuleNextKeeps ==
    ASSUME ModuleInv, [ModuleNext]_moduleVars
    PROVE  ModuleInv'
  <1>1. ASSUME NEW m \in ModuleNames, Import(m) PROVE ModuleInv'
    BY <1>1, ImportKeeps
  <1>2. ASSUME NEW m \in ModuleNames, NEW v \in ({Number} \cup Range(loaded)) \ {Absent}, setmodule(m, v)
        PROVE  ModuleInv'
    <2>1. loaded \in [ModuleNames -> Value]
      BY Zenon DEF ModuleInv, ModuleTypes
    <2>2. Range(loaded) \subseteq Value
      BY <2>1 DEF Range
    <2>3. v \in Value
      BY <2>2, Zenon DEF Value
    <2> QED
      BY <1>2, <2>3, SetKeeps
  <1>3. ASSUME NEW v \in {Number, Fresh}, Ends(v, FALSE) PROVE ModuleInv'
    <2>1. FALSE \in BOOLEAN
      OBVIOUS
    <2> QED
      BY <1>3, <2>1, EndsKeeps
  <1>4. ASSUME NEW v \in {Number, Fresh}, Ends(v, TRUE) PROVE ModuleInv'
    <2>1. TRUE \in BOOLEAN
      OBVIOUS
    <2> QED
      BY <1>4, <2>1, EndsKeeps
  <1>5. ASSUME NEW v \in {Number, Running.value}, InitEnds(v) PROVE ModuleInv'
    BY <1>5, InitEndsKeeps
  <1>6. CASE UNCHANGED moduleVars
    BY <1>6, ModuleStutters
  <1> QED
    BY <1>1, <1>2, <1>3, <1>4, <1>5, <1>6, FailKeeps, PathKeeps, Zenon DEF ModuleNext

LEMMA ModuleInitInv ==
    ASSUME ModuleInit
    PROVE  ModuleInv
  <1>1. /\ files \in FileSystems /\ paths \in {<<>>, <<"lib">>, <<"lib", "flash">>}
        /\ loaded = [m \in ModuleNames |-> Absent] /\ first = loaded
        /\ importing = <<Outermost>> /\ buffers = 0 /\ executions = 0
        /\ got = [module |-> Absent, is |-> Absent, means |-> Absent]
        /\ cycled = {} /\ lost = 0 /\ missed = FALSE
        /\ left = [imports |-> MaxImports, writes |-> MaxWrites]
    BY DEF ModuleInit
  <1>2. Absent \in Value
    BY Zenon DEF Value
  <1>3. loaded \in [ModuleNames -> Value] /\ first \in [ModuleNames -> Value]
    BY <1>1, <1>2
  <1>4. paths \in Seq(Place)
    <2>1. "lib" \in Place /\ "flash" \in Place
      BY DEF Place
    <2>2. <<>> \in Seq(Place) /\ <<"lib">> \in Seq(Place) /\ <<"lib", "flash">> \in Seq(Place)
      BY <2>1
    <2> QED
      BY <1>1, <2>2, Zenon
  <1>5. left \in [imports : Nat, writes : Nat]
    <2>1. MaxImports \in Nat /\ MaxWrites \in Nat
      BY ModuleAssumption, Zenon
    <2> QED
      BY <1>1, <2>1
  <1>6. got \in [module : Named, is : Got, means : Got] /\ OneModule
    <2>1. Absent \in Got /\ Absent \in Named
      BY <1>2, Zenon DEF Got, Named
    <2>2. got \in [module : Named, is : Got, means : Got] /\ got.is = Absent /\ got.means = Absent
      BY <1>1, <2>1, Gotten, Zenon
    <2> QED
      BY <2>2, Zenon DEF OneModule
  <1>7. ModuleTypes
    <2>1. buffers \in Nat /\ executions \in Nat /\ cycled \subseteq ModuleNames /\ lost \in Nat /\ missed \in BOOLEAN
      BY <1>1
    <2> QED
      BY <1>1, <1>3, <1>4, <1>5, <1>6, <2>1, Zenon DEF ModuleTypes
  <1>8. /\ Outermost \in Frame /\ Outermost.name = Absent /\ Outermost.phase = "body"
        /\ ~Outermost.buffer /\ Outermost.extra = 0
    <2> DEFINE N == ModuleNames \cup {Absent}
               H == {"body", "init"}
               no == FALSE
    <2>1. Absent \in N /\ "body" \in H /\ "here" \in Place /\ no \in BOOLEAN
      BY Zenon DEF Place
    <2>2. 0 \in Nat
      OBVIOUS
    <2>3. Outermost = [name |-> Absent, place |-> "here", phase |-> "body", value |-> Absent,
                       buffer |-> no, extra |-> 0]
      BY DEF Outermost
    <2>n. ~no
      OBVIOUS
    <2> HIDE DEF N, H, no
    <2>4. Outermost \in [name : N, place : Place, phase : H, value : Value, buffer : BOOLEAN, extra : Nat]
      BY <1>2, <2>1, <2>2, <2>3, FrameMade, Zenon
    <2>5. /\ Outermost.name = Absent /\ Outermost.phase = "body" /\ Outermost.buffer = no
          /\ Outermost.extra = 0
      BY <2>3
    <2> QED
      BY <2>4, <2>5, <2>n, Zenon DEF Frame, N, H
  <1> DEFINE o == Outermost
  <1> HIDE DEF o
  <1>9. /\ importing = <<o>> /\ o \in Frame /\ o.name = Absent /\ o.phase = "body" /\ ~o.buffer /\ o.extra = 0
    BY <1>1, <1>8 DEF o
  <1>10. /\ importing \in Seq(Frame) /\ Len(importing) = 1 /\ importing[1] = o
         /\ DOMAIN importing = {1} /\ 2 .. 1 = {} /\ 1 # 0
    BY <1>9
  <1>11. Frames(importing)
    BY <1>9, <1>10, Zenon DEF Frames
  <1>12. Cache
    BY <1>1, <1>10, Zenon DEF Cache, Distinct, Agree
  <1>13. Balance
    <2>1. Buffered(importing) = {}
      BY <1>9, <1>10 DEF Buffered
    <2>2. Cardinality({}) = 0
      BY FS_EmptySet
    <2>3. Clean(importing)
      BY <1>9, <1>10, Zenon DEF Clean
    <2>4. Cardinality(Buffered(importing)) = 0
      BY <2>1, <2>2, Zenon
    <2>5. buffers = Cardinality(Buffered(importing)) + lost
      BY <1>1, <2>4
    <2> QED
      BY <1>1, <2>3, <2>4, <2>5, Zenon DEF Balance
  <1> QED
    BY <1>6, <1>7, <1>11, <1>12, <1>13, Zenon DEF ModuleInv

\* Types, the frames of the modules that run, and the cache that agrees with what the
\* names mean; a module whose code runs is not in the cache, and runs once.
THEOREM ImportsKept == ModuleSpec => []ModuleInv
  <1>1. ModuleInit => ModuleInv
    BY ModuleInitInv
  <1>2. ModuleInv /\ [ModuleNext]_moduleVars => ModuleInv'
    BY ModuleNextKeeps
  <1> QED
    BY <1>1, <1>2, PTL DEF ModuleSpec

\* A name stands for one module, unless it was itself imported or set while its module's
\* code ran; a module comes from the nearest file; of the paths there remain those of the
\* imports that go on and one for each import whose code failed; and no values are left
\* behind as long as no search missed a file (be_module.c: be_module_load, load_package,
\* open_libfile, module_init).
THEOREM ImportsAreMeant == ModuleSpec => []ImportsMeant
  <1>1. ModuleInv => ImportsMeant
    <2> SUFFICES ASSUME ModuleInv PROVE ImportsMeant
      OBVIOUS
    <2>1. OneModule /\ Balance
      BY Zenon DEF ModuleInv
    <2>2. NothingLeft
      BY <2>1, Zenon DEF Balance, NothingLeft, Buffered, Clean
    <2> QED
      BY <2>1, <2>2, Zenon DEF ImportsMeant
  <1> QED
    BY <1>1, ImportsKept, PTL

=============================================================================
