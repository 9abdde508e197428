-------------------------- MODULE Littlefs_proofs --------------------------
(***************************************************************************)
(* Proofs about esp_littlefs: the descriptor table, for any number of      *)
(* tasks, objects and paths, and any first size of the array; and what the *)
(* operations do to the files, for any paths, requests, words and          *)
(* settings.                                                               *)
(***************************************************************************)
EXTENDS LittlefsVfs, LittlefsIo, FiniteSetTheorems, SequenceTheorems, WellFoundedInduction, TLAPS

----------------------------------------------------------------------------
(* The inductive invariant. *)

\* An allocated object has the path it was opened with, and a truncate under
\* way the descriptor it opened.
Typed ==
    /\ TypeOK
    /\ \A o \in alive : path[o] \in Paths
    /\ \A t \in Tasks : pc[t] \in {"opened", "truncated"} => inner[t] \in Nat

\* No object has two descriptors, and none is on the list twice.
Agreed ==
    /\ TableAgrees
    /\ IsFiniteSet(Slots) /\ IsFiniteSet(alive)
    /\ \A d, e \in Slots : cache[d] = cache[e] => d = e
    /\ IsInjective(list)

\* Without a mounted volume there is no table, and no task uses one.
Away ==
    mount # "mounted" =>
        /\ cache = <<>> /\ list = <<>> /\ fdCount = 0
        /\ alive = {} /\ opened = {}
        /\ \A t \in Tasks : Uses(t) = {}

\* A mounted one has room for a descriptor, or can double what it has.
Ready == mount = "mounted" => Len(cache) > 0

IInv == Typed /\ Agreed /\ Away /\ Ready /\ OneUser

----------------------------------------------------------------------------
(* What the operators of the table do. *)

\* The smallest of a set of numbers is one of them.
LEMMA MinIsMember ==
    ASSUME NEW S \in SUBSET Nat, S # {}
    PROVE  Min(S) \in S
  <1> DEFINE less == OpToRel(<, Nat)
  <1>1. \E n \in S : \A k \in S : <<k, n>> \notin less
    <2>1. IsWellFoundedOn(less, Nat)
      BY NatLessThanWellFounded
    <2> HIDE DEF less
    <2> QED
      BY <2>1, WFMin
  <1>2. PICK n \in S : \A k \in S : <<k, n>> \notin less
    BY <1>1
  <1>3. ASSUME NEW k \in S PROVE n <= k
    <2>1. <<k, n>> \in Nat \X Nat /\ <<k, n>> \notin {p \in Nat \X Nat : p[1] < p[2]}
      BY <1>2, Zenon DEF OpToRel
    <2>2. ~(k < n)
      BY <2>1
    <2> QED
      BY <2>2
  <1> QED
    BY <1>3 DEF Min

\* Growth keeps every descriptor where it is and adds free slots only.
LEMMA GrowthKeepsSlots ==
    ASSUME Typed, Agreed
    PROVE  /\ Grown \in Seq(Objects \cup {Null})
           /\ Len(Grown) >= Len(cache)
           /\ \A d \in 1 .. Len(cache) : Grown[d] = cache[d]
           /\ \A d \in 1 .. Len(Grown) : d > Len(cache) => Grown[d] = Null
  <1>1. cache \in Seq(Objects \cup {Null}) /\ Len(cache) \in Nat /\ fdCount \in Nat
    BY DEF Typed, TypeOK
  <1>2. CASE fdCount + 1 > Len(cache)
    <2> DEFINE grown == [d \in 1 .. 2 * Len(cache) |->
                            IF d <= Len(cache) THEN cache[d] ELSE Null]
    <2>1. Grown = grown
      BY <1>2 DEF Grown
    <2>2. \A d \in 1 .. 2 * Len(cache) : grown[d] \in Objects \cup {Null}
      BY <1>1
    <2>3. grown \in Seq(Objects \cup {Null}) /\ Len(grown) = 2 * Len(cache)
      BY <1>1, <2>2
    <2> QED
      BY <1>1, <2>1, <2>3
  <1>3. CASE ~(fdCount + 1 > Len(cache))
    BY <1>1, <1>3 DEF Grown
  <1> QED
    BY <1>2, <1>3

\* After the growth there is a free slot, and the search finds one.
LEMMA SlotIsFree ==
    ASSUME Typed, Agreed, Len(cache) > 0
    PROVE  /\ FreeSlot(Grown) \in Nat
           /\ FreeSlot(Grown) < Len(Grown)
           /\ Grown[FreeSlot(Grown) + 1] = Null
  <1> DEFINE free == {d \in 1 .. Len(Grown) : Grown[d] = Null}
  <1>1. /\ cache \in Seq(Objects \cup {Null}) /\ Len(cache) \in Nat /\ fdCount \in Nat
        /\ Grown \in Seq(Objects \cup {Null}) /\ Len(Grown) \in Nat
    BY GrowthKeepsSlots DEF Typed, TypeOK
  <1>2. free # {}
    <2>1. CASE fdCount + 1 > Len(cache)
      <3>1. Len(Grown) = 2 * Len(cache)
        BY <1>1, <2>1 DEF Grown
      <3>2. Len(cache) + 1 \in free
        BY <1>1, <3>1, GrowthKeepsSlots
      <3> QED
        BY <3>2
    <2>2. CASE ~(fdCount + 1 > Len(cache))
      <3>1. Grown = cache
        BY <2>2 DEF Grown
      <3>2. Cardinality(1 .. Len(cache)) = Len(cache)
        BY <1>1, FS_Interval
      <3>3. Slots # 1 .. Len(cache)
        BY <1>1, <2>2, <3>2 DEF Agreed, TableAgrees
      <3> QED
        BY <3>1, <3>3 DEF Slots
    <2> QED
      BY <2>1, <2>2
  <1>3. Min(free) \in free
    BY <1>1, <1>2, MinIsMember
  <1>4. FreeSlot(Grown) = Min(free) - 1
    BY <1>2 DEF FreeSlot
  <1> HIDE DEF free
  <1>5. Min(free) \in 1 .. Len(Grown) /\ Grown[Min(free)] = Null
    BY <1>3 DEF free
  <1> QED
    BY <1>1, <1>4, <1>5

\* The parts of Typed that the table is.
TableTyped ==
    /\ cache \in Seq(Objects \cup {Null})
    /\ list \in Seq(Objects)
    /\ fdCount \in Nat
    /\ path \in [Objects -> Paths \cup {Null}]
    /\ alive \subseteq Objects
    /\ opened \subseteq Objects
    /\ \A o \in alive : path[o] \in Paths

\* A cell in front of the list adds its object.
LEMMA ConsProperties ==
    ASSUME NEW S, NEW s \in Seq(S), NEW o \in S, o \notin ToSet(s), IsInjective(s)
    PROVE  /\ <<o>> \o s \in Seq(S)
           /\ Len(<<o>> \o s) = Len(s) + 1
           /\ ToSet(<<o>> \o s) = ToSet(s) \cup {o}
           /\ IsInjective(<<o>> \o s)
  <1> DEFINE r == <<o>> \o s
  <1>1. /\ r \in Seq(S)
        /\ Len(s) \in Nat
        /\ Len(r) = Len(s) + 1
        /\ \A i \in 1 .. Len(r) : r[i] = IF i = 1 THEN o ELSE s[i - 1]
    OBVIOUS
  <1> HIDE DEF r
  <1>2. /\ DOMAIN s = 1 .. Len(s)
        /\ DOMAIN r = 1 .. Len(r)
    BY <1>1
  <1>3. \A i \in DOMAIN s : s[i] # o
    BY DEF ToSet
  <1>4. ToSet(r) = ToSet(s) \cup {o}
    <2>1. ToSet(r) \subseteq ToSet(s) \cup {o}
      BY <1>1, <1>2 DEF ToSet
    <2>2. o \in ToSet(r)
      <3>1. 1 \in DOMAIN r /\ r[1] = o
        BY <1>1, <1>2
      <3> QED
        BY <3>1 DEF ToSet
    <2>3. ASSUME NEW i \in DOMAIN s PROVE s[i] \in ToSet(r)
      <3>1. i + 1 \in DOMAIN r /\ r[i + 1] = s[i]
        BY <1>1, <1>2
      <3> QED
        BY <3>1 DEF ToSet
    <2> QED
      BY <2>1, <2>2, <2>3 DEF ToSet
  <1>5. IsInjective(r)
    <2> SUFFICES ASSUME NEW i \in DOMAIN r, NEW j \in DOMAIN r, r[i] = r[j], i # j
                 PROVE  FALSE
      BY DEF IsInjective
    <2>1. CASE i = 1
      BY <1>1, <1>2, <1>3, <2>1
    <2>2. CASE j = 1
      BY <1>1, <1>2, <1>3, <2>2
    <2>3. CASE i # 1 /\ j # 1
      <3>1. i - 1 \in DOMAIN s /\ j - 1 \in DOMAIN s /\ s[i - 1] = s[j - 1]
        BY <1>1, <1>2, <2>3
      <3> QED
        BY <1>2, <3>1 DEF IsInjective
    <2> QED
      BY <2>1, <2>2, <2>3
  <1> QED
    BY <1>1, <1>4, <1>5 DEF r

\* An open that succeeds puts its object in the array, on the list and in the
\* count, and moves no other.
LEMMA OpenAgrees ==
    ASSUME Typed, Agreed, Len(cache) > 0, NEW p \in Paths, OpenOk(p)
    PROVE  /\ TableTyped'
           /\ Agreed'
           /\ Len(cache') >= Len(cache)
           /\ \A d \in Slots : cache'[d] = cache[d]
           /\ FreeSlot(Grown) \in Nat
           /\ FreeSlot(Grown) < Len(cache')
           /\ FreeSlot(Grown) + 1 \notin Slots
           /\ cache'[FreeSlot(Grown) + 1] \in Objects
           /\ opened' = opened \cup {cache'[FreeSlot(Grown) + 1]}
  <1>1. PICK o \in Objects \ alive : Allocate(o, p)
    BY DEF OpenOk
  <1>2. PICK k : k = FreeSlot(Grown) + 1
    OBVIOUS
  <1>3. TableTyped
    BY DEF Typed, TypeOK, TableTyped
  <1>4. /\ Grown \in Seq(Objects \cup {Null})
        /\ Len(Grown) \in Nat /\ Len(cache) \in Nat
        /\ Len(Grown) >= Len(cache)
        /\ \A d \in 1 .. Len(cache) : Grown[d] = cache[d]
        /\ \A d \in 1 .. Len(Grown) : d > Len(cache) => Grown[d] = Null
    BY GrowthKeepsSlots, <1>3 DEF TableTyped
  <1>5. /\ FreeSlot(Grown) \in Nat
        /\ k \in 1 .. Len(Grown) /\ Grown[k] = Null
    BY <1>2, <1>4, SlotIsFree
  <1>6. cache' = [d \in DOMAIN Grown |-> IF d = k THEN o ELSE Grown[d]]
    BY <1>1, <1>2 DEF Allocate
  <1>7. /\ cache' \in Seq(Objects \cup {Null})
        /\ Len(cache') = Len(Grown)
        /\ \A d \in 1 .. Len(Grown) : cache'[d] = IF d = k THEN o ELSE Grown[d]
    BY <1>4, <1>5, <1>6
  <1>8. o # Null
    BY VfsAssumption
  <1>9. Slots' = Slots \cup {k} /\ k \notin Slots
    BY <1>4, <1>5, <1>7, <1>8 DEF Slots
  <1>10. /\ list' = <<o>> \o list /\ fdCount' = fdCount + 1
         /\ alive' = alive \cup {o} /\ opened' = opened \cup {o}
         /\ path' = [path EXCEPT ![o] = p]
    BY <1>1 DEF Allocate
  <1>11. /\ list' \in Seq(Objects) /\ Len(list') = Len(list) + 1
         /\ ToSet(list') = ToSet(list) \cup {o}
         /\ IsInjective(list')
    BY <1>3, <1>10, ConsProperties DEF Agreed, TableAgrees, TableTyped
  <1>12. TableTyped'
    BY <1>3, <1>7, <1>10, <1>11 DEF TableTyped
  <1>13. \A d \in Slots : cache'[d] = cache[d] /\ cache[d] \in alive
    BY <1>4, <1>7, <1>9 DEF Slots, Agreed, TableAgrees
  <1>14. cache'[k] = o
    BY <1>5, <1>7
  <1>15. /\ IsFiniteSet(Slots') /\ Cardinality(Slots') = fdCount + 1
    BY <1>9, FS_AddElement DEF Agreed, TableAgrees
  <1>16. /\ IsFiniteSet(alive') /\ Cardinality(alive') = fdCount + 1
    BY <1>10, FS_AddElement DEF Agreed, TableAgrees
  <1>17. {cache'[d] : d \in Slots'} = alive'
    BY <1>9, <1>10, <1>13, <1>14 DEF Agreed, TableAgrees
  <1>18. \A d, e \in Slots' : cache'[d] = cache'[e] => d = e
    BY <1>9, <1>13, <1>14 DEF Agreed
  <1>19. Agreed'
    BY <1>10, <1>11, <1>15, <1>16, <1>17, <1>18 DEF Agreed, TableAgrees
  <1> QED
    BY <1>2, <1>4, <1>5, <1>7, <1>9, <1>10, <1>12, <1>13, <1>14, <1>19

\* The list without the cell of one of its objects.
LEMMA UnlinkedProperties ==
    ASSUME list \in Seq(Objects), IsInjective(list), NEW o \in ToSet(list)
    PROVE  /\ Unlinked(o) \in Seq(Objects)
           /\ Len(Unlinked(o)) = Len(list) - 1
           /\ ToSet(Unlinked(o)) = ToSet(list) \ {o}
           /\ IsInjective(Unlinked(o))
  <1> DEFINE i == CHOOSE n \in DOMAIN list : list[n] = o
             r == [j \in 1 .. Len(list) - 1 |-> IF j < i THEN list[j] ELSE list[j + 1]]
  <1>1. i \in DOMAIN list /\ list[i] = o
    BY DEF ToSet
  <1>2. Unlinked(o) = r
    BY DEF Unlinked
  <1> HIDE DEF i
  <1>3. /\ DOMAIN list = 1 .. Len(list) /\ Len(list) \in Nat
        /\ i \in 1 .. Len(list)
        /\ \A n \in 1 .. Len(list) : list[n] \in Objects
    BY <1>1
  <1>4. \A n \in 1 .. Len(list) : n # i => list[n] # o
    BY <1>1, <1>3 DEF IsInjective
  <1>5. /\ r \in Seq(Objects) /\ Len(r) = Len(list) - 1 /\ DOMAIN r = 1 .. Len(list) - 1
    <2>1. \A j \in 1 .. Len(list) - 1 :
             (IF j < i THEN list[j] ELSE list[j + 1]) \in Objects
      BY <1>3
    <2>2. Len(list) - 1 \in Nat
      BY <1>3
    <2> QED
      BY <2>1, <2>2
  <1>6. \A j \in 1 .. Len(list) - 1 :
           /\ j < i => r[j] = list[j] /\ j # i
           /\ ~(j < i) => r[j] = list[j + 1] /\ j + 1 # i
    BY <1>3
  <1> HIDE DEF r
  <1>7. ToSet(r) \subseteq ToSet(list) \ {o}
    <2> SUFFICES ASSUME NEW j \in 1 .. Len(list) - 1 PROVE r[j] \in ToSet(list) \ {o}
      BY <1>5 DEF ToSet
    <2>1. CASE j < i
      <3>1. r[j] = list[j] /\ j \in 1 .. Len(list) /\ j # i
        BY <1>3, <1>6, <2>1
      <3> QED
        BY <1>3, <1>4, <3>1 DEF ToSet
    <2>2. CASE ~(j < i)
      <3>1. r[j] = list[j + 1] /\ j + 1 \in 1 .. Len(list) /\ j + 1 # i
        BY <1>3, <1>6, <2>2
      <3> QED
        BY <1>3, <1>4, <3>1 DEF ToSet
    <2> QED
      BY <2>1, <2>2
  <1>8. ToSet(list) \ {o} \subseteq ToSet(r)
    <2> SUFFICES ASSUME NEW n \in 1 .. Len(list), list[n] # o PROVE list[n] \in ToSet(r)
      BY <1>3 DEF ToSet
    <2>1. CASE n < i
      <3>1. n \in DOMAIN r /\ r[n] = list[n]
        BY <1>3, <1>5, <1>6, <2>1
      <3> QED
        BY <3>1 DEF ToSet
    <2>2. CASE ~(n < i)
      <3>1. n # i
        BY <1>1
      <3>2. n - 1 \in DOMAIN r /\ r[n - 1] = list[n]
        BY <1>3, <1>5, <1>6, <2>2, <3>1
      <3> QED
        BY <3>2 DEF ToSet
    <2> QED
      BY <2>1, <2>2
  <1>9. IsInjective(r)
    <2> SUFFICES ASSUME NEW j \in DOMAIN r, NEW n \in DOMAIN r, r[j] = r[n] PROVE j = n
      BY DEF IsInjective
    <2> DEFINE at(x) == IF x < i THEN x ELSE x + 1
    <2>1. r[j] = list[at(j)] /\ r[n] = list[at(n)]
      BY <1>5, <1>6
    <2>2. at(j) \in 1 .. Len(list) /\ at(n) \in 1 .. Len(list)
      BY <1>3, <1>5
    <2>3. at(j) = at(n)
      BY <1>3, <2>1, <2>2 DEF IsInjective
    <2> QED
      BY <1>3, <1>5, <2>3
  <1> QED
    BY <1>2, <1>5, <1>7, <1>8, <1>9

\* A close that succeeds takes its object from the array, the list and the
\* count, and moves no other.
LEMMA ReleaseAgrees ==
    ASSUME Typed, Agreed, NEW d \in Nat, d + 1 \in Slots, Release(d),
           opened' \subseteq Objects
    PROVE  /\ TableTyped'
           /\ Agreed'
           /\ Len(cache') = Len(cache)
           /\ \A e \in Slots : e # d + 1 => cache'[e] = cache[e]
  <1> DEFINE o == cache[d + 1]
  <1>1. TableTyped
    BY DEF Typed, TypeOK, TableTyped
  <1>2. o \in alive /\ o \in Objects
    BY <1>1 DEF Agreed, TableAgrees, TableTyped
  <1>3. /\ list' = Unlinked(o)
        /\ cache' = [cache EXCEPT ![d + 1] = Null]
        /\ fdCount' = fdCount - 1
        /\ alive' = alive \ {o}
        /\ path' = [path EXCEPT ![o] = Null]
    BY DEF Release
  <1>4. /\ Len(cache) \in Nat /\ d + 1 \in 1 .. Len(cache)
        /\ cache' \in Seq(Objects \cup {Null}) /\ Len(cache') = Len(cache)
        /\ \A e \in 1 .. Len(cache) : cache'[e] = IF e = d + 1 THEN Null ELSE cache[e]
    BY <1>1, <1>3 DEF TableTyped, Slots
  <1>5. Slots' = Slots \ {d + 1}
    BY <1>4 DEF Slots
  <1>6. \A e \in Slots : e # d + 1 => cache'[e] = cache[e] /\ cache[e] \in alive \ {o}
    BY <1>4 DEF Slots, Agreed, TableAgrees
  <1>7. /\ list' \in Seq(Objects) /\ Len(list') = fdCount - 1
        /\ ToSet(list') = alive'
        /\ IsInjective(list')
    BY <1>1, <1>2, <1>3, UnlinkedProperties DEF TableTyped, Agreed, TableAgrees
  <1>8. /\ IsFiniteSet(Slots') /\ Cardinality(Slots') = fdCount - 1
    BY <1>5, FS_RemoveElement DEF Agreed, TableAgrees
  <1> HIDE DEF o
  <1>9. /\ IsFiniteSet(alive') /\ Cardinality(alive') = fdCount - 1
    BY <1>2, <1>3, FS_RemoveElement DEF Agreed, TableAgrees
  <1>10. {cache'[e] : e \in Slots'} = alive'
    <2>1. alive' \subseteq {cache'[e] : e \in Slots'}
      <3> SUFFICES ASSUME NEW x \in alive, x # o PROVE \E e \in Slots' : cache'[e] = x
        BY <1>3
      <3>1. PICK e \in Slots : cache[e] = x
        BY DEF Agreed, TableAgrees
      <3> QED
        BY <1>5, <1>6, <3>1 DEF o
    <2>2. {cache'[e] : e \in Slots'} \subseteq alive'
      BY <1>3, <1>5, <1>6
    <2> QED
      BY <2>1, <2>2
  <1>11. \A e, f \in Slots' : cache'[e] = cache'[f] => e = f
    BY <1>5, <1>6 DEF Agreed
  <1>12. fdCount - 1 \in Nat
    BY <1>8, FS_CardinalityType
  <1>13. TableTyped'
    <2>1. alive' \subseteq Objects /\ \A x \in alive' : path'[x] \in Paths
      BY <1>1, <1>3 DEF TableTyped
    <2>2. path' \in [Objects -> Paths \cup {Null}]
      BY <1>1, <1>3 DEF TableTyped
    <2> QED
      BY <1>3, <1>4, <1>7, <1>12, <2>1, <2>2 DEF TableTyped
  <1>14. Agreed'
    BY <1>3, <1>7, <1>8, <1>9, <1>10, <1>11 DEF Agreed, TableAgrees
  <1> QED
    BY <1>4, <1>6, <1>13, <1>14

\* An array that has grown holds what it held.
LEMMA GrowthAgrees ==
    ASSUME Typed, Agreed, cache' = Grown, UNCHANGED <<list, fdCount, path, alive, opened>>
    PROVE  /\ TableTyped'
           /\ Agreed'
           /\ Len(cache') >= Len(cache)
           /\ \A d \in Slots : cache'[d] = cache[d]
  <1>1. TableTyped
    BY DEF Typed, TypeOK, TableTyped
  <1>2. /\ cache' \in Seq(Objects \cup {Null})
        /\ Len(cache') \in Nat /\ Len(cache) \in Nat
        /\ Len(cache') >= Len(cache)
        /\ \A d \in 1 .. Len(cache) : cache'[d] = cache[d]
        /\ \A d \in 1 .. Len(cache') : d > Len(cache) => cache'[d] = Null
    BY GrowthKeepsSlots, <1>1 DEF TableTyped
  <1>3. Slots' = Slots
    BY <1>2 DEF Slots
  <1>4. \A d \in Slots : cache'[d] = cache[d]
    BY <1>2 DEF Slots
  <1>5. TableTyped'
    BY <1>1, <1>2 DEF TableTyped
  <1>6. Agreed'
    BY <1>3, <1>4 DEF Agreed, TableAgrees
  <1> QED
    BY <1>2, <1>4, <1>5, <1>6

----------------------------------------------------------------------------
(* Who uses which descriptor. *)

\* A descriptor in use is a slot that is taken.
LEMMA UsesAreSlots ==
    ASSUME IInv, mount = "mounted", NEW t \in Tasks, NEW d \in Uses(t)
    PROVE  /\ d \in Nat
           /\ d + 1 \in Slots
           /\ cache[d + 1] \in opened
  <1>1. d \in Nat
    BY DEF IInv, Typed, TypeOK, Uses
  <1>2. d < Len(cache) /\ cache[d + 1] \in opened
    BY DEF IInv, OneUser
  <1>3. Len(cache) \in Nat /\ opened \subseteq Objects /\ Null \notin Objects
    BY VfsAssumption DEF IInv, Typed, TypeOK
  <1> QED
    BY <1>1, <1>2, <1>3 DEF Slots

\* An object littlefs has open is in the array.
LEMMA OpenedAreCached ==
    ASSUME IInv, mount = "mounted", NEW o \in opened
    PROVE  \E d \in Slots : cache[d] = o
  <1>1. PICK t \in Tasks : \E d \in Uses(t) : cache[d + 1] = o
    BY DEF IInv, OneUser
  <1>2. PICK d \in Uses(t) : cache[d + 1] = o
    BY <1>1
  <1> QED
    BY <1>2, UsesAreSlots

\* What truncate opened is not one of the task's own descriptors.
Apart == \A t \in Tasks : pc[t] \in {"opened", "truncated"} => inner[t] \notin held[t]

LEMMA OpenOneUser ==
    ASSUME IInv, mount = "mounted", NEW t \in Tasks, NEW p \in Paths, OpenOk(p),
           \A u \in Tasks \ {t} : Uses(u)' = Uses(u),
           Uses(t)' = Uses(t) \cup {FreeSlot(Grown)},
           Apart'
    PROVE  OneUser'
  <1>1. PICK f : f = FreeSlot(Grown)
    OBVIOUS
  <1>2. Typed /\ Agreed /\ Len(cache) > 0
    BY DEF IInv, Ready
  <1>3. /\ Len(cache') >= Len(cache)
        /\ \A d \in Slots : cache'[d] = cache[d]
        /\ f \in Nat /\ f < Len(cache') /\ f + 1 \notin Slots
        /\ opened' = opened \cup {cache'[f + 1]}
        /\ TableTyped'
    BY <1>1, <1>2, OpenAgrees
  <1>4. Len(cache') \in Nat /\ Len(cache) \in Nat
    BY <1>3 DEF TableTyped, IInv, Typed, TypeOK
  <1>5. ASSUME NEW u \in Tasks, NEW d \in Uses(u)
        PROVE  /\ d \in Nat /\ d < Len(cache') /\ d # f
               /\ cache'[d + 1] = cache[d + 1] /\ cache[d + 1] \in opened
    <2>1. d \in Nat /\ d + 1 \in Slots /\ cache[d + 1] \in opened
      BY UsesAreSlots
    <2>2. d < Len(cache)
      BY <2>1, <1>4 DEF Slots
    <2> QED
      BY <2>1, <2>2, <1>3, <1>4
  <1>6. \A u \in Tasks : \A d \in Uses(u)' : d \in Uses(u) \/ (u = t /\ d = f)
    BY <1>1
  <1>7. ASSUME NEW u \in Tasks, NEW d \in Uses(u)'
        PROVE  /\ d < Len(cache')
               /\ cache'[d + 1] \in opened'
               /\ \A v \in Tasks \ {u} : d \notin Uses(v)'
    <2>1. CASE d \in Uses(u)
      <3>1. d < Len(cache') /\ cache'[d + 1] \in opened' /\ d # f
        BY <1>3, <1>5, <2>1
      <3>2. \A v \in Tasks \ {u} : d \notin Uses(v)
        BY <2>1 DEF IInv, OneUser
      <3> QED
        BY <1>6, <3>1, <3>2
    <2>2. CASE u = t /\ d = f
      <3>1. \A v \in Tasks : f \notin Uses(v)
        BY <1>5
      <3> QED
        BY <1>3, <2>2, <3>1
    <2> QED
      BY <1>6, <2>1, <2>2
  <1>8. ASSUME NEW o \in opened'
        PROVE  \E u \in Tasks : \E d \in Uses(u)' : cache'[d + 1] = o
    <2>1. CASE o \in opened
      <3>1. PICK u \in Tasks : \E d \in Uses(u) : cache[d + 1] = o
        BY <2>1 DEF IInv, OneUser
      <3>2. PICK d \in Uses(u) : cache[d + 1] = o
        BY <3>1
      <3>3. d \in Uses(u)'
        BY <3>2
      <3> QED
        BY <1>5, <3>2, <3>3
    <2>2. CASE o = cache'[f + 1]
      <3>1. f \in Uses(t)'
        BY <1>1
      <3> QED
        BY <2>2, <3>1
    <2> QED
      BY <1>3, <2>1, <2>2
  <1> QED
    BY <1>7, <1>8 DEF OneUser, Apart

\* lfs_file_close takes the descriptor's object off littlefs's list, and the
\* task forgets the descriptor, whether or not the table keeps it.
LEMMA CloseOneUser ==
    ASSUME IInv, mount = "mounted", NEW t \in Tasks, NEW d \in Uses(t), CloseOn(d),
           \A u \in Tasks \ {t} : Uses(u)' = Uses(u),
           Uses(t)' = Uses(t) \ {d},
           Apart'
    PROVE  OneUser'
  <1>1. Typed /\ Agreed
    BY DEF IInv
  <1>2. d \in Nat /\ d + 1 \in Slots /\ cache[d + 1] \in opened
    BY UsesAreSlots
  <1>3. opened' = opened \ {cache[d + 1]}
    BY DEF CloseOn
  <1>4. opened' \subseteq Objects
    BY <1>3 DEF IInv, Typed, TypeOK
  <1>5. Len(cache') = Len(cache) /\ \A e \in Slots : e # d + 1 => cache'[e] = cache[e]
    <2>1. CASE Release(d)
      BY <1>1, <1>2, <1>4, <2>1, ReleaseAgrees
    <2>2. CASE UNCHANGED cache
      BY <2>2
    <2> QED
      BY <2>1, <2>2 DEF CloseOn
  <1>6. \A u \in Tasks : \A e \in Uses(u)' : e \in Uses(u) /\ e # d
    BY DEF IInv, OneUser
  <1>7. ASSUME NEW u \in Tasks, NEW e \in Uses(u), e # d
        PROVE  e < Len(cache') /\ cache'[e + 1] = cache[e + 1] /\ cache[e + 1] \in opened'
    <2>1. e \in Nat /\ e + 1 \in Slots /\ cache[e + 1] \in opened /\ e + 1 # d + 1
      BY UsesAreSlots, <1>2, <1>7
    <2>2. e < Len(cache)
      BY DEF IInv, OneUser
    <2>3. cache[e + 1] # cache[d + 1]
      BY <1>1, <1>2, <2>1 DEF Agreed
    <2> QED
      BY <1>3, <1>5, <2>1, <2>2, <2>3
  <1>8. ASSUME NEW u \in Tasks, NEW e \in Uses(u)'
        PROVE  /\ e < Len(cache')
               /\ cache'[e + 1] \in opened'
               /\ \A v \in Tasks \ {u} : e \notin Uses(v)'
    <2>1. e \in Uses(u) /\ e # d
      BY <1>6
    <2>2. \A v \in Tasks \ {u} : e \notin Uses(v)
      BY <2>1 DEF IInv, OneUser
    <2>3. \A v \in Tasks : Uses(v)' \subseteq Uses(v)
      BY <1>6
    <2> QED
      BY <1>7, <2>1, <2>2, <2>3
  <1>9. ASSUME NEW o \in opened'
        PROVE  \E u \in Tasks : \E e \in Uses(u)' : cache'[e + 1] = o
    <2>1. o \in opened /\ o # cache[d + 1]
      BY <1>3
    <2>2. PICK u \in Tasks : \E e \in Uses(u) : cache[e + 1] = o
      BY <2>1 DEF IInv, OneUser
    <2>3. PICK e \in Uses(u) : cache[e + 1] = o
      BY <2>2
    <2>4. e # d
      BY <2>1, <2>3
    <2>5. e \in Uses(u)'
      BY <2>3, <2>4
    <2> QED
      BY <1>7, <2>3, <2>4, <2>5
  <1> QED
    BY <1>8, <1>9 DEF OneUser, Apart

----------------------------------------------------------------------------
(* The steps of a task. *)

\* The parts of Typed that the table is not.
RestTyped ==
    /\ mount \in {"none", "mounted", "unmounted", "lost"}
    /\ registered \in BOOLEAN
    /\ disk \subseteq {File[p] : p \in Paths}
    /\ orphans \subseteq opened
    /\ holder \in Tasks \cup {Null}
    /\ held \in [Tasks -> SUBSET Nat]
    /\ pc \in [Tasks -> Steps]
    /\ inner \in [Tasks -> Nat \cup {Null}]
    /\ \A t \in Tasks : pc[t] \in {"opened", "truncated"} => inner[t] \in Nat

LEMMA TypedParts == Typed <=> TableTyped /\ RestTyped
  BY DEF Typed, TypeOK, TableTyped, RestTyped

\* A mounted volume needs no proof of Away.
LEMMA MountedIInv ==
    ASSUME TableTyped', RestTyped', Agreed', mount' = "mounted", Len(cache') > 0, OneUser'
    PROVE  IInv'
  <1>1. Typed'
    BY TypedParts, PTL
  <1> QED
    BY <1>1 DEF IInv, Away, Ready

LEMMA OpenKeepsIInv ==
    ASSUME IInv, NEW t \in Tasks, NEW p \in Paths, Open(t, p) \/ TruncateOpen(t, p)
    PROVE  IInv'
  <1>1. mount = "mounted" /\ pc[t] = "idle" /\ OpenOk(p) /\ UNCHANGED <<context, holder>>
    BY DEF Open, TruncateOpen, CanTake
  <1>2. Typed /\ Agreed /\ Len(cache) > 0
    BY <1>1 DEF IInv, Ready
  <1>3. PICK f : f = FreeSlot(Grown)
    OBVIOUS
  <1>4. RestTyped
    BY <1>2, TypedParts
  <1>5. /\ TableTyped' /\ Agreed' /\ Len(cache') >= Len(cache)
        /\ f \in Nat /\ f + 1 \notin Slots
        /\ opened \subseteq opened'
    BY <1>1, <1>2, <1>3, OpenAgrees
  <1>6. \A u \in Tasks : f \notin Uses(u)
    BY <1>1, <1>5, UsesAreSlots
  <1>7. /\ \A u \in Tasks : pc'[u] \in Steps /\ held'[u] \in SUBSET Nat
                            /\ inner'[u] \in Nat \cup {Null}
        /\ held' \in [Tasks -> SUBSET Nat]
        /\ pc' \in [Tasks -> Steps]
        /\ inner' \in [Tasks -> Nat \cup {Null}]
        /\ \A u \in Tasks : pc'[u] \in {"opened", "truncated"} =>
              inner'[u] \in Nat /\ inner'[u] \notin held'[u]
        /\ \A u \in Tasks \ {t} : Uses(u)' = Uses(u)
        /\ Uses(t)' = Uses(t) \cup {f}
    <2>0. \A u \in Tasks : pc[u] \in {"opened", "truncated"} =>
              inner[u] \in Nat /\ inner[u] \notin held[u] /\ inner[u] \in Uses(u)
      BY <1>1, <1>4 DEF RestTyped, IInv, OneUser, Uses
    <2>1. CASE Open(t, p)
      <3>1. held' = [held EXCEPT ![t] = @ \cup {f}] /\ UNCHANGED <<pc, inner>>
        BY <1>3, <2>1 DEF Open
      <3>2. \A u \in Tasks : held'[u] = IF u = t THEN held[t] \cup {f} ELSE held[u]
        BY <1>4, <3>1 DEF RestTyped
      <3>3. \A u \in Tasks \ {t} : Uses(u)' = Uses(u)
        BY <3>1, <3>2 DEF Uses
      <3>4. Uses(t)' = Uses(t) \cup {f}
        BY <1>1, <3>1, <3>2 DEF Uses
      <3> QED
        BY <1>1, <1>4, <1>5, <1>6, <2>0, <3>1, <3>2, <3>3, <3>4 DEF RestTyped
    <2>2. CASE TruncateOpen(t, p)
      <3>1. /\ inner' = [inner EXCEPT ![t] = f] /\ pc' = [pc EXCEPT ![t] = "opened"]
            /\ held' = held
        BY <1>3, <2>2 DEF TruncateOpen
      <3>2. pc \in [Tasks -> Steps] /\ inner \in [Tasks -> Nat \cup {Null}]
        BY <1>4 DEF RestTyped
      <3>3. \A u \in Tasks : pc'[u] = IF u = t THEN "opened" ELSE pc[u]
        BY <3>1, <3>2
      <3>4. \A u \in Tasks : inner'[u] = IF u = t THEN f ELSE inner[u]
        BY <3>1, <3>2
      <3>5. \A u \in Tasks \ {t} : Uses(u)' = Uses(u)
        BY <3>1, <3>3, <3>4 DEF Uses
      <3>6. Uses(t)' = Uses(t) \cup {f}
        <4>1. pc'[t] = "opened" /\ inner'[t] = f /\ held'[t] = held[t]
          BY <3>1, <3>3, <3>4
        <4>2. Uses(t) = held[t]
          BY <1>1 DEF Uses
        <4> QED
          BY <4>1, <4>2 DEF Uses
      <3>7. f \notin held[t]
        BY <1>6 DEF Uses
      <3>8. "opened" \in Steps
        BY DEF Steps
      <3> QED
        BY <1>4, <1>5, <2>0, <3>1, <3>3, <3>4, <3>5, <3>6, <3>7, <3>8 DEF RestTyped
    <2> QED
      BY <2>1, <2>2
  <1>8. RestTyped'
    <2>1. disk' \subseteq {File[q] : q \in Paths} /\ orphans' = orphans
      BY <1>1, <1>4 DEF OpenOk, RestTyped
    <2> QED
      BY <1>1, <1>4, <1>5, <1>7, <2>1 DEF RestTyped, context
  <1>9. OneUser'
    <2>1. Apart'
      BY <1>7 DEF Apart
    <2> QED
      BY <1>1, <1>3, <1>7, <2>1, OpenOneUser
  <1>10. mount' = "mounted"
    BY <1>1 DEF context
  <1>11. Len(cache') > 0
    BY <1>2, <1>4, <1>5 DEF TableTyped, IInv, Typed, TypeOK
  <1> QED
    BY <1>5, <1>8, <1>9, <1>10, <1>11, MountedIInv

LEMMA CloseKeepsIInv ==
    ASSUME IInv, NEW t \in Tasks,
           (\E d \in held[t] : Close(t, d)) \/ TruncateClose(t)
    PROVE  IInv'
  <1>1. PICK d \in Uses(t) :
           /\ mount = "mounted" /\ CloseOn(d)
           /\ UNCHANGED <<context, disk, holder>>
           /\ \/ /\ pc[t] = "idle" /\ d \in held[t]
                 /\ held' = [held EXCEPT ![t] = @ \ {d}]
                 /\ UNCHANGED <<pc, inner>>
              \/ /\ pc[t] = "truncated" /\ d = inner[t]
                 /\ pc' = [pc EXCEPT ![t] = "idle"]
                 /\ inner' = [inner EXCEPT ![t] = Null]
                 /\ UNCHANGED held
    <2>1. ASSUME NEW d \in held[t], Close(t, d) PROVE d \in Uses(t)
      BY DEF Uses
    <2>2. ASSUME TruncateClose(t) PROVE inner[t] \in Uses(t)
      BY <2>2 DEF TruncateClose, Uses
    <2> QED
      BY <2>1, <2>2 DEF Close, TruncateClose, CanTake
  <1>2. Typed /\ Agreed /\ Len(cache) > 0
    BY <1>1 DEF IInv, Ready
  <1>3. RestTyped /\ TableTyped
    BY <1>2, TypedParts
  <1>4. d \in Nat /\ d + 1 \in Slots
    BY <1>1, UsesAreSlots
  <1>5. opened' = opened \ {cache[d + 1]} /\ orphans' = orphans \ {cache[d + 1]}
    BY <1>1 DEF CloseOn
  <1>6. TableTyped' /\ Agreed' /\ Len(cache') = Len(cache)
    <2>0. opened' \subseteq Objects
      BY <1>3, <1>5 DEF TableTyped
    <2>1. CASE Release(d)
      BY <1>2, <1>4, <2>0, <2>1, ReleaseAgrees
    <2>2. CASE UNCHANGED <<cache, list, fdCount, path, alive>>
      <3>1. TableTyped'
        BY <1>3, <2>0, <2>2 DEF TableTyped
      <3>2. Agreed'
        BY <1>2, <2>2 DEF Agreed, TableAgrees, Slots
      <3> QED
        BY <2>2, <3>1, <3>2
    <2> QED
      BY <1>1, <2>1, <2>2 DEF CloseOn
  <1>7. /\ held' \in [Tasks -> SUBSET Nat]
        /\ pc' \in [Tasks -> Steps]
        /\ inner' \in [Tasks -> Nat \cup {Null}]
        /\ \A u \in Tasks : pc'[u] \in {"opened", "truncated"} =>
              inner'[u] \in Nat /\ inner'[u] \notin held'[u]
        /\ \A u \in Tasks \ {t} : Uses(u)' = Uses(u)
        /\ Uses(t)' = Uses(t) \ {d}
    <2>0. \A u \in Tasks : pc[u] \in {"opened", "truncated"} =>
              inner[u] \in Nat /\ inner[u] \notin held[u] /\ inner[u] \in Uses(u)
      BY <1>1, <1>3 DEF RestTyped, IInv, OneUser, Uses
    <2>1. CASE /\ pc[t] = "idle" /\ d \in held[t]
               /\ held' = [held EXCEPT ![t] = @ \ {d}]
               /\ UNCHANGED <<pc, inner>>
      <3>1. \A u \in Tasks : held'[u] = IF u = t THEN held[t] \ {d} ELSE held[u]
        BY <1>3, <2>1 DEF RestTyped
      <3>2. \A u \in Tasks \ {t} : Uses(u)' = Uses(u)
        BY <2>1, <3>1 DEF Uses
      <3>3. Uses(t)' = Uses(t) \ {d}
        BY <2>1, <3>1 DEF Uses
      <3> QED
        BY <1>3, <2>0, <2>1, <3>1, <3>2, <3>3 DEF RestTyped
    <2>2. CASE /\ pc[t] = "truncated" /\ d = inner[t]
               /\ pc' = [pc EXCEPT ![t] = "idle"]
               /\ inner' = [inner EXCEPT ![t] = Null]
               /\ UNCHANGED held
      <3>1. pc \in [Tasks -> Steps] /\ inner \in [Tasks -> Nat \cup {Null}]
        BY <1>3 DEF RestTyped
      <3>2. \A u \in Tasks : pc'[u] = IF u = t THEN "idle" ELSE pc[u]
        BY <2>2, <3>1
      <3>3. \A u \in Tasks : inner'[u] = IF u = t THEN Null ELSE inner[u]
        BY <2>2, <3>1
      <3>4. \A u \in Tasks \ {t} : Uses(u)' = Uses(u)
        BY <2>2, <3>2, <3>3 DEF Uses
      <3>5. Uses(t)' = Uses(t) \ {d}
        BY <2>0, <2>2, <3>2, <3>3 DEF Uses
      <3>6. "idle" \in Steps
        BY DEF Steps
      <3> QED
        BY <1>3, <2>0, <2>2, <3>2, <3>3, <3>4, <3>5, <3>6 DEF RestTyped
    <2> QED
      BY <1>1, <2>1, <2>2
  <1>8. RestTyped'
    BY <1>1, <1>3, <1>5, <1>7 DEF RestTyped, context
  <1>9. OneUser'
    <2>1. Apart'
      BY <1>7 DEF Apart
    <2> QED
      BY <1>1, <1>7, <2>1, CloseOneUser
  <1>10. mount' = "mounted"
    BY <1>1 DEF context
  <1> QED
    BY <1>2, <1>6, <1>8, <1>9, <1>10, MountedIInv

\* A failed open may leave a larger array.
LEMMA OpenFailsKeepsIInv ==
    ASSUME IInv, NEW t \in Tasks, NEW p \in Paths, OpenFails(t, p)
    PROVE  IInv'
  <1>1. /\ mount = "mounted"
        /\ UNCHANGED <<context, list, fdCount, path, alive, opened, orphans, holder, held, pc, inner>>
        /\ cache' = cache \/ cache' = Grown
        /\ disk' \in {disk, disk \cup {File[p]}}
    BY DEF OpenFails, CanTake
  <1>2. Typed /\ Agreed /\ Len(cache) > 0
    BY <1>1 DEF IInv, Ready
  <1>3. RestTyped /\ TableTyped
    BY <1>2, TypedParts
  <1>4. /\ TableTyped' /\ Agreed' /\ Len(cache') >= Len(cache)
        /\ \A d \in Slots : cache'[d] = cache[d]
    <2>1. CASE cache' = cache
      BY <1>1, <1>2, <1>3, <2>1 DEF TableTyped, Agreed, TableAgrees, Slots
    <2>2. CASE cache' = Grown
      BY <1>1, <1>2, <2>2, GrowthAgrees
    <2> QED
      BY <1>1, <2>1, <2>2
  <1>5. RestTyped'
    <2>1. disk' \subseteq {File[q] : q \in Paths}
      BY <1>1, <1>3 DEF RestTyped
    <2> QED
      BY <1>1, <1>3, <2>1 DEF RestTyped, context
  <1>6. \A u \in Tasks : Uses(u)' = Uses(u)
    BY <1>1 DEF Uses
  <1>7. Len(cache') \in Nat /\ Len(cache) \in Nat
    BY <1>3, <1>4 DEF TableTyped
  <1>8. OneUser'
    <2>1. ASSUME NEW u \in Tasks, NEW d \in Uses(u)
          PROVE  /\ d < Len(cache')
                 /\ cache'[d + 1] = cache[d + 1]
                 /\ cache'[d + 1] \in opened'
                 /\ \A v \in Tasks \ {u} : d \notin Uses(v)
                 /\ pc[u] \in {"opened", "truncated"} => inner[u] \notin held[u]
      <3>1. d \in Nat /\ d + 1 \in Slots /\ cache[d + 1] \in opened
        BY <1>1, UsesAreSlots
      <3>2. d < Len(cache)
        BY <1>7, <3>1 DEF Slots
      <3>3. /\ \A v \in Tasks \ {u} : d \notin Uses(v)
            /\ pc[u] \in {"opened", "truncated"} => inner[u] \notin held[u]
        BY <1>1 DEF IInv, OneUser
      <3> QED
        BY <1>1, <1>4, <1>7, <3>1, <3>2, <3>3
    <2>2. \A o \in opened : \E u \in Tasks : \E d \in Uses(u) : cache'[d + 1] = o
      BY <1>1, <2>1 DEF IInv, OneUser
    <2> QED
      BY <1>1, <1>6, <2>1, <2>2 DEF OneUser
  <1>9. mount' = "mounted" /\ Len(cache') > 0
    BY <1>1, <1>2, <1>4, <1>7 DEF context
  <1> QED
    BY <1>4, <1>5, <1>8, <1>9, MountedIInv

\* The operations that leave the table alone.
LEMMA OthersKeepIInv ==
    ASSUME IInv, NEW t \in Tasks,
           \/ \E d \in held[t] : PositionedFails(t, d)
           \/ Truncate(t)
           \/ \E p \in Paths : Unlink(t, p)
           \/ \E p, q \in Paths : Rename(t, p, q)
    PROVE  IInv'
  <1>1. /\ mount = "mounted"
        /\ UNCHANGED <<context, table, held, inner>>
        /\ holder' \in {holder, t}
        /\ \/ pc' = pc
           \/ pc[t] = "opened" /\ pc' = [pc EXCEPT ![t] = "truncated"]
    BY DEF PositionedFails, Truncate, Unlink, Rename, CanTake
  <1>2. Typed /\ Agreed /\ Len(cache) > 0
    BY <1>1 DEF IInv, Ready
  <1>3. RestTyped /\ TableTyped
    BY <1>2, TypedParts
  <1>4. UNCHANGED <<mount, registered, cache, list, fdCount, path, alive, opened>>
    BY <1>1 DEF context, table
  <1>5. TableTyped' /\ Agreed' /\ Len(cache') > 0
    BY <1>2, <1>3, <1>4 DEF TableTyped, Agreed, TableAgrees, Slots
  <1>6. /\ pc' \in [Tasks -> Steps]
        /\ \A u \in Tasks : /\ pc'[u] \in {"opened", "truncated"}
                                <=> pc[u] \in {"opened", "truncated"}
    <2>1. "truncated" \in Steps /\ pc \in [Tasks -> Steps]
      BY <1>3 DEF Steps, RestTyped
    <2> QED
      BY <1>1, <2>1
  <1>7. \A u \in Tasks : Uses(u)' = Uses(u)
    BY <1>1, <1>6 DEF Uses
  <1>8. disk' \subseteq {File[q] : q \in Paths}
    <2>1. \A q \in Paths : File[q] \in {File[r] : r \in Paths}
      OBVIOUS
    <2>2. disk \subseteq {File[q] : q \in Paths}
      BY <1>3 DEF RestTyped
    <2> QED
      BY <2>1, <2>2 DEF PositionedFails, Truncate, Unlink, Rename, directory
  <1>9. orphans' \subseteq opened'
    <2>1. \A q \in Paths : OpenOn(q) \subseteq opened
      BY DEF OpenOn
    <2>2. orphans \subseteq opened
      BY <1>3 DEF RestTyped
    <2> QED
      BY <1>4, <2>1, <2>2 DEF PositionedFails, Truncate, Unlink, Rename, directory
  <1>10. RestTyped'
    BY <1>1, <1>3, <1>4, <1>6, <1>8, <1>9 DEF RestTyped
  <1>11. OneUser'
    BY <1>1, <1>4, <1>6, <1>7 DEF OneUser, IInv
  <1> QED
    BY <1>1, <1>4, <1>5, <1>10, <1>11, MountedIInv

----------------------------------------------------------------------------
(* The steps of the mount. *)

\* A table without an open file.
Emptied ==
    /\ cache \in Seq({Null})
    /\ list = <<>> /\ fdCount = 0
    /\ alive = {} /\ opened = {} /\ orphans = {}
    /\ path \in [Objects -> Paths \cup {Null}]
    /\ \A t \in Tasks : Uses(t) = {}

LEMMA EmptiedAgrees == Emptied => TableTyped /\ Agreed
  <1> SUFFICES ASSUME Emptied PROVE TableTyped /\ Agreed
    OBVIOUS
  <1>1. TableTyped
    BY DEF Emptied, TableTyped
  <1>2. Slots = {}
    BY DEF Emptied, Slots
  <1>3. ToSet(list) = {} /\ Len(list) = 0 /\ IsInjective(list)
    <2>1. list = <<>> /\ DOMAIN list = {}
      BY DEF Emptied
    <2> QED
      BY <2>1 DEF ToSet, IsInjective
  <1>4. Cardinality({}) = 0 /\ IsFiniteSet({})
    BY FS_EmptySet
  <1>5. alive = {} /\ fdCount = 0
    BY DEF Emptied
  <1>6. {cache[d] : d \in Slots} = {}
    BY <1>2
  <1>7. Agreed
    BY <1>2, <1>3, <1>4, <1>5, <1>6 DEF Agreed, TableAgrees
  <1> QED
    BY <1>1, <1>7

\* An empty table is right whether there is a volume or not.
LEMMA EmptiedIInv ==
    Emptied /\ RestTyped /\ (IF mount = "mounted" THEN Len(cache) > 0 ELSE cache = <<>>) => IInv
  <1> SUFFICES ASSUME Emptied, RestTyped,
                      IF mount = "mounted" THEN Len(cache) > 0 ELSE cache = <<>>
               PROVE  IInv
    OBVIOUS
  <1>1. Typed /\ Agreed
    BY EmptiedAgrees, TypedParts
  <1>2. OneUser
    BY DEF Emptied, OneUser
  <1> QED
    BY <1>1, <1>2 DEF IInv, Away, Ready, Emptied

LEMMA EmptiedIInvNext ==
    ASSUME Emptied', RestTyped', IF mount' = "mounted" THEN Len(cache') > 0 ELSE cache' = <<>>
    PROVE  IInv'
  <1>1. (IF mount = "mounted" THEN Len(cache) > 0 ELSE cache = <<>>)'
    OBVIOUS
  <1> QED
    BY <1>1, EmptiedIInv, PTL

\* A table is empty while no volume is mounted.
LEMMA AwayIsEmptied ==
    ASSUME IInv, mount # "mounted"
    PROVE  Emptied /\ cache = <<>>
  <1>1. cache = <<>> /\ orphans \subseteq opened
    BY DEF IInv, Away, Typed, TypeOK
  <1> QED
    BY <1>1 DEF IInv, Away, Emptied, Typed, TypeOK

\* esp_littlefs_free of a context that no task is inside a call on.
LEMMA FreedKeepsIInv ==
    ASSUME IInv, Freed, mount' \in {"none", "lost"}, disk' = disk,
           pc' \in [Tasks -> Steps], inner' \in [Tasks -> Nat \cup {Null}],
           \A t \in Tasks : pc'[t] = "idle"
    PROVE  IInv'
  <1>1. /\ cache' = <<>> /\ list' = <<>> /\ fdCount' = 0 /\ alive' = {}
        /\ path' = [o \in Objects |-> Null]
        /\ opened' = {} /\ orphans' = {}
        /\ registered' = FALSE /\ holder' = Null
        /\ held' = [t \in Tasks |-> {}]
    BY DEF Freed, FreeFds, LfsInit
  <1>2. \A t \in Tasks : Uses(t)' = {}
    BY <1>1 DEF Uses
  <1>3. Emptied'
    BY <1>1, <1>2 DEF Emptied
  <1>4. RestTyped'
    <2>1. disk \subseteq {File[p] : p \in Paths}
      BY DEF IInv, Typed, TypeOK
    <2>2. held' \in [Tasks -> SUBSET Nat]
      BY <1>1
    <2> QED
      BY <1>1, <2>1, <2>2 DEF RestTyped
  <1> QED
    BY <1>1, <1>3, <1>4, EmptiedIInvNext

LEMMA LostKeepsIInv ==
    ASSUME IInv, Lost
    PROVE  IInv'
  <1>1. pc' = [t \in Tasks |-> "idle"] /\ inner' = [t \in Tasks |-> Null] /\ "idle" \in Steps
    BY DEF Lost, Steps
  <1>2. /\ pc' \in [Tasks -> Steps] /\ inner' \in [Tasks -> Nat \cup {Null}]
        /\ \A t \in Tasks : pc'[t] = "idle"
    BY <1>1
  <1> QED
    BY <1>2, FreedKeepsIInv DEF Lost

\* A second register and an unregister.
LEMMA UnregisterKeepsIInv ==
    ASSUME IInv, NEW t \in Tasks, RegisterAgain(t) \/ Unregister(t)
    PROVE  IInv'
  <1>1. CASE Lost
    BY <1>1, LostKeepsIInv
  <1>2. CASE ~Lost
    <2>1. /\ mount' = "none" /\ Freed /\ UNCHANGED <<disk, pc, inner>>
          /\ pc[t] = "idle" /\ ~Others(t)
      BY <1>2 DEF RegisterAgain, Unregister
    <2>2. /\ pc' \in [Tasks -> Steps] /\ inner' \in [Tasks -> Nat \cup {Null}]
          /\ \A u \in Tasks : pc'[u] = "idle"
      BY <2>1 DEF Others, IInv, Typed, TypeOK
    <2> QED
      BY <2>1, <2>2, FreedKeepsIInv
  <1> QED
    BY <1>1, <1>2

\* What lfs_mount and the calloc of the array leave.
LEMMA MountedIsEmptied ==
    ASSUME IInv, mount # "mounted", Mounted, held' = held, inner' = inner,
           \A t \in Tasks : pc'[t] \in {"opened", "truncated"} => pc'[t] = pc[t]
    PROVE  Emptied' /\ mount' = "mounted" /\ Len(cache') > 0
  <1>1. Emptied
    BY AwayIsEmptied
  <1>2. /\ mount' = "mounted"
        /\ cache' = [d \in 1 .. MinCache |-> Null]
        /\ opened' = {} /\ orphans' = {}
        /\ UNCHANGED <<list, fdCount, path, alive>>
    BY DEF Mounted, LfsInit
  <1>3. cache' \in Seq({Null}) /\ Len(cache') > 0
    BY <1>2, VfsAssumption
  <1>4. ASSUME NEW t \in Tasks PROVE Uses(t)' = {}
    <2>1. Uses(t) = {}
      BY <1>1 DEF Emptied
    <2> QED
      BY <2>1 DEF Uses
  <1> QED
    BY <1>1, <1>2, <1>3, <1>4 DEF Emptied

LEMMA RegisterKeepsIInv ==
    ASSUME IInv, NEW t \in Tasks, Register(t)
    PROVE  IInv'
  <1>1. /\ mount = "none" /\ disk' \in {disk, {}} /\ UNCHANGED <<holder, held, pc, inner>>
        /\ \/ Mounted /\ registered' = TRUE
           \/ UNCHANGED <<context, table, orphans>>
    BY DEF Register
  <1>2. Emptied /\ cache = <<>> /\ RestTyped
    BY <1>1, AwayIsEmptied, TypedParts DEF IInv
  <1>3. CASE Mounted /\ registered' = TRUE
    <2>1. Emptied' /\ mount' = "mounted" /\ Len(cache') > 0
      BY <1>1, <1>3, MountedIsEmptied
    <2>2. orphans' \subseteq opened'
      BY <2>1 DEF Emptied
    <2>3. RestTyped'
      BY <1>1, <1>2, <1>3, <2>1, <2>2 DEF RestTyped
    <2> QED
      BY <2>1, <2>3, EmptiedIInvNext
  <1>4. CASE UNCHANGED <<context, table, orphans>>
    <2>1. UNCHANGED <<mount, registered, cache, list, fdCount, path, alive, opened, orphans>>
      BY <1>4 DEF context, table
    <2>2. Emptied'
      BY <1>1, <1>2, <2>1 DEF Emptied, Uses
    <2>3. RestTyped'
      BY <1>1, <1>2, <2>1 DEF RestTyped
    <2> QED
      BY <1>1, <1>2, <2>1, <2>2, <2>3, EmptiedIInvNext
  <1> QED
    BY <1>1, <1>3, <1>4

\* Both parts of format, and the end of its temporary context.
LEMMA FormatKeepsIInv ==
    ASSUME IInv, NEW t \in Tasks,
           Format(t) \/ FormatUnmounted(t) \/ FormatEnds(t) \/ FormatFrees(t)
    PROVE  IInv'
  <1>1. RestTyped
    BY TypedParts DEF IInv
  <1>2. {"idle", "formatting", "reformatting", "detached"} \subseteq Steps
    BY DEF Steps
  <1>3. CASE Lost
    BY <1>3, LostKeepsIInv
  <1>4. CASE Format(t) /\ ~Lost
    <2>1. /\ mount = "mounted" /\ mount' = "unmounted" /\ FreeFds
          /\ pc' = [pc EXCEPT ![t] = "formatting"]
          /\ UNCHANGED <<registered, opened, disk, orphans, holder, held, inner>>
          /\ \A u \in Tasks : pc[u] = "idle" /\ held[u] = {}
      BY <1>4 DEF Format, Others, directory
    <2>2. \A u \in Tasks : Uses(u) = {}
      BY <2>1 DEF Uses
    <2>3. opened = {}
      BY <2>1, <2>2 DEF IInv, OneUser
    <2>4. /\ pc' \in [Tasks -> Steps]
          /\ \A u \in Tasks : pc'[u] \notin {"opened", "truncated"}
      BY <1>1, <1>2, <2>1 DEF RestTyped
    <2>5. \A u \in Tasks : Uses(u)' = {}
      BY <2>1, <2>4 DEF Uses
    <2>6. Emptied' /\ cache' = <<>>
      BY <1>1, <2>1, <2>3, <2>5 DEF FreeFds, Emptied, RestTyped
    <2>7. RestTyped'
      BY <1>1, <2>1, <2>4 DEF RestTyped
    <2> QED
      BY <2>1, <2>6, <2>7, EmptiedIInvNext
  <1>5. CASE FormatUnmounted(t)
    <2>1. /\ mount \in {"none", "unmounted"} /\ mount' = "unmounted"
          /\ \E s \in {"reformatting", "detached"} : pc' = [pc EXCEPT ![t] = s]
          /\ UNCHANGED <<registered, cache, list, fdCount, path, alive, opened, disk, orphans,
                         holder, held, inner>>
          /\ pc[t] = "idle"
      BY <1>5 DEF FormatUnmounted, table, directory
    <2>2. Emptied /\ cache = <<>>
      BY <2>1, AwayIsEmptied
    <2>3. /\ pc' \in [Tasks -> Steps]
          /\ \A u \in Tasks : pc'[u] \in {"opened", "truncated"} => pc'[u] = pc[u]
      BY <1>1, <1>2, <2>1 DEF RestTyped
    <2>4. \A u \in Tasks : Uses(u)' = {}
      BY <2>1, <2>2, <2>3 DEF Uses, Emptied
    <2>5. Emptied'
      BY <2>1, <2>2, <2>4 DEF Emptied
    <2>6. RestTyped'
      BY <1>1, <2>1, <2>3 DEF RestTyped
    <2> QED
      BY <2>1, <2>2, <2>5, <2>6, EmptiedIInvNext
  <1>6. CASE FormatEnds(t) /\ ~Lost
    <2>1. /\ mount # "mounted" /\ disk' \subseteq disk /\ pc' = [pc EXCEPT ![t] = "idle"]
          /\ UNCHANGED <<registered, holder, held, inner>>
          /\ \/ Mounted
             \/ /\ mount' \in {mount, "none"} /\ LfsInit
                /\ UNCHANGED <<cache, list, fdCount, path, alive>>
      BY <1>6 DEF FormatEnds
    <2>2. Emptied /\ cache = <<>>
      BY <2>1, AwayIsEmptied
    <2>3. /\ pc' \in [Tasks -> Steps]
          /\ \A u \in Tasks : pc'[u] \in {"opened", "truncated"} => pc'[u] = pc[u]
      BY <1>1, <1>2, <2>1 DEF RestTyped
    <2>4. CASE Mounted
      <3>1. Emptied' /\ mount' = "mounted" /\ Len(cache') > 0
        BY <2>1, <2>3, <2>4, MountedIsEmptied
      <3>2. orphans' \subseteq opened'
        BY <3>1 DEF Emptied
      <3>3. RestTyped'
        BY <1>1, <2>1, <2>3, <3>1, <3>2 DEF RestTyped
      <3> QED
        BY <3>1, <3>3, EmptiedIInvNext
    <2>5. CASE /\ mount' \in {mount, "none"} /\ LfsInit
               /\ UNCHANGED <<cache, list, fdCount, path, alive>>
      <3>1. \A u \in Tasks : Uses(u)' = {}
        BY <2>1, <2>2, <2>3 DEF Uses, Emptied
      <3>2. Emptied'
        BY <2>2, <2>5, <3>1 DEF Emptied, LfsInit
      <3>3. RestTyped'
        BY <1>1, <2>1, <2>3, <2>5 DEF RestTyped, LfsInit
      <3> QED
        BY <2>1, <2>2, <2>5, <3>2, <3>3, EmptiedIInvNext
    <2> QED
      BY <2>1, <2>4, <2>5
  <1> QED
    BY <1>3, <1>4, <1>5, <1>6 DEF FormatFrees

----------------------------------------------------------------------------
(* The invariant, and what it says of the driver. *)

LEMMA InitIInv == Init => IInv
  <1> SUFFICES ASSUME Init PROVE IInv
    OBVIOUS
  <1>1. \A t \in Tasks : Uses(t) = {}
    BY DEF Init, Uses
  <1>2. Emptied /\ cache = <<>> /\ mount = "none"
    BY <1>1 DEF Init, Emptied
  <1>3. RestTyped
    BY DEF Init, RestTyped, Steps
  <1> QED
    BY <1>2, <1>3, EmptiedIInv

LEMMA NextIInv == IInv /\ [Next]_vars => IInv'
  <1> SUFFICES ASSUME IInv, [Next]_vars PROVE IInv'
    OBVIOUS
  <1>1. ASSUME NEW t \in Tasks, TaskStep(t) PROVE IInv'
    <2>1. CASE \E p \in Paths : Open(t, p) \/ OpenFails(t, p) \/ TruncateOpen(t, p) \/ Unlink(t, p)
      BY <2>1, OpenKeepsIInv, OpenFailsKeepsIInv, OthersKeepIInv
    <2>2. CASE \E d \in held[t] : Close(t, d) \/ PositionedFails(t, d)
      BY <2>2, CloseKeepsIInv, OthersKeepIInv
    <2>3. CASE \E p, q \in Paths : Rename(t, p, q)
      BY <2>3, OthersKeepIInv
    <2>4. CASE Truncate(t) \/ TruncateClose(t)
      BY <2>4, CloseKeepsIInv, OthersKeepIInv
    <2>5. CASE Register(t) \/ RegisterAgain(t) \/ Unregister(t)
      BY <2>5, RegisterKeepsIInv, UnregisterKeepsIInv
    <2>6. CASE Format(t) \/ FormatUnmounted(t) \/ FormatEnds(t) \/ FormatFrees(t)
      BY <2>6, FormatKeepsIInv
    <2> QED
      BY <1>1, <2>1, <2>2, <2>3, <2>4, <2>5, <2>6 DEF TaskStep
  <1>2. CASE UNCHANGED vars
    <2>1. UNCHANGED <<mount, registered, cache, list, fdCount, path, alive, opened, disk, orphans,
                      holder, held, pc, inner>>
      BY <1>2 DEF vars
    <2>2. Typed' /\ Agreed' /\ Away' /\ Ready'
      BY <2>1 DEF IInv, Typed, TypeOK, Agreed, TableAgrees, Slots, Away, Ready, Uses
    <2>3. OneUser'
      BY <2>1 DEF IInv, OneUser, Uses
    <2> QED
      BY <2>2, <2>3 DEF IInv
  <1> QED
    BY <1>1, <1>2 DEF Next

\* The table is right in every reachable state, whatever the tasks open, close,
\* truncate, remove, rename, format, register and unregister, in any order.
THEOREM TableInvariant == Spec => []IInv
  BY InitIInv, NextIInv, PTL DEF Spec

\* The types of the driver's state.
THEOREM VfsTyped == Spec => []TypeOK
  <1>1. IInv => TypeOK
    BY DEF IInv, Typed
  <1> QED
    BY <1>1, TableInvariant, PTL

\* The array, the list and the count never disagree: a walk of any of them
\* finds every open file once and no freed one.
THEOREM TableAgreesAlways == Spec => []TableAgrees
  <1>1. IInv => TableAgrees
    BY DEF IInv, Agreed
  <1> QED
    BY <1>1, TableInvariant, PTL

\* A descriptor in use stands for a file littlefs has open and belongs to one
\* call or client; no file is left open without one.
THEOREM OneUserAlways == Spec => []OneUser
  <1>1. IInv => OneUser
    BY DEF IInv
  <1> QED
    BY <1>1, TableInvariant, PTL

----------------------------------------------------------------------------
(* Open files and their names. *)

\* No file has two of the paths: the driver compares path strings, so it knows
\* an open file only by the string it was opened with.
OneNameEach == \A p, q \in Paths : File[p] = File[q] => p = q

\* The search of esp_littlefs_get_fd_by_name finds every open file, although it
\* stops after fd_count entries.
LEMMA SearchFinds ==
    ASSUME IInv, mount = "mounted", OneNameEach, NEW o \in opened, NEW p \in Paths,
           File[path[o]] = File[p]
    PROVE  IsOpen(p)
  <1>1. PICK d \in Slots : cache[d] = o
    BY OpenedAreCached
  <1>2. d \in 1 .. Len(cache) /\ cache[d] # Null
    BY DEF Slots
  <1>3. Typed /\ Agreed
    BY DEF IInv
  <1>4. path[o] = p
    <2>1. o \in alive
      BY <1>1, <1>3 DEF Agreed, TableAgrees
    <2>2. path[o] \in Paths
      BY <1>3, <2>1 DEF Typed
    <2> QED
      BY <2>2 DEF OneNameEach
  <1> DEFINE before == {e \in 1 .. d - 1 : cache[e] # Null}
  <1>5. Len(cache) \in Nat
    BY <1>3 DEF Typed, TypeOK
  <1>6. before \subseteq Slots /\ d \notin before
    BY <1>2, <1>5 DEF Slots
  <1>7. Cardinality(before) < fdCount
    <2> HIDE DEF before
    <2>1. IsFiniteSet(Slots) /\ Cardinality(Slots) = fdCount
      BY <1>3 DEF Agreed, TableAgrees
    <2>2. IsFiniteSet(before) /\ Cardinality(before) <= fdCount /\ Cardinality(before) # fdCount
      BY <1>1, <1>6, <2>1, FS_Subset
    <2>3. Cardinality(before) \in Nat /\ fdCount \in Nat
      BY <2>1, <2>2, FS_CardinalityType
    <2> QED
      BY <2>2, <2>3
  <1> QED
    BY <1>1, <1>2, <1>4, <1>7 DEF IsOpen

\* Only unlink and rename take the name of a file, and both look for it first.
LEMMA NextNoOrphans ==
    ASSUME OneNameEach, IInv, NoOrphans, [Next]_vars
    PROVE  NoOrphans'
  <1>1. ASSUME NEW t \in Tasks, NEW p \in Paths, Unlink(t, p) PROVE NoOrphans'
    <2>1. mount = "mounted" /\ ~IsOpen(p) /\ orphans' = orphans \cup OpenOn(p)
      BY <1>1 DEF Unlink, CanTake
    <2>2. OpenOn(p) = {}
      BY <2>1, SearchFinds DEF OpenOn
    <2> QED
      BY <2>1, <2>2 DEF NoOrphans
  <1>2. ASSUME NEW t \in Tasks, NEW p \in Paths, NEW q \in Paths, Rename(t, p, q)
        PROVE  NoOrphans'
    <2>1. /\ mount = "mounted" /\ ~IsOpen(p) /\ ~IsOpen(q)
          /\ orphans' = orphans \cup OpenOn(p) \cup OpenOn(q)
      BY <1>2 DEF Rename, CanTake
    <2>2. OpenOn(p) = {} /\ OpenOn(q) = {}
      BY <2>1, SearchFinds DEF OpenOn
    <2> QED
      BY <2>1, <2>2 DEF NoOrphans
  <1>3. CASE UNCHANGED vars
    BY <1>3 DEF vars, NoOrphans
  <1>4. ASSUME NEW t \in Tasks, TaskStep(t),
               ~\E p \in Paths : Unlink(t, p), ~\E p, q \in Paths : Rename(t, p, q)
        PROVE  orphans' \subseteq orphans
    <2>1. CASE \E p \in Paths : Open(t, p) \/ OpenFails(t, p) \/ TruncateOpen(t, p)
      BY <2>1 DEF Open, OpenFails, TruncateOpen, OpenOk
    <2>2. CASE \/ \E d \in held[t] : Close(t, d) \/ PositionedFails(t, d)
               \/ Truncate(t) \/ TruncateClose(t)
      BY <2>2 DEF Close, PositionedFails, Truncate, TruncateClose, CloseOn, directory
    <2>3. CASE Register(t) \/ RegisterAgain(t) \/ Unregister(t)
      BY <2>3 DEF Register, RegisterAgain, Unregister, Lost, Freed, Mounted, LfsInit
    <2>4. CASE Format(t) \/ FormatUnmounted(t) \/ FormatEnds(t) \/ FormatFrees(t)
      BY <2>4 DEF Format, FormatUnmounted, FormatEnds, FormatFrees, Lost, Freed, Mounted,
                  LfsInit, directory
    <2> QED
      BY <1>4, <2>1, <2>2, <2>3, <2>4 DEF TaskStep
  <1> QED
    BY <1>1, <1>2, <1>3, <1>4 DEF Next, NoOrphans

\* Where each file is opened under one path string, no open file is ever
\* removed, renamed or renamed over.
THEOREM NoOrphansAlways == OneNameEach => (Spec => []NoOrphans)
  <1> SUFFICES ASSUME OneNameEach PROVE Spec => []NoOrphans
    OBVIOUS
  <1>1. Init => NoOrphans
    BY DEF Init, NoOrphans
  <1>2. IInv /\ NoOrphans /\ [Next]_vars => NoOrphans'
    BY NextNoOrphans
  <1> QED
    BY <1>1, <1>2, TableInvariant, PTL DEF Spec

\* One step moves no descriptor that is in use before and after it.
LEMMA StepStable ==
    ASSUME IInv, IInv', [Next]_vars, NEW t \in Tasks, NEW d \in Uses(t), d \in Uses(t)'
    PROVE  cache'[d + 1] = cache[d + 1]
  <1>1. mount = "mounted" /\ mount' = "mounted"
    BY DEF IInv, Away
  <1>2. d \in Nat /\ d + 1 \in Slots
    BY <1>1, UsesAreSlots
  <1>3. cache'[d + 1] \in opened' /\ opened' \subseteq Objects
    BY <1>1 DEF IInv, OneUser, Typed, TypeOK
  <1>4. Typed /\ Agreed /\ Len(cache) > 0
    BY <1>1 DEF IInv, Ready
  <1>5. ASSUME NEW u \in Tasks, NEW e \in Uses(u), CloseOn(e) PROVE cache'[d + 1] = cache[d + 1]
    <2>1. e \in Nat /\ e + 1 \in Slots
      BY <1>1, UsesAreSlots
    <2>2. opened' = opened \ {cache[e + 1]}
      BY <1>5 DEF CloseOn
    <2>3. CASE UNCHANGED <<cache, list, fdCount, path, alive>>
      BY <2>3
    <2>4. CASE Release(e)
      <3>1. e + 1 \in DOMAIN cache /\ cache' = [cache EXCEPT ![e + 1] = Null]
        BY <1>4, <2>1, <2>4 DEF Release, Slots, Typed, TypeOK
      <3>2. d + 1 # e + 1
        BY <1>3, <3>1, VfsAssumption
      <3> QED
        BY <3>1, <3>2
    <2> QED
      BY <1>5, <2>3, <2>4 DEF CloseOn
  <1>6. CASE \E u \in Tasks : \E p \in Paths : Open(u, p) \/ TruncateOpen(u, p)
    <2>1. PICK p \in Paths : OpenOk(p)
      BY <1>6 DEF Open, TruncateOpen
    <2> QED
      BY <1>2, <1>4, <2>1, OpenAgrees
  <1>7. CASE \E u \in Tasks : \E p \in Paths : OpenFails(u, p)
    <2>1. \/ cache' = cache
          \/ cache' = Grown /\ UNCHANGED <<list, fdCount, path, alive, opened>>
      BY <1>7 DEF OpenFails
    <2> QED
      BY <1>2, <1>4, <2>1, GrowthAgrees
  <1>8. CASE \E u \in Tasks : TruncateClose(u) \/ \E e \in held[u] : Close(u, e)
    <2>1. PICK u \in Tasks : TruncateClose(u) \/ \E e \in held[u] : Close(u, e)
      BY <1>8
    <2>2. CASE TruncateClose(u)
      BY <1>5, <2>2 DEF TruncateClose, Uses
    <2>3. CASE \E e \in held[u] : Close(u, e)
      BY <1>5, <2>3 DEF Close, Uses
    <2> QED
      BY <2>1, <2>2, <2>3
  <1>9. CASE UNCHANGED cache
    BY <1>9
  <1>10. ASSUME NEW u \in Tasks, TaskStep(u) PROVE cache'[d + 1] = cache[d + 1]
    <2>1. CASE \E p \in Paths : Open(u, p) \/ OpenFails(u, p) \/ TruncateOpen(u, p)
      BY <1>6, <1>7, <2>1
    <2>2. CASE (\E e \in held[u] : Close(u, e)) \/ TruncateClose(u)
      BY <1>8, <2>2
    <2>3. CASE \/ \E p \in Paths : Unlink(u, p)
               \/ \E e \in held[u] : PositionedFails(u, e)
               \/ \E p, q \in Paths : Rename(u, p, q)
               \/ Truncate(u)
      BY <1>9, <2>3 DEF Unlink, PositionedFails, Rename, Truncate, table
    <2>4. CASE \/ Register(u) \/ RegisterAgain(u) \/ Unregister(u)
               \/ Format(u) \/ FormatUnmounted(u) \/ FormatEnds(u) \/ FormatFrees(u)
      BY <1>1, <2>4 DEF Register, RegisterAgain, Unregister, Format, FormatUnmounted, FormatEnds,
                        FormatFrees, Lost
    <2> QED
      BY <1>10, <2>1, <2>2, <2>3, <2>4 DEF TaskStep
  <1> QED
    BY <1>9, <1>10 DEF Next, vars

\* A descriptor stands for one object from its open to its close, whatever is
\* opened and closed meanwhile and however the array grows.
THEOREM DescriptorsAreStable == Spec => DescriptorsStable
  <1>1. IInv /\ IInv' /\ [Next]_vars =>
          [\A t \in Tasks : \A d \in Uses(t) \cap Uses(t)' : cache'[d + 1] = cache[d + 1]]_vars
    BY StepStable
  <1> QED
    BY <1>1, TableInvariant, PTL DEF Spec, DescriptorsStable


----------------------------------------------------------------------------
(* Paths. *)

Path == Seq(STRING) \ {<<>>}

LEMMA PrefixPointwise ==
    ASSUME NEW s \in Seq(STRING), NEW t \in Seq(STRING)
    PROVE  IsPrefix(s, t) <=> Len(s) <= Len(t) /\ \A i \in 1 .. Len(s) : s[i] = t[i]
  <1>1. Len(s) \in Nat /\ Len(t) \in Nat /\ s \in [1 .. Len(s) -> STRING] /\ t \in [1 .. Len(t) -> STRING]
    BY LenProperties
  <1>2. SubSeq(s, 1, Len(s)) = s
    BY SubSeqFull
  <1>3. ASSUME Len(s) <= Len(t)
        PROVE  SubSeq(t, 1, Len(s)) = s <=> \A i \in 1 .. Len(s) : s[i] = t[i]
    <2>1. \A i \in 1 .. Len(s) : t[i] \in STRING
      BY <1>1, <1>3, SMT
    <2>2. /\ SubSeq(t, 1, Len(s)) \in Seq(STRING)
          /\ Len(SubSeq(t, 1, Len(s))) = IF 1 <= Len(s) THEN Len(s) - 1 + 1 ELSE 0
          /\ \A i \in 1 .. Len(s) - 1 + 1 : SubSeq(t, 1, Len(s))[i] = t[1 + i - 1]
      BY <1>1, <2>1, SubSeqProperties, SMT
    <2>3. Len(SubSeq(t, 1, Len(s))) = Len(s)
      BY <1>1, <2>2, SMT
    <2>4. \A i \in 1 .. Len(s) : SubSeq(t, 1, Len(s))[i] = t[i]
      BY <1>1, <2>2, SMT
    <2>5. CASE \A i \in 1 .. Len(s) : s[i] = t[i]
      <3>1. \A i \in 1 .. Len(SubSeq(t, 1, Len(s))) : SubSeq(t, 1, Len(s))[i] = s[i]
        BY <2>3, <2>4, <2>5
      <3> QED
        BY <2>2, <2>3, <2>5, <3>1, SeqEqual
    <2> QED
      BY <2>4, <2>5
  <1> QED
    BY <1>2, <1>3 DEF IsPrefix

LEMMA PrefixOrder ==
    ASSUME NEW s \in Seq(STRING), NEW t \in Seq(STRING), NEW u \in Seq(STRING)
    PROVE  /\ IsPrefix(s, s)
           /\ IsPrefix(s, t) /\ IsPrefix(t, s) => s = t
           /\ IsPrefix(s, t) /\ IsPrefix(t, u) => IsPrefix(s, u)
           /\ IsPrefix(s, u) /\ IsPrefix(t, u) => IsPrefix(s, t) \/ IsPrefix(t, s)
           /\ IsStrictPrefix(s, t) => Len(s) < Len(t)
  <1>1. Len(s) \in Nat /\ Len(t) \in Nat /\ Len(u) \in Nat
    BY LenProperties
  <1>2. IsPrefix(s, s)
    BY <1>1, PrefixPointwise
  <1>3. ASSUME IsPrefix(s, t), Len(t) <= Len(s) PROVE s = t
    <2>1. Len(s) = Len(t) /\ \A i \in 1 .. Len(s) : s[i] = t[i]
      BY <1>1, <1>3, PrefixPointwise
    <2> QED
      BY <2>1, SeqEqual
  <1>4. IsPrefix(s, t) /\ IsPrefix(t, s) => s = t
    BY <1>3, PrefixPointwise
  <1>5. ASSUME IsPrefix(s, t), IsPrefix(t, u) PROVE IsPrefix(s, u)
    <2>1. Len(s) <= Len(t) /\ \A i \in 1 .. Len(s) : s[i] = t[i]
      BY <1>5, PrefixPointwise
    <2>2. Len(t) <= Len(u) /\ \A i \in 1 .. Len(t) : t[i] = u[i]
      BY <1>5, PrefixPointwise
    <2>3. Len(s) <= Len(u) /\ \A i \in 1 .. Len(s) : s[i] = u[i]
      BY <1>1, <2>1, <2>2
    <2> QED
      BY <2>3, PrefixPointwise
  <1>6. ASSUME IsPrefix(s, u), IsPrefix(t, u) PROVE IsPrefix(s, t) \/ IsPrefix(t, s)
    <2>1. \A i \in 1 .. Len(s) : s[i] = u[i]
      BY <1>6, PrefixPointwise
    <2>2. \A i \in 1 .. Len(t) : t[i] = u[i]
      BY <1>6, PrefixPointwise
    <2>3. CASE Len(s) <= Len(t)
      <3>1. \A i \in 1 .. Len(s) : s[i] = t[i]
        BY <1>1, <2>1, <2>2, <2>3
      <3> QED
        BY <2>3, <3>1, PrefixPointwise
    <2>4. CASE Len(t) <= Len(s)
      <3>1. \A i \in 1 .. Len(t) : t[i] = s[i]
        BY <1>1, <2>1, <2>2, <2>4
      <3> QED
        BY <2>4, <3>1, PrefixPointwise
    <2> QED
      BY <1>1, <2>3, <2>4
  <1>7. IsStrictPrefix(s, t) => Len(s) < Len(t)
    BY <1>1, <1>3 DEF IsStrictPrefix
  <1> QED
    BY <1>2, <1>4, <1>5, <1>6, <1>7

LEMMA AboveIsPrefix ==
    ASSUME NEW p \in Path
    PROVE  \A q : q \in Above(p) <=> q \in Path /\ IsStrictPrefix(q, p)
  <1>1. p \in Seq(STRING) /\ Len(p) \in Nat /\ p \in [1 .. Len(p) -> STRING]
    BY LenProperties DEF Path
  <1>2. ASSUME NEW i \in 1 .. Len(p) - 1
        PROVE  SubSeq(p, 1, i) \in Path /\ IsStrictPrefix(SubSeq(p, 1, i), p)
    <2> DEFINE q == SubSeq(p, 1, i)
    <2>1. i \in Int /\ 1 <= i /\ i < Len(p) /\ \A j \in 1 .. i : p[j] \in STRING
      BY <1>1
    <2>2. /\ q \in Seq(STRING)
          /\ Len(q) = IF 1 <= i THEN i - 1 + 1 ELSE 0
          /\ \A j \in 1 .. i - 1 + 1 : q[j] = p[1 + j - 1]
      BY <2>1, SubSeqProperties, SMT
    <2>3. Len(q) = i /\ \A j \in 1 .. Len(q) : q[j] = p[j]
      BY <2>1, <2>2
    <2> HIDE DEF q
    <2>4. IsPrefix(q, p)
      BY <1>1, <2>1, <2>2, <2>3, PrefixPointwise
    <2>5. q # <<>>
      BY <2>1, <2>3, EmptySeq
    <2>6. q # p
      BY <2>1, <2>3
    <2>7. q \in Path /\ IsStrictPrefix(q, p)
      BY <2>2, <2>4, <2>5, <2>6 DEF Path, IsStrictPrefix
    <2> QED
      BY <2>7 DEF q
  <1>3. ASSUME NEW q \in Path, IsStrictPrefix(q, p)
        PROVE  q \in Above(p)
    <2>1. q \in Seq(STRING) /\ Len(q) \in Nat \ {0}
      BY EmptySeq DEF Path
    <2>2. Len(q) \in 1 .. Len(p) - 1
      BY <1>1, <1>3, <2>1, PrefixOrder
    <2>3. SubSeq(q, 1, Len(q)) = q
      BY <2>1, SubSeqFull
    <2>4. q = SubSeq(p, 1, Len(q))
      BY <1>3, <2>3 DEF IsStrictPrefix, IsPrefix
    <2> QED
      BY <2>2, <2>4 DEF Above
  <1> QED
    BY <1>2, <1>3 DEF Above

LEMMA FrontAbove ==
    ASSUME NEW p \in Path
    PROVE  \A q \in Above(p) : q = Front(p) \/ (Front(p) \in Path \cap Above(p) /\ q \in Above(Front(p)))
  <1>1. p \in Seq(STRING) /\ Len(p) \in Nat /\ p \in [1 .. Len(p) -> STRING]
    BY LenProperties DEF Path
  <1> TAKE q \in Above(p)
  <1>2. PICK i \in 1 .. Len(p) - 1 : q = SubSeq(p, 1, i)
    BY DEF Above
  <1>3. CASE i = Len(p) - 1
    BY <1>2, <1>3 DEF Front
  <1>4. CASE i < Len(p) - 1
    <2>1. Len(p) - 1 \in 1 .. Len(p) - 1
      BY <1>1, <1>4
    <2>2. Front(p) \in Above(p)
      BY <2>1 DEF Front, Above
    <2>3. Front(p) \in Path /\ IsPrefix(Front(p), p)
      BY <2>2, AboveIsPrefix DEF IsStrictPrefix
    <2>4. q \in Path /\ IsPrefix(q, p)
      BY AboveIsPrefix DEF IsStrictPrefix
    <2>5. \A j \in 1 .. Len(p) : p[j] \in STRING
      BY <1>1
    <2>6. Len(q) = i /\ Len(Front(p)) = Len(p) - 1
      <3>1. \A j \in 1 .. i : p[j] \in STRING
        BY <1>1
      <3>2. \A j \in 1 .. Len(p) - 1 : p[j] \in STRING
        BY <1>1
      <3>3. Len(SubSeq(p, 1, i)) = IF 1 <= i THEN i - 1 + 1 ELSE 0
        BY <3>1, SubSeqProperties, SMT
      <3>4. Len(SubSeq(p, 1, Len(p) - 1)) = IF 1 <= Len(p) - 1 THEN Len(p) - 1 - 1 + 1 ELSE 0
        BY <1>1, <3>2, SubSeqProperties, SMT
      <3> QED
        BY <1>1, <1>2, <2>1, <3>3, <3>4 DEF Front
    <2>7. IsPrefix(q, Front(p)) \/ IsPrefix(Front(p), q)
      BY <1>1, <2>3, <2>4, PrefixOrder DEF Path
    <2>8. ~IsPrefix(Front(p), q) /\ q # Front(p)
      BY <1>1, <1>4, <2>6 DEF IsPrefix
    <2>9. IsStrictPrefix(q, Front(p))
      BY <2>7, <2>8 DEF IsStrictPrefix
    <2> QED
      BY <2>2, <2>3, <2>4, <2>9, AboveIsPrefix
  <1>5. i = Len(p) - 1 \/ i < Len(p) - 1
    <2>1. Len(p) \in Nat
      BY <1>1
    <2> QED
      BY <2>1
  <1> QED
    BY <1>3, <1>4, <1>5

\* Where lfs_rename moves a path.
LEMMA MovedPointwise ==
    ASSUME NEW src \in Path, NEW dst \in Path, NEW q \in Path, IsPrefix(src, q)
    PROVE  /\ Moved(src, dst, q) \in Path /\ IsPrefix(dst, Moved(src, dst, q))
           /\ Len(Moved(src, dst, q)) = Len(dst) + Len(q) - Len(src)
           /\ \A i \in 1 .. Len(q) - Len(src) : Moved(src, dst, q)[Len(dst) + i] = q[Len(src) + i]
           /\ Len(src) <= Len(q)
  <1> DEFINE rest == SubSeq(q, Len(src) + 1, Len(q))
             to == Moved(src, dst, q)
  <1>1. /\ src \in Seq(STRING) /\ dst \in Seq(STRING) /\ q \in Seq(STRING)
        /\ Len(src) \in Nat \ {0} /\ Len(dst) \in Nat \ {0} /\ Len(q) \in Nat
        /\ q \in [1 .. Len(q) -> STRING]
    BY LenProperties, EmptySeq DEF Path
  <1>2. Len(src) <= Len(q)
    BY DEF IsPrefix
  <1>3. \A i \in Len(src) + 1 .. Len(q) : q[i] \in STRING
    BY <1>1
  <1>4. /\ rest \in Seq(STRING)
        /\ Len(rest) = IF Len(src) + 1 <= Len(q) THEN Len(q) - (Len(src) + 1) + 1 ELSE 0
        /\ \A i \in 1 .. Len(q) - (Len(src) + 1) + 1 : rest[i] = q[Len(src) + 1 + i - 1]
    BY <1>1, <1>3, SubSeqProperties, SMT
  <1>5. Len(rest) = Len(q) - Len(src) /\ \A i \in 1 .. Len(rest) : rest[i] = q[Len(src) + i]
    BY <1>1, <1>2, <1>4
  <1> HIDE DEF rest
  <1>6. /\ to \in Seq(STRING) /\ Len(to) = Len(dst) + Len(rest)
        /\ \A i \in 1 .. Len(dst) + Len(rest) :
              to[i] = IF i <= Len(dst) THEN dst[i] ELSE rest[i - Len(dst)]
    BY <1>1, <1>4, ConcatProperties DEF Moved, rest
  <1> HIDE DEF to
  <1>7. IsPrefix(dst, to)
    <2>1. Len(rest) \in Nat /\ Len(dst) \in Nat
      BY <1>1, <1>4, LenProperties
    <2>2. Len(dst) <= Len(to) /\ \A i \in 1 .. Len(dst) : i \in 1 .. Len(dst) + Len(rest)
      BY <1>6, <2>1
    <2>3. \A i \in 1 .. Len(dst) : dst[i] = to[i]
      BY <1>6, <2>1, <2>2
    <2> QED
      BY <1>1, <1>6, <2>2, <2>3, PrefixPointwise
  <1>8. to # <<>>
    BY <1>1, <1>2, <1>5, <1>6, EmptySeq
  <1>9. ASSUME NEW i \in 1 .. Len(q) - Len(src)
        PROVE  to[Len(dst) + i] = q[Len(src) + i]
    <2>1. /\ Len(dst) + i \in 1 .. Len(dst) + Len(rest) /\ ~(Len(dst) + i <= Len(dst))
          /\ Len(dst) + i - Len(dst) = i /\ i \in 1 .. Len(rest)
      BY <1>1, <1>5
    <2> QED
      BY <1>5, <1>6, <2>1
  <1> QED
    BY <1>2, <1>5, <1>6, <1>7, <1>8, <1>9 DEF to, Path

\* A path that has been moved comes back.
LEMMA MovedBack ==
    ASSUME NEW src \in Path, NEW dst \in Path, NEW q \in Path, IsPrefix(src, q)
    PROVE  Moved(dst, src, Moved(src, dst, q)) = q
  <1> DEFINE to == Moved(src, dst, q)
             back == Moved(dst, src, to)
  <1>1. /\ to \in Path /\ IsPrefix(dst, to)
        /\ Len(to) = Len(dst) + Len(q) - Len(src)
        /\ \A i \in 1 .. Len(q) - Len(src) : to[Len(dst) + i] = q[Len(src) + i]
        /\ Len(src) <= Len(q)
    BY MovedPointwise
  <1>2. /\ src \in Seq(STRING) /\ q \in Seq(STRING)
        /\ Len(src) \in Nat /\ Len(dst) \in Nat /\ Len(q) \in Nat
    BY LenProperties DEF Path
  <1> HIDE DEF to
  <1>3. /\ back \in Path /\ IsPrefix(src, back)
        /\ Len(back) = Len(src) + Len(to) - Len(dst)
        /\ \A i \in 1 .. Len(to) - Len(dst) : back[Len(src) + i] = to[Len(dst) + i]
    BY <1>1, MovedPointwise
  <1> HIDE DEF back
  <1>4. Len(back) = Len(q) /\ back \in Seq(STRING)
    BY <1>1, <1>2, <1>3 DEF Path
  <1>5. ASSUME NEW i \in 1 .. Len(back) PROVE back[i] = q[i]
    <2>1. CASE i <= Len(src)
      <3>1. src[i] = back[i] /\ src[i] = q[i]
        BY <1>2, <1>3, <1>4, <2>1, PrefixPointwise
      <3> QED
        BY <3>1
    <2>2. CASE i > Len(src)
      <3>1. i - Len(src) \in 1 .. Len(q) - Len(src) /\ Len(to) - Len(dst) = Len(q) - Len(src)
        BY <1>1, <1>2, <1>4, <2>2
      <3>2. /\ back[Len(src) + (i - Len(src))] = to[Len(dst) + (i - Len(src))]
            /\ to[Len(dst) + (i - Len(src))] = q[Len(src) + (i - Len(src))]
        BY <1>1, <1>3, <3>1
      <3>3. Len(src) + (i - Len(src)) = i
        BY <1>2
      <3> QED
        BY <3>2, <3>3
    <2> QED
      BY <1>2, <2>1, <2>2
  <1> QED
    BY <1>2, <1>4, <1>5, SeqEqual DEF back, to

\* The order of prefixes is moved along.
LEMMA MovedOrder ==
    ASSUME NEW src \in Path, NEW dst \in Path, NEW q \in Path, NEW r \in Path,
           IsPrefix(src, q), IsPrefix(src, r), IsStrictPrefix(q, r)
    PROVE  IsStrictPrefix(Moved(src, dst, q), Moved(src, dst, r))
  <1> DEFINE to == Moved(src, dst, q)
             tr == Moved(src, dst, r)
  <1>1. /\ to \in Path /\ IsPrefix(dst, to)
        /\ Len(to) = Len(dst) + Len(q) - Len(src)
        /\ \A i \in 1 .. Len(q) - Len(src) : to[Len(dst) + i] = q[Len(src) + i]
        /\ Len(src) <= Len(q)
    BY MovedPointwise
  <1>2. /\ tr \in Path /\ IsPrefix(dst, tr)
        /\ Len(tr) = Len(dst) + Len(r) - Len(src)
        /\ \A i \in 1 .. Len(r) - Len(src) : tr[Len(dst) + i] = r[Len(src) + i]
    BY MovedPointwise
  <1> HIDE DEF to, tr
  <1>3. /\ dst \in Seq(STRING) /\ to \in Seq(STRING) /\ tr \in Seq(STRING)
        /\ q \in Seq(STRING) /\ r \in Seq(STRING)
        /\ Len(src) \in Nat /\ Len(dst) \in Nat /\ Len(q) \in Nat /\ Len(r) \in Nat
    BY <1>1, <1>2, LenProperties DEF Path
  <1>4. Len(q) < Len(r) /\ \A i \in 1 .. Len(q) : q[i] = r[i]
    BY <1>3, PrefixOrder, PrefixPointwise DEF IsStrictPrefix
  <1>5. Len(to) < Len(tr)
    BY <1>1, <1>2, <1>3, <1>4
  <1>6. ASSUME NEW i \in 1 .. Len(to) PROVE to[i] = tr[i]
    <2>1. CASE i <= Len(dst)
      <3>1. dst[i] = to[i] /\ dst[i] = tr[i]
        BY <1>1, <1>2, <1>3, <2>1, PrefixPointwise
      <3> QED
        BY <3>1
    <2>2. CASE i > Len(dst)
      <3> DEFINE k == i - Len(dst)
      <3>1. /\ k \in 1 .. Len(q) - Len(src) /\ k \in 1 .. Len(r) - Len(src)
            /\ Len(src) + k \in 1 .. Len(q) /\ Len(dst) + k = i
        BY <1>1, <1>3, <1>4, <2>2
      <3> HIDE DEF k
      <3>2. to[Len(dst) + k] = q[Len(src) + k] /\ tr[Len(dst) + k] = r[Len(src) + k]
        BY <1>1, <1>2, <3>1
      <3>3. q[Len(src) + k] = r[Len(src) + k]
        BY <1>4, <3>1
      <3> QED
        BY <3>1, <3>2, <3>3
    <2> QED
      BY <1>3, <2>1, <2>2
  <1>7. IsPrefix(to, tr)
    BY <1>1, <1>2, <1>3, <1>5, <1>6, PrefixPointwise
  <1> QED
    BY <1>1, <1>2, <1>3, <1>5, <1>7 DEF IsStrictPrefix, to, tr

----------------------------------------------------------------------------
(* Volumes. *)

Node(n) ==
    \/ n = Folder
    \/ n = [kind |-> "file", data |-> n.data, nonce |-> n.nonce, id |-> n.id] /\ n.nonce \in Int

\* What is in a folder is below folders.
Tree(d) ==
    /\ DOMAIN d \subseteq Path
    /\ \A q \in DOMAIN d : Node(d[q])
    /\ \A q \in DOMAIN d : \A r \in Above(q) : r \in DOMAIN d /\ d[r] = Folder

SameFiles(d, e) ==
    \A q : /\ IsFile(d, q) <=> IsFile(e, q)
           /\ IsFile(d, q) => e[q] = d[q]

LEMMA Kinds ==
    /\ Folder.kind = "dir"
    /\ \A d, q : Tree(d) /\ q \in DOMAIN d => IsFile(d, q) \/ d[q] = Folder
    /\ \A d, q : Tree(d) /\ q # <<>> /\ IsFolder(d, q) => q \in DOMAIN d /\ d[q] = Folder
    /\ \A d, q : IsFile(d, q) => q \in DOMAIN d /\ d[q] # Folder /\ ~(q # <<>> /\ IsFolder(d, q))
  <1>1. Folder.kind = "dir"
    BY DEF Folder
  <1>2. ASSUME NEW d, NEW q, Tree(d), q \in DOMAIN d
        PROVE  IsFile(d, q) \/ d[q] = Folder
    <2>1. CASE d[q] = Folder
      BY <2>1
    <2>2. CASE d[q] = [kind |-> "file", data |-> d[q].data, nonce |-> d[q].nonce, id |-> d[q].id]
      <3>1. d[q].kind = "file"
        BY <2>2
      <3> QED
        BY <1>2, <3>1 DEF IsFile
    <2> QED
      BY <1>2, <2>1, <2>2 DEF Tree, Node
  <1>3. ASSUME NEW d, NEW q, Tree(d), q # <<>>, IsFolder(d, q)
        PROVE  q \in DOMAIN d /\ d[q] = Folder
    BY <1>2, <1>3, Zenon DEF IsFolder, IsFile
  <1>4. ASSUME NEW d, NEW q, IsFile(d, q)
        PROVE  q \in DOMAIN d /\ d[q] # Folder /\ ~(q # <<>> /\ IsFolder(d, q))
    BY <1>1, <1>4 DEF IsFile, IsFolder
  <1> QED
    BY <1>1, <1>2, <1>3, <1>4

LEMMA MkdirTree ==
    ASSUME NEW d, Tree(d), NEW p \in Path
    PROVE  Tree(Mkdir(d, p)) /\ SameFiles(d, Mkdir(d, p))
  <1> DEFINE e == With(d, p, Folder)
  <1>1. CASE p \in DOMAIN d \/ ~IsFolder(d, Front(p))
    <2>1. Mkdir(d, p) = d
      BY <1>1 DEF Mkdir
    <2> QED
      BY <2>1 DEF SameFiles
  <1>2. CASE p \notin DOMAIN d /\ IsFolder(d, Front(p))
    <2>1. Mkdir(d, p) = e
      BY <1>2 DEF Mkdir
    <2>2. DOMAIN e = {p} \cup DOMAIN d /\ e[p] = Folder /\ \A q \in DOMAIN d : e[q] = d[q]
      BY <1>2 DEF With
    <2> HIDE DEF e
    <2>3. ASSUME NEW q \in DOMAIN e, NEW r \in Above(q)
          PROVE  r \in DOMAIN e /\ e[r] = Folder
      <3>1. CASE q \in DOMAIN d
        BY <2>2, <3>1 DEF Tree
      <3>2. CASE q = p
        <4>1. r \in Path
          BY <3>2, AboveIsPrefix
        <4>2. r = Front(p) \/ (Front(p) \in Path /\ r \in Above(Front(p)))
          BY <3>2, FrontAbove
        <4>3. r # <<>>
          BY <4>1 DEF Path
        <4>4. CASE r = Front(p)
          BY <1>2, <2>2, <4>3, <4>4, Kinds
        <4>5. CASE Front(p) \in Path /\ r \in Above(Front(p))
          <5>1. Front(p) \in DOMAIN d
            BY <1>2, <4>5, Kinds DEF Path
          <5> QED
            BY <2>2, <4>5, <5>1 DEF Tree
        <4> QED
          BY <4>2, <4>4, <4>5
      <3> QED
        BY <2>2, <3>1, <3>2
    <2>4. Tree(e)
      BY <2>2, <2>3 DEF Tree, Node
    <2>5. SameFiles(d, e)
      BY <1>2, <2>2, Kinds DEF SameFiles, IsFile
    <2> QED
      BY <2>1, <2>4, <2>5
  <1> QED
    BY <1>1, <1>2

LEMMA MkdirsTree ==
    ASSUME NEW d, Tree(d), NEW p \in Path
    PROVE  /\ Tree(mkdirs(d, p)) /\ SameFiles(d, mkdirs(d, p))
           /\ DOMAIN d \subseteq DOMAIN mkdirs(d, p)
           /\ \A q \in DOMAIN d : mkdirs(d, p)[q] = d[q]
           /\ \A q \in DOMAIN mkdirs(d, p) \ DOMAIN d : q \in Above(p) /\ mkdirs(d, p)[q] = Folder
  <1> DEFINE new == Makable(d, p)
             e == [q \in DOMAIN d \cup new |-> IF q \in DOMAIN d THEN d[q] ELSE Folder]
  <1>1. CASE ~setting.compat
    <2>1. mkdirs(d, p) = d
      BY <1>1 DEF mkdirs
    <2> QED
      BY <2>1 DEF SameFiles
  <1>2. CASE setting.compat
    <2>1. mkdirs(d, p) = e
      BY <1>2 DEF mkdirs
    <2>2. DOMAIN e = DOMAIN d \cup new /\ (\A q \in DOMAIN d : e[q] = d[q])
      OBVIOUS
    <2>3. \A q \in new : e[q] = Folder /\ q \in Above(p) /\ q \notin DOMAIN d
      BY DEF Makable
    <2>4. \A q \in new : \A r \in Above(p) : IsPrefix(r, q) => ~IsFile(d, r)
      BY DEF Makable
    <2>5. \A q \in Above(p) : (\A r \in Above(p) : IsPrefix(r, q) => ~IsFile(d, r)) => q \in DOMAIN d \cup new
      BY DEF Makable
    <2> HIDE DEF e, new
    <2>6. ASSUME NEW q \in DOMAIN e, NEW r \in Above(q)
          PROVE  r \in DOMAIN e /\ e[r] = Folder
      <3>1. CASE q \in DOMAIN d
        BY <2>2, <3>1 DEF Tree
      <3>2. CASE q \in new
        <4>1. q \in Path /\ IsStrictPrefix(q, p)
          BY <2>3, <3>2, AboveIsPrefix
        <4>2. r \in Path /\ IsStrictPrefix(r, q)
          BY <4>1, AboveIsPrefix
        <4>3. r \in Above(p)
          <5>1. IsPrefix(r, p) /\ r # p
            BY <4>1, <4>2, PrefixOrder DEF IsStrictPrefix, Path
          <5> QED
            BY <4>2, <5>1, AboveIsPrefix DEF IsStrictPrefix
        <4>4. \A s \in Above(p) : IsPrefix(s, r) => ~IsFile(d, s)
          <5> TAKE s \in Above(p)
          <5>1. s \in Path
            BY AboveIsPrefix
          <5>2. IsPrefix(s, r) => IsPrefix(s, q)
            BY <4>1, <4>2, <5>1, PrefixOrder DEF IsStrictPrefix, Path
          <5> QED
            BY <2>4, <3>2, <5>2
        <4>5. r \in DOMAIN d \cup new
          BY <2>5, <4>3, <4>4
        <4>6. ~IsFile(d, r)
          BY <4>2, <4>3, <4>4, PrefixOrder DEF Path
        <4> QED
          BY <2>2, <2>3, <4>5, <4>6, Kinds
      <3> QED
        BY <2>2, <3>1, <3>2
    <2>7. Tree(e)
      <3>1. new \subseteq Path
        BY <2>3, AboveIsPrefix
      <3> QED
        BY <2>2, <2>3, <2>6, <3>1 DEF Tree, Node
    <2>8. SameFiles(d, e)
      BY <2>2, <2>3, Kinds DEF SameFiles, IsFile
    <2> QED
      BY <2>1, <2>2, <2>3, <2>7, <2>8
  <1> QED
    BY <1>1, <1>2

\* A set of paths with all that is below them can be taken away.
LEMMA WithoutTree ==
    ASSUME NEW d, Tree(d), NEW S,
           \A q \in DOMAIN d \ S : \A r \in Above(q) : r \notin S
    PROVE  /\ Tree(Without(d, S)) /\ DOMAIN Without(d, S) = DOMAIN d \ S
           /\ \A q \in DOMAIN d \ S : Without(d, S)[q] = d[q]
           /\ (\A q \in S : ~IsFile(d, q)) => SameFiles(d, Without(d, S))
  <1> DEFINE e == Without(d, S)
  <1>1. DOMAIN e = DOMAIN d \ S /\ \A q \in DOMAIN d \ S : e[q] = d[q]
    BY DEF Without
  <1> HIDE DEF e
  <1>2. Tree(e)
    BY <1>1 DEF Tree, Node
  <1>3. ASSUME \A q \in S : ~IsFile(d, q) PROVE SameFiles(d, e)
    BY <1>1, <1>3 DEF SameFiles, IsFile
  <1> QED
    BY <1>1, <1>2, <1>3 DEF e

LEMMA RmdirTree ==
    ASSUME NEW d, Tree(d), NEW p \in Path
    PROVE  Tree(Rmdir(d, p)) /\ SameFiles(d, Rmdir(d, p))
  <1>1. CASE IsFolder(d, p) /\ Below(d, p) = {}
    <2>1. Rmdir(d, p) = Without(d, {p})
      BY <1>1 DEF Rmdir
    <2>2. ~IsFile(d, p)
      BY <1>1, Kinds DEF Path
    <2>3. ASSUME NEW q \in DOMAIN d, NEW r \in Above(q) PROVE r # p
      <3>1. IsStrictPrefix(r, q)
        BY AboveIsPrefix DEF Tree
      <3> QED
        BY <1>1, <3>1 DEF Below
    <2>4. \A q \in DOMAIN d \ {p} : \A r \in Above(q) : r \notin {p}
      BY <2>3
    <2>5. Tree(Without(d, {p})) /\ ((\A q \in {p} : ~IsFile(d, q)) => SameFiles(d, Without(d, {p})))
      BY <2>4, WithoutTree, Zenon
    <2> QED
      BY <2>1, <2>2, <2>5
  <1>2. CASE ~(IsFolder(d, p) /\ Below(d, p) = {})
    <2>1. Rmdir(d, p) = d
      BY <1>2 DEF Rmdir
    <2> QED
      BY <2>1 DEF SameFiles
  <1> QED
    BY <1>1, <1>2

\* A folder that is empty afterwards was empty before, and not above the path.
LEMMA RmdirsTree ==
    ASSUME NEW d, Tree(d), NEW p \in Path
    PROVE  /\ Tree(rmdirs(d, p)) /\ SameFiles(d, rmdirs(d, p))
           /\ DOMAIN rmdirs(d, p) \subseteq DOMAIN d
           /\ \A q \in DOMAIN rmdirs(d, p) : rmdirs(d, p)[q] = d[q]
           /\ \A q \in DOMAIN d \ DOMAIN rmdirs(d, p) : q \in Above(p)
           /\ setting.compat =>
                 \A q \in DOMAIN rmdirs(d, p) :
                    d[q] = Folder /\ Below(rmdirs(d, p), q) = {} => Below(d, q) = {} /\ q \notin Above(p)
  <1> DEFINE old == Removable(d, p)
             e == Without(d, old)
  <1>1. CASE ~setting.compat
    <2>1. rmdirs(d, p) = d
      BY <1>1 DEF rmdirs
    <2> QED
      BY <1>1, <2>1 DEF SameFiles
  <1>2. CASE setting.compat
    <2>1. rmdirs(d, p) = e
      BY <1>2 DEF rmdirs
    <2>2. \A q \in old : q \in DOMAIN d /\ \A r \in {q} \cup Below(d, q) : r \in Above(p) /\ IsFolder(d, r)
      BY DEF Removable
    <2>3. \A q \in DOMAIN d : (\A r \in {q} \cup Below(d, q) : r \in Above(p) /\ IsFolder(d, r)) => q \in old
      BY DEF Removable
    <2>4. DOMAIN e = DOMAIN d \ old /\ \A q \in DOMAIN e : e[q] = d[q]
      BY DEF Without
    <2> HIDE DEF old
    <2>5. ASSUME NEW q \in old PROVE ~IsFile(d, q) /\ q \in Above(p)
      <3>1. q \in DOMAIN d /\ q \in Above(p) /\ IsFolder(d, q)
        BY <2>2
      <3>2. q # <<>>
        BY <3>1 DEF Tree, Path
      <3> QED
        BY <3>1, <3>2, Kinds
    <2>6. ASSUME NEW q \in DOMAIN d, NEW r \in Above(q), r \in old PROVE q \in old
      <3>1. q \in Path /\ r \in Path /\ IsStrictPrefix(r, q)
        BY AboveIsPrefix DEF Tree
      <3>2. ASSUME NEW s \in {q} \cup Below(d, q) PROVE s \in Below(d, r)
        <4>1. s \in DOMAIN d /\ s \in Path /\ (s = q \/ IsStrictPrefix(q, s))
          BY <3>1 DEF Below, Tree
        <4>2. IsPrefix(r, s) /\ r # s
          BY <3>1, <4>1, PrefixOrder DEF IsStrictPrefix, Path
        <4> QED
          BY <4>1, <4>2 DEF Below, IsStrictPrefix
      <3> QED
        BY <2>2, <2>3, <2>6, <3>2
    <2>7. Tree(e) /\ SameFiles(d, e)
      <3>1. \A q \in DOMAIN d \ old : \A r \in Above(q) : r \notin old
        BY <2>6
      <3> HIDE DEF e
      <3> QED
        BY <2>5, <3>1, WithoutTree DEF e
    <2>8. ASSUME NEW q \in DOMAIN e, d[q] = Folder, Below(e, q) = {}
          PROVE  Below(d, q) = {} /\ q \notin Above(p)
      <3>1. q \in DOMAIN d /\ q \notin old /\ q \in Path
        BY <2>4 DEF Tree
      <3>2. \A r \in Below(d, q) : r \in old
        BY <2>4, <2>8 DEF Below
      <3>3. IsFolder(d, q)
        BY <2>8, <3>1, Kinds DEF IsFolder
      <3>4. \A r \in Below(d, q) : r \in Above(p) /\ IsFolder(d, r)
        BY <2>2, <3>2
      <3>5. q \notin Above(p)
        BY <2>3, <3>1, <3>3, <3>4
      <3>6. ASSUME NEW r \in Below(d, q) PROVE FALSE
        <4>1. r \in Path /\ IsStrictPrefix(r, p)
          BY <3>4, AboveIsPrefix
        <4>2. IsStrictPrefix(q, r)
          BY DEF Below
        <4>3. IsPrefix(q, p) /\ q # p
          BY <3>1, <4>1, <4>2, PrefixOrder DEF IsStrictPrefix, Path
        <4> QED
          BY <3>1, <3>5, <4>3, AboveIsPrefix DEF IsStrictPrefix
      <3> QED
        BY <3>5, <3>6
    <2>9. \A q \in DOMAIN d \ DOMAIN e : q \in Above(p)
      BY <2>4, <2>5
    <2> QED
      BY <2>1, <2>4, <2>7, <2>8, <2>9
  <1> QED
    BY <1>1, <1>2

\* No file has anything below it.
LEMMA UnlinkTree ==
    ASSUME NEW d, Tree(d), NEW p, IsFile(d, p)
    PROVE  /\ Tree(Without(d, {p})) /\ DOMAIN Without(d, {p}) = DOMAIN d \ {p}
           /\ \A q \in DOMAIN d \ {p} : Without(d, {p})[q] = d[q]
  <1>1. ASSUME NEW q \in DOMAIN d, NEW r \in Above(q) PROVE r # p
    BY Kinds DEF Tree
  <1>2. \A q \in DOMAIN d \ {p} : \A r \in Above(q) : r \notin {p}
    BY <1>1
  <1> QED
    BY <1>2, WithoutTree

\* What an open makes is a new file, with an identity that nobody has.
LEMMA OpenedTree ==
    ASSUME NEW d, Tree(d), NEW p \in Path, NEW flags,
           Opened(d, p, flags) # Nothing
    PROVE  LET e == Opened(d, p, flags)
           IN  /\ Tree(e) /\ IsFile(e, p)
               /\ DOMAIN e = DOMAIN d \cup {p}
               /\ \A q \in DOMAIN d : e[q] = d[q]
               /\ \/ e = d
                  \/ p \notin DOMAIN d /\ e[p].id \in FreshIds(d)
  <1> DEFINE i == CHOOSE i \in FreshIds(d) : TRUE
             n == NewFile(<<>>, Missing, i)
             e == With(d, p, n)
  <1>1. CASE IsFile(d, p)
    <2>1. Opened(d, p, flags) = d
      BY <1>1 DEF Opened
    <2> QED
      BY <1>1, <2>1, Kinds
  <1>2. CASE ~IsFile(d, p)
    <2>1. p \notin DOMAIN d /\ IsFolder(d, Front(p)) /\ FreshIds(d) # {} /\ Opened(d, p, flags) = e
      BY <1>2 DEF Opened
    <2>2. i \in FreshIds(d)
      BY <2>1
    <2> HIDE DEF i
    <2>3. n = [kind |-> "file", data |-> <<>>, nonce |-> -1, id |-> i]
      BY DEF NewFile, Missing
    <2>4. Node(n) /\ n.kind = "file" /\ n.id = i
      BY <2>3, SMT DEF Node
    <2> HIDE DEF n
    <2>5. DOMAIN e = DOMAIN d \cup {p} /\ e[p] = n /\ \A q \in DOMAIN d : e[q] = d[q]
      BY <2>1 DEF With
    <2> HIDE DEF e
    <2>6. ASSUME NEW q \in DOMAIN e, NEW r \in Above(q)
          PROVE  r \in DOMAIN e /\ e[r] = Folder
      <3>1. CASE q \in DOMAIN d
        BY <2>5, <3>1 DEF Tree
      <3>2. CASE q = p
        <4>1. r \in Path
          BY <3>2, AboveIsPrefix
        <4>2. r = Front(p) \/ (Front(p) \in Path /\ r \in Above(Front(p)))
          BY <3>2, FrontAbove
        <4>3. r # <<>>
          BY <4>1 DEF Path
        <4>4. CASE r = Front(p)
          BY <2>1, <2>5, <4>3, <4>4, Kinds
        <4>5. CASE Front(p) \in Path /\ r \in Above(Front(p))
          <5>1. Front(p) \in DOMAIN d
            BY <2>1, <4>5, Kinds DEF Path
          <5> QED
            BY <2>5, <4>5, <5>1 DEF Tree
        <4> QED
          BY <4>2, <4>4, <4>5
      <3> QED
        BY <2>5, <3>1, <3>2
    <2>7. Tree(e)
      BY <2>4, <2>5, <2>6 DEF Tree
    <2>8. IsFile(e, p) /\ e[p].id \in FreshIds(d)
      BY <2>2, <2>4, <2>5 DEF IsFile
    <2> QED
      BY <2>1, <2>5, <2>7, <2>8
  <1> QED
    BY <1>1, <1>2

LEMMA RenamedTree ==
    ASSUME NEW d, Tree(d), NEW src \in Path, NEW dst \in Path,
           ~IsPrefix(src, dst), ~IsPrefix(dst, src),
           Renamed(d, src, dst) # Nothing
    PROVE  LET e == Renamed(d, src, dst)
           IN  /\ Tree(e) /\ dst \in DOMAIN e
               /\ \A q \in DOMAIN e :
                     \/ /\ IsPrefix(dst, q) /\ IsPrefix(src, Moved(dst, src, q))
                        /\ Moved(dst, src, q) \in DOMAIN d /\ e[q] = d[Moved(dst, src, q)]
                     \/ ~IsPrefix(dst, q) /\ ~IsPrefix(src, q) /\ q \in DOMAIN d /\ e[q] = d[q]
               /\ \A q \in DOMAIN d :
                     \/ IsPrefix(src, q) /\ Moved(src, dst, q) \in DOMAIN e /\ e[Moved(src, dst, q)] = d[q]
                     \/ q = dst /\ Below(d, dst) = {} /\ (IsFile(d, dst) <=> IsFile(d, src))
                     \/ ~IsPrefix(src, q) /\ ~IsPrefix(dst, q) /\ q \in DOMAIN e /\ e[q] = d[q]
  <1> DEFINE moved == {src} \cup Below(d, src)
             kept == DOMAIN d \ (moved \cup {dst})
             e == [q \in kept \cup {Moved(src, dst, r) : r \in moved} |->
                      d[IF q \in kept THEN q ELSE Moved(dst, src, q)]]
  <1>1. /\ src \in DOMAIN d /\ IsFolder(d, Front(dst)) /\ Renamed(d, src, dst) = e
        /\ dst \in DOMAIN d => d[dst].kind = d[src].kind /\ Below(d, dst) = {}
    BY DEF Renamed
  <1>2. /\ src \in Seq(STRING) /\ dst \in Seq(STRING)
        /\ \A q \in DOMAIN d : q \in Path /\ q \in Seq(STRING)
    BY DEF Path, Tree
  <1>3. \A q : q \in moved <=> q \in DOMAIN d /\ IsPrefix(src, q)
    BY <1>1, <1>2, PrefixOrder DEF Below, IsStrictPrefix
  <1>4. \A q \in Above(dst) : q \in DOMAIN d /\ d[q] = Folder
    <2> TAKE q \in Above(dst)
    <2>1. q \in Path
      BY AboveIsPrefix
    <2>2. q = Front(dst) \/ (Front(dst) \in Path /\ q \in Above(Front(dst)))
      BY FrontAbove
    <2>3. CASE q = Front(dst)
      BY <1>1, <2>1, <2>3, Kinds DEF Path
    <2>4. CASE Front(dst) \in Path /\ q \in Above(Front(dst))
      <3>1. Front(dst) \in DOMAIN d
        BY <1>1, <2>4, Kinds DEF Path
      <3> QED
        BY <2>4, <3>1 DEF Tree
    <2> QED
      BY <2>2, <2>3, <2>4
  \* Nothing was below dst.
  <1>5. ASSUME NEW q \in DOMAIN d, IsStrictPrefix(dst, q) PROVE FALSE
    <2>1. dst \in Above(q)
      BY <1>2, <1>5, AboveIsPrefix
    <2>2. dst \in DOMAIN d
      BY <2>1 DEF Tree
    <2> QED
      BY <1>1, <1>5, <2>2 DEF Below
  <1>6. \A q : q \in kept <=> q \in DOMAIN d /\ ~IsPrefix(src, q) /\ ~IsPrefix(dst, q)
    BY <1>2, <1>3, <1>5, PrefixOrder DEF IsStrictPrefix
  <1> HIDE DEF moved
  <1>7. ASSUME NEW r \in moved
        PROVE  /\ Moved(src, dst, r) \in Path /\ IsPrefix(dst, Moved(src, dst, r))
               /\ Moved(dst, src, Moved(src, dst, r)) = r
               /\ Moved(src, dst, r) \notin kept
    <2>1. r \in Path /\ IsPrefix(src, r)
      BY <1>2, <1>3
    <2>2. Moved(src, dst, r) \in Path /\ IsPrefix(dst, Moved(src, dst, r))
      BY <2>1, MovedPointwise
    <2>3. Moved(dst, src, Moved(src, dst, r)) = r
      BY <2>1, MovedBack
    <2> QED
      BY <1>6, <2>2, <2>3
  <1> HIDE DEF kept
  <1>8. DOMAIN e = kept \cup {Moved(src, dst, r) : r \in moved}
    OBVIOUS
  <1>9. \A q \in kept : q \in DOMAIN e /\ e[q] = d[q]
    OBVIOUS
  <1>10. ASSUME NEW r \in moved
         PROVE  Moved(src, dst, r) \in DOMAIN e /\ e[Moved(src, dst, r)] = d[r]
    <2>1. Moved(src, dst, r) \in DOMAIN e
      OBVIOUS
    <2>2. e[Moved(src, dst, r)] = d[Moved(dst, src, Moved(src, dst, r))]
      BY <1>7, <2>1
    <2> QED
      BY <1>7, <2>1, <2>2
  <1> HIDE DEF e
  <1>11. ASSUME NEW q \in DOMAIN e
         PROVE  \/ /\ q \in Path /\ IsPrefix(dst, q) /\ Moved(dst, src, q) \in moved
                   /\ q = Moved(src, dst, Moved(dst, src, q)) /\ e[q] = d[Moved(dst, src, q)]
                \/ q \in kept /\ e[q] = d[q]
    <2>1. CASE q \in kept
      BY <1>9, <2>1
    <2>2. CASE q \notin kept
      <3>1. PICK r \in moved : q = Moved(src, dst, r)
        BY <1>8, <2>2
      <3> QED
        BY <1>7, <1>10, <3>1
    <2> QED
      BY <2>1, <2>2
  <1>12. ASSUME NEW q \in DOMAIN e
         PROVE  \/ /\ IsPrefix(dst, q) /\ IsPrefix(src, Moved(dst, src, q))
                   /\ Moved(dst, src, q) \in DOMAIN d /\ e[q] = d[Moved(dst, src, q)]
                \/ ~IsPrefix(dst, q) /\ ~IsPrefix(src, q) /\ q \in DOMAIN d /\ e[q] = d[q]
    BY <1>3, <1>6, <1>11
  <1>13. ASSUME NEW q \in DOMAIN d
         PROVE  \/ IsPrefix(src, q) /\ Moved(src, dst, q) \in DOMAIN e /\ e[Moved(src, dst, q)] = d[q]
                \/ q = dst /\ Below(d, dst) = {} /\ (IsFile(d, dst) <=> IsFile(d, src))
                \/ ~IsPrefix(src, q) /\ ~IsPrefix(dst, q) /\ q \in DOMAIN e /\ e[q] = d[q]
    <2>1. CASE IsPrefix(src, q)
      BY <1>3, <1>10, <2>1
    <2>2. CASE q = dst
      BY <1>1, <2>2 DEF IsFile
    <2>3. CASE ~IsPrefix(src, q) /\ q # dst
      <3>1. ~IsPrefix(dst, q)
        BY <1>5, <2>3 DEF IsStrictPrefix
      <3> QED
        BY <1>6, <1>9, <2>3, <3>1
    <2> QED
      BY <2>1, <2>2, <2>3
  <1>14. dst \in DOMAIN e
    <2>1. src \in moved /\ Moved(src, dst, src) \in DOMAIN e
      BY <1>1, <1>2, <1>3, <1>10, PrefixOrder
    <2>2. Moved(src, dst, src) = dst
      <3>1. /\ IsPrefix(dst, Moved(src, dst, src)) /\ Moved(src, dst, src) \in Path
            /\ Len(Moved(src, dst, src)) = Len(dst) + Len(src) - Len(src)
        BY <1>2, PrefixOrder, MovedPointwise
      <3>2. Len(dst) \in Nat /\ Len(src) \in Nat
        BY <1>2, LenProperties
      <3>3. ~IsStrictPrefix(dst, Moved(src, dst, src))
        BY <1>2, <3>1, <3>2, PrefixOrder DEF Path
      <3> QED
        BY <3>1, <3>3 DEF IsStrictPrefix
    <2> QED
      BY <2>1, <2>2
  <1>15. ASSUME NEW q \in DOMAIN e, NEW r \in Above(q)
         PROVE  r \in DOMAIN e /\ e[r] = Folder
    <2>1. CASE q \in kept
      <3>1. q \in DOMAIN d /\ q \in Seq(STRING) /\ ~IsPrefix(src, q) /\ ~IsPrefix(dst, q)
        BY <1>2, <1>6, <2>1
      <3>2. r \in DOMAIN d /\ d[r] = Folder
        BY <3>1 DEF Tree
      <3>3. r \in Seq(STRING) /\ IsPrefix(r, q)
        BY <1>2, <3>1, <3>2, AboveIsPrefix DEF IsStrictPrefix
      <3>4. ~IsPrefix(src, r) /\ ~IsPrefix(dst, r)
        BY <1>2, <3>1, <3>3, PrefixOrder
      <3> QED
        BY <1>6, <1>9, <3>2, <3>4
    <2>2. CASE q \notin kept
      <3> DEFINE q0 == Moved(dst, src, q)
                 r0 == Moved(dst, src, r)
      <3>1. q \in Path /\ IsPrefix(dst, q) /\ q0 \in moved /\ q = Moved(src, dst, q0)
        BY <1>11, <2>2
      <3>2. r \in Path /\ IsStrictPrefix(r, q)
        BY <3>1, AboveIsPrefix
      <3>3. CASE IsPrefix(dst, r)
        <4>1. IsStrictPrefix(r0, q0) /\ r0 \in Path /\ IsPrefix(src, r0)
          BY <3>1, <3>2, <3>3, MovedOrder, MovedPointwise
        <4>2. q0 \in DOMAIN d /\ q0 \in Path
          BY <1>2, <1>3, <3>1
        <4>3. r0 \in Above(q0)
          BY <4>1, <4>2, AboveIsPrefix
        <4>4. r0 \in DOMAIN d /\ d[r0] = Folder
          BY <4>2, <4>3 DEF Tree
        <4>5. Moved(src, dst, r0) = r
          BY <3>2, <3>3, MovedBack
        <4>6. r0 \in moved
          BY <1>3, <4>1, <4>4
        <4> HIDE DEF r0
        <4> QED
          BY <1>10, <4>4, <4>5, <4>6
      <3>4. CASE ~IsPrefix(dst, r)
        <4>1. IsPrefix(r, dst) /\ r # dst
          BY <1>2, <3>1, <3>2, <3>4, PrefixOrder DEF IsStrictPrefix, Path
        <4>2. r \in Above(dst)
          BY <3>2, <4>1, AboveIsPrefix DEF IsStrictPrefix
        <4>3. ~IsPrefix(src, r)
          BY <1>2, <3>2, <4>1, PrefixOrder DEF Path
        <4> QED
          BY <1>4, <1>6, <1>9, <3>4, <4>2, <4>3
      <3> QED
        BY <3>3, <3>4
    <2> QED
      BY <2>1, <2>2
  <1>16. Tree(e)
    <2>1. ASSUME NEW q \in DOMAIN e PROVE q \in Path /\ Node(e[q])
      BY <1>2, <1>3, <1>6, <1>11 DEF Tree
    <2> QED
      BY <1>15, <2>1 DEF Tree
  <1> QED
    BY <1>1, <1>12, <1>13, <1>14, <1>16

----------------------------------------------------------------------------
(* Files. *)

LEMMA NodeRewritten ==
    ASSUME NEW n, n = [kind |-> "file", data |-> n.data, nonce |-> n.nonce, id |-> n.id], NEW t, NEW i
    PROVE  /\ [n EXCEPT !.data = t] = [kind |-> "file", data |-> t, nonce |-> n.nonce, id |-> n.id]
           /\ [n EXCEPT !.nonce = i] = [kind |-> "file", data |-> n.data, nonce |-> i, id |-> n.id]
  OBVIOUS

\* A change of a file's data or nonce leaves everything else.
LEMMA Rewritten ==
    ASSUME NEW d, Tree(d), NEW p, IsFile(d, p), NEW e, Node(e[p]), e[p].kind = "file",
           DOMAIN e = DOMAIN d, \A q \in DOMAIN d \ {p} : e[q] = d[q]
    PROVE  /\ Tree(e)
           /\ \A q : IsFile(e, q) <=> IsFile(d, q)
           /\ \A q : IsFolder(e, q) <=> IsFolder(d, q)
           /\ \A q : Below(e, q) = Below(d, q)
  <1>1. p \in DOMAIN d /\ d[p].kind = "file"
    BY DEF IsFile
  <1>2. DOMAIN e = DOMAIN d /\ \A q \in DOMAIN d \ {p} : e[q] = d[q]
    OBVIOUS
  <1>3. \A q \in DOMAIN d : e[q].kind = d[q].kind
    BY <1>1, <1>2
  <1>4. \A q : IsFile(e, q) <=> IsFile(d, q)
    BY <1>2, <1>3 DEF IsFile
  <1>5. \A q : IsFolder(e, q) <=> IsFolder(d, q)
    BY <1>2, <1>3 DEF IsFolder
  <1>6. \A q : Below(e, q) = Below(d, q)
    BY <1>2 DEF Below
  <1>7. Folder.kind = "dir"
    BY DEF Folder
  <1>8. Tree(e)
    <2>1. \A q \in DOMAIN e : Node(e[q])
      BY <1>2 DEF Tree
    <2>2. \A q \in DOMAIN d : d[q] = Folder => e[q] = Folder
      BY <1>1, <1>2, <1>7
    <2> QED
      BY <1>2, <2>1, <2>2 DEF Tree
  <1> QED
    BY <1>2, <1>4, <1>5, <1>6, <1>8

\* The node of a file.
LEMMA FileNode ==
    ASSUME NEW d, Tree(d), NEW p, IsFile(d, p)
    PROVE  /\ d[p] = [kind |-> "file", data |-> d[p].data, nonce |-> d[p].nonce, id |-> d[p].id]
           /\ d[p].nonce \in Int /\ p \in DOMAIN d /\ p \in Path
  BY Kinds DEF Tree, Node

\* What can be changed in place: data, by a sync, and nonces.
WithData(d, p, t) == [d EXCEPT ![p].data = t]
WithNonce(d, p, i) == [d EXCEPT ![p].nonce = i]

LEMMA DataRewritten ==
    ASSUME NEW d, Tree(d), NEW p, IsFile(d, p), NEW t
    PROVE  LET e == WithData(d, p, t)
           IN  /\ Tree(e) /\ DOMAIN e = DOMAIN d /\ \A q \in DOMAIN d \ {p} : e[q] = d[q]
               /\ e[p].data = t /\ e[p].nonce = d[p].nonce /\ e[p].id = d[p].id
               /\ \A q : IsFile(e, q) <=> IsFile(d, q)
               /\ \A q : IsFolder(e, q) <=> IsFolder(d, q)
               /\ \A q : Below(e, q) = Below(d, q)
  <1> DEFINE n == [d[p] EXCEPT !.data = t]
             e == [d EXCEPT ![p] = n]
  <1>1. n = [kind |-> "file", data |-> t, nonce |-> d[p].nonce, id |-> d[p].id]
    BY FileNode, NodeRewritten, Zenon
  <1>2. n.kind = "file" /\ n.data = t /\ n.nonce = d[p].nonce /\ n.id = d[p].id /\ n.nonce \in Int
    BY <1>1, FileNode
  <1>3. Node(n)
    BY <1>1, <1>2 DEF Node
  <1> HIDE DEF n
  <1>4. p \in DOMAIN d
    BY DEF IsFile
  <1>5. DOMAIN e = DOMAIN d /\ e[p] = n /\ \A q \in DOMAIN d \ {p} : e[q] = d[q]
    BY <1>4
  <1> HIDE DEF e
  <1>6. /\ Tree(e)
        /\ \A q : IsFile(e, q) <=> IsFile(d, q)
        /\ \A q : IsFolder(e, q) <=> IsFolder(d, q)
        /\ \A q : Below(e, q) = Below(d, q)
    BY <1>2, <1>3, <1>5, Rewritten
  <1> QED
    BY <1>2, <1>5, <1>6 DEF n, e, WithData

NoncedTo(d, p, i, e) ==
    /\ Tree(e) /\ DOMAIN e = DOMAIN d /\ \A q \in DOMAIN d \ {p} : e[q] = d[q]
    /\ e[p].data = d[p].data /\ e[p].nonce = i /\ e[p].id = d[p].id
    /\ \A q : IsFile(e, q) <=> IsFile(d, q)
    /\ \A q : IsFolder(e, q) <=> IsFolder(d, q)
    /\ \A q : Below(e, q) = Below(d, q)

LEMMA NonceRewritten ==
    ASSUME NEW d, Tree(d), NEW p, IsFile(d, p), NEW i \in Int
    PROVE  NoncedTo(d, p, i, WithNonce(d, p, i))
  <1> DEFINE n == [d[p] EXCEPT !.nonce = i]
             e == [d EXCEPT ![p] = n]
  <1>1. n = [kind |-> "file", data |-> d[p].data, nonce |-> i, id |-> d[p].id]
    <2>1. d[p] = [kind |-> "file", data |-> d[p].data, nonce |-> d[p].nonce, id |-> d[p].id]
      BY FileNode
    <2> QED
      BY <2>1
  <1>2. n.kind = "file" /\ n.data = d[p].data /\ n.nonce = i /\ n.id = d[p].id
    BY <1>1
  <1>3. Node(n)
    BY <1>1, <1>2 DEF Node
  <1> HIDE DEF n
  <1>4. p \in DOMAIN d
    BY DEF IsFile
  <1>5. DOMAIN e = DOMAIN d /\ e[p] = n /\ \A q \in DOMAIN d \ {p} : e[q] = d[q]
    BY <1>4
  <1> HIDE DEF e
  <1>6. /\ Tree(e)
        /\ \A q : IsFile(e, q) <=> IsFile(d, q)
        /\ \A q : IsFolder(e, q) <=> IsFolder(d, q)
        /\ \A q : Below(e, q) = Below(d, q)
    BY <1>2, <1>3, <1>5, Rewritten
  <1> QED
    BY <1>2, <1>5, <1>6 DEF n, e, WithNonce, NoncedTo

\* A nonce that is touched goes up.
LEMMA TouchedUp ==
    ASSUME NEW n \in Int, setting.nonces \in Nat
    PROVE  \A i \in Touched(n) : i \in Int /\ i > n
  BY SMT DEF Touched

----------------------------------------------------------------------------
(* Handles. *)

States == {"clean", "dirty", "erred", "failed"}

Opens(h) ==
    /\ h = [path |-> h.path, id |-> h.id, asked |-> h.asked, flags |-> h.flags, pos |-> h.pos,
            strayed |-> h.strayed, text |-> h.text, state |-> h.state]
    /\ h.flags = flags_conv(h.asked)
    /\ h.state \in States
    /\ h.state = "dirty" => "WRONLY" \in h.flags

SameOpen(h, g) ==
    Opens(g) /\ g.path = h.path /\ g.id = h.id /\ g.flags = h.flags /\ g.strayed = h.strayed

Put(h, s) == [h EXCEPT !.state = s]
Strays(h, b) == [h EXCEPT !.strayed = b]

LEMMA HandleChanged ==
    ASSUME NEW h, Opens(h), NEW x, NEW n
    PROVE  /\ SameOpen(h, h)
           /\ SameOpen(h, Clean(h)) /\ Clean(h).pos = h.pos /\ Clean(h).text = h.text
           /\ SameOpen(h, [h EXCEPT !.pos = x])
           /\ \A s \in {"erred", "failed"} :
                 SameOpen(h, Put(h, s)) /\ Put(h, s).pos = h.pos /\ Put(h, s).state = s
           /\ SameOpen(h, [h EXCEPT !.state = "failed", !.pos = x])
           /\ Writable(h) => SameOpen(h, Resized(h, n)) /\ Resized(h, n).pos = h.pos
  <1> DEFINE r(strayed, pos, text, state) ==
                [path |-> h.path, id |-> h.id, asked |-> h.asked, flags |-> h.flags, pos |-> pos,
                 strayed |-> strayed, text |-> text, state |-> state]
             resized == IF n = Len(h.text) \/ (n < Len(h.text) /\ h.state = "erred") THEN h.state ELSE "dirty"
  <1>1. h = r(h.strayed, h.pos, h.text, h.state)
    BY DEF Opens
  <1>2. ASSUME NEW pos, NEW text, NEW state \in States,
               state = "dirty" => "WRONLY" \in h.flags
        PROVE  SameOpen(h, r(h.strayed, pos, text, state))
    BY <1>2 DEF Opens, SameOpen
  <1>3. Clean(h) = r(h.strayed, h.pos, h.text, IF h.state = "dirty" THEN "clean" ELSE h.state)
    BY <1>1 DEF Clean
  <1>4. [h EXCEPT !.pos = x] = r(h.strayed, x, h.text, h.state)
    BY <1>1
  <1>5. \A s : Put(h, s) = r(h.strayed, h.pos, h.text, s)
    BY <1>1 DEF Put
  <1>6. [h EXCEPT !.state = "failed", !.pos = x] = r(h.strayed, x, h.text, "failed")
    <2> DEFINE g == [h EXCEPT !.state = "failed"]
    <2>1. g = r(h.strayed, h.pos, h.text, "failed")
      BY <1>1
    <2> HIDE DEF g
    <2>2. [g EXCEPT !.pos = x] = r(h.strayed, x, h.text, "failed")
      BY <2>1
    <2> QED
      BY <2>2 DEF g
  <1>7. Resized(h, n) = r(h.strayed, h.pos, Sized(h.text, n), resized)
    <2> DEFINE t == Sized(h.text, n)
               g == [h EXCEPT !.text = t]
    <2>1. Resized(h, n) = [g EXCEPT !.state = resized]
      BY DEF Resized
    <2> HIDE DEF t, resized
    <2>2. g = r(h.strayed, h.pos, t, h.state)
      BY <1>1
    <2> HIDE DEF g
    <2>3. [g EXCEPT !.state = resized] = r(h.strayed, h.pos, t, resized)
      BY <2>2
    <2> QED
      BY <2>1, <2>3 DEF t
  <1>8. h.state \in States /\ (h.state = "dirty" => "WRONLY" \in h.flags)
    BY DEF Opens
  <1>11. /\ SameOpen(h, r(h.strayed, h.pos, h.text, h.state))
         /\ SameOpen(h, r(h.strayed, x, h.text, h.state))
         /\ SameOpen(h, r(h.strayed, x, h.text, "failed"))
    BY <1>2, <1>8 DEF States
  <1>12. SameOpen(h, Clean(h)) /\ Clean(h).pos = h.pos /\ Clean(h).text = h.text
    <2>1. (IF h.state = "dirty" THEN "clean" ELSE h.state) \in States \ {"dirty"}
      BY <1>8 DEF States
    <2> QED
      BY <1>2, <1>3, <2>1
  <1>13. ASSUME NEW s \in {"erred", "failed"}
         PROVE  SameOpen(h, Put(h, s)) /\ Put(h, s).pos = h.pos /\ Put(h, s).state = s
    <2>1. s \in States /\ s # "dirty"
      BY DEF States
    <2>2. SameOpen(h, r(h.strayed, h.pos, h.text, s))
      BY <1>2, <2>1
    <2>3. r(h.strayed, h.pos, h.text, s).pos = h.pos /\ r(h.strayed, h.pos, h.text, s).state = s
      OBVIOUS
    <2>4. Put(h, s) = r(h.strayed, h.pos, h.text, s)
      BY <1>5
    <2> HIDE DEF r
    <2> QED
      BY <2>2, <2>3, <2>4
  <1>14. Writable(h) => SameOpen(h, Resized(h, n)) /\ Resized(h, n).pos = h.pos
    <2>1. Writable(h) => resized \in States /\ (resized = "dirty" => "WRONLY" \in h.flags)
      BY <1>8 DEF States, Writable
    <2> HIDE DEF resized
    <2> QED
      BY <1>2, <1>7, <2>1
  <1> HIDE DEF r
  <1> QED
    BY <1>1, <1>4, <1>6, <1>11, <1>12, <1>13, <1>14

LEMMA HandleStrays ==
    ASSUME NEW h, Opens(h), NEW x
    PROVE  /\ Opens(Strays(h, x)) /\ Strays(h, x).path = h.path /\ Strays(h, x).id = h.id
           /\ Strays(h, x).flags = h.flags /\ Strays(h, x).pos = h.pos /\ Strays(h, x).strayed = x
  <1> DEFINE g == [path |-> h.path, id |-> h.id, asked |-> h.asked, flags |-> h.flags, pos |-> h.pos,
                   strayed |-> x, text |-> h.text, state |-> h.state]
  <1>1. Strays(h, x) = g
    BY DEF Opens, Strays
  <1>2. /\ Opens(g) /\ g.path = h.path /\ g.id = h.id
        /\ g.flags = h.flags /\ g.pos = h.pos /\ g.strayed = x
    BY DEF Opens
  <1> HIDE DEF g
  <1> QED
    BY <1>1, <1>2

\* What lfs_file_sync of handle h makes of the files: the data of its file, and
\* nothing else, has changed.
SyncedTo(d, h, e) ==
    /\ Tree(e) /\ DOMAIN e = DOMAIN d
    /\ \A q : IsFile(e, q) <=> IsFile(d, q)
    /\ \A q : IsFolder(e, q) <=> IsFolder(d, q)
    /\ \A q : Below(e, q) = Below(d, q)
    /\ \A q : IsFile(d, q) => e[q].id = d[q].id /\ e[q].nonce = d[q].nonce
    /\ \A q \in DOMAIN d : ~(h.state = "dirty" /\ IsFile(d, q) /\ d[q].id = h.id) => e[q] = d[q]
    /\ \A q : h.state = "dirty" /\ IsFile(d, q) /\ d[q].id = h.id => e[q].data = h.text

LEMMA SyncedFile ==
    ASSUME NEW d, Tree(d), NEW h
    PROVE  SyncedTo(d, h, Synced(d, h))
  <1> DEFINE e == Synced(d, h)
             its(q) == h.state = "dirty" /\ IsFile(d, q) /\ d[q].id = h.id
             rewritten(q) == [d[q] EXCEPT !.data = h.text]
  <1>1. /\ DOMAIN e = DOMAIN d
        /\ \A q \in DOMAIN d : its(q) => e[q] = rewritten(q)
        /\ \A q \in DOMAIN d : ~its(q) => e[q] = d[q]
    BY DEF Synced
  <1>2. ASSUME NEW q, IsFile(d, q)
        PROVE  rewritten(q) = [kind |-> "file", data |-> h.text, nonce |-> d[q].nonce, id |-> d[q].id]
    BY <1>2, FileNode, NodeRewritten, Zenon
  <1>3. ASSUME NEW q, IsFile(d, q)
        PROVE  /\ rewritten(q).kind = "file" /\ rewritten(q).data = h.text
               /\ rewritten(q).nonce = d[q].nonce /\ rewritten(q).id = d[q].id /\ Node(rewritten(q))
    <2>1. rewritten(q) = [kind |-> "file", data |-> h.text, nonce |-> d[q].nonce, id |-> d[q].id]
      BY <1>2, <1>3
    <2> HIDE DEF rewritten
    <2>2. /\ rewritten(q).kind = "file" /\ rewritten(q).data = h.text
          /\ rewritten(q).nonce = d[q].nonce /\ rewritten(q).id = d[q].id
      BY <2>1
    <2>3. d[q].nonce \in Int
      BY <1>3, FileNode
    <2> QED
      BY <2>1, <2>2, <2>3 DEF Node
  <1> HIDE DEF e, rewritten
  <1>4. \A q : IsFile(d, q) => q \in DOMAIN d /\ d[q].kind = "file" /\ d[q] # Folder
    BY Kinds DEF IsFile
  <1>5. \A q \in DOMAIN d : Node(e[q]) /\ e[q].kind = d[q].kind /\ (d[q] = Folder => e[q] = Folder)
    BY <1>1, <1>3, <1>4 DEF Tree
  <1>6. /\ \A q : IsFile(e, q) <=> IsFile(d, q)
        /\ \A q : IsFolder(e, q) <=> IsFolder(d, q)
        /\ \A q : Below(e, q) = Below(d, q)
    BY <1>1, <1>5 DEF IsFile, IsFolder, Below
  <1>7. Tree(e)
    BY <1>1, <1>5 DEF Tree
  <1>8. \A q : IsFile(d, q) => e[q].id = d[q].id /\ e[q].nonce = d[q].nonce
    BY <1>1, <1>3, <1>4
  <1>9. \A q : its(q) => e[q].data = h.text
    BY <1>1, <1>3, <1>4
  <1> QED
    BY <1>1, <1>6, <1>7, <1>8, <1>9 DEF e, SyncedTo

----------------------------------------------------------------------------
(* The invariant. *)

\* A file has one path.
OneId ==
    \A q, r \in DOMAIN volume :
        IsFile(volume, q) /\ IsFile(volume, r) /\ volume[q].id = volume[r].id => q = r

\* The nonce of a file a program remembers goes up before its data changes: it is
\* ahead while somebody has the file open for writing.
NoteSafe ==
    noted # Nothing =>
        /\ noted.nonce \in Int
        /\ \A q \in DOMAIN volume : IsFile(volume, q) /\ volume[q].id = noted.id =>
              /\ volume[q].nonce >= noted.nonce
              /\ volume[q].nonce = noted.nonce => volume[q].data = noted.data
              /\ \A f \in DOMAIN fds : fds[f].id = noted.id /\ "WRONLY" \in fds[f].flags =>
                    volume[q].nonce > noted.nonce

FilesSound == OneId /\ PathsHold /\ NoteSafe

IoInv ==
    /\ setting \in Settings
    /\ Tree(volume)
    /\ DOMAIN fds \subseteq Nat
    /\ \A f \in DOMAIN fds : Opens(fds[f])
    /\ FilesSound
    /\ FoldersFollow

\* Calls that change folders only.
LEMMA FoldersChanged ==
    ASSUME FilesSound, SameFiles(volume, volume'), fds' = fds, noted' = noted
    PROVE  FilesSound'
  <1>1. \A q : /\ IsFile(volume, q) <=> IsFile(volume', q)
               /\ IsFile(volume, q) => volume'[q] = volume[q]
    BY DEF SameFiles
  <1>2. OneId'
    <2> SUFFICES ASSUME NEW q \in DOMAIN volume', NEW r \in DOMAIN volume',
                        IsFile(volume', q), IsFile(volume', r), volume'[q].id = volume'[r].id
                 PROVE  q = r
      BY DEF OneId
    <2>1. q \in DOMAIN volume /\ r \in DOMAIN volume
      BY <1>1 DEF IsFile
    <2> QED
      BY <1>1, <2>1 DEF FilesSound, OneId
  <1>3. PathsHold'
    BY <1>1 DEF FilesSound, PathsHold, fstat
  <1>4. NoteSafe'
    <2> SUFFICES ASSUME noted # Nothing PROVE NoteSafe'
      BY DEF NoteSafe
    <2>1. \A q : IsFile(volume', q) => q \in DOMAIN volume
      BY <1>1 DEF IsFile
    <2> QED
      BY <1>1, <2>1 DEF FilesSound, NoteSafe
  <1> QED
    BY <1>2, <1>3, <1>4 DEF FilesSound

\* Calls on descriptors, which may write what they hold to its file.
LEMMA HandlesChanged ==
    ASSUME IoInv, NEW f \in DOMAIN fds, NEW h, SameOpen(fds[f], h),
           volume' = volume \/ volume' = Synced(volume, h),
           DOMAIN fds' \subseteq DOMAIN fds,
           \A g \in DOMAIN fds' : SameOpen(fds[g], fds'[g]),
           setting' = setting, excused' = excused, noted' = noted
    PROVE  IoInv'
  <1>1. Tree(volume)
    BY DEF IoInv
  <1>2. /\ Tree(volume') /\ DOMAIN volume' = DOMAIN volume
        /\ \A q : IsFile(volume', q) <=> IsFile(volume, q)
        /\ \A q : IsFolder(volume', q) <=> IsFolder(volume, q)
        /\ \A q : Below(volume', q) = Below(volume, q)
        /\ \A q : IsFile(volume, q) => volume'[q].id = volume[q].id /\ volume'[q].nonce = volume[q].nonce
        /\ \A q : IsFile(volume, q) /\ ~(h.state = "dirty" /\ volume[q].id = h.id) => volume'[q] = volume[q]
    <2>1. CASE volume' = volume
      BY <1>1, <2>1
    <2>2. CASE volume' = Synced(volume, h)
      <3> DEFINE e == Synced(volume, h)
      <3>1. SyncedTo(volume, h, e)
        BY <1>1, SyncedFile
      <3>2. volume' = e
        BY <2>2
      <3>3. \A q : IsFile(volume, q) => q \in DOMAIN volume
        BY DEF IsFile
      <3> HIDE DEF e
      <3> QED
        BY <3>1, <3>2, <3>3 DEF SyncedTo
    <2> QED
      BY <2>1, <2>2
  <1>3. \A g \in DOMAIN fds' : /\ g \in DOMAIN fds /\ Opens(fds'[g]) /\ fds'[g].path = fds[g].path
                               /\ fds'[g].id = fds[g].id /\ fds'[g].flags = fds[g].flags
                               /\ fds'[g].strayed = fds[g].strayed
    BY DEF SameOpen
  <1>4. h.id = fds[f].id /\ (h.state = "dirty" => "WRONLY" \in fds[f].flags)
    BY DEF SameOpen, Opens
  <1>5. OneId'
    BY <1>2 DEF IoInv, FilesSound, OneId
  <1>6. PathsHold'
    BY <1>2, <1>3 DEF IoInv, FilesSound, PathsHold, fstat
  <1>7. NoteSafe'
    <2> SUFFICES ASSUME noted # Nothing PROVE NoteSafe'
      BY DEF NoteSafe
    <2>1. /\ noted.nonce \in Int
          /\ \A q \in DOMAIN volume : IsFile(volume, q) /\ volume[q].id = noted.id =>
                /\ volume[q].nonce >= noted.nonce
                /\ volume[q].nonce = noted.nonce => volume[q].data = noted.data
                /\ \A g \in DOMAIN fds : fds[g].id = noted.id /\ "WRONLY" \in fds[g].flags =>
                      volume[q].nonce > noted.nonce
      BY DEF IoInv, FilesSound, NoteSafe
    <2>2. ASSUME NEW q \in DOMAIN volume, IsFile(volume, q), volume[q].id = noted.id
          PROVE  /\ volume'[q].nonce >= noted.nonce
                 /\ volume'[q].nonce = noted.nonce => volume'[q].data = noted.data
                 /\ \A g \in DOMAIN fds' : fds'[g].id = noted.id /\ "WRONLY" \in fds'[g].flags =>
                       volume'[q].nonce > noted.nonce
      <3>1. volume'[q].nonce = volume[q].nonce /\ volume[q].nonce \in Int
        BY <1>1, <1>2, <2>2, FileNode
      <3>2. ASSUME volume[q].nonce = noted.nonce PROVE volume'[q].data = noted.data
        <4>1. ~(h.id = noted.id /\ h.state = "dirty")
          BY <1>4, <2>1, <2>2, <3>1, <3>2
        <4> QED
          BY <1>2, <2>1, <2>2, <3>2, <4>1
      <3> QED
        BY <1>3, <2>1, <2>2, <3>1, <3>2
    <2> QED
      BY <1>2, <2>1, <2>2 DEF NoteSafe
  <1>8. FoldersFollow'
    BY <1>2 DEF IoInv, FoldersFollow
  <1> QED
    BY <1>2, <1>3, <1>5, <1>6, <1>7, <1>8 DEF IoInv, FilesSound

----------------------------------------------------------------------------
(* Calls on descriptors. *)

\* What CallsKeepWord says of a step.
Word ==
    /\ \A f \in DOMAIN fds \cap DOMAIN fds' : OffsetKept(f)
    /\ OnFlash

Puts(f, g) ==
    /\ DOMAIN fds' = DOMAIN fds /\ fds'[f] = g
    /\ \A x \in DOMAIN fds \ {f} : fds'[x] = fds[x]

LEMMA HandlePut ==
    ASSUME IoInv, NEW f \in DOMAIN fds, NEW g, SameOpen(fds[f], g), Puts(f, g),
           NEW h, SameOpen(fds[f], h), volume' = volume \/ volume' = Synced(volume, h),
           UNCHANGED <<setting, excused, noted>>
    PROVE  /\ IoInv'
           /\ g.pos = fds[f].pos \/ (made'.fd = f /\ made'.call \in {"read", "write", "lseek", "failed"})
                 => \A x \in DOMAIN fds \cap DOMAIN fds' : OffsetKept(x)
  <1>1. \A x \in DOMAIN fds : SameOpen(fds[x], fds[x])
    BY DEF IoInv, SameOpen
  <1>2. \A x \in DOMAIN fds' : SameOpen(fds[x], fds'[x])
    BY <1>1 DEF Puts
  <1>3. DOMAIN fds' \subseteq DOMAIN fds
    BY DEF Puts
  <1>4. IoInv'
    BY <1>2, <1>3, HandlesChanged
  <1> QED
    BY <1>4 DEF Puts, OffsetKept

LEMMA WroteSame ==
    ASSUME NEW h, Opens(h), Writable(h), NEW p, NEW ws, NEW x
    PROVE  /\ SameOpen(h, Wrote(h, p, ws)) /\ Wrote(h, p, ws).state = "dirty"
           /\ SameOpen(h, Restored(Wrote(h, p, ws), x, p)) /\ Restored(Wrote(h, p, ws), x, p).pos = x
  <1> DEFINE at == IF "APPEND" \in h.flags /\ Len(h.text) > p THEN Len(h.text) ELSE p
             t == Overwritten(h.text, at, ws)
             g == [h EXCEPT !.text = t, !.state = "dirty"]
             w == [g EXCEPT !.pos = at + Len(ws)]
  <1>1. Wrote(h, p, ws) = [h EXCEPT !.text = t, !.pos = at + Len(ws), !.state = "dirty"]
    BY Zenon DEF Wrote
  <1>2. h.state # "failed" /\ "WRONLY" \in h.flags
    BY DEF Writable
  <1> HIDE DEF t, at
  <1>3. h = [path |-> h.path, id |-> h.id, asked |-> h.asked, flags |-> h.flags, pos |-> h.pos,
             strayed |-> h.strayed, text |-> h.text, state |-> h.state]
    BY DEF Opens
  <1> DEFINE r(pos, text, state) ==
                [path |-> h.path, id |-> h.id, asked |-> h.asked, flags |-> h.flags, pos |-> pos,
                 strayed |-> h.strayed, text |-> text, state |-> state]
             h1 == [h EXCEPT !.text = t]
             h2 == [h1 EXCEPT !.pos = at + Len(ws)]
             h3 == [h2 EXCEPT !.state = "dirty"]
             h4 == [h3 EXCEPT !.pos = x]
  <1>4. h1 = r(h.pos, t, h.state)
    BY <1>3
  <1>5. h3 = Wrote(h, p, ws)
    BY <1>1
  <1> HIDE DEF h1
  <1>6. h2 = r(at + Len(ws), t, h.state)
    BY <1>4
  <1> HIDE DEF h2
  <1>7. h3 = r(at + Len(ws), t, "dirty")
    BY <1>2, <1>6
  <1> HIDE DEF h3
  <1>8. h4 = r(x, t, "dirty")
    BY <1>7
  <1> HIDE DEF h4
  <1>9. ASSUME NEW pos PROVE SameOpen(h, r(pos, t, "dirty")) /\ r(pos, t, "dirty").pos = pos /\ r(pos, t, "dirty").state = "dirty"
    BY <1>2 DEF Opens, SameOpen, States
  <1> HIDE DEF r
  <1>10. h4 = Restored(Wrote(h, p, ws), x, p)
    BY <1>5 DEF h4, Restored
  <1> QED
    BY <1>5, <1>7, <1>8, <1>9, <1>10

\* A call that does not sync.
LEMMA Quiet ==
    ASSUME NEW name, NEW f, Call(name, f), name \notin {"open", "write", "fsync"}
    PROVE  OnFlash /\ made'.call = name /\ made'.fd = f
  BY DEF Call, OnFlash

LEMMA CloseStep ==
    ASSUME IoInv, NEW f \in DOMAIN fds, close(f)
    PROVE  IoInv' /\ Word
  <1>1. \A x \in DOMAIN fds : SameOpen(fds[x], fds[x])
    BY DEF IoInv, SameOpen
  <1>2. /\ DOMAIN fds' \subseteq DOMAIN fds /\ \A x \in DOMAIN fds' : fds'[x] = fds[x]
        /\ volume' = Synced(volume, fds[f])
        /\ setting' = setting /\ excused' = excused /\ noted' = noted
        /\ Call("close", Nothing)
    BY DEF close
  <1>3. \A x \in DOMAIN fds' : SameOpen(fds[x], fds'[x])
    BY <1>1, <1>2
  <1>4. IoInv'
    BY <1>1, <1>2, <1>3, HandlesChanged
  <1>5. OnFlash
    BY <1>2, Quiet
  <1> QED
    BY <1>2, <1>4, <1>5 DEF Word, OffsetKept

LEMMA CrashStep ==
    ASSUME IoInv, Crash
    PROVE  IoInv' /\ Word
  <1>1. PICK f \in DOMAIN fds : TRUE
    BY DEF Crash
  <1>2. SameOpen(fds[f], fds[f])
    BY DEF IoInv, SameOpen
  <1>3. DOMAIN fds' = {} /\ volume' = volume /\ setting' = setting /\ excused' = excused
        /\ noted' = noted /\ Call("crash", Nothing)
    BY DEF Crash
  <1>4. IoInv'
    BY <1>2, <1>3, HandlesChanged
  <1>5. OnFlash
    BY <1>3, Quiet
  <1> QED
    BY <1>3, <1>4, <1>5 DEF Word

\* The calls that leave the volume alone.
LEMMA CachedStep ==
    ASSUME IoInv, NEW f \in DOMAIN fds, NEW g, SameOpen(fds[f], g), fds' = [fds EXCEPT ![f] = g],
           NEW name, Call(name, f), name \notin {"open", "write", "fsync"},
           g.pos = fds[f].pos \/ name \in {"read", "lseek", "failed"},
           UNCHANGED <<setting, volume, excused, noted>>
    PROVE  IoInv' /\ Word
  <1>1. Puts(f, g)
    BY DEF Puts
  <1>2. SameOpen(fds[f], fds[f])
    BY DEF IoInv, SameOpen
  <1>3. OnFlash /\ made'.call = name /\ made'.fd = f
    BY Quiet
  <1> QED
    BY <1>1, <1>2, <1>3, HandlePut DEF Word

\* A sync that succeeds puts on the flash what was dirty; one that fails shows.
LEMMA SyncsSound ==
    ASSUME IoInv, NEW f \in DOMAIN fds, NEW h, SameOpen(fds[f], h), h.pos = fds[f].pos \/ made'.call = "write",
           NEW s \in Syncs(volume, h), fds' = [fds EXCEPT ![f] = s.handle], volume' = s.volume,
           UNCHANGED <<setting, excused, noted>>, made'.fd = f
    PROVE  /\ IoInv' /\ \A x \in DOMAIN fds \cap DOMAIN fds' : OffsetKept(x)
           /\ h.state = "dirty" =>
                 \/ fds'[f].state \in {"erred", "failed"}
                 \/ \A q \in DOMAIN volume' :
                       IsFile(volume', q) /\ volume'[q].id = fds'[f].id => volume'[q].data = fds'[f].text
  <1>1. Opens(h) /\ Tree(volume)
    BY DEF IoInv, SameOpen
  <1>2. CASE s = [volume |-> Synced(volume, h), handle |-> Clean(h)]
    <2>1. s.volume = Synced(volume, h) /\ s.handle = Clean(h)
      BY <1>2
    <2>2. SameOpen(h, Clean(h)) /\ Clean(h).pos = h.pos /\ Clean(h).text = h.text
      BY <1>1, HandleChanged
    <2>3. SameOpen(fds[f], Clean(h)) /\ Clean(h).id = h.id
      BY <2>2 DEF SameOpen
    <2>4. Puts(f, Clean(h)) /\ volume' = Synced(volume, h)
      BY <2>1 DEF Puts
    <2>5. IoInv' /\ \A x \in DOMAIN fds \cap DOMAIN fds' : OffsetKept(x)
      BY <2>2, <2>3, <2>4, HandlePut
    <2>6. ASSUME h.state = "dirty", NEW q, IsFile(volume', q), volume'[q].id = h.id
          PROVE  volume'[q].data = h.text
      <3> DEFINE e == Synced(volume, h)
      <3>1. SyncedTo(volume, h, e)
        BY <1>1, SyncedFile
      <3>2. volume' = e
        BY <2>4
      <3> HIDE DEF e
      <3> QED
        BY <2>6, <3>1, <3>2 DEF SyncedTo
    <2> QED
      BY <2>2, <2>3, <2>4, <2>5, <2>6 DEF Puts
  <1>3. CASE \E x \in SyncFails(h) : s = [volume |-> volume, handle |-> [h EXCEPT !.state = x]]
    <2>1. PICK x \in {"erred", "failed"} : s = [volume |-> volume, handle |-> Put(h, x)]
      BY <1>3 DEF SyncFails, Put
    <2>2. s.volume = volume /\ s.handle = Put(h, x)
      BY <2>1
    <2>3. SameOpen(h, Put(h, x)) /\ Put(h, x).pos = h.pos /\ Put(h, x).state = x
      BY <1>1, HandleChanged
    <2>4. SameOpen(fds[f], Put(h, x))
      BY <2>3 DEF SameOpen
    <2>5. Puts(f, Put(h, x)) /\ volume' = volume
      BY <2>2 DEF Puts
    <2>6. IoInv' /\ \A y \in DOMAIN fds \cap DOMAIN fds' : OffsetKept(y)
      BY <2>3, <2>4, <2>5, HandlePut
    <2> QED
      BY <2>3, <2>5, <2>6 DEF Puts
  <1> QED
    BY <1>2, <1>3 DEF Syncs

LEMMA SyncStep ==
    ASSUME IoInv, NEW f \in DOMAIN fds, fsync(f)
    PROVE  IoInv' /\ Word
  <1>1. SameOpen(fds[f], fds[f])
    BY DEF IoInv, SameOpen
  <1>2. PICK s \in Syncs(volume, fds[f]) : fds' = [fds EXCEPT ![f] = s.handle] /\ volume' = s.volume
    BY DEF fsync
  <1>3. UNCHANGED <<setting, excused, noted>> /\ made'.call = "fsync" /\ made'.fd = f
    BY DEF fsync, Call
  <1>4. /\ IoInv' /\ \A x \in DOMAIN fds \cap DOMAIN fds' : OffsetKept(x)
        /\ fds[f].state = "dirty" =>
              \/ fds'[f].state \in {"erred", "failed"}
              \/ \A q \in DOMAIN volume' :
                    IsFile(volume', q) /\ volume'[q].id = fds'[f].id => volume'[q].data = fds'[f].text
    BY <1>1, <1>2, <1>3, SyncsSound
  <1>5. OnFlash
    BY <1>3, <1>4 DEF OnFlash
  <1> QED
    BY <1>4, <1>5 DEF Word

\* A write, synced at once where the setting says so.
LEMMA WriteStep ==
    ASSUME IoInv, NEW f \in DOMAIN fds, NEW ws, write(f, ws)
    PROVE  IoInv' /\ Word
  <1> DEFINE h == Wrote(fds[f], fds[f].pos, ws)
  <1>1. Opens(fds[f]) /\ Writable(fds[f])
    BY DEF IoInv, write
  <1>2. SameOpen(fds[f], h) /\ h.state = "dirty"
    BY <1>1, WroteSame
  <1>3. /\ IF setting.flush
           THEN \E s \in Syncs(volume, h) : fds' = [fds EXCEPT ![f] = s.handle] /\ volume' = s.volume
           ELSE fds' = [fds EXCEPT ![f] = h] /\ volume' = volume
        /\ UNCHANGED <<setting, excused, noted>>
        /\ made' = [call |-> "write", fd |-> f]
    BY DEF write, Call
  <1> HIDE DEF h
  <1>4. made'.call = "write" /\ made'.fd = f
    BY <1>3
  <1>5. CASE ~setting.flush
    <2>1. Puts(f, h) /\ volume' = volume
      BY <1>3, <1>5 DEF Puts
    <2>2. OnFlash
      BY <1>4, <1>5 DEF OnFlash
    <2> QED
      BY <1>2, <1>3, <1>4, <2>1, <2>2, HandlePut DEF Word
  <1>6. CASE setting.flush
    <2>1. PICK s \in Syncs(volume, h) : fds' = [fds EXCEPT ![f] = s.handle] /\ volume' = s.volume
      BY <1>3, <1>6
    <2>2. /\ IoInv' /\ \A x \in DOMAIN fds \cap DOMAIN fds' : OffsetKept(x)
          /\ \/ fds'[f].state \in {"erred", "failed"}
             \/ \A q \in DOMAIN volume' :
                   IsFile(volume', q) /\ volume'[q].id = fds'[f].id => volume'[q].data = fds'[f].text
      BY <1>2, <1>3, <1>4, <2>1, SyncsSound
    <2>3. OnFlash
      BY <1>4, <2>2 DEF OnFlash
    <2> QED
      BY <2>2, <2>3 DEF Word
  <1> QED
    BY <1>5, <1>6

LEMMA DescriptorStep ==
    ASSUME IoInv, NEW f \in DOMAIN fds, OnDescriptor(f)
    PROVE  IoInv' /\ Word
  <1>1. Opens(fds[f])
    BY DEF IoInv
  <1>2. CASE fsync(f)
    BY <1>2, SyncStep
  <1>3. CASE close(f)
    BY <1>3, CloseStep
  <1>4. CASE write_fails(f)
    <2> DEFINE g == Put(fds[f], "failed")
    <2>1. SameOpen(fds[f], g)
      BY <1>1, HandleChanged
    <2>2. /\ fds' = [fds EXCEPT ![f] = g] /\ Call("failed", f)
          /\ UNCHANGED <<setting, volume, excused, noted>>
      BY <1>4 DEF write_fails, Put
    <2> HIDE DEF g
    <2> QED
      BY <2>1, <2>2, CachedStep
  <1>5. ASSUME NEW w, write(f, <<w>>) PROVE IoInv' /\ Word
    BY <1>5, WriteStep
  <1>6. ASSUME NEW n, read(f, n) PROVE IoInv' /\ Word
    <2> DEFINE g == [fds[f] EXCEPT !.pos = IF @ + n > Len(fds[f].text) THEN Len(fds[f].text) ELSE @ + n]
    <2>1. SameOpen(fds[f], g)
      BY <1>1, HandleChanged
    <2>2. /\ fds' = [fds EXCEPT ![f] = g] /\ Call("read", f)
          /\ UNCHANGED <<setting, volume, excused, noted>>
      BY <1>6 DEF read
    <2> HIDE DEF g
    <2> QED
      BY <2>1, <2>2, CachedStep
  <1>7. ASSUME NEW ws, NEW o, pwrite(f, ws, o) PROVE IoInv' /\ Word
    <2> DEFINE g == Restored(Wrote(fds[f], o, ws), fds[f].pos, o)
    <2>1. /\ fds' = [fds EXCEPT ![f] = g] /\ Call("pwrite", f) /\ Writable(fds[f])
          /\ UNCHANGED <<setting, volume, excused, noted>>
      BY <1>7 DEF pwrite
    <2>2. SameOpen(fds[f], g) /\ g.pos = fds[f].pos
      BY <1>1, <2>1, WroteSame
    <2> HIDE DEF g
    <2> QED
      BY <2>1, <2>2, CachedStep
  <1>8. ASSUME NEW o, pread(f, o) PROVE IoInv' /\ Word
    <2> DEFINE k == [fds[f] EXCEPT !.pos = o]
               g == [k EXCEPT !.pos = fds[f].pos]
    <2>1. /\ fds' = [fds EXCEPT ![f] = g] /\ Call("pread", f)
          /\ UNCHANGED <<setting, volume, excused, noted>>
      BY <1>8 DEF pread, Restored
    <2>2. SameOpen(fds[f], k)
      BY <1>1, HandleChanged
    <2> HIDE DEF k
    <2>3. Opens(k) /\ SameOpen(k, g)
      <3>1. Opens(k)
        BY <2>2 DEF SameOpen
      <3> QED
        BY <3>1, HandleChanged
    <2>4. g.pos = fds[f].pos
      <3>1. k = [path |-> k.path, id |-> k.id, asked |-> k.asked, flags |-> k.flags, pos |-> k.pos,
                 strayed |-> k.strayed, text |-> k.text, state |-> k.state]
        BY <2>3 DEF Opens
      <3> QED
        BY <3>1
    <2> HIDE DEF g
    <2>5. SameOpen(fds[f], g)
      BY <2>2, <2>3 DEF SameOpen
    <2> QED
      BY <2>1, <2>4, <2>5, CachedStep
  <1>9. ASSUME NEW o, positioned_fails(f, o) PROVE IoInv' /\ Word
    <2> DEFINE g == [fds[f] EXCEPT !.state = "failed", !.pos = o]
    <2>1. SameOpen(fds[f], g)
      BY <1>1, HandleChanged
    <2>2. /\ fds' = [fds EXCEPT ![f] = g] /\ Call("failed", f)
          /\ UNCHANGED <<setting, volume, excused, noted>>
      BY <1>9 DEF positioned_fails
    <2> HIDE DEF g
    <2> QED
      BY <2>1, <2>2, CachedStep
  <1>10. ASSUME NEW n, ftruncate(f, n) PROVE IoInv' /\ Word
    <2> DEFINE g == Resized(fds[f], n)
    <2>1. /\ fds' = [fds EXCEPT ![f] = g] /\ Call("ftruncate", f) /\ Writable(fds[f])
          /\ UNCHANGED <<setting, volume, excused, noted>>
      BY <1>10 DEF ftruncate
    <2>2. SameOpen(fds[f], g) /\ g.pos = fds[f].pos
      BY <1>1, <2>1, HandleChanged
    <2> HIDE DEF g
    <2> QED
      BY <2>1, <2>2, CachedStep
  <1>11. ASSUME NEW o, NEW whence, lseek(f, o, whence) PROVE IoInv' /\ Word
    <2> DEFINE to == o + CASE whence = "SET" -> 0 [] whence = "CUR" -> fds[f].pos [] whence = "END" -> Len(fds[f].text)
               g == [fds[f] EXCEPT !.pos = to]
    <2>1. /\ fds' = [fds EXCEPT ![f] = g] /\ Call("lseek", f)
          /\ UNCHANGED <<setting, volume, excused, noted>>
      BY <1>11 DEF lseek
    <2> HIDE DEF to
    <2>2. SameOpen(fds[f], g)
      BY <1>1, HandleChanged
    <2> HIDE DEF g
    <2> QED
      BY <2>1, <2>2, CachedStep
  <1> QED
    BY <1>2, <1>3, <1>4, <1>5, <1>6, <1>7, <1>8, <1>9, <1>10, <1>11 DEF OnDescriptor

----------------------------------------------------------------------------
(* Calls on paths. *)

LEMMA PathKinds ==
    ASSUME setting \in Settings
    PROVE  /\ setting.paths \subseteq Path /\ setting.nonces \in Nat /\ setting.fds \in Nat
           /\ setting.size \in Nat
  BY IoAssumption DEF Path

\* A call that does not touch the handles.
LEMMA NoHandles ==
    ASSUME fds' = fds, NEW name, NEW x, Call(name, x), name \notin {"open", "write", "fsync"} \/ (name = "open" /\ x = Nothing)
    PROVE  Word
  BY DEF Call, Word, OffsetKept, OnFlash

\* Folders that are new are excused, or not empty.
LEMMA FoldersAdded ==
    ASSUME FoldersFollow, setting' = setting, excused \subseteq excused',
           DOMAIN volume \subseteq DOMAIN volume',
           \A q \in DOMAIN volume : IsFolder(volume', q) => IsFolder(volume, q),
           \A q \in DOMAIN volume' \ DOMAIN volume :
              IsFolder(volume', q) /\ Below(volume', q) = {} => q \in excused'
    PROVE  FoldersFollow'
  <1> SUFFICES ASSUME setting.compat, NEW q \in DOMAIN volume', IsFolder(volume', q), Below(volume', q) = {}
               PROVE  q \in excused'
    BY DEF FoldersFollow
  <1>1. CASE q \in DOMAIN volume
    <2>1. Below(volume, q) = {}
      BY DEF Below
    <2> QED
      BY <1>1, <2>1 DEF FoldersFollow
  <1> QED
    BY <1>1

LEMMA MkdirStep ==
    ASSUME IoInv, NEW p \in Path, mkdir(p)
    PROVE  IoInv' /\ Word
  <1>1. /\ volume' = Mkdir(volume, p) /\ excused' = excused \cup {p} /\ fds' = fds /\ noted' = noted
        /\ setting' = setting /\ Call("mkdir", Nothing)
    BY DEF mkdir
  <1>2. Tree(volume') /\ SameFiles(volume, volume')
    BY <1>1, MkdirTree DEF IoInv
  <1>3. FilesSound'
    BY <1>1, <1>2, FoldersChanged DEF IoInv
  <1>4. /\ DOMAIN volume \subseteq DOMAIN volume' /\ DOMAIN volume' \subseteq DOMAIN volume \cup {p}
        /\ \A q \in DOMAIN volume : volume'[q] = volume[q]
    BY <1>1 DEF Mkdir, With
  <1>5. \A q \in DOMAIN volume : IsFolder(volume', q) => IsFolder(volume, q)
    BY <1>4 DEF IsFolder
  <1>6. FoldersFollow'
    BY <1>1, <1>4, <1>5, FoldersAdded DEF IoInv
  <1> QED
    BY <1>1, <1>2, <1>3, <1>6, NoHandles DEF IoInv

LEMMA RenameFailsStep ==
    ASSUME IoInv, NEW src, NEW p \in Path, rename_fails(src, p)
    PROVE  IoInv' /\ Word
  <1>1. /\ volume' = mkdirs(volume, p) /\ excused' = excused \cup (DOMAIN volume' \ DOMAIN volume)
        /\ fds' = fds /\ noted' = noted /\ setting' = setting /\ Call("rename", Nothing)
    BY DEF rename_fails
  <1>2. /\ Tree(volume') /\ SameFiles(volume, volume')
        /\ DOMAIN volume \subseteq DOMAIN volume' /\ \A q \in DOMAIN volume : volume'[q] = volume[q]
    BY <1>1, MkdirsTree DEF IoInv
  <1>3. FilesSound'
    BY <1>1, <1>2, FoldersChanged DEF IoInv
  <1>4. \A q \in DOMAIN volume : IsFolder(volume', q) => IsFolder(volume, q)
    BY <1>2 DEF IsFolder
  <1>5. FoldersFollow'
    BY <1>1, <1>2, <1>4, FoldersAdded DEF IoInv
  <1> QED
    BY <1>1, <1>2, <1>3, <1>5, NoHandles DEF IoInv

LEMMA RmdirStep ==
    ASSUME IoInv, NEW p \in Path, rmdir(p)
    PROVE  IoInv' /\ Word
  <1>1. /\ volume' = Rmdir(volume, p) /\ volume' # volume /\ excused' = (excused \ {p}) \cup {Front(p)}
        /\ fds' = fds /\ noted' = noted /\ setting' = setting /\ Call("rmdir", Nothing)
    BY DEF rmdir
  <1>2. Tree(volume') /\ SameFiles(volume, volume')
    BY <1>1, RmdirTree DEF IoInv
  <1>3. FilesSound'
    BY <1>1, <1>2, FoldersChanged DEF IoInv
  <1>4. DOMAIN volume' = DOMAIN volume \ {p} /\ \A q \in DOMAIN volume' : volume'[q] = volume[q]
    BY <1>1 DEF Rmdir, Without
  <1>5. p \in DOMAIN volume
    <2>1. IsFolder(volume, p)
      BY <1>1 DEF Rmdir
    <2> QED
      BY <2>1, Kinds DEF Path, IoInv
  <1>6. ASSUME setting.compat, NEW q \in DOMAIN volume', IsFolder(volume', q), Below(volume', q) = {}
        PROVE  q \in excused'
    <2>1. IsFolder(volume, q) /\ q \in DOMAIN volume /\ q # p /\ q \in Path
      BY <1>2, <1>4, <1>6 DEF IsFolder, Tree
    <2>2. CASE Below(volume, q) = {}
      BY <1>1, <1>6, <2>1, <2>2 DEF IoInv, FoldersFollow
    <2>3. CASE Below(volume, q) # {}
      <3>1. PICK r \in Below(volume, q) : TRUE
        BY <2>3
      <3>2. r = p
        BY <1>4, <1>6, <3>1 DEF Below
      <3>3. q \in Above(p)
        BY <2>1, <3>1, <3>2, AboveIsPrefix DEF Below
      <3>4. CASE q = Front(p)
        BY <1>1, <3>4
      <3>5. CASE Front(p) \in Path \cap Above(p) /\ q \in Above(Front(p))
        <4>1. Front(p) \in DOMAIN volume /\ Front(p) # p
          BY <1>5, <3>5, AboveIsPrefix DEF IoInv, Tree, IsStrictPrefix
        <4>2. Front(p) \in DOMAIN volume' /\ IsStrictPrefix(q, Front(p))
          BY <1>4, <3>5, <4>1, AboveIsPrefix
        <4> QED
          BY <1>6, <4>2 DEF Below
      <3> QED
        BY <3>3, <3>4, <3>5, FrontAbove
    <2> QED
      BY <2>2, <2>3
  <1>7. FoldersFollow'
    BY <1>1, <1>6 DEF FoldersFollow
  <1> QED
    BY <1>1, <1>2, <1>3, <1>7, NoHandles DEF IoInv

LEMMA UnlinkStep ==
    ASSUME IoInv, NEW p \in Path, unlink(p)
    PROVE  IoInv' /\ Word
  <1> DEFINE d == Without(volume, {p})
  <1>1. /\ IsFile(volume, p) /\ ~get_fd_by_name(p)
        /\ volume' = rmdirs(d, p) /\ excused' = excused \cap DOMAIN volume'
        /\ fds' = fds /\ noted' = noted /\ setting' = setting /\ Call("unlink", Nothing)
    BY DEF unlink
  <1>2. Tree(d) /\ DOMAIN d = DOMAIN volume \ {p} /\ \A q \in DOMAIN volume \ {p} : d[q] = volume[q]
    BY <1>1, UnlinkTree DEF IoInv
  <1> HIDE DEF d
  <1>3. /\ Tree(volume') /\ SameFiles(d, volume')
        /\ DOMAIN volume' \subseteq DOMAIN d
        /\ \A q \in DOMAIN volume' : volume'[q] = d[q]
        /\ setting.compat =>
              \A q \in DOMAIN volume' :
                 d[q] = Folder /\ Below(volume', q) = {} => Below(d, q) = {} /\ q \notin Above(p)
    BY <1>1, <1>2, RmdirsTree
  <1>4. \A q : /\ IsFile(volume', q) <=> IsFile(volume, q) /\ q # p
               /\ IsFile(volume', q) => q \in DOMAIN volume /\ volume'[q] = volume[q]
    BY <1>2, <1>3 DEF SameFiles, IsFile
  <1>5. OneId'
    <2> SUFFICES ASSUME NEW q \in DOMAIN volume', NEW r \in DOMAIN volume',
                        IsFile(volume', q), IsFile(volume', r), volume'[q].id = volume'[r].id
                 PROVE  q = r
      BY DEF OneId
    <2> QED
      BY <1>4 DEF IoInv, FilesSound, OneId
  <1>6. PathsHold'
    BY <1>1, <1>4 DEF IoInv, FilesSound, PathsHold, fstat, get_fd_by_name
  <1>7. NoteSafe'
    <2> SUFFICES ASSUME noted # Nothing PROVE NoteSafe'
      BY <1>1 DEF NoteSafe
    <2>1. /\ noted.nonce \in Int
          /\ \A q \in DOMAIN volume : IsFile(volume, q) /\ volume[q].id = noted.id =>
                /\ volume[q].nonce >= noted.nonce
                /\ volume[q].nonce = noted.nonce => volume[q].data = noted.data
                /\ \A f \in DOMAIN fds : fds[f].id = noted.id /\ "WRONLY" \in fds[f].flags =>
                      volume[q].nonce > noted.nonce
      BY DEF IoInv, FilesSound, NoteSafe
    <2>3. ASSUME NEW q \in DOMAIN volume', IsFile(volume', q), volume'[q].id = noted.id
          PROVE  /\ volume'[q].nonce >= noted.nonce
                 /\ volume'[q].nonce = noted.nonce => volume'[q].data = noted.data
                 /\ \A f \in DOMAIN fds : fds[f].id = noted.id /\ "WRONLY" \in fds[f].flags =>
                       volume'[q].nonce > noted.nonce
      <3>1. q \in DOMAIN volume /\ volume'[q] = volume[q] /\ IsFile(volume, q)
        BY <1>4, <2>3
      <3> QED
        BY <2>1, <2>3, <3>1
    <2> QED
      BY <1>1, <2>1, <2>3 DEF NoteSafe
  <1>8. ASSUME setting.compat, NEW q \in DOMAIN volume', IsFolder(volume', q), Below(volume', q) = {}
        PROVE  q \in excused'
    <2>1. q \in Path /\ q \in DOMAIN d /\ q \in DOMAIN volume
      BY <1>2, <1>3 DEF Tree
    <2>2. volume'[q] = Folder /\ d[q] = Folder /\ volume[q] = Folder
      BY <1>2, <1>3, <1>8, <2>1, Kinds DEF Path
    <2>3. Below(d, q) = {} /\ q \notin Above(p)
      BY <1>3, <1>8, <2>2
    <2>4. Below(volume, q) = {}
      BY <1>2, <2>1, <2>3, AboveIsPrefix DEF Below
    <2>5. IsFolder(volume, q)
      BY <2>1, <2>2, Kinds DEF IsFolder
    <2> QED
      BY <1>1, <1>8, <2>1, <2>4, <2>5 DEF IoInv, FoldersFollow
  <1>9. FoldersFollow'
    BY <1>1, <1>8 DEF FoldersFollow
  <1> QED
    BY <1>1, <1>3, <1>5, <1>6, <1>7, <1>9, NoHandles DEF IoInv, FilesSound

\* What a program remembers is safe when nobody has the file open for writing.
LEMMA StatStep ==
    ASSUME IoInv, NEW p \in Path, stat(p)
    PROVE  IoInv' /\ Word
  <1>1. /\ IsFile(volume, p) /\ ~Writers(volume[p].id)
        /\ noted' = [id |-> volume[p].id, nonce |-> volume[p].nonce, data |-> volume[p].data]
        /\ setting' = setting /\ volume' = volume /\ fds' = fds /\ excused' = excused
        /\ Call("stat", Nothing)
    BY DEF stat, get_mtime
  <1>2. noted'.id = volume[p].id /\ noted'.nonce = volume[p].nonce /\ noted'.data = volume[p].data
    BY <1>1
  <1>3. volume[p].nonce \in Int /\ p \in DOMAIN volume
    BY <1>1, FileNode DEF IoInv
  <1>4. \A q \in DOMAIN volume : IsFile(volume, q) /\ volume[q].id = volume[p].id => q = p
    BY <1>1, <1>3 DEF IoInv, FilesSound, OneId
  <1>5. \A f \in DOMAIN fds : fds[f].id = volume[p].id => "WRONLY" \notin fds[f].flags
    BY <1>1 DEF Writers
  <1>6. NoteSafe'
    <2>1. ASSUME NEW q \in DOMAIN volume, IsFile(volume, q), volume[q].id = noted'.id
          PROVE  /\ volume[q].nonce >= noted'.nonce
                 /\ volume[q].nonce = noted'.nonce => volume[q].data = noted'.data
                 /\ \A f \in DOMAIN fds : fds[f].id = noted'.id /\ "WRONLY" \in fds[f].flags =>
                       volume[q].nonce > noted'.nonce
      <3>1. q = p
        BY <1>2, <1>4, <2>1
      <3> QED
        BY <1>2, <1>3, <1>5, <3>1
    <2> QED
      BY <1>1, <1>2, <1>3, <2>1 DEF NoteSafe
  <1>7. OneId' /\ PathsHold' /\ FoldersFollow'
    BY <1>1 DEF IoInv, FilesSound, OneId, PathsHold, fstat, FoldersFollow
  <1> QED
    BY <1>1, <1>6, <1>7, NoHandles DEF IoInv, FilesSound

\* A program forgets what it remembers of a file, or it remembers another.
LEMMA ForgottenIs ==
    ASSUME NEW i
    PROVE  \/ Forgotten(i) = Nothing
           \/ Forgotten(i) = noted /\ (noted # Nothing => noted.id # i)
  BY DEF Forgotten

LEMMA UtimeStep ==
    ASSUME IoInv, NEW p \in Path, utime(p, 0)
    PROVE  IoInv' /\ Word
  <1> DEFINE e == WithNonce(volume, p, 0)
  <1>1. /\ IsFile(volume, p) /\ volume' = e
        /\ setting' = setting /\ fds' = fds /\ excused' = excused
        /\ \/ noted' = Nothing
           \/ noted' = noted /\ (noted # Nothing => volume[p].id # noted.id)
        /\ Call("utime", Nothing)
    BY ForgottenIs DEF utime, WithNonce
  <1>2. 0 \in Int /\ Tree(volume)
    BY DEF IoInv
  <1>3. /\ Tree(e) /\ DOMAIN e = DOMAIN volume /\ \A q \in DOMAIN volume \ {p} : e[q] = volume[q]
        /\ e[p].id = volume[p].id
        /\ \A q : IsFile(e, q) <=> IsFile(volume, q)
        /\ \A q : IsFolder(e, q) <=> IsFolder(volume, q)
        /\ \A q : Below(e, q) = Below(volume, q)
    <2>1. NoncedTo(volume, p, 0, e)
      BY <1>1, <1>2, NonceRewritten
    <2> QED
      BY <2>1 DEF NoncedTo
  <1> HIDE DEF e
  <1>4. /\ \A q \in DOMAIN volume : volume'[q].id = volume[q].id
        /\ \A q \in DOMAIN volume : noted' # Nothing /\ volume[q].id = noted.id => volume'[q] = volume[q]
    BY <1>1, <1>3
  <1>5. OneId'
    BY <1>1, <1>3, <1>4 DEF IoInv, FilesSound, OneId
  <1>6. PathsHold'
    BY <1>1, <1>3, <1>4 DEF IoInv, FilesSound, PathsHold, fstat, IsFile
  <1>7. NoteSafe'
    <2> SUFFICES ASSUME noted' # Nothing PROVE NoteSafe'
      BY DEF NoteSafe
    <2>1. /\ noted' = noted /\ noted.nonce \in Int
          /\ \A q \in DOMAIN volume : IsFile(volume, q) /\ volume[q].id = noted.id =>
                /\ volume[q].nonce >= noted.nonce
                /\ volume[q].nonce = noted.nonce => volume[q].data = noted.data
                /\ \A f \in DOMAIN fds : fds[f].id = noted.id /\ "WRONLY" \in fds[f].flags =>
                      volume[q].nonce > noted.nonce
      BY <1>1 DEF IoInv, FilesSound, NoteSafe
    <2>2. ASSUME NEW q \in DOMAIN volume', IsFile(volume', q), volume'[q].id = noted.id
          PROVE  /\ volume'[q].nonce >= noted.nonce
                 /\ volume'[q].nonce = noted.nonce => volume'[q].data = noted.data
                 /\ \A f \in DOMAIN fds : fds[f].id = noted.id /\ "WRONLY" \in fds[f].flags =>
                       volume'[q].nonce > noted.nonce
      <3>1. q \in DOMAIN volume /\ volume[q].id = noted.id /\ IsFile(volume, q)
        BY <1>1, <1>3, <1>4, <2>2
      <3>2. volume'[q] = volume[q]
        BY <1>4, <3>1
      <3> QED
        BY <2>1, <3>1, <3>2
    <2> QED
      BY <1>1, <2>1, <2>2 DEF NoteSafe
  <1>8. FoldersFollow'
    BY <1>1, <1>3 DEF IoInv, FoldersFollow
  <1> QED
    BY <1>1, <1>3, <1>5, <1>6, <1>7, <1>8, NoHandles DEF IoInv, FilesSound

----------------------------------------------------------------------------
(* Opening. *)

LEMMA LeastFree ==
    ASSUME NEW S \in SUBSET Nat, S # {}
    PROVE  (CHOOSE f \in S : \A g \in S : f <= g) \in S
  <1> DEFINE less == OpToRel(<, Nat)
  <1>1. \E n \in S : \A k \in S : <<k, n>> \notin less
    <2>1. IsWellFoundedOn(less, Nat)
      BY NatLessThanWellFounded
    <2> HIDE DEF less
    <2> QED
      BY <2>1, WFMin
  <1>2. PICK n \in S : \A k \in S : <<k, n>> \notin less
    BY <1>1
  <1>3. ASSUME NEW k \in S PROVE n <= k
    <2>1. <<k, n>> \in Nat \X Nat /\ <<k, n>> \notin {p \in Nat \X Nat : p[1] < p[2]}
      BY <1>2, Zenon DEF OpToRel
    <2> QED
      BY <2>1
  <1> QED
    BY <1>3

LEMMA OpenedFiles ==
    ASSUME IoInv, NEW p \in Path, NEW flags, Opened(mkdirs(volume, p), p, flags) # Nothing
    PROVE  LET e == Opened(mkdirs(volume, p), p, flags)
           IN  /\ Tree(e) /\ IsFile(e, p) /\ DOMAIN volume \subseteq DOMAIN e
               /\ \A q \in DOMAIN volume : e[q] = volume[q]
               /\ \A q : IsFile(e, q) /\ q # p => IsFile(volume, q)
               /\ \A q \in DOMAIN e \ DOMAIN volume : q = p \/ q \in Above(p)
               /\ p \in DOMAIN volume => IsFile(volume, p)
               /\ p \notin DOMAIN volume =>
                     /\ \A q : IsFile(volume, q) => volume[q].id # e[p].id
                     /\ \A f \in DOMAIN fds : fds[f].id # e[p].id
                     /\ noted # Nothing => noted.id # e[p].id
  <1> DEFINE d == mkdirs(volume, p)
             e == Opened(d, p, flags)
  <1>1. /\ Tree(d) /\ DOMAIN volume \subseteq DOMAIN d
        /\ \A q : IsFile(volume, q) <=> IsFile(d, q)
        /\ \A q \in DOMAIN volume : d[q] = volume[q]
        /\ \A q \in DOMAIN d \ DOMAIN volume : q \in Above(p)
    BY MkdirsTree DEF IoInv, SameFiles
  <1>2. e # Nothing
    OBVIOUS
  <1> HIDE DEF d
  <1>3. /\ Tree(e) /\ IsFile(e, p) /\ DOMAIN e = DOMAIN d \cup {p}
        /\ \A q \in DOMAIN d : e[q] = d[q]
        /\ e = d \/ (p \notin DOMAIN d /\ e[p].id \in FreshIds(d))
    BY <1>1, <1>2, OpenedTree
  <1> HIDE DEF e
  <1>4. \A q : IsFile(e, q) /\ q # p => IsFile(volume, q)
    BY <1>1, <1>3 DEF IsFile
  <1>5. p \in DOMAIN volume => IsFile(volume, p)
    BY <1>1, <1>3 DEF IsFile
  <1>6. ASSUME p \notin DOMAIN volume
        PROVE  /\ \A q : IsFile(volume, q) => volume[q].id # e[p].id
               /\ \A f \in DOMAIN fds : fds[f].id # e[p].id
               /\ noted # Nothing => noted.id # e[p].id
    <2>1. ~IsFile(volume, p) /\ ~IsFile(d, p)
      BY <1>1, <1>6 DEF IsFile
    <2>2. e[p].id \in FreshIds(d)
      BY <1>3, <2>1
    <2>3. \A q \in DOMAIN d : IsFile(d, q) => d[q].id # e[p].id
      BY <2>2 DEF FreshIds
    <2>4. \A f \in DOMAIN fds : fds[f].id # e[p].id
      BY <2>2 DEF FreshIds
    <2>5. noted # Nothing => noted.id # e[p].id
      BY <2>2 DEF FreshIds
    <2>6. \A q : IsFile(volume, q) => q \in DOMAIN volume
      BY DEF IsFile
    <2> QED
      BY <1>1, <2>3, <2>4, <2>5, <2>6
  <1>7. DOMAIN volume \subseteq DOMAIN e /\ \A q \in DOMAIN volume : e[q] = volume[q]
    BY <1>1, <1>3
  <1>8. \A q \in DOMAIN e \ DOMAIN volume : q = p \/ q \in Above(p)
    BY <1>1, <1>3
  <1> QED
    BY <1>3, <1>4, <1>5, <1>6, <1>7, <1>8 DEF e, d

\* What an open may do to the files, and to the table.
LEMMA OpenedSound ==
    ASSUME IoInv, NEW p \in Path, Tree(volume'), noted' \in {noted, Nothing},
           \A q : IsFile(volume, q) => IsFile(volume', q),
           \A q : IsFile(volume', q) /\ q # p => IsFile(volume, q) /\ volume'[q] = volume[q],
           IsFile(volume, p) => volume'[p].id = volume[p].id,
           ~IsFile(volume, p) =>
              /\ \A q : IsFile(volume, q) => volume[q].id # volume'[p].id
              /\ \A f \in DOMAIN fds : fds[f].id # volume'[p].id
              /\ noted # Nothing => noted.id # volume'[p].id,
           noted' # Nothing /\ IsFile(volume, p) /\ volume[p].id = noted.id =>
              \/ volume'[p].nonce > volume[p].nonce
              \/ volume'[p].nonce = volume[p].nonce /\ volume'[p].data = volume[p].data,
           \A f \in DOMAIN fds' :
              \/ f \in DOMAIN fds /\ fds'[f] = fds[f]
              \/ /\ IsFile(volume', p) /\ fds'[f].path = p /\ fds'[f].id = volume'[p].id
                 /\ noted' # Nothing /\ "WRONLY" \in fds'[f].flags /\ IsFile(volume, p)
                    /\ volume[p].id = noted.id => volume'[p].nonce > volume[p].nonce
    PROVE  FilesSound'
  <1>1. OneId'
    <2> SUFFICES ASSUME NEW q \in DOMAIN volume', NEW r \in DOMAIN volume',
                        IsFile(volume', q), IsFile(volume', r), volume'[q].id = volume'[r].id
                 PROVE  q = r
      BY DEF OneId
    <2>1. \A x, y : IsFile(volume, x) /\ IsFile(volume, y) /\ volume[x].id = volume[y].id => x = y
      BY DEF IoInv, FilesSound, OneId, IsFile
    <2>2. CASE q # p /\ r # p
      BY <2>1, <2>2
    <2>3. CASE q = p \/ r = p
      BY <2>1, <2>3
    <2> QED
      BY <2>2, <2>3
  <1>2. PathsHold'
    <2> SUFFICES ASSUME NEW f \in DOMAIN fds', ~fds'[f].strayed
                 PROVE  IsFile(volume', fds'[f].path) /\ volume'[fds'[f].path].id = fds'[f].id
      BY DEF PathsHold, fstat
    <2>1. \A g \in DOMAIN fds : ~fds[g].strayed => IsFile(volume, fds[g].path) /\ volume[fds[g].path].id = fds[g].id
      BY DEF IoInv, FilesSound, PathsHold, fstat
    <2> QED
      BY <2>1
  <1>3. NoteSafe'
    <2> SUFFICES ASSUME noted' # Nothing PROVE NoteSafe'
      BY DEF NoteSafe
    <2>1. /\ noted' = noted /\ noted.nonce \in Int
          /\ \A q \in DOMAIN volume : IsFile(volume, q) /\ volume[q].id = noted.id =>
                /\ volume[q].nonce >= noted.nonce
                /\ volume[q].nonce = noted.nonce => volume[q].data = noted.data
                /\ \A f \in DOMAIN fds : fds[f].id = noted.id /\ "WRONLY" \in fds[f].flags =>
                      volume[q].nonce > noted.nonce
      BY DEF IoInv, FilesSound, NoteSafe
    <2>2. ASSUME NEW q \in DOMAIN volume', IsFile(volume', q), volume'[q].id = noted.id
          PROVE  /\ volume'[q].nonce >= noted.nonce
                 /\ volume'[q].nonce = noted.nonce => volume'[q].data = noted.data
                 /\ \A f \in DOMAIN fds' : fds'[f].id = noted.id /\ "WRONLY" \in fds'[f].flags =>
                       volume'[q].nonce > noted.nonce
      <3>1. volume'[q].nonce \in Int
        BY <2>2, FileNode
      <3>2. CASE q # p
        <4>1. IsFile(volume, q) /\ volume'[q] = volume[q] /\ q \in DOMAIN volume
          BY <2>2, <3>2 DEF IsFile
        <4>2. ASSUME NEW f \in DOMAIN fds', fds'[f].id = noted.id PROVE f \in DOMAIN fds /\ fds'[f] = fds[f]
          <5>1. ~(IsFile(volume', p) /\ volume'[p].id = noted.id)
            BY <1>1, <2>2, <3>2 DEF OneId, IsFile
          <5> QED
            BY <4>2, <5>1
        <4> QED
          BY <2>1, <2>2, <4>1, <4>2
      <3>3. CASE q = p
        <4>1. IsFile(volume, p) /\ volume[p].id = noted.id
          BY <2>2, <3>3
        <4>2. p \in DOMAIN volume /\ volume[p].nonce \in Int
          BY <4>1, FileNode DEF IoInv
        <4>3. volume[p].nonce >= noted.nonce /\ volume'[p].nonce >= volume[p].nonce
          BY <2>1, <3>1, <3>3, <4>1, <4>2
        <4>4. volume'[p].nonce = noted.nonce => volume'[p].data = noted.data
          BY <2>1, <3>1, <3>3, <4>1, <4>2, <4>3
        <4>5. ASSUME NEW f \in DOMAIN fds', fds'[f].id = noted.id, "WRONLY" \in fds'[f].flags
              PROVE  volume'[p].nonce > noted.nonce
          <5>1. CASE f \in DOMAIN fds /\ fds'[f] = fds[f]
            <6>1. volume[p].nonce > noted.nonce
              BY <2>1, <4>1, <4>2, <4>5, <5>1
            <6> QED
              BY <2>1, <3>1, <3>3, <4>2, <4>3, <6>1
          <5>2. CASE noted' # Nothing /\ "WRONLY" \in fds'[f].flags /\ IsFile(volume, p)
                        /\ volume[p].id = noted.id => volume'[p].nonce > volume[p].nonce
            BY <2>1, <3>1, <3>3, <4>1, <4>2, <4>3, <4>5, <5>2
          <5> QED
            BY <5>1, <5>2
        <4> QED
          BY <2>1, <3>1, <3>3, <4>2, <4>3, <4>4, <4>5
      <3> QED
        BY <3>2, <3>3
    <2> QED
      BY <2>1, <2>2 DEF NoteSafe
  <1> QED
    BY <1>1, <1>2, <1>3 DEF FilesSound

\* A handle that has been made, and what becomes of it with the first sync.
Made(h, p, i, m, text, state) ==
    /\ h.id = i /\ h.state = state /\ h.text = text
    /\ \A g \in {Clean(h), Put(h, "erred"), Put(h, "failed")} :
          Opens(g) /\ g.path = p /\ g.id = i /\ g.flags = flags_conv(m) /\ g.text = text
    /\ \A x \in {"erred", "failed"} : Put(h, x).state = x

LEMMA HandleMade ==
    ASSUME NEW p, NEW i, NEW m, NEW k, NEW b, NEW text, NEW state \in {"clean", "dirty"}, NEW h,
           h = [path |-> p, id |-> i, asked |-> m, flags |-> flags_conv(m), pos |-> k,
                strayed |-> b, text |-> text, state |-> state]
    PROVE  Made(h, p, i, m, text, state)
  <1> DEFINE flags == flags_conv(m)
             r(x) == [path |-> p, id |-> i, asked |-> m, flags |-> flags, pos |-> k,
                      strayed |-> b, text |-> text, state |-> x]
  <1>1. h.id = i /\ h.state = state /\ h.text = text
    OBVIOUS
  <1>2. \A x \in {"clean", "erred", "failed"} :
           Opens(r(x)) /\ r(x).path = p /\ r(x).id = i /\ r(x).flags = flags /\ r(x).text = text
    BY DEF Opens, States
  <1> HIDE DEF flags
  <1>3. ASSUME NEW x PROVE Put(h, x) = r(x) /\ r(x).state = x
    BY DEF Put, flags
  <1>4. Clean(h) = r("clean")
    <2>1. CASE state = "dirty"
      BY <1>1, <1>3, <2>1 DEF Clean, Put
    <2>2. CASE state = "clean"
      BY <1>1, <1>3, <2>2 DEF Clean, Put
    <2> QED
      BY <2>1, <2>2
  <1> HIDE DEF r
  <1> QED
    BY <1>1, <1>2, <1>3, <1>4 DEF flags, Made

\* The handle of a file that is opened, and the flags it is opened with.
LEMMA HandleOpened ==
    ASSUME NEW d, NEW p, NEW m, NEW h, h = Handle(d, p, m, flags_conv(m))
    PROVE  /\ h.id = d[p].id
           /\ h.state = IF "TRUNC" \in flags_conv(m) THEN "dirty" ELSE "clean"
           /\ h.text = IF "TRUNC" \in flags_conv(m) THEN <<>> ELSE d[p].data
           /\ \A g \in {Clean(h), Put(h, "erred"), Put(h, "failed")} :
                 Opens(g) /\ g.path = p /\ g.id = d[p].id /\ g.flags = flags_conv(m) /\ g.text = h.text
           /\ \A x \in {"erred", "failed"} : Put(h, x).state = x
  <1> DEFINE text == IF "TRUNC" \in flags_conv(m) THEN <<>> ELSE d[p].data
             state == IF "TRUNC" \in flags_conv(m) THEN "dirty" ELSE "clean"
             i == d[p].id
             k == 0
             b == FALSE
  <1>1. h = [path |-> p, id |-> i, asked |-> m, flags |-> flags_conv(m), pos |-> k,
             strayed |-> b, text |-> text, state |-> state]
    BY DEF Handle
  <1>2. state \in {"clean", "dirty"}
    OBVIOUS
  <1> HIDE DEF text, state, i, k, b
  <1>3. Made(h, p, i, m, text, state)
    BY <1>1, <1>2, HandleMade
  <1> QED
    BY <1>3 DEF Made, text, state, i

\* A volume in which the file of path p has been changed in place.
Redone(d, p, e) ==
    /\ Tree(e) /\ DOMAIN e = DOMAIN d
    /\ \A q : IsFile(e, q) <=> IsFile(d, q)
    /\ \A q : IsFolder(e, q) <=> IsFolder(d, q)
    /\ \A q : Below(e, q) = Below(d, q)
    /\ \A q : IsFile(d, q) /\ q # p => e[q] = d[q]
    /\ e[p].id = d[p].id

\* The sync of a file that has just been opened.
LEMMA OpenedSynced ==
    ASSUME NEW d, Tree(d), NEW p, IsFile(d, p),
           \A q \in DOMAIN d : IsFile(d, q) /\ d[q].id = d[p].id => q = p,
           NEW m, NEW h, h = Handle(d, p, m, flags_conv(m)), NEW s \in Syncs(d, h)
    PROVE  LET e == s.volume
               g == s.handle
           IN  /\ Redone(d, p, e) /\ e[p].nonce = d[p].nonce
               /\ "TRUNC" \notin flags_conv(m) => e[p].data = d[p].data
               /\ Opens(g) /\ g.path = p /\ g.id = d[p].id /\ g.flags = flags_conv(m)
               /\ g.state \in {"erred", "failed"} \/ e[p].data = g.text
  <1> DEFINE e == Synced(d, h)
             flags == flags_conv(m)
  <1>1. /\ h.id = d[p].id
        /\ h.state = IF "TRUNC" \in flags THEN "dirty" ELSE "clean"
        /\ h.text = IF "TRUNC" \in flags THEN <<>> ELSE d[p].data
        /\ \A g \in {Clean(h), Put(h, "erred"), Put(h, "failed")} :
              Opens(g) /\ g.path = p /\ g.id = d[p].id /\ g.flags = flags /\ g.text = h.text
        /\ \A x \in {"erred", "failed"} : Put(h, x).state = x
    BY HandleOpened
  <1>2. CASE s = [volume |-> e, handle |-> Clean(h)]
    <2>1. s.volume = e /\ s.handle = Clean(h)
      BY <1>2
    <2>2. SyncedTo(d, h, e)
      BY SyncedFile
    <2> HIDE DEF e
    <2>3. h.state # "dirty" => e[p] = d[p]
      BY <2>2 DEF IsFile, SyncedTo
    <2>4. p \in DOMAIN d /\ \A q : IsFile(d, q) => q \in DOMAIN d
      BY DEF IsFile
    <2>5. Redone(d, p, e) /\ e[p].nonce = d[p].nonce
      BY <1>1, <2>2, <2>4 DEF Redone, SyncedTo
    <2>6. e[p].data = h.text
      BY <1>1, <2>2, <2>3 DEF SyncedTo
    <2> QED
      BY <1>1, <2>1, <2>3, <2>5, <2>6
  <1>3. CASE \E x \in SyncFails(h) : s = [volume |-> d, handle |-> [h EXCEPT !.state = x]]
    <2>1. PICK x \in {"erred", "failed"} : s = [volume |-> d, handle |-> Put(h, x)]
      BY <1>3 DEF SyncFails, Put
    <2>2. s.volume = d /\ s.handle = Put(h, x)
      BY <2>1
    <2>3. Redone(d, p, d)
      BY DEF Redone
    <2> QED
      BY <1>1, <2>2, <2>3
  <1> QED
    BY <1>2, <1>3 DEF Syncs

\* The volume after an open, from what lfs_file_open has left: the nonce has gone up,
\* or the file was opened for reading, or the nonce could not be written.
LEMMA OpenedVolume ==
    ASSUME setting.nonces \in Nat, NEW d, Tree(d), NEW p, IsFile(d, p), NEW flags,
           NEW v, Redone(d, p, v), v[p].nonce = d[p].nonce, "TRUNC" \notin flags => v[p].data = d[p].data,
           NEW e \in Marked(v, p, flags)
    PROVE  /\ Redone(d, p, e) /\ e[p].data = v[p].data
           /\ \/ e[p].nonce > d[p].nonce
              \/ "WRONLY" \notin flags /\ e[p].nonce = d[p].nonce /\ e[p].data = d[p].data
  <1>1. p \in DOMAIN d /\ d[p].nonce \in Int
    BY FileNode
  <1>2. CASE flags = {"RDONLY"}
    <2>1. e = v /\ v[p].data = d[p].data /\ "WRONLY" \notin flags
      BY <1>2 DEF Marked
    <2> QED
      BY <2>1
  <1>3. CASE flags # {"RDONLY"}
    <2>1. PICK n \in Touched(v[p].nonce) : e = [v EXCEPT ![p].nonce = n]
      BY <1>3 DEF Marked
    <2>2. n \in Int /\ n > d[p].nonce
      BY <1>1, <2>1, TouchedUp
    <2>3. Tree(v) /\ IsFile(v, p) /\ e = WithNonce(v, p, n)
      BY <2>1 DEF WithNonce, Redone
    <2>4. /\ Tree(e) /\ DOMAIN e = DOMAIN v /\ \A q \in DOMAIN v \ {p} : e[q] = v[q]
          /\ e[p].data = v[p].data /\ e[p].nonce = n /\ e[p].id = v[p].id
          /\ \A q : IsFile(e, q) <=> IsFile(v, q)
          /\ \A q : IsFolder(e, q) <=> IsFolder(v, q)
          /\ \A q : Below(e, q) = Below(v, q)
      <3>1. NoncedTo(v, p, n, WithNonce(v, p, n))
        BY <2>2, <2>3, NonceRewritten
      <3> QED
        BY <2>3, <3>1 DEF NoncedTo
    <2>5. \A q : IsFile(d, q) => q \in DOMAIN d
      BY DEF IsFile
    <2> QED
      BY <2>2, <2>4, <2>5 DEF Redone
  <1> QED
    BY <1>2, <1>3

LEMMA OpenStep ==
    ASSUME IoInv, NEW p \in Path, NEW m, open(p, m)
    PROVE  IoInv' /\ Word
  <1> DEFINE flags == flags_conv(m)
             after == Opened(mkdirs(volume, p), p, flags)
             h == Handle(after, p, m, flags)
             f == CHOOSE f \in FreeDescriptors : \A g \in FreeDescriptors : f <= g
  <1>1. /\ FreeDescriptors # {} /\ after # Nothing
        /\ \E s \in Syncs(after, h) :
              /\ fds' = With(fds, f, s.handle)
              /\ \/ volume' \in Marked(s.volume, p, flags) /\ noted' = noted
                 \/ volume' = s.volume /\ noted' = Forgotten(after[p].id)
        /\ made' = [call |-> "open", fd |-> f]
        /\ setting' = setting /\ excused' = excused
    BY DEF open, Call
  <1>2. f \in Nat /\ f \notin DOMAIN fds
    <2>1. FreeDescriptors \in SUBSET Nat
      BY PathKinds DEF IoInv, FreeDescriptors
    <2>2. f \in FreeDescriptors
      BY <1>1, <2>1, LeastFree
    <2> QED
      BY <2>1, <2>2 DEF FreeDescriptors
  <1> HIDE DEF f
  <1>3. /\ Tree(after) /\ IsFile(after, p) /\ DOMAIN volume \subseteq DOMAIN after
        /\ \A q \in DOMAIN volume : after[q] = volume[q]
        /\ \A q : IsFile(after, q) /\ q # p => IsFile(volume, q)
        /\ \A q \in DOMAIN after \ DOMAIN volume : q = p \/ q \in Above(p)
        /\ p \in DOMAIN volume => IsFile(volume, p)
        /\ p \notin DOMAIN volume =>
              /\ \A q : IsFile(volume, q) => volume[q].id # after[p].id
              /\ \A x \in DOMAIN fds : fds[x].id # after[p].id
              /\ noted # Nothing => noted.id # after[p].id
    BY <1>1, OpenedFiles
  <1> HIDE DEF after
  <1>4. \A q : IsFile(volume, q) => q \in DOMAIN volume /\ IsFile(after, q) /\ after[q] = volume[q]
    BY <1>3 DEF IsFile
  <1>5. ASSUME NEW q, IsFile(after, q), after[q].id = after[p].id PROVE q = p
    <2> SUFFICES ASSUME q # p PROVE FALSE
      OBVIOUS
    <2>1. IsFile(volume, q) /\ volume[q].id = after[p].id
      BY <1>3, <1>4, <1>5
    <2>2. IsFile(volume, p) /\ volume[p].id = after[p].id
      BY <1>3, <1>4, <2>1
    <2> QED
      BY <1>4, <2>1, <2>2 DEF IoInv, FilesSound, OneId
  <1>6. PICK s \in Syncs(after, h) :
           /\ fds' = With(fds, f, s.handle)
           /\ \/ volume' \in Marked(s.volume, p, flags) /\ noted' = noted
              \/ volume' = s.volume /\ noted' = Forgotten(after[p].id)
    BY <1>1
  <1> DEFINE g == s.handle
             v == s.volume
  <1>7. /\ Redone(after, p, v) /\ v[p].nonce = after[p].nonce
        /\ "TRUNC" \notin flags => v[p].data = after[p].data
        /\ Opens(g) /\ g.path = p /\ g.id = after[p].id /\ g.flags = flags
        /\ g.state \in {"erred", "failed"} \/ v[p].data = g.text
    BY <1>3, <1>5, OpenedSynced
  <1>8. fds' = With(fds, f, g)
    BY <1>6
  <1>9. \/ volume' \in Marked(v, p, flags) /\ noted' = noted
        \/ volume' = v /\ noted' = Forgotten(after[p].id)
    BY <1>6
  <1> HIDE DEF h, flags, g, v
  \* Either the nonce has gone up, or it could not be written and is forgotten.
  <1>10. /\ Redone(after, p, volume') /\ volume'[p].data = v[p].data
         /\ noted' \in {noted, Nothing}
         /\ noted' # Nothing /\ noted.id = after[p].id =>
               \/ volume'[p].nonce > after[p].nonce
               \/ "WRONLY" \notin flags /\ volume'[p].nonce = after[p].nonce /\ volume'[p].data = after[p].data
    <2>1. CASE volume' \in Marked(v, p, flags) /\ noted' = noted
      <3>1. setting.nonces \in Nat
        BY PathKinds DEF IoInv
      <3>2. /\ Redone(after, p, volume') /\ volume'[p].data = v[p].data
            /\ \/ volume'[p].nonce > after[p].nonce
               \/ "WRONLY" \notin flags /\ volume'[p].nonce = after[p].nonce /\ volume'[p].data = after[p].data
        BY <1>3, <1>7, <2>1, <3>1, OpenedVolume
      <3> QED
        BY <2>1, <3>2
    <2>2. CASE volume' = v /\ noted' = Forgotten(after[p].id)
      BY <1>7, <2>2, ForgottenIs
    <2> QED
      BY <1>9, <2>1, <2>2
  <1>11. /\ Tree(volume') /\ DOMAIN volume' = DOMAIN after
         /\ \A q : IsFile(volume', q) <=> IsFile(after, q)
         /\ \A q : IsFolder(volume', q) <=> IsFolder(after, q)
         /\ \A q : Below(volume', q) = Below(after, q)
         /\ \A q : IsFile(after, q) /\ q # p => volume'[q] = after[q]
         /\ volume'[p].id = after[p].id
    BY <1>10 DEF Redone
  <1>12. DOMAIN fds' = DOMAIN fds \cup {f} /\ fds'[f] = g /\ \A x \in DOMAIN fds : fds'[x] = fds[x]
    BY <1>2, <1>8 DEF With
  <1>13. FilesSound'
    <2>1. \A q : IsFile(volume, q) => IsFile(volume', q)
      BY <1>4, <1>11
    <2>2. \A q : IsFile(volume', q) /\ q # p => IsFile(volume, q) /\ volume'[q] = volume[q]
      BY <1>3, <1>4, <1>11
    <2>3. IsFile(volume, p) => volume'[p].id = volume[p].id
      BY <1>4, <1>11
    <2>4. ~IsFile(volume, p) =>
              /\ \A q : IsFile(volume, q) => volume[q].id # volume'[p].id
              /\ \A x \in DOMAIN fds : fds[x].id # volume'[p].id
              /\ noted # Nothing => noted.id # volume'[p].id
      BY <1>3, <1>11
    <2>5. noted' # Nothing /\ IsFile(volume, p) /\ volume[p].id = noted.id =>
              \/ volume'[p].nonce > volume[p].nonce
              \/ volume'[p].nonce = volume[p].nonce /\ volume'[p].data = volume[p].data
      BY <1>4, <1>10
    <2>6. \A x \in DOMAIN fds' :
              \/ x \in DOMAIN fds /\ fds'[x] = fds[x]
              \/ /\ IsFile(volume', p) /\ fds'[x].path = p /\ fds'[x].id = volume'[p].id
                 /\ noted' # Nothing /\ "WRONLY" \in fds'[x].flags /\ IsFile(volume, p)
                    /\ volume[p].id = noted.id => volume'[p].nonce > volume[p].nonce
      BY <1>3, <1>4, <1>7, <1>10, <1>11, <1>12
    <2> QED
      BY <1>10, <1>11, <2>1, <2>2, <2>3, <2>4, <2>5, <2>6, OpenedSound
  <1>14. FoldersFollow'
    <2>1. \A q \in DOMAIN volume : IsFolder(volume', q) => IsFolder(volume, q)
      BY <1>3, <1>11 DEF IsFolder
    <2>2. ASSUME NEW q \in DOMAIN volume' \ DOMAIN volume, IsFolder(volume', q), Below(volume', q) = {}
          PROVE  q \in excused'
      <3>1. q # p
        BY <1>3, <1>11, <2>2, Kinds DEF IoInv, Tree, Path
      <3>2. IsStrictPrefix(q, p) /\ p \in DOMAIN volume'
        BY <1>3, <1>11, <2>2, <3>1, AboveIsPrefix DEF IsFile
      <3> QED
        BY <2>2, <3>2 DEF Below
    <2>3. FoldersFollow /\ DOMAIN volume \subseteq DOMAIN volume' /\ excused \subseteq excused'
      BY <1>1, <1>3, <1>11 DEF IoInv
    <2> QED
      BY <1>1, <2>1, <2>2, <2>3, FoldersAdded
  <1>15. Word
    <2>1. made'.call = "open" /\ made'.fd = f
      BY <1>1
    <2>2. ASSUME g.state \notin {"erred", "failed"}, NEW q, IsFile(volume', q), volume'[q].id = g.id
          PROVE  volume'[q].data = g.text
      <3>1. q = p
        BY <1>5, <1>7, <1>11, <2>2
      <3> QED
        BY <1>7, <1>10, <2>2, <3>1
    <2>3. OnFlash
      BY <1>12, <2>1, <2>2 DEF OnFlash
    <2> QED
      BY <1>12, <2>3 DEF Word, OffsetKept
  <1>16. DOMAIN fds' \subseteq Nat /\ \A x \in DOMAIN fds' : Opens(fds'[x])
    BY <1>2, <1>7, <1>12 DEF IoInv
  <1> QED
    BY <1>1, <1>11, <1>13, <1>14, <1>15, <1>16 DEF IoInv

\* An open that fails may leave an empty file.
LEMMA OpenFailsStep ==
    ASSUME IoInv, NEW p \in Path, NEW m, open_fails(p, m)
    PROVE  IoInv' /\ Word
  <1> DEFINE before == mkdirs(volume, p)
             after == Opened(before, p, flags_conv(m))
  <1>1. /\ volume' = before \/ (after # Nothing /\ p \notin DOMAIN volume /\ volume' = after)
        /\ excused' = excused \cup (Above(p) \ DOMAIN volume)
        /\ fds' = fds /\ noted' = noted /\ setting' = setting /\ Call("open", Nothing)
    BY DEF open_fails
  <1>2. /\ Tree(before) /\ SameFiles(volume, before)
        /\ DOMAIN volume \subseteq DOMAIN before /\ \A q \in DOMAIN volume : before[q] = volume[q]
        /\ \A q \in DOMAIN before \ DOMAIN volume : q \in Above(p)
    BY MkdirsTree DEF IoInv
  <1>3. after # Nothing =>
           /\ Tree(after) /\ IsFile(after, p) /\ DOMAIN volume \subseteq DOMAIN after
           /\ \A q \in DOMAIN volume : after[q] = volume[q]
           /\ \A q : IsFile(after, q) /\ q # p => IsFile(volume, q)
           /\ \A q \in DOMAIN after \ DOMAIN volume : q = p \/ q \in Above(p)
           /\ p \notin DOMAIN volume =>
                 /\ \A q : IsFile(volume, q) => volume[q].id # after[p].id
                 /\ \A x \in DOMAIN fds : fds[x].id # after[p].id
                 /\ noted # Nothing => noted.id # after[p].id
    BY OpenedFiles
  <1> HIDE DEF before, after
  <1>4. /\ Tree(volume') /\ DOMAIN volume \subseteq DOMAIN volume'
        /\ \A q \in DOMAIN volume : volume'[q] = volume[q]
        /\ \A q \in DOMAIN volume' \ DOMAIN volume : IsFile(volume', q) \/ q \in Above(p)
    BY <1>1, <1>2, <1>3
  <1>5. FilesSound'
    <2>1. CASE volume' = before
      BY <1>1, <1>2, <2>1, FoldersChanged DEF IoInv
    <2>2. CASE after # Nothing /\ p \notin DOMAIN volume /\ volume' = after
      <3>1. \A q : IsFile(volume, q) => IsFile(volume', q) /\ q \in DOMAIN volume /\ volume'[q] = volume[q]
        BY <1>3, <2>2 DEF IsFile
      <3>2. \A q : IsFile(volume', q) /\ q # p => IsFile(volume, q) /\ volume'[q] = volume[q]
        BY <1>3, <2>2, <3>1
      <3>3. ~IsFile(volume, p)
        BY <2>2 DEF IsFile
      <3>5. /\ \A q : IsFile(volume, q) => volume[q].id # volume'[p].id
            /\ \A x \in DOMAIN fds : fds[x].id # volume'[p].id
            /\ noted # Nothing => noted.id # volume'[p].id
        BY <1>3, <2>2
      <3>6. \A x \in DOMAIN fds' : x \in DOMAIN fds /\ fds'[x] = fds[x]
        BY <1>1
      <3> QED
        BY <1>1, <1>4, <3>1, <3>2, <3>3, <3>5, <3>6, OpenedSound
    <2> QED
      BY <1>1, <2>1, <2>2
  <1>6. FoldersFollow'
    <2>1. \A q \in DOMAIN volume : IsFolder(volume', q) => IsFolder(volume, q)
      BY <1>4 DEF IsFolder
    <2>2. ASSUME NEW q \in DOMAIN volume' \ DOMAIN volume, IsFolder(volume', q) PROVE q \in excused'
      <3>1. ~IsFile(volume', q)
        BY <1>4, <2>2, Kinds DEF Tree, Path
      <3> QED
        BY <1>1, <1>4, <3>1
    <2> QED
      BY <1>1, <1>4, <2>1, <2>2, FoldersAdded DEF IoInv
  <1> QED
    BY <1>1, <1>4, <1>5, <1>6, NoHandles DEF IoInv

----------------------------------------------------------------------------
(* Renaming. *)

\* Every file that is there after a rename was there before, and no two of them
\* were one.
LEMMA RenamedFiles ==
    ASSUME NEW d, Tree(d), NEW src \in Path, NEW dst \in Path, NEW e, Tree(e),
           \A q \in DOMAIN e :
              \/ /\ IsPrefix(dst, q) /\ IsPrefix(src, Moved(dst, src, q))
                 /\ Moved(dst, src, q) \in DOMAIN d /\ e[q] = d[Moved(dst, src, q)]
              \/ ~IsPrefix(dst, q) /\ ~IsPrefix(src, q) /\ q \in DOMAIN d /\ e[q] = d[q]
    PROVE  /\ \A q : IsFile(e, q) => \E o \in DOMAIN d : IsFile(d, o) /\ d[o] = e[q]
           /\ (\A q, r \in DOMAIN d : IsFile(d, q) /\ IsFile(d, r) /\ d[q].id = d[r].id => q = r)
                 => \A q, r \in DOMAIN e : IsFile(e, q) /\ IsFile(e, r) /\ e[q].id = e[r].id => q = r
  <1> DEFINE from(q) == IF IsPrefix(dst, q) THEN Moved(dst, src, q) ELSE q
  <1>1. ASSUME NEW q, IsFile(e, q)
        PROVE  /\ from(q) \in DOMAIN d /\ IsFile(d, from(q)) /\ d[from(q)] = e[q]
               /\ IsPrefix(src, from(q)) <=> IsPrefix(dst, q)
               /\ q \in DOMAIN e /\ q \in Path
    BY <1>1 DEF IsFile, Tree
  <1>2. ASSUME NEW q \in Path, NEW r \in Path, from(q) = from(r), IsPrefix(dst, q), IsPrefix(dst, r)
        PROVE  q = r
    <2>1. Moved(src, dst, Moved(dst, src, q)) = q /\ Moved(src, dst, Moved(dst, src, r)) = r
      BY <1>2, MovedBack
    <2> QED
      BY <1>2, <2>1
  <1>3. ASSUME NEW q, NEW r, IsFile(e, q), IsFile(e, r), from(q) = from(r)
        PROVE  q = r
    <2>1. IsPrefix(dst, q) <=> IsPrefix(dst, r)
      BY <1>1, <1>3
    <2>2. CASE IsPrefix(dst, q)
      BY <1>1, <1>2, <1>3, <2>1, <2>2
    <2>3. CASE ~IsPrefix(dst, q)
      BY <1>3, <2>1, <2>3
    <2> QED
      BY <2>2, <2>3
  <1> HIDE DEF from
  <1>4. ASSUME \A q, r \in DOMAIN d : IsFile(d, q) /\ IsFile(d, r) /\ d[q].id = d[r].id => q = r,
               NEW q, NEW r, IsFile(e, q), IsFile(e, r), e[q].id = e[r].id
        PROVE  q = r
    <2>1. /\ from(q) \in DOMAIN d /\ IsFile(d, from(q)) /\ d[from(q)] = e[q]
          /\ from(r) \in DOMAIN d /\ IsFile(d, from(r)) /\ d[from(r)] = e[r]
      BY <1>1, <1>4
    <2>2. from(q) = from(r)
      BY <1>4, <2>1
    <2> QED
      BY <1>3, <1>4, <2>2
  <1> QED
    BY <1>1, <1>4

LEMMA RenameStep ==
    ASSUME IoInv, NEW src \in Path, NEW dst \in Path, rename(src, dst)
    PROVE  IoInv' /\ Word
  <1> DEFINE before == mkdirs(volume, dst)
             after == Renamed(before, src, dst)
  <1>1. /\ ~IsPrefix(src, dst) /\ ~IsPrefix(dst, src)
        /\ ~get_fd_by_name(src) /\ ~get_fd_by_name(dst)
        /\ after # Nothing
        /\ volume' = rmdirs(after, src)
        /\ fds' = [f \in DOMAIN fds |-> Strays(fds[f], fds[f].strayed \/ IsStrictPrefix(src, fds[f].path))]
        /\ excused' = (excused \cap DOMAIN volume') \cup
              {q \in DOMAIN volume' : IsPrefix(dst, q) /\ Moved(dst, src, q) \in excused}
        /\ setting' = setting /\ noted' = noted /\ Call("rename", Nothing)
    BY DEF rename, Strays
  <1>2. /\ Tree(before) /\ SameFiles(volume, before)
        /\ DOMAIN volume \subseteq DOMAIN before /\ \A q \in DOMAIN volume : before[q] = volume[q]
        /\ \A q \in DOMAIN before \ DOMAIN volume : q \in Above(dst) /\ before[q] = Folder
    BY MkdirsTree DEF IoInv
  <1> HIDE DEF before
  <1>3. /\ Tree(after) /\ dst \in DOMAIN after
        /\ \A q \in DOMAIN after :
              \/ /\ IsPrefix(dst, q) /\ IsPrefix(src, Moved(dst, src, q))
                 /\ Moved(dst, src, q) \in DOMAIN before /\ after[q] = before[Moved(dst, src, q)]
              \/ ~IsPrefix(dst, q) /\ ~IsPrefix(src, q) /\ q \in DOMAIN before /\ after[q] = before[q]
        /\ \A q \in DOMAIN before :
              \/ IsPrefix(src, q) /\ Moved(src, dst, q) \in DOMAIN after /\ after[Moved(src, dst, q)] = before[q]
              \/ q = dst /\ Below(before, dst) = {} /\ (IsFile(before, dst) <=> IsFile(before, src))
              \/ ~IsPrefix(src, q) /\ ~IsPrefix(dst, q) /\ q \in DOMAIN after /\ after[q] = before[q]
    BY <1>1, <1>2, RenamedTree
  <1> HIDE DEF after
  <1>4. /\ Tree(volume') /\ SameFiles(after, volume')
        /\ DOMAIN volume' \subseteq DOMAIN after
        /\ \A q \in DOMAIN volume' : volume'[q] = after[q]
        /\ setting.compat =>
              \A q \in DOMAIN volume' :
                 after[q] = Folder /\ Below(volume', q) = {} => Below(after, q) = {} /\ q \notin Above(src)
    BY <1>1, <1>3, RmdirsTree
  <1>5. \A q : IsFile(before, q) => IsFile(volume, q) /\ q \in DOMAIN volume /\ before[q] = volume[q]
    BY <1>2 DEF SameFiles, IsFile
  <1>6. \A q : /\ IsFile(volume', q) => IsFile(after, q) /\ q \in DOMAIN after /\ volume'[q] = after[q]
               /\ IsFile(after, q) => IsFile(volume', q)
    BY <1>4 DEF SameFiles, IsFile
  <1>7. /\ \A q : IsFile(after, q) => \E o \in DOMAIN before : IsFile(before, o) /\ before[o] = after[q]
        /\ (\A q, r \in DOMAIN before : IsFile(before, q) /\ IsFile(before, r) /\ before[q].id = before[r].id => q = r)
              => \A q, r \in DOMAIN after : IsFile(after, q) /\ IsFile(after, r) /\ after[q].id = after[r].id => q = r
    BY <1>2, <1>3, RenamedFiles
  <1>8. ASSUME NEW q, IsFile(volume', q)
        PROVE  \E o \in DOMAIN volume : IsFile(volume, o) /\ volume[o] = volume'[q]
    BY <1>5, <1>6, <1>7, <1>8
  <1>9. OneId'
    <2>1. \A q, r \in DOMAIN before : IsFile(before, q) /\ IsFile(before, r) /\ before[q].id = before[r].id => q = r
      BY <1>5 DEF IoInv, FilesSound, OneId
    <2>2. \A q, r \in DOMAIN after : IsFile(after, q) /\ IsFile(after, r) /\ after[q].id = after[r].id => q = r
      BY <1>7, <2>1
    <2> QED
      BY <1>6, <2>2 DEF OneId
  <1>14. /\ DOMAIN fds' = DOMAIN fds
         /\ \A f \in DOMAIN fds :
               /\ Opens(fds'[f]) /\ fds'[f].path = fds[f].path /\ fds'[f].id = fds[f].id
               /\ fds'[f].flags = fds[f].flags /\ fds'[f].pos = fds[f].pos
               /\ fds'[f].strayed <=> fds[f].strayed \/ IsStrictPrefix(src, fds[f].path)
    <2>1. \A f \in DOMAIN fds : Opens(fds[f])
      BY DEF IoInv
    <2>2. DOMAIN fds' = DOMAIN fds /\ \A f \in DOMAIN fds :
             fds'[f] = Strays(fds[f], fds[f].strayed \/ IsStrictPrefix(src, fds[f].path))
      BY <1>1
    <2> SUFFICES ASSUME NEW f \in DOMAIN fds
                 PROVE  /\ Opens(fds'[f]) /\ fds'[f].path = fds[f].path /\ fds'[f].id = fds[f].id
                        /\ fds'[f].flags = fds[f].flags /\ fds'[f].pos = fds[f].pos
                        /\ fds'[f].strayed <=> fds[f].strayed \/ IsStrictPrefix(src, fds[f].path)
      BY <2>2
    <2> DEFINE h == fds[f]
               x == fds[f].strayed \/ IsStrictPrefix(src, fds[f].path)
    <2>3. Opens(h) /\ fds'[f] = Strays(h, x)
      BY <2>1, <2>2
    <2> HIDE DEF x
    <2>4. /\ Opens(Strays(h, x)) /\ Strays(h, x).path = h.path /\ Strays(h, x).id = h.id
          /\ Strays(h, x).flags = h.flags /\ Strays(h, x).pos = h.pos /\ Strays(h, x).strayed = x
      BY <2>3, HandleStrays, Zenon
    <2>5. fds'[f].strayed = x
      BY <2>3, <2>4
    <2>6. fds'[f].strayed <=> fds[f].strayed \/ IsStrictPrefix(src, fds[f].path)
      BY <2>5 DEF x
    <2> QED
      BY <2>3, <2>4, <2>6
  <1>10. PathsHold'
    <2> SUFFICES ASSUME NEW f \in DOMAIN fds, ~fds[f].strayed, ~IsStrictPrefix(src, fds[f].path)
                 PROVE  IsFile(volume', fds[f].path) /\ volume'[fds[f].path].id = fds[f].id
      BY <1>14 DEF PathsHold, fstat
    <2> DEFINE q == fds[f].path
    <2>1. IsFile(volume, q) /\ volume[q].id = fds[f].id
      BY DEF IoInv, FilesSound, PathsHold, fstat
    <2>2. q # src /\ q # dst /\ ~IsStrictPrefix(src, q)
      BY <1>1 DEF get_fd_by_name
    <2> HIDE DEF q
    <2>3. IsFile(before, q) /\ q \in DOMAIN before /\ before[q] = volume[q]
      BY <1>2, <2>1 DEF SameFiles, IsFile
    <2>4. q \in DOMAIN after /\ after[q] = before[q]
      BY <1>3, <2>2, <2>3 DEF IsStrictPrefix
    <2>5. IsFile(volume', q) /\ volume'[q] = after[q]
      BY <1>6, <2>3, <2>4 DEF IsFile
    <2> QED
      BY <2>1, <2>3, <2>4, <2>5 DEF q
  <1>11. NoteSafe'
    <2> SUFFICES ASSUME noted # Nothing PROVE NoteSafe'
      BY <1>1 DEF NoteSafe
    <2>1. /\ noted.nonce \in Int
          /\ \A q \in DOMAIN volume : IsFile(volume, q) /\ volume[q].id = noted.id =>
                /\ volume[q].nonce >= noted.nonce
                /\ volume[q].nonce = noted.nonce => volume[q].data = noted.data
                /\ \A f \in DOMAIN fds : fds[f].id = noted.id /\ "WRONLY" \in fds[f].flags =>
                      volume[q].nonce > noted.nonce
      BY DEF IoInv, FilesSound, NoteSafe
    <2>3. ASSUME NEW q \in DOMAIN volume', IsFile(volume', q), volume'[q].id = noted.id
          PROVE  /\ volume'[q].nonce >= noted.nonce
                 /\ volume'[q].nonce = noted.nonce => volume'[q].data = noted.data
                 /\ \A f \in DOMAIN fds' : fds'[f].id = noted.id /\ "WRONLY" \in fds'[f].flags =>
                       volume'[q].nonce > noted.nonce
      <3>1. PICK o \in DOMAIN volume : IsFile(volume, o) /\ volume[o] = volume'[q]
        BY <1>8, <2>3
      <3> QED
        BY <1>14, <2>1, <2>3, <3>1
    <2> QED
      BY <1>1, <2>1, <2>3 DEF NoteSafe
  <1>12. ASSUME setting.compat, NEW q \in DOMAIN volume', IsFolder(volume', q), Below(volume', q) = {}
         PROVE  q \in excused'
    <2>1. q \in Path /\ q \in Seq(STRING) /\ q \in DOMAIN after
      BY <1>4 DEF Tree, Path
    <2>2. volume'[q] = Folder /\ after[q] = Folder
      BY <1>4, <1>12, <2>1, Kinds DEF Path
    <2>3. Below(after, q) = {} /\ q \notin Above(src)
      BY <1>4, <1>12, <2>2
    <2>4. src \in Seq(STRING) /\ dst \in Seq(STRING) /\ \A r \in DOMAIN before : r \in Path /\ r \in Seq(STRING)
      BY <1>2 DEF Tree, Path
    \* What was empty before, and was there, was excused.
    <2>5. ASSUME NEW o \in DOMAIN volume, before[o] = Folder, Below(before, o) = {} PROVE o \in excused
      <3>1. volume[o] = Folder /\ Below(volume, o) = {}
        BY <1>2, <2>5 DEF Below
      <3>2. IsFolder(volume, o)
        BY <3>1, Kinds DEF IsFolder
      <3> QED
        BY <1>12, <3>1, <3>2 DEF IoInv, FoldersFollow
    <2>6. CASE /\ IsPrefix(dst, q) /\ IsPrefix(src, Moved(dst, src, q))
               /\ Moved(dst, src, q) \in DOMAIN before /\ after[q] = before[Moved(dst, src, q)]
      <3> DEFINE o == Moved(dst, src, q)
      <3>1. Moved(src, dst, o) = q
        BY <2>1, <2>6, MovedBack
      <3>2. IsPrefix(src, o) /\ o \in DOMAIN before /\ before[o] = Folder
        BY <2>2, <2>6
      <3> HIDE DEF o
      <3>3. ASSUME NEW r \in Below(before, o) PROVE FALSE
        <4>1. r \in DOMAIN before /\ IsStrictPrefix(o, r) /\ IsPrefix(src, r)
          BY <2>4, <3>2, PrefixOrder DEF Below, IsStrictPrefix
        <4>2. Moved(src, dst, r) \in DOMAIN after
          BY <1>1, <1>3, <4>1
        <4>3. IsStrictPrefix(q, Moved(src, dst, r))
          BY <2>4, <3>1, <3>2, <4>1, MovedOrder
        <4> QED
          BY <2>3, <4>2, <4>3 DEF Below
      <3>4. o \in DOMAIN volume
        <4>1. ~IsPrefix(o, dst)
          BY <1>1, <2>4, <3>2, PrefixOrder
        <4> QED
          BY <1>2, <3>2, <4>1, AboveIsPrefix DEF IsStrictPrefix
      <3>5. o \in excused
        BY <2>5, <3>2, <3>3, <3>4
      <3> QED
        BY <1>1, <2>6, <3>5 DEF o
    <2>7. CASE ~IsPrefix(dst, q) /\ ~IsPrefix(src, q) /\ q \in DOMAIN before /\ after[q] = before[q]
      <3>1. ~IsStrictPrefix(q, dst)
        BY <1>3, <2>3 DEF Below
      <3>2. q \in DOMAIN volume
        BY <1>2, <2>7, <3>1, AboveIsPrefix
      <3>3. ~IsStrictPrefix(q, src)
        BY <2>1, <2>3, AboveIsPrefix
      <3>4. ASSUME NEW r \in Below(before, q) PROVE FALSE
        <4>1. r \in DOMAIN before /\ IsStrictPrefix(q, r) /\ IsPrefix(q, r) /\ r \in Seq(STRING)
          BY <2>4 DEF Below, IsStrictPrefix
        <4>2. ~IsPrefix(src, r)
          <5>1. IsPrefix(src, r) => IsPrefix(q, src) \/ IsPrefix(src, q)
            BY <2>1, <2>4, <4>1, PrefixOrder
          <5>2. q # src
            BY <2>1, <2>7, PrefixOrder
          <5> QED
            BY <2>7, <3>3, <5>1, <5>2 DEF IsStrictPrefix
        <4>3. r \in DOMAIN after
          BY <1>3, <3>1, <4>1, <4>2
        <4> QED
          BY <2>3, <4>1, <4>3 DEF Below
      <3>5. q \in excused
        BY <2>2, <2>5, <2>7, <3>2, <3>4
      <3> QED
        BY <1>1, <3>5
    <2> QED
      BY <1>3, <2>1, <2>6, <2>7
  <1>13. FoldersFollow'
    BY <1>1, <1>12 DEF FoldersFollow
  <1>15. Word
    <2>1. OnFlash
      BY <1>1, Quiet
    <2> QED
      BY <1>14, <2>1 DEF Word, OffsetKept
  <1>16. DOMAIN fds' \subseteq Nat /\ \A f \in DOMAIN fds' : Opens(fds'[f])
    BY <1>14 DEF IoInv
  <1> QED
    BY <1>1, <1>4, <1>9, <1>10, <1>11, <1>13, <1>15, <1>16 DEF IoInv, FilesSound

----------------------------------------------------------------------------
(* The theorems. *)

LEMMA AccessKept ==
    ASSUME \A f \in DOMAIN fds : Opens(fds[f])
    PROVE  AccessTold
  <1> SUFFICES ASSUME NEW f \in DOMAIN fds
               PROVE  LET m == fds[f].asked
                      IN  fcntl_getfl(fds[f].flags) = IF "RDWR" \in m THEN "RDWR" ELSE IF "WRONLY" \in m THEN "WRONLY" ELSE "RDONLY"
    BY DEF AccessTold
  <1> DEFINE m == fds[f].asked
  <1>1. fds[f].flags = flags_conv(m)
    BY DEF Opens
  <1> HIDE DEF m
  <1>2. "WRONLY" \in flags_conv(m) <=> "WRONLY" \in m \/ "RDWR" \in m
    BY DEF flags_conv
  <1>3. "RDONLY" \in flags_conv(m) <=> m = {} \/ "RDWR" \in m
    BY DEF flags_conv
  <1> QED
    BY <1>1, <1>2, <1>3 DEF fcntl_getfl, m

LEMMA IoInvSound ==
    ASSUME IoInv
    PROVE  VolumeSound
  <1>1. NonceTells
    <2> SUFFICES ASSUME noted # Nothing, NEW q \in DOMAIN volume, IsFile(volume, q),
                        volume[q].id = noted.id, volume[q].nonce = noted.nonce
                 PROVE  volume[q].data = noted.data
      BY DEF NonceTells, get_mtime
    <2> QED
      BY DEF IoInv, FilesSound, NoteSafe
  <1> QED
    BY <1>1, AccessKept DEF VolumeSound, IoInv, FilesSound

\* Every call keeps the invariant, and its word.
LEMMA IoStep ==
    ASSUME IoInv, [IoNext]_ioVars
    PROVE  IoInv' /\ [Word]_ioVars
  <1>1. CASE UNCHANGED ioVars
    BY <1>1 DEF ioVars, IoInv, FilesSound, OneId, PathsHold, fstat, NoteSafe, FoldersFollow
  <1>2. CASE Crash
    BY <1>2, CrashStep
  <1>3. ASSUME NEW f \in DOMAIN fds, OnDescriptor(f) PROVE IoInv' /\ Word
    BY <1>3, DescriptorStep
  <1>4. setting.paths \subseteq Path
    BY PathKinds DEF IoInv
  <1>5. ASSUME NEW p \in setting.paths, OnPath(p) PROVE IoInv' /\ Word
    <2>1. p \in Path
      BY <1>4
    <2>2. CASE mkdir(p)
      BY <2>1, <2>2, MkdirStep
    <2>3. CASE rmdir(p)
      BY <2>1, <2>3, RmdirStep
    <2>4. CASE unlink(p)
      BY <2>1, <2>4, UnlinkStep
    <2>5. CASE stat(p)
      BY <2>1, <2>5, StatStep
    <2>6. CASE utime(p, 0)
      BY <2>1, <2>6, UtimeStep
    <2>7. ASSUME NEW m, open(p, m) PROVE IoInv' /\ Word
      BY <2>1, <2>7, OpenStep
    <2>8. ASSUME NEW m, open_fails(p, m) PROVE IoInv' /\ Word
      BY <2>1, <2>8, OpenFailsStep
    <2>9. ASSUME NEW q \in setting.paths, rename(p, q) PROVE IoInv' /\ Word
      BY <1>4, <2>1, <2>9, RenameStep
    <2>10. ASSUME NEW q \in setting.paths, rename_fails(p, q) PROVE IoInv' /\ Word
      BY <1>4, <2>10, RenameFailsStep
    <2> QED
      BY <1>5, <2>2, <2>3, <2>4, <2>5, <2>6, <2>7, <2>8, <2>9, <2>10 DEF OnPath
  <1> QED
    BY <1>1, <1>2, <1>3, <1>5 DEF IoNext

LEMMA IoInitSound ==
    ASSUME IoInit
    PROVE  IoInv
  BY DEF IoInit, IoInv, Tree, FilesSound, OneId, PathsHold, NoteSafe, FoldersFollow

\* Whatever paths, words and settings there are: volumes are trees in which a file has
\* one path, open handles lead to their files, and the nonce of a file a program
\* remembers is ahead of its data.
THEOREM VolumeInvariant == IoSpec => []IoInv
  <1>1. IoInit => IoInv
    BY IoInitSound
  <1>2. IoInv /\ [IoNext]_ioVars => IoInv'
    BY IoStep
  <1> QED
    BY <1>1, <1>2, PTL DEF IoSpec

\* Open paths lead to their files unless a folder above them has been renamed, a nonce
\* that is what it was tells that the contents are too unless an open could not write
\* it or it was set by hand, empty folders are a program's doing, and fcntl tells the
\* access mode that was asked for.
THEOREM VolumeIsSound == IoSpec => []VolumeSound
  <1>1. IoSpec => []IoInv
    BY VolumeInvariant
  <1>2. IoInv => VolumeSound
    BY IoInvSound
  <1> QED
    BY <1>1, <1>2, PTL

\* Offsets move by the calls that move them; what an open truncates, a write with the
\* flush setting writes and an fsync finds unwritten is on the flash when the call
\* returns, or its descriptor has erred.
THEOREM WordIsKept == IoSpec => CallsKeepWord
  <1>1. IoSpec => []IoInv
    BY VolumeInvariant
  <1>2. IoInv /\ [IoNext]_ioVars => [Word]_ioVars
    BY IoStep
  <1> QED
    BY <1>1, <1>2, PTL DEF IoSpec, CallsKeepWord, Word

=============================================================================
