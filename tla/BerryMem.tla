------------------------------ MODULE BerryMem ------------------------------
(***************************************************************************)
(* The allocator of Berry objects (be_mem.c): blocks of up to 16 and of up *)
(* to 32 bytes live on the lines of pools, larger ones in the heap of the  *)
(* system; a request that fails is repeated after a collection, which      *)
(* frees what the program has dropped and then the pools left empty.  The   *)
(* deinit methods a collection calls allocate too; no other collection      *)
(* starts below them (GC_HALT).                                            *)
(*                                                                         *)
(* Abstractions.  A heap has HeapMax units; a pool takes PoolWeight of them *)
(* and a larger block one for every 40 bytes begun.  Places in the heap    *)
(* are numbered.  The contents of a block are the name of the object they  *)
(* belong to; memory that is not in use has contents NONE.                 *)
(***************************************************************************)
EXTENDS Integers, Sequences, FiniteSets, FiniteSetsExt, BerryValues

CONSTANTS
  Object,      \* what blocks are allocated for
  Sizes,       \* the sizes asked for
  Slots,       \* Slots[c]: the lines of a pool of class c, 16 or 32 (31 and 15)
  HeapMax, PoolWeight

ASSUME MemAssumption ==
  /\ Sizes \subseteq Nat \ {0}
  /\ Slots \in [{16, 32} -> 1 .. 32]
  /\ HeapMax \in Nat /\ PoolWeight \in Nat \ {0}
  /\ IsFiniteSet(Object) /\ NONE \notin Object

VARIABLES
  heap,     \* pool[c]: the pools of class c, newest first, with their free
            \* lines (bitmap); size, at: the blocks of the objects; memory;
            \* usage: vm->gc.usage
  dropped,  \* objects the program does not refer to any more
  halted,   \* GC_HALT: a collection has called a deinit, or one has raised
  condemned,\* white objects: the collection under way will free them
  refused   \* the size of the last request, if it has failed for lack of memory

memVars == <<heap, dropped, halted, condemned, refused>>

Place == (1 .. HeapMax) \X (0 .. 31)

Class(n) == IF n <= 16 THEN 16 ELSE 32
Small(n) == n <= 32
Weight(n) == (n + 39) \div 40

Live(h) == {x \in Object : h.size[x] # 0}

PoolIds(h) == UNION {{h.pool[c][i].id : i \in DOMAIN h.pool[c]} : c \in {16, 32}}

LargeOf(h) == {x \in Live(h) : ~Small(h.size[x])}

LargeUnits(h) == UNION {{x} \X (1 .. Weight(h.size[x])) : x \in LargeOf(h)}

Room(h) == HeapMax - PoolWeight * Cardinality(PoolIds(h)) - Cardinality(LargeUnits(h))

NewId(h) == Min((1 .. HeapMax) \ (PoolIds(h) \cup {h.at[x][1] : x \in LargeOf(h)}))

-----------------------------------------------------------------------------
\* The pools of class c with a free line.
OpenPools(h, c) == {i \in DOMAIN h.pool[c] : h.pool[c][i].free # {}}

\* The lowest free line of the first pool that has one.
OnLine(h, c) ==
  LET i == Min(OpenPools(h, c))
      line == Min(h.pool[c][i].free)
  IN [at |-> <<h.pool[c][i].id, line>>,
      heap |-> [h EXCEPT !.pool = [@ EXCEPT ![c][i].free = h.pool[c][i].free \ {line}]]]

\* The first line of a new pool.
OnNewPool(h, c) ==
  [at |-> <<NewId(h), 0>>,
   heap |-> [h EXCEPT !.pool =
     [@ EXCEPT ![c] = <<[id |-> NewId(h), free |-> 1 .. Slots[c] - 1]>> \o h.pool[c]]]]

\* malloc_from_pool: a line of a pool, which may have to be opened, or a place of
\* its own for a larger block.  The set is empty when the system has no memory.
malloc_from_pool(h, n) ==
  CASE Small(n) /\ OpenPools(h, Class(n)) # {} -> {OnLine(h, Class(n))}
    [] Small(n) /\ OpenPools(h, Class(n)) = {} /\ Room(h) >= PoolWeight -> {OnNewPool(h, Class(n))}
    [] ~Small(n) /\ Room(h) >= Weight(n) -> {[at |-> <<NewId(h), 0>>, heap |-> h]}
    [] OTHER -> {}

\* free_from_pool: the line is free again in the pool whose lines hold it.
free_from_pool(h, at, n) ==
  IF ~Small(n) THEN [h EXCEPT !.memory[at] = NONE]
  ELSE [h EXCEPT !.memory[at] = NONE,
                 !.pool[Class(n)] = [i \in DOMAIN @ |->
                    IF @[i].id = at[1] THEN [id |-> at[1], free |-> @[i].free \cup {at[2]}]
                    ELSE @[i]]]

\* What is left of a list of pools: those at the positions to keep.
Kept(pools, keep) ==
  LET kept[i \in 0 .. Len(pools)] ==
        IF i = 0 THEN <<>>
        ELSE IF i \in keep THEN Append(kept[i - 1], pools[i]) ELSE kept[i - 1]
  IN kept[Len(pools)]

\* Mutant: a pool is freed as soon as its first line is free.
be_gc_memory_pools_eager(h) ==
  [h EXCEPT !.pool = [c \in {16, 32} |-> Kept(@[c], {i \in DOMAIN @[c] : 0 \notin @[c][i].free})]]

\* be_gc_memory_pools: pools without a block in use are freed.
be_gc_memory_pools(h) ==
  [h EXCEPT !.pool =
     [c \in {16, 32} |-> Kept(@[c], {i \in DOMAIN @[c] : @[c][i].free # 0 .. Slots[c] - 1})]]

\* The object x gets n bytes at a place; 0 bytes is none.
Assign(h, x, n, at) ==
  [pool   |-> h.pool,
   size   |-> [h.size EXCEPT ![x] = n],
   at     |-> [h.at EXCEPT ![x] = at],
   memory |-> IF n = 0 THEN h.memory ELSE [h.memory EXCEPT ![at] = x],
   usage  |-> h.usage + n - h.size[x]]

be_free(h, x) == Assign(free_from_pool(h, h.at[x], h.size[x]), x, 0, <<1, 0>>)

\* The objects X are freed one after the other.
Released(h, X) ==
  LET released[Y \in SUBSET X] ==
        IF Y = {} THEN h
        ELSE LET x == CHOOSE y \in Y : TRUE IN be_free(released[Y \ {x}], x)
  IN released[X]

\* Mutant: the pools are freed before the objects on them.
Collected_pools(h, X) == Released(be_gc_memory_pools(h), X)

\* What a collection that frees the objects X leaves (delete_white and the end of
\* be_gc_collect).
Collected(h, X) == be_gc_memory_pools(Released(h, X))

-----------------------------------------------------------------------------
\* The block of x is copied to new memory m and then freed.
Moved(h, m, x, n) ==
  LET copied == [m.heap EXCEPT !.memory[m.at] = h.memory[h.at[x]]]
      freed == free_from_pool(copied, h.at[x], h.size[x])
  IN [Assign(freed, x, n, m.at) EXCEPT !.memory = [@ EXCEPT ![m.at] = h.memory[h.at[x]]]]

\* One pass of the loop of be_realloc: the heaps it can leave, none on failure.
\* A block that stays in its class stays where it is; one that changes class is
\* moved; one that is large and stays so is left to realloc.
Attempt(h, x, n) ==
  LET old == h.size[x]
      at  == h.at[x]
  IN CASE old = 0 -> {Assign(m.heap, x, n, m.at) : m \in malloc_from_pool(h, n)}
       [] old # 0 /\ Small(n) /\ Small(old) /\ Class(n) = Class(old) -> {Assign(h, x, n, at)}
       [] old # 0 /\ ~Small(n) /\ ~Small(old) ->
            IF Room(h) + Weight(old) < Weight(n) THEN {} ELSE {Assign(h, x, n, at)}
       [] OTHER -> {Moved(h, m, x, n) : m \in malloc_from_pool(h, n)}

\* Code refers to x: the program, or the deinit methods of what is condemned.
Referred(x) == x \notin dropped \/ x \in condemned

\* A block that is new while a collection is under way is that of a white object,
\* or belongs to one that is not.
Marked(x) == IF halted /\ heap.size[x] = 0 THEN {condemned, condemned \cup {x}} ELSE {condemned}

\* be_realloc.  A collection that is forced here calls no deinit; under GC_HALT
\* none starts, and the second pass finds the heap as it was.  A request that gets
\* no memory throws.
be_realloc(x, n) ==
  /\ Referred(x) /\ n # heap.size[x]
  /\ LET c == IF halted THEN heap ELSE Collected(heap, dropped)
     IN CASE Attempt(heap, x, n) # {} ->
               /\ heap' \in Attempt(heap, x, n) /\ refused' = 0
               /\ condemned' \in Marked(x)
               /\ UNCHANGED <<dropped, halted>>
          [] Attempt(heap, x, n) = {} /\ Attempt(c, x, n) # {} ->
               /\ heap' \in Attempt(c, x, n) /\ refused' = 0
               /\ dropped' = {}
               /\ UNCHANGED <<halted, condemned>>
          [] OTHER ->
               /\ heap' = c /\ refused' = n
               /\ dropped' = IF halted THEN dropped ELSE {}
               /\ UNCHANGED <<halted, condemned>>

\* be_realloc with a new size of 0.
FreeBlock(x) ==
  /\ x \in Live(heap) /\ Referred(x)
  /\ heap' = be_free(heap, x)
  /\ dropped' = dropped \ {x} /\ condemned' = condemned \ {x}
  /\ refused' = 0
  /\ UNCHANGED halted

\* The program drops its last reference.
Drop(x) ==
  /\ x \in Live(heap) \ dropped
  /\ dropped' = dropped \cup {x}
  /\ refused' = 0
  /\ UNCHANGED <<heap, halted, condemned>>

\* A collection that be_gc_auto or the program starts has marked what is referred
\* to and calls the deinit methods of the rest.
destruct_white ==
  /\ ~halted
  /\ halted' = TRUE /\ condemned' = dropped
  /\ refused' = 0
  /\ UNCHANGED <<heap, dropped>>

\* The deinit methods have returned.  (One that raises takes this from the code for
\* good: the collection never ends.)
delete_white ==
  /\ halted
  /\ heap' = Collected(heap, condemned)
  /\ dropped' = dropped \ condemned
  /\ halted' = FALSE /\ condemned' = {}
  /\ refused' = 0

\* be_gc_free_memory_pools, when the VM is deleted and its objects are gone.
be_gc_free_memory_pools ==
  /\ Live(heap) = {} /\ PoolIds(heap) # {}
  /\ heap' = [heap EXCEPT !.pool = [c \in {16, 32} |-> <<>>]]
  /\ refused' = 0
  /\ UNCHANGED <<dropped, halted, condemned>>

MemInit ==
  /\ heap = [pool |-> [c \in {16, 32} |-> <<>>], size |-> [x \in Object |-> 0],
             at |-> [x \in Object |-> <<1, 0>>], memory |-> [p \in Place |-> NONE], usage |-> 0]
  /\ dropped = {} /\ condemned = {} /\ halted = FALSE /\ refused = 0

MemNext ==
  \/ \E x \in Object : FreeBlock(x) \/ Drop(x)
  \/ \E x \in Object, n \in Sizes : be_realloc(x, n)
  \/ destruct_white \/ delete_white \/ be_gc_free_memory_pools

MemSpec == MemInit /\ [][MemNext]_memVars

-----------------------------------------------------------------------------
\* be_gc_memory_pools_info: the lines in use, and those there are.
LinesInUse(h) ==
  UNION {UNION {{<<c, i, line>> : line \in (0 .. Slots[c] - 1) \ h.pool[c][i].free} :
                i \in DOMAIN h.pool[c]} : c \in {16, 32}}
be_gc_memory_pools_info(h) ==
  [used |-> Cardinality(LinesInUse(h)),
   allocated |-> Len(h.pool[16]) * Slots[16] + Len(h.pool[32]) * Slots[32]]

\* The bytes of all objects.
BytesOf(h) == UNION {{x} \X (1 .. h.size[x]) : x \in Object}

\* The blocks of the program are where their sizes say, one to a place, on lines
\* their pool does not give away, and still hold what was written to them, across
\* moves between pools and heap, failed requests and collections; no line is lost
\* and gc.usage counts the bytes in use (be_realloc, free_from_pool,
\* be_gc_memory_pools).
BlocksExact ==
  /\ \A x \in Live(heap) :
       /\ heap.memory[heap.at[x]] = x
       /\ Small(heap.size[x]) =>
            \E i \in DOMAIN heap.pool[Class(heap.size[x])] :
              LET p == heap.pool[Class(heap.size[x])][i]
              IN p.id = heap.at[x][1] /\ heap.at[x][2] \in (0 .. Slots[Class(heap.size[x])] - 1) \ p.free
  /\ be_gc_memory_pools_info(heap).used = Cardinality({x \in Live(heap) : Small(heap.size[x])})
  /\ heap.usage = Cardinality(BytesOf(heap))

\* A request for memory fails only when there is no memory for it where the code
\* looks: after a collection that has freed all that was dropped and every empty
\* pool, or, while GC_HALT keeps that from running, in the heap as it is
\* (be_realloc:105-115, be_gc_collect:560).
FailsOnlyWhenFull ==
  refused # 0 =>
    /\ malloc_from_pool(heap, refused) = {}
    /\ ~halted =>
         /\ dropped = {}
         /\ \A c \in {16, 32} : \A i \in DOMAIN heap.pool[c] : heap.pool[c][i].free # 0 .. Slots[c] - 1
=============================================================================
