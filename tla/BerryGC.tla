------------------------------- MODULE BerryGC -------------------------------
(***************************************************************************)
(* The garbage collector of the Berry virtual machine: be_gc.c, with the   *)
(* allocation retry of be_mem.c (be_realloc) and the sweep of the string   *)
(* table of be_string.c (be_gcstrtab).                                     *)
(*                                                                         *)
(* The collector is a stop-the-world mark and sweep that runs inside an    *)
(* allocation.  Marking cannot be interrupted, but between marking and     *)
(* sweeping it calls the `deinit' methods of the white instances, and      *)
(* these are Berry code: the mutator runs in the middle of a collection.   *)
(*                                                                         *)
(* Abstractions.  An object is a member of Obj, of one unit of memory; its *)
(* fields, elements, constants and upvalues are the set refs[o].  The gray *)
(* list is the set of objects marked gray, scanned in any order (the code  *)
(* scans in LIFO order).  The value stack is the set of objects it holds,  *)
(* below the top and above it.  Constant (solidified) objects are never    *)
(* marked nor freed and are left out.                                      *)
(***************************************************************************)
EXTENDS Integers, FiniteSets, TLC

CONSTANTS
  Obj,        \* the memory: one member for each object that fits
  Kinds,      \* the kinds of objects the program creates
  StepRate,   \* the percentage be_gc_setsteprate is given (200 in be_gc_init)
  BaseUsage,  \* the memory the VM structure itself takes, sizeof(bvm)
  MaxGlobals, \* bound: objects held by globals at one time
  MaxFixed,   \* bound: objects fixed at one time
  MaxRefs,    \* bound: objects one object refers to
  NONE

(***************************************************************************)
(* "sstr": a short string, kept in the string table and not in gc.list;    *)
(* "leaf": a long string or a common object, marked dark at once;          *)
(* "node": an object with references (class, proto, map, list, closure,    *)
(*         module, instance of a class without deinit);                    *)
(* "inst": an instance whose class has a deinit method.                    *)
(***************************************************************************)
AllKinds == {"sstr", "leaf", "node", "inst"}

ASSUME GCAssumption ==
  /\ IsFiniteSet(Obj)
  /\ Kinds \subseteq AllKinds
  /\ StepRate \in 100 .. 355
  /\ BaseUsage \in Nat
  /\ MaxGlobals \in Nat
  /\ MaxFixed \in Nat
  /\ MaxRefs \in Nat
  /\ NONE \notin Obj
  /\ NONE \notin AllKinds

VARIABLES
  kind,       \* kind[o]: "free" or the type of the object allocated there
  refs,       \* refs[o]: the objects o refers to
  mark,       \* obj->marked & 0x03
  fixed,      \* objects with GC_FIXED set
  root,       \* objects held by globals, builtins, module table, trace stack
  stack,      \* objects held by stack slots below vm->top (in a deinit: by
              \* the slots of its frame)
  above,      \* objects held by stack slots from vm->top to vm->stacktop
  usage,      \* vm->gc.usage
  threshold,  \* vm->gc.threshold
  pause,      \* GC_PAUSE is set in vm->gc.status
  halt,       \* GC_HALT is set in vm->gc.status
  forced,     \* GC_ALLOC is set in vm->gc.status
  phase,      \* where the VM is: see Phases
  pending,    \* kind of the object being allocated, or NONE
  outer,      \* pending of the allocation whose collection runs a deinit
  retried,    \* be_realloc has already forced a collection
  todo,       \* instances destruct_white (or be_gc_deleteall) still visits
  self,       \* instance whose deinit is running, or NONE
  saved,      \* objects held by the stack below the frame of that deinit
  destructed, \* history: instances whose deinit has been called
  thrown,     \* history: a deinit has ended with an exception
  leaked      \* history: blocks allocated for an object never linked

memVars  == <<kind, refs, mark, fixed>>
rootVars == <<root, stack, above>>
cntVars  == <<usage, threshold, leaked>>
flagVars == <<pause, halt, forced>>
ctlVars  == <<phase, pending, outer, retried, todo, self, saved>>
histVars == <<destructed, thrown>>
vars == <<memVars, rootVars, cntVars, flagVars, ctlVars, histVars>>

(***************************************************************************)
(* "run"     Berry or native code executes (in a deinit when self # NONE)  *)
(* "malloc"  be_realloc asks the heap for the pending object               *)
(* "link"    be_newgcobj links the pending object                          *)
(* "mark"    mark_unscanned;  "destruct" destruct_white;  "sweep" the rest *)
(* "delete"  the destructors of be_gc_deleteall;  "dead" the VM is gone    *)
(***************************************************************************)
Phases == {"run", "malloc", "link", "mark", "destruct", "sweep", "delete", "dead"}

Allocated == {o \in Obj : kind[o] # "free"}
StrTab    == {o \in Obj : kind[o] = "sstr"}
GCList    == Allocated \ StrTab
Scannable == {o \in Obj : kind[o] \in {"node", "inst"}}
White     == {o \in Obj : mark[o] = "white"}
Gray      == {o \in Obj : mark[o] = "gray"}
Dark      == {o \in Obj : mark[o] = "dark"}

-----------------------------------------------------------------------------
(***************************************************************************)
(* Operators of the collector.                                             *)
(***************************************************************************)

next_threshold(u) == (u * StepRate) \div 100

\* mark_gray on every object of S: only white objects of the heap change;
\* an object without references goes dark at once.
mark_gray(S) ==
  [o \in Obj |->
     IF o \in S \cap White \cap Allocated
     THEN IF o \in Scannable THEN "gray" ELSE "dark"
     ELSE mark[o]]

\* Mutant: premark_fixed is dropped.
Premarked_unfixed == root \cup stack
\* The root set: premark_internal, premark_global, premark_stack,
\* premark_tracestack and premark_fixed (which walks gc.list only, so it
\* never sees a fixed short string).
Premarked == root \cup stack \cup (fixed \cap GCList)

\* What delete_white and be_gcstrtab free.
Condemned ==
  {o \in GCList : mark[o] = "white"}
    \cup {o \in StrTab : mark[o] = "white" /\ o \notin fixed}

\* Mutant: premark_stack leaves the slots above the top as they are.
StartCollect_stale ==
  /\ mark' = mark_gray(Premarked)
  /\ above' = above
  /\ phase' = "mark"

\* Step 1 of be_gc_collect: mark the roots, set the slots above top to nil.
StartCollect ==
  /\ mark' = mark_gray(Premarked)
  /\ above' = {}
  /\ phase' = "mark"

-----------------------------------------------------------------------------
(***************************************************************************)
(* The mutator: what Berry and native code does to the heap between two    *)
(* allocations.  In a deinit it sees its own frame and the globals only.   *)
(***************************************************************************)

Running == phase = "run"

Visible == root \cup UNION {refs[o] : o \in stack}

Load(p) ==
  /\ Running
  /\ p \in Visible \ stack
  /\ stack' = stack \cup {p}
  /\ UNCHANGED <<memVars, root, above, cntVars, flagVars, ctlVars, histVars>>

\* The top moves down; the slot keeps its value.
Pop(p) ==
  /\ Running
  /\ p \in stack \ {self}
  /\ stack' = stack \ {p}
  /\ above' = above \cup {p}
  /\ UNCHANGED <<memVars, root, cntVars, flagVars, ctlVars, histVars>>

\* The top moves up over a slot that is not written (be_incrtop; the
\* registers of a new frame, precall): what the slot holds is live again.
Expose(p) ==
  /\ Running
  /\ p \in above
  /\ above' = above \ {p}
  /\ stack' = stack \cup {p}
  /\ UNCHANGED <<memVars, root, cntVars, flagVars, ctlVars, histVars>>

SetField(o, p) ==
  /\ Running
  /\ o \in stack \cap Scannable
  /\ p \in stack \ refs[o]
  /\ Cardinality(refs[o]) < MaxRefs
  /\ refs' = [refs EXCEPT ![o] = @ \cup {p}]
  /\ UNCHANGED <<kind, mark, fixed, rootVars, cntVars, flagVars, ctlVars, histVars>>

ClearField(o, p) ==
  /\ Running
  /\ o \in stack \cap Scannable
  /\ p \in refs[o]
  /\ refs' = [refs EXCEPT ![o] = @ \ {p}]
  /\ UNCHANGED <<kind, mark, fixed, rootVars, cntVars, flagVars, ctlVars, histVars>>

SetGlobal(p) ==
  /\ Running
  /\ p \in stack \ root
  /\ Cardinality(root) < MaxGlobals
  /\ root' = root \cup {p}
  /\ UNCHANGED <<memVars, stack, above, cntVars, flagVars, ctlVars, histVars>>

ClearGlobal(p) ==
  /\ Running
  /\ p \in root
  /\ root' = root \ {p}
  /\ UNCHANGED <<memVars, stack, above, cntVars, flagVars, ctlVars, histVars>>

\* newshortstr finds the string in the table: it comes back from there even
\* when nothing else refers to it.
InternHit(o) ==
  /\ Running
  /\ o \in StrTab \ stack
  /\ stack' = stack \cup {o}
  /\ UNCHANGED <<memVars, root, above, cntVars, flagVars, ctlVars, histVars>>

be_gc_fix(o) ==
  /\ Running
  /\ o \in (stack \cap Allocated) \ fixed
  /\ Cardinality(fixed) < MaxFixed
  /\ fixed' = fixed \cup {o}
  /\ UNCHANGED <<kind, refs, mark, rootVars, cntVars, flagVars, ctlVars, histVars>>

be_gc_unfix(o) ==
  /\ Running
  /\ o \in fixed
  /\ fixed' = fixed \ {o}
  /\ UNCHANGED <<kind, refs, mark, rootVars, cntVars, flagVars, ctlVars, histVars>>

\* be_gc_setpause(vm, 1), the last step of be_vm_new before the libraries.
be_gc_setpause ==
  /\ Running
  /\ ~pause
  /\ pause' = TRUE
  /\ UNCHANGED <<memVars, rootVars, cntVars, halt, forced, ctlVars, histVars>>

-----------------------------------------------------------------------------
(***************************************************************************)
(* Allocation: be_newgcobj and be_gc_newstr on top of be_realloc.          *)
(***************************************************************************)

\* Mutant: the object is linked before its type is set.
NewObject_untyped(k) ==
  /\ Running
  /\ pending' = NONE
  /\ retried' = FALSE
  /\ phase' = "malloc"
  /\ UNCHANGED <<memVars, rootVars, cntVars, flagVars, outer, todo, self, saved, histVars>>

NewObject(k) ==
  /\ Running
  /\ pending' = k
  /\ retried' = FALSE
  /\ phase' = "malloc"
  /\ UNCHANGED <<memVars, rootVars, cntVars, flagVars, outer, todo, self, saved, histVars>>

\* The heap gives a block; be_gc_auto then collects when usage, which now
\* counts the block, has passed the threshold.
MallocOk ==
  /\ phase = "malloc"
  /\ \E o \in Obj : kind[o] = "free"
  /\ usage' = usage + 1
  /\ IF pause /\ usage + 1 > threshold /\ ~halt
     THEN StartCollect
     ELSE phase' = "link" /\ UNCHANGED <<mark, above>>
  /\ UNCHANGED <<kind, refs, fixed, root, stack, threshold, leaked, flagVars,
                 pending, outer, retried, todo, self, saved, histVars>>

\* Mutant: be_realloc counts the block before it knows that it got it.
MallocFail_counted ==
  /\ phase = "malloc"
  /\ ~retried
  /\ retried' = TRUE
  /\ usage' = usage + 1
  /\ IF halt
     THEN UNCHANGED <<mark, above, forced, phase>>
     ELSE StartCollect /\ forced' = TRUE
  /\ UNCHANGED <<kind, refs, fixed, root, stack, threshold, leaked, pause, halt,
                 pending, outer, todo, self, saved, histVars>>

\* The heap is exhausted: force a collection with GC_ALLOC set, once.
MallocFail ==
  /\ phase = "malloc"
  /\ ~retried
  /\ retried' = TRUE
  /\ IF halt
     THEN UNCHANGED <<mark, above, forced, phase>>
     ELSE StartCollect /\ forced' = TRUE
  /\ UNCHANGED <<kind, refs, fixed, root, stack, cntVars, pause, halt, pending,
                 outer, todo, self, saved, histVars>>

\* A deinit that be_gc_deleteall runs: no allocation is waiting.
Deleting == self # NONE /\ outer = NONE

\* be_throw: longjmp to the innermost handler.  When the exception leaves a
\* deinit it leaves be_gc_collect with it: GC_HALT and the marks stay, and
\* so does the block of the object whose allocation began the collection.
\* In be_vm_delete there is no handler, and the program aborts.
Throw ==
  /\ phase' = IF Deleting THEN "dead" ELSE "run"
  /\ leaked' = leaked + (IF outer = NONE THEN 0 ELSE 1)
  /\ pending' = NONE
  /\ outer' = NONE
  /\ retried' = FALSE
  /\ todo' = {}
  /\ self' = NONE
  /\ saved' = {}
  /\ thrown' = (thrown \/ self # NONE)
  /\ stack' = IF self = NONE THEN stack ELSE saved
  /\ above' = IF self = NONE THEN above ELSE above \cup stack

\* Out of memory after the forced collection: be_throw(vm, BE_MALLOC_FAIL).
MallocThrow ==
  /\ phase = "malloc"
  /\ retried
  /\ Throw
  /\ UNCHANGED <<memVars, root, usage, threshold, flagVars, destructed>>

\* The new object is white and goes to the head of gc.list, or into the
\* string table; the caller puts it on the stack before allocating again.
LinkObject(o) ==
  /\ phase = "link"
  /\ kind[o] = "free"
  /\ kind' = [kind EXCEPT ![o] = pending]
  /\ mark' = [mark EXCEPT ![o] = "white"]
  /\ refs' = [refs EXCEPT ![o] = {}]
  /\ fixed' = fixed \ {o}
  /\ destructed' = destructed \ {o}
  /\ stack' = stack \cup {o}
  /\ pending' = NONE
  /\ phase' = "run"
  /\ UNCHANGED <<root, above, cntVars, flagVars, outer, retried, todo, self, saved,
                 thrown>>

-----------------------------------------------------------------------------
(***************************************************************************)
(* The collection: be_gc_collect after step 1.                             *)
(***************************************************************************)

\* mark_unscanned takes a gray object: dark, and its references gray.
Scan(o) ==
  /\ phase = "mark"
  /\ mark[o] = "gray"
  /\ mark' = [mark_gray(refs[o]) EXCEPT ![o] = "dark"]
  /\ UNCHANGED <<kind, refs, fixed, rootVars, cntVars, flagVars, ctlVars, histVars>>

\* Mutant: destruct_white visits live instances too.
MarkDone_all ==
  /\ phase = "mark"
  /\ Gray = {}
  /\ halt' = TRUE
  /\ todo' = IF forced THEN {} ELSE {o \in Obj : kind[o] = "inst"}
  /\ phase' = "destruct"
  /\ UNCHANGED <<memVars, rootVars, cntVars, pause, forced, pending, outer,
                 retried, self, saved, histVars>>

\* The gray list is empty: destruct_white halts the collector and walks the
\* list as it is now (objects made from here on go in front of the walk).
\* No destructor is called when the collection was forced by an allocation.
MarkDone ==
  /\ phase = "mark"
  /\ Gray = {}
  /\ halt' = TRUE
  /\ todo' = IF forced THEN {} ELSE {o \in White : kind[o] = "inst"}
  /\ phase' = "destruct"
  /\ UNCHANGED <<memVars, rootVars, cntVars, pause, forced, pending, outer,
                 retried, self, saved, histVars>>

\* destruct_object: the instance goes on the stack and its deinit is called.
CallDeinit(o) ==
  /\ phase \in {"destruct", "delete"}
  /\ o \in todo
  /\ todo' = todo \ {o}
  /\ self' = o
  /\ saved' = stack
  /\ stack' = {o}
  /\ outer' = pending
  /\ pending' = NONE
  /\ phase' = "run"
  /\ destructed' = destructed \cup {o}
  /\ UNCHANGED <<memVars, root, above, cntVars, flagVars, retried, thrown>>

\* The frame is popped; its slots, the instance among them, keep their values.
DeinitReturn ==
  /\ Running
  /\ self # NONE
  /\ phase' = IF Deleting THEN "delete" ELSE "destruct"
  /\ stack' = saved
  /\ above' = above \cup stack
  /\ saved' = {}
  /\ self' = NONE
  /\ pending' = outer
  /\ outer' = NONE
  /\ UNCHANGED <<memVars, root, cntVars, flagVars, retried, todo, histVars>>

\* Mutant: the collector is enabled again, with the marks as they are.
DeinitThrow_resumed ==
  /\ Running
  /\ self # NONE
  /\ Throw
  /\ halt' = FALSE
  /\ UNCHANGED <<memVars, root, usage, threshold, pause, forced, destructed>>

DeinitThrow ==
  /\ Running
  /\ self # NONE
  /\ Throw
  /\ UNCHANGED <<memVars, root, usage, threshold, flagVars, destructed>>

\* All white instances have been visited.
DestructDone ==
  /\ phase = "destruct"
  /\ todo = {}
  /\ halt' = FALSE
  /\ phase' = "sweep"
  /\ UNCHANGED <<memVars, rootVars, cntVars, pause, forced, pending, outer, retried,
                 todo, self, saved, histVars>>

\* delete_white, be_gcstrtab and steps 4 and 5 of be_gc_collect; the
\* allocation that collected goes on.
Sweep ==
  /\ phase = "sweep"
  /\ kind' = [o \in Obj |-> IF o \in Condemned THEN "free" ELSE kind[o]]
  /\ refs' = [o \in Obj |-> IF o \in Condemned THEN {} ELSE refs[o]]
  /\ mark' = [o \in Obj |-> "white"]
  /\ fixed' = fixed \ Condemned
  /\ usage' = usage - Cardinality(Condemned)
  /\ threshold' = next_threshold(usage')
  /\ phase' = IF forced THEN "malloc" ELSE "link"
  /\ forced' = FALSE
  /\ UNCHANGED <<rootVars, leaked, pause, halt, pending, outer, retried, todo, self,
                 saved, histVars>>

\* be_vm_delete: be_gc_deleteall halts the collector, calls the destructor
\* of every instance in the list, ...
DeleteAll ==
  /\ Running
  /\ self = NONE
  /\ halt' = TRUE
  /\ todo' = {o \in Obj : kind[o] = "inst"}
  /\ phase' = "delete"
  /\ UNCHANGED <<memVars, rootVars, cntVars, pause, forced, pending, outer, retried,
                 self, saved, histVars>>

\* ... and frees all objects; be_string_deleteall frees the short strings.
DeleteDone ==
  /\ phase = "delete"
  /\ todo = {}
  /\ kind' = [o \in Obj |-> "free"]
  /\ refs' = [o \in Obj |-> {}]
  /\ mark' = [o \in Obj |-> "white"]
  /\ fixed' = {}
  /\ root' = {} /\ stack' = {} /\ above' = {}
  /\ usage' = usage - Cardinality(Allocated)
  /\ phase' = "dead"
  /\ UNCHANGED <<threshold, leaked, flagVars, pending, outer, retried, todo, self,
                 saved, histVars>>

-----------------------------------------------------------------------------
\* be_gc_init, with an empty heap and automatic collection not yet enabled.
Init ==
  /\ kind = [o \in Obj |-> "free"]
  /\ refs = [o \in Obj |-> {}]
  /\ mark = [o \in Obj |-> "white"]
  /\ fixed = {} /\ root = {} /\ stack = {} /\ above = {}
  /\ usage = BaseUsage /\ threshold = next_threshold(BaseUsage) /\ leaked = 0
  /\ pause = FALSE /\ halt = FALSE /\ forced = FALSE
  /\ phase = "run" /\ pending = NONE /\ outer = NONE /\ retried = FALSE
  /\ todo = {} /\ self = NONE /\ saved = {}
  /\ destructed = {} /\ thrown = FALSE

Mutator ==
  \/ \E p \in Obj : \/ Load(p) \/ Pop(p) \/ Expose(p) \/ InternHit(p)
                    \/ SetGlobal(p) \/ ClearGlobal(p)
                    \/ be_gc_fix(p) \/ be_gc_unfix(p)
  \/ \E o, p \in Obj : SetField(o, p) \/ ClearField(o, p)
  \/ be_gc_setpause

Allocator ==
  \/ \E k \in Kinds : NewObject(k)
  \/ MallocOk \/ MallocFail \/ MallocThrow
  \/ \E o \in Obj : LinkObject(o)

Collector ==
  \/ \E o \in Obj : Scan(o) \/ CallDeinit(o)
  \/ MarkDone \/ DeinitReturn \/ DeinitThrow \/ DestructDone \/ Sweep
  \/ DeleteAll \/ DeleteDone

Next == Mutator \/ Allocator \/ Collector

Spec == Init /\ [][Next]_vars

-----------------------------------------------------------------------------
(***************************************************************************)
(* Properties.                                                             *)
(***************************************************************************)

TypeOK ==
  /\ kind \in [Obj -> AllKinds \cup {"free"}]
  /\ refs \in [Obj -> SUBSET Obj]
  /\ mark \in [Obj -> {"white", "gray", "dark"}]
  /\ fixed \subseteq Obj /\ root \subseteq Obj /\ stack \subseteq Obj
  /\ above \subseteq Obj /\ saved \subseteq Obj /\ todo \subseteq Obj
  /\ usage \in Int /\ threshold \in Int /\ leaked \in Nat
  /\ pause \in BOOLEAN /\ halt \in BOOLEAN /\ forced \in BOOLEAN
  /\ phase \in Phases
  /\ pending \in AllKinds \cup {NONE} /\ outer \in AllKinds \cup {NONE}
  /\ retried \in BOOLEAN /\ thrown \in BOOLEAN
  /\ self \in Obj \cup {NONE} /\ destructed \subseteq Obj

\* Everything the program can still name: the values of globals, of the live
\* part of the stack, the fixed objects, and what is reached from them.
Roots == root \cup stack \cup saved \cup fixed

Closed(S) == \A o \in S : refs[o] \subseteq S

Reachable ==
  {o \in Obj : \A S \in SUBSET Obj : Roots \subseteq S /\ Closed(S) => o \in S}

\* When mark_unscanned has emptied the gray list, nothing the program can
\* still reach is about to be freed (be_gc.c:552-559).
MarkSound ==
  phase = "mark" /\ Gray = {} => Reachable \cap Condemned = {}

\* ... and nothing else is kept: one collection finds all garbage, cycles
\* included.
MarkComplete ==
  phase = "mark" /\ Gray = {} => Allocated \ Reachable \subseteq Condemned

\* When the gray list is empty the condemned are exactly the garbage.
MarkExact == MarkSound /\ MarkComplete

\* No global, stack slot or field ever refers to freed memory, not even the
\* slots above the top of the stack, which a new frame makes live again
\* without writing them.
NoDangling ==
  Roots \cup above \cup UNION {refs[o] : o \in Obj} \subseteq Allocated

\* What the sweep frees is unreachable: "step 3: destruct and delete
\* unreachable objects" (be_gc.c:560).
SweepsUnreachable ==
  phase = "sweep" => Reachable \cap Condemned = {}

\* vm->gc.usage counts the VM, the objects and the blocks not yet linked.
BlocksInHand ==
  (IF pending # NONE /\ phase # "malloc" /\ ~forced THEN 1 ELSE 0)
    + (IF outer # NONE THEN 1 ELSE 0)

UsageExact ==
  phase # "dead" => usage = BaseUsage + Cardinality(Allocated) + BlocksInHand + leaked

\* With automatic collection on, an allocation that completes leaves the
\* usage at or below the threshold: either it was, or a collection has just
\* moved the threshold (be_gc_auto, next_threshold).
UsageBounded ==
  phase = "link" /\ pause /\ ~halt => usage <= threshold

\* The account neither drifts nor runs away from its threshold (be_mem.c, be_gc.c).
UsageKept == UsageExact /\ UsageBounded

\* A deinit that raises stops the collector for good ("there shoudln't be any
\* exception raised here, or the gc stops", be_gc.c:468).
ThrowStopsGC == [][thrown => phase' # "mark"]_vars

\* What the deinit methods do between marking and sweeping - allocate, store, raise -
\* stays within that collection: the next one marks exactly again, the account is kept,
\* and after one has raised there is no next one (be_gc.c:468, 482-490).
DeinitContained ==
  [][MarkExact' /\ UsageKept' /\ (thrown => phase' # "mark")]_vars

\* An instance's deinit is not called twice, unless a deinit has raised: then
\* be_gc_deleteall calls again what the abandoned collection had called.
DeinitOnce ==
  [][\A o \in Obj : o \in todo \ todo' /\ o \in destructed => thrown]_vars

\* For TLC: the cells of the heap are interchangeable.
Symmetry == Permutations(Obj)
=============================================================================
