--------------------------- MODULE BerryGC_proofs ---------------------------
(***************************************************************************)
(* Proofs about the collector, for any heap: marking is sound and complete *)
(* whatever the program does (its destructors included), the memory        *)
(* account is exact and bounded, destructors are called once, and programs *)
(* without destructors never hold a dangling reference.                    *)
(***************************************************************************)
EXTENDS BerryGC, FiniteSetTheorems, TLAPS

-----------------------------------------------------------------------------
(***************************************************************************)
(* The inductive invariant.                                                *)
(***************************************************************************)

\* An allocation that is under way is the allocation of some object.
PendingKnown ==
  phase \in {"malloc", "link", "mark", "destruct", "sweep"} => pending # NONE

\* Only containers and instances have references; free cells have none.
LeavesHaveNoRefs == \A o \in Obj \ Scannable : refs[o] = {}

\* A collection can begin only when no mark is left from an earlier one.
MarksReset ==
  phase \in {"run", "malloc", "link"} /\ ~halt => \A o \in Obj : mark[o] = "white"

\* A deinit runs with the collector halted; outside one the frame of a deinit
\* holds nothing.
DeinitFrame ==
  /\ self # NONE => halt
  /\ self = NONE => saved = {}
  /\ phase \in {"mark", "destruct", "sweep"} => self = NONE
  /\ phase = "mark" => ~halt
  /\ phase \in {"destruct", "delete"} => halt

RootsMarked == \A o \in Premarked \cap Allocated : mark[o] # "white"
DarkScanned == \A o \in Dark : \A p \in refs[o] \cap Allocated : mark[p] # "white"
GrayScannable == Gray \subseteq Scannable
MarkedReachable == \A o \in Obj : mark[o] # "white" => o \in Reachable

Marking == phase = "mark" =>
  RootsMarked /\ DarkScanned /\ GrayScannable /\ MarkedReachable

IInv == TypeOK /\ PendingKnown /\ LeavesHaveNoRefs /\ MarksReset /\ DeinitFrame /\ Marking

-----------------------------------------------------------------------------
USE DEF Running

\* next_threshold yields a number, and the sweep frees a finite set.
LEMMA Arithmetic ==
  /\ \A u \in Int : next_threshold(u) \in Int
  /\ TypeOK => Cardinality(Condemned) \in Nat /\ Cardinality(Allocated) \in Nat
  <1>1. \A u \in Int : next_threshold(u) \in Int
    BY GCAssumption DEF next_threshold
  <1>2. IsFiniteSet(Condemned) /\ IsFiniteSet(Allocated)
    BY GCAssumption, FS_Subset DEF Condemned, GCList, StrTab, Allocated
  <1>3. QED
    BY <1>1, <1>2, FS_CardinalityType

\* mark_gray yields a coloring.
LEMMA MarkGrayType ==
  ASSUME TypeOK, NEW S
  PROVE  mark_gray(S) \in [Obj -> {"white", "gray", "dark"}]
  BY DEF TypeOK, mark_gray

\* An exception that leaves a deinit, or an allocation, keeps the types.
LEMMA ThrowType ==
  ASSUME TypeOK, Throw,
         UNCHANGED <<memVars, root, usage, threshold, flagVars, destructed>>
  PROVE  TypeOK'
  <1>1. thrown' \in BOOLEAN
    <2>1. thrown' = (thrown \/ self # NONE)
      BY DEF Throw
    <2>2. QED
      BY <2>1, Zenon
  <1>2. leaked' \in Nat
    BY DEF Throw, TypeOK
  <1>3. phase' \in Phases
    BY DEF Throw, Phases
  <1>4. stack' \subseteq Obj /\ above' \subseteq Obj
    BY DEF Throw, TypeOK
  <1>5. pending' = NONE /\ outer' = NONE /\ retried' = FALSE /\ todo' = {}
        /\ self' = NONE /\ saved' = {}
    BY DEF Throw
  <1>6. QED
    BY <1>1, <1>2, <1>3, <1>4, <1>5 DEF TypeOK, memVars, flagVars

\* The types of all variables are preserved by every step.
LEMMA TypeInductive == TypeOK /\ PendingKnown /\ [Next]_vars => TypeOK'
  <1> SUFFICES ASSUME TypeOK, PendingKnown, [Next]_vars PROVE TypeOK'
    OBVIOUS
  <1> USE GCAssumption DEF TypeOK, memVars, rootVars, cntVars, flagVars, ctlVars, histVars,
          Phases, AllKinds
  <1>1. ASSUME NEW p \in Obj, Load(p) PROVE TypeOK'
    BY <1>1 DEF Load
  <1>2. ASSUME NEW p \in Obj, Pop(p) PROVE TypeOK'
    BY <1>2 DEF Pop
  <1>3. ASSUME NEW p \in Obj, Expose(p) PROVE TypeOK'
    BY <1>3 DEF Expose
  <1>4. ASSUME NEW p \in Obj, InternHit(p) PROVE TypeOK'
    BY <1>4 DEF InternHit
  <1>5. ASSUME NEW p \in Obj, SetGlobal(p) PROVE TypeOK'
    BY <1>5 DEF SetGlobal
  <1>6. ASSUME NEW p \in Obj, ClearGlobal(p) PROVE TypeOK'
    BY <1>6 DEF ClearGlobal
  <1>7. ASSUME NEW p \in Obj, be_gc_fix(p) PROVE TypeOK'
    BY <1>7 DEF be_gc_fix
  <1>8. ASSUME NEW p \in Obj, be_gc_unfix(p) PROVE TypeOK'
    BY <1>8 DEF be_gc_unfix
  <1>9. ASSUME NEW o \in Obj, NEW p \in Obj, SetField(o, p) PROVE TypeOK'
    BY <1>9 DEF SetField
  <1>10. ASSUME NEW o \in Obj, NEW p \in Obj, ClearField(o, p) PROVE TypeOK'
    BY <1>10 DEF ClearField
  <1>11. ASSUME be_gc_setpause PROVE TypeOK'
    BY <1>11 DEF be_gc_setpause
  <1>12. ASSUME NEW k \in Kinds, NewObject(k) PROVE TypeOK'
    BY <1>12 DEF NewObject
  <1>13. ASSUME MallocOk PROVE TypeOK'
    BY <1>13, MarkGrayType DEF MallocOk, StartCollect
  <1>14. ASSUME MallocFail PROVE TypeOK'
    <2>1. CASE halt
      BY <1>14, <2>1 DEF MallocFail
    <2>2. CASE ~halt
      <3>1. mark' \in [Obj -> {"white", "gray", "dark"}]
        BY <1>14, <2>2, MarkGrayType DEF MallocFail, StartCollect
      <3>2. QED
        BY <1>14, <2>2, <3>1 DEF MallocFail, StartCollect
    <2>3. QED
      BY <2>1, <2>2
  <1>15. ASSUME MallocThrow PROVE TypeOK'
    <2>1. Throw /\ UNCHANGED <<memVars, root, usage, threshold, flagVars, destructed>>
      BY <1>15 DEF MallocThrow
    <2>2. QED
      BY <2>1, ThrowType
  <1>16. ASSUME NEW o \in Obj, LinkObject(o) PROVE TypeOK'
    <2>1. kind' \in [Obj -> AllKinds \cup {"free"}]
      BY <1>16 DEF LinkObject, PendingKnown
    <2>2. QED
      BY <1>16, <2>1 DEF LinkObject
  <1>17. ASSUME NEW o \in Obj, Scan(o) PROVE TypeOK'
    BY <1>17, MarkGrayType DEF Scan
  <1>18. ASSUME NEW o \in Obj, CallDeinit(o) PROVE TypeOK'
    BY <1>18 DEF CallDeinit
  <1>19. ASSUME MarkDone PROVE TypeOK'
    BY <1>19 DEF MarkDone, White
  <1>20. ASSUME DeinitReturn PROVE TypeOK'
    BY <1>20 DEF DeinitReturn, Deleting
  <1>21. ASSUME DeinitThrow PROVE TypeOK'
    <2>1. Throw /\ UNCHANGED <<memVars, root, usage, threshold, flagVars, destructed>>
      BY <1>21 DEF DeinitThrow
    <2>2. QED
      BY <2>1, ThrowType
  <1>22. ASSUME DestructDone PROVE TypeOK'
    BY <1>22 DEF DestructDone
  <1>23. ASSUME Sweep PROVE TypeOK'
    <2>1. usage' \in Int /\ threshold' \in Int
      BY <1>23, Arithmetic DEF Sweep
    <2>2. /\ kind' \in [Obj -> AllKinds \cup {"free"}]
          /\ refs' \in [Obj -> SUBSET Obj]
          /\ mark' \in [Obj -> {"white", "gray", "dark"}]
      BY <1>23 DEF Sweep
    <2>3. QED
      BY <1>23, <2>1, <2>2 DEF Sweep
  <1>24. ASSUME DeleteAll PROVE TypeOK'
    BY <1>24 DEF DeleteAll
  <1>25. ASSUME DeleteDone PROVE TypeOK'
    BY <1>25, Arithmetic DEF DeleteDone
  <1>26. CASE UNCHANGED vars
    BY <1>26 DEF vars
  <1>27. QED
    BY <1>1, <1>2, <1>3, <1>4, <1>5, <1>6, <1>7, <1>8, <1>9, <1>10, <1>11, <1>12, <1>13, <1>14, <1>15, <1>16, <1>17, <1>18, <1>19, <1>20, <1>21, <1>22, <1>23, <1>24, <1>25, <1>26 DEF Next, Mutator, Allocator, Collector

\* An allocation keeps the kind it asks for until it ends.
LEMMA PendingInductive == TypeOK /\ PendingKnown /\ [Next]_vars => PendingKnown'
  <1> SUFFICES ASSUME TypeOK, PendingKnown, [Next]_vars PROVE PendingKnown'
    OBVIOUS
  <1> USE GCAssumption DEF PendingKnown, ctlVars
  <1>1. CASE Mutator
    BY <1>1 DEF Mutator, Load, Pop, Expose, InternHit, SetGlobal, ClearGlobal, be_gc_fix,
                be_gc_unfix, SetField, ClearField, be_gc_setpause
  <1>2. CASE Allocator
    BY <1>2 DEF Allocator, NewObject, MallocOk, MallocFail, MallocThrow, LinkObject,
                StartCollect, Throw
  <1>3. CASE Collector
    BY <1>3 DEF Collector, Scan, CallDeinit, MarkDone, DeinitReturn, DeinitThrow,
                DestructDone, Sweep, DeleteAll, DeleteDone, Throw, Deleting
  <1>4. CASE UNCHANGED vars
    BY <1>4 DEF vars
  <1>5. QED
    BY <1>1, <1>2, <1>3, <1>4 DEF Next

\* No destructor runs while a collection marks or sweeps, and the collector is
\* halted while one runs.
LEMMA FrameInductive ==
  TypeOK /\ PendingKnown /\ DeinitFrame /\ [Next]_vars => DeinitFrame'
  <1> SUFFICES ASSUME TypeOK, PendingKnown, DeinitFrame, [Next]_vars PROVE DeinitFrame'
    OBVIOUS
  <1> USE GCAssumption DEF PendingKnown, DeinitFrame, ctlVars, flagVars, TypeOK
  <1>1. CASE Mutator
    BY <1>1 DEF Mutator, Load, Pop, Expose, InternHit, SetGlobal, ClearGlobal, be_gc_fix,
                be_gc_unfix, SetField, ClearField, be_gc_setpause
  <1>2. CASE Allocator
    BY <1>2 DEF Allocator, NewObject, MallocOk, MallocFail, MallocThrow, LinkObject,
                StartCollect, Throw
  <1>3. CASE Collector
    <2>1. ASSUME NEW o \in Obj, Scan(o) PROVE DeinitFrame'
      BY <2>1 DEF Scan
    <2>2. ASSUME NEW o \in Obj, CallDeinit(o) PROVE DeinitFrame'
      BY <2>2 DEF CallDeinit
    <2>3. CASE MarkDone
      BY <2>3 DEF MarkDone
    <2>4. CASE DeinitReturn
      BY <2>4 DEF DeinitReturn, Deleting
    <2>5. CASE DeinitThrow
      BY <2>5 DEF DeinitThrow, Throw, Deleting
    <2>6. CASE DestructDone \/ Sweep \/ DeleteAll \/ DeleteDone
      BY <2>6 DEF DestructDone, Sweep, DeleteAll, DeleteDone
    <2>7. QED
      BY <1>3, <2>1, <2>2, <2>3, <2>4, <2>5, <2>6 DEF Collector
  <1>4. CASE UNCHANGED vars
    BY <1>4 DEF vars
  <1>5. QED
    BY <1>1, <1>2, <1>3, <1>4 DEF Next

\* An object gets references only while it is a container.
LEMMA LeavesInductive ==
  TypeOK /\ LeavesHaveNoRefs /\ [Next]_vars => LeavesHaveNoRefs'
  <1> SUFFICES ASSUME TypeOK, LeavesHaveNoRefs, [Next]_vars PROVE LeavesHaveNoRefs'
    OBVIOUS
  <1> USE GCAssumption DEF LeavesHaveNoRefs, Scannable, memVars, TypeOK, AllKinds
  <1>1. CASE UNCHANGED <<kind, refs>>
    BY <1>1
  <1>2. ASSUME NEW o \in Obj, NEW p \in Obj, SetField(o, p) \/ ClearField(o, p)
        PROVE  LeavesHaveNoRefs'
    BY <1>2 DEF SetField, ClearField
  <1>3. ASSUME NEW o \in Obj, LinkObject(o) PROVE LeavesHaveNoRefs'
    BY <1>3 DEF LinkObject
  <1>4. CASE Sweep
    BY <1>4 DEF Sweep
  <1>5. CASE DeleteDone
    BY <1>5 DEF DeleteDone
  <1>6. QED
    <2>1. CASE Mutator
      BY <2>1, <1>1, <1>2 DEF Mutator, Load, Pop, Expose, InternHit, SetGlobal,
                  ClearGlobal, be_gc_fix, be_gc_unfix, be_gc_setpause
    <2>2. CASE Allocator
      BY <2>2, <1>1, <1>3 DEF Allocator, NewObject, MallocOk, MallocFail, MallocThrow
    <2>3. CASE Collector
      BY <2>3, <1>1, <1>4, <1>5 DEF Collector, Scan, CallDeinit, MarkDone,
                  DeinitReturn, DeinitThrow, DestructDone, DeleteAll
    <2>4. CASE UNCHANGED vars
      BY <2>4, <1>1 DEF vars
    <2>5. QED
      BY <2>1, <2>2, <2>3, <2>4 DEF Next

\* Between collections every object is white, unless a deinit has raised.
LEMMA MarksInductive ==
  TypeOK /\ DeinitFrame /\ MarksReset /\ [Next]_vars => MarksReset'
  <1> SUFFICES ASSUME TypeOK, DeinitFrame, MarksReset, [Next]_vars PROVE MarksReset'
    OBVIOUS
  <1> USE GCAssumption DEF MarksReset, DeinitFrame, memVars, ctlVars, flagVars, TypeOK
  <1>1. CASE Mutator
    BY <1>1 DEF Mutator, Load, Pop, Expose, InternHit, SetGlobal, ClearGlobal, be_gc_fix,
                be_gc_unfix, SetField, ClearField, be_gc_setpause, Running
  <1>2. CASE Allocator
    <2>1. ASSUME NEW o \in Obj, LinkObject(o) PROVE MarksReset'
      BY <2>1 DEF LinkObject
    <2>2. CASE MallocOk
      BY <2>2 DEF MallocOk, StartCollect
    <2>3. CASE MallocFail
      BY <2>3 DEF MallocFail, StartCollect
    <2>4. CASE MallocThrow
      BY <2>4 DEF MallocThrow, Throw
    <2>5. ASSUME NEW k \in Kinds, NewObject(k) PROVE MarksReset'
      BY <2>5 DEF NewObject
    <2>6. QED
      BY <1>2, <2>1, <2>2, <2>3, <2>4, <2>5 DEF Allocator
  <1>3. CASE Collector
    <2>1. ASSUME NEW o \in Obj, Scan(o) PROVE MarksReset'
      BY <2>1 DEF Scan
    <2>2. ASSUME NEW o \in Obj, CallDeinit(o) PROVE MarksReset'
      BY <2>2 DEF CallDeinit
    <2>3. CASE MarkDone \/ DestructDone \/ DeleteAll \/ DeleteDone
      BY <2>3 DEF MarkDone, DestructDone, DeleteAll, DeleteDone
    <2>4. CASE DeinitReturn
      BY <2>4 DEF DeinitReturn
    <2>5. CASE DeinitThrow
      BY <2>5 DEF DeinitThrow, Throw
    <2>6. CASE Sweep
      BY <2>6 DEF Sweep
    <2>7. QED
      BY <1>3, <2>1, <2>2, <2>3, <2>4, <2>5, <2>6 DEF Collector
  <1>4. CASE UNCHANGED vars
    BY <1>4 DEF vars
  <1>5. QED
    BY <1>1, <1>2, <1>3, <1>4 DEF Next

-----------------------------------------------------------------------------
(***************************************************************************)
(* Marking.                                                                *)
(***************************************************************************)

\* The roots are reachable, and so is what a reachable object refers to.
LEMMA ReachableClosed ==
  ASSUME TypeOK
  PROVE  /\ Roots \subseteq Reachable
         /\ \A o \in Reachable : refs[o] \subseteq Reachable
         /\ Premarked \subseteq Roots
  <1>1. Roots \subseteq Reachable
    BY DEF Reachable, Roots, TypeOK
  <1>2. ASSUME NEW o \in Reachable, NEW p \in refs[o] PROVE p \in Reachable
    <2>1. p \in Obj
      BY <1>2 DEF Reachable, TypeOK
    <2>2. ASSUME NEW S \in SUBSET Obj, Roots \subseteq S, Closed(S) PROVE p \in S
      BY <1>2, <2>2 DEF Reachable, Closed
    <2>3. QED
      BY <2>1, <2>2 DEF Reachable
  <1>3. Premarked \subseteq Roots
    BY DEF Premarked, Roots
  <1>4. QED
    BY <1>1, <1>2, <1>3

\* A reachable set is the smallest closed one: it is inside every other.
LEMMA ReachableSmallest ==
  ASSUME NEW S \in SUBSET Obj, Roots \subseteq S, Closed(S)
  PROVE  Reachable \subseteq S
  BY DEF Reachable

\* Step 1 of be_gc_collect leaves the tricolor invariant true.
LEMMA StartMarks ==
  ASSUME TypeOK, LeavesHaveNoRefs, \A o \in Obj : mark[o] = "white",
         StartCollect, UNCHANGED <<kind, refs, fixed, root, stack, saved>>
  PROVE  Marking'
  <1> USE DEF TypeOK
  <1>1. \A o \in Obj : mark'[o] = IF o \in Premarked \cap Allocated
                                 THEN IF o \in Scannable THEN "gray" ELSE "dark"
                                 ELSE "white"
    BY DEF StartCollect, mark_gray, White
  <1>2. Premarked' = Premarked /\ Allocated' = Allocated /\ Scannable' = Scannable
        /\ Reachable' = Reachable
    BY DEF Premarked, Allocated, Scannable, Reachable, Roots, Closed, GCList, StrTab
  <1>3. Premarked \subseteq Obj
    BY DEF Premarked, GCList, Allocated
  <1>4. RootsMarked'
    BY <1>1, <1>2, <1>3 DEF RootsMarked
  <1>5. DarkScanned'
    <2>1. \A o \in Dark' : o \in Obj \ Scannable
      BY <1>1 DEF Dark
    <2>2. QED
      BY <2>1 DEF DarkScanned, LeavesHaveNoRefs
  <1>6. GrayScannable'
    BY <1>1, <1>2 DEF GrayScannable, Gray
  <1>7. MarkedReachable'
    BY <1>1, <1>2, ReachableClosed DEF MarkedReachable
  <1>8. QED
    BY <1>4, <1>5, <1>6, <1>7 DEF Marking

\* mark_unscanned keeps it true.
LEMMA ScanMarks ==
  ASSUME TypeOK, LeavesHaveNoRefs, Marking, NEW o \in Obj, Scan(o)
  PROVE  Marking'
  <1> USE DEF TypeOK
  <1>1. /\ RootsMarked /\ DarkScanned /\ GrayScannable /\ MarkedReachable
        /\ mark[o] = "gray"
    BY DEF Scan, Marking
  <1>2. \A q \in Obj : mark'[q] = IF q = o THEN "dark"
                       ELSE IF q \in refs[o] \cap Allocated /\ mark[q] = "white"
                            THEN IF q \in Scannable THEN "gray" ELSE "dark"
                            ELSE mark[q]
    BY DEF Scan, mark_gray, White
  <1>3. UNCHANGED <<kind, refs, fixed, root, stack, saved>>
    BY DEF Scan, rootVars, ctlVars
  <1>4. Premarked' = Premarked /\ Allocated' = Allocated /\ Scannable' = Scannable
        /\ Reachable' = Reachable
    BY <1>3 DEF Premarked, Allocated, Scannable, Reachable, Roots, Closed, GCList, StrTab
  <1>5. \A q \in Obj : mark[q] # "white" => mark'[q] # "white"
    BY <1>2
  <1>6. RootsMarked'
    <2>1. Premarked \subseteq Obj
      BY DEF Premarked, GCList, Allocated
    <2>2. QED
      BY <1>1, <1>4, <1>5, <2>1 DEF RootsMarked
  <1>7. DarkScanned'
    <2> SUFFICES ASSUME NEW q \in Dark', NEW p \in refs[q] \cap Allocated
                 PROVE  mark'[p] # "white"
      BY <1>3, <1>4 DEF DarkScanned
    <2>1. q \in Obj /\ p \in Obj /\ mark'[q] = "dark"
      BY DEF Dark, Allocated
    <2>2. CASE q = o
      BY <1>2, <2>1, <2>2
    <2>3. CASE q # o /\ mark[q] = "dark"
      BY <1>1, <1>5, <2>1, <2>3 DEF DarkScanned, Dark
    <2>4. CASE q # o /\ mark[q] # "dark"
      <3>1. q \notin Scannable
        BY <1>2, <2>1, <2>4
      <3>2. QED
        BY <2>1, <3>1 DEF LeavesHaveNoRefs
    <2>5. QED
      BY <2>2, <2>3, <2>4
  <1>8. GrayScannable'
    BY <1>1, <1>2, <1>4 DEF GrayScannable, Gray
  <1>9. MarkedReachable'
    <2>1. o \in Reachable
      BY <1>1 DEF MarkedReachable
    <2>2. refs[o] \subseteq Reachable
      BY <2>1, ReachableClosed
    <2>3. QED
      BY <1>1, <1>2, <1>4, <2>1, <2>2 DEF MarkedReachable
  <1>10. QED
    BY <1>6, <1>7, <1>8, <1>9 DEF Marking

\* No other step is taken while the collector marks, or begins to mark.
LEMMA MarkingInductive == IInv /\ [Next]_vars => Marking'
  <1> SUFFICES ASSUME IInv, [Next]_vars PROVE Marking'
    OBVIOUS
  <1> USE DEF IInv, ctlVars
  <1>1. CASE Mutator
    BY <1>1 DEF Mutator, Load, Pop, Expose, InternHit, SetGlobal, ClearGlobal, be_gc_fix,
                be_gc_unfix, SetField, ClearField, be_gc_setpause, Running, Marking
  <1>2. CASE MallocOk
    <2>1. CASE pause /\ usage + 1 > threshold /\ ~halt
      BY <1>2, <2>1, StartMarks DEF MallocOk, MarksReset
    <2>2. CASE ~(pause /\ usage + 1 > threshold /\ ~halt)
      BY <1>2, <2>2 DEF MallocOk, Marking
    <2>3. QED
      BY <2>1, <2>2
  <1>3. CASE MallocFail
    <2>1. CASE halt
      BY <1>3, <2>1 DEF MallocFail, Marking
    <2>2. CASE ~halt
      BY <1>3, <2>2, StartMarks DEF MallocFail, MarksReset
    <2>3. QED
      BY <2>1, <2>2
  <1>4. ASSUME NEW k \in Kinds, NewObject(k) PROVE Marking'
    BY <1>4 DEF NewObject, Marking
  <1>5. CASE MallocThrow \/ \E o \in Obj : LinkObject(o)
    BY <1>5 DEF MallocThrow, Throw, LinkObject, Marking
  <1>6. ASSUME NEW o \in Obj, Scan(o) PROVE Marking'
    BY <1>6, ScanMarks
  <1>7. ASSUME NEW o \in Obj, CallDeinit(o) PROVE Marking'
    BY <1>7 DEF CallDeinit, Marking
  <1>8. CASE MarkDone \/ DeinitReturn \/ DeinitThrow \/ DestructDone \/ Sweep
             \/ DeleteAll \/ DeleteDone
    BY <1>8 DEF MarkDone, DeinitReturn, DeinitThrow, Throw, Deleting, DestructDone, Sweep,
                DeleteAll, DeleteDone, Marking
  <1>9. CASE UNCHANGED vars
    <2>1. UNCHANGED <<kind, refs, mark, fixed, root, stack, saved, phase>>
      BY <1>9 DEF vars, memVars, rootVars
    <2>2. QED
      BY <2>1 DEF Marking, RootsMarked, DarkScanned, GrayScannable, MarkedReachable,
                  Premarked, Allocated, GCList, StrTab, Scannable, Gray, Dark, Reachable,
                  Roots, Closed
  <1>10. QED
    BY <1>1, <1>2, <1>3, <1>4, <1>5, <1>6, <1>7, <1>8, <1>9 DEF Next, Allocator, Collector

-----------------------------------------------------------------------------
(***************************************************************************)
(* The theorems.                                                           *)
(***************************************************************************)

\* The inductive invariant holds in every state of every program.
THEOREM Invariance == Spec => []IInv
  <1>1. Init => IInv
    <2> SUFFICES ASSUME Init PROVE IInv
      OBVIOUS
    <2>1. TypeOK
      <3>1. usage \in Int /\ threshold \in Int /\ leaked \in Nat
        BY GCAssumption, Arithmetic DEF Init
      <3>2. /\ kind \in [Obj -> AllKinds \cup {"free"}]
            /\ refs \in [Obj -> SUBSET Obj]
            /\ mark \in [Obj -> {"white", "gray", "dark"}]
        BY DEF Init
      <3>3. QED
        BY <3>1, <3>2 DEF Init, TypeOK, Phases
    <2>2. QED
      BY <2>1 DEF Init, IInv, PendingKnown, LeavesHaveNoRefs, MarksReset, DeinitFrame, Marking
  <1>2. IInv /\ [Next]_vars => IInv'
    BY TypeInductive, PendingInductive, FrameInductive, LeavesInductive, MarksInductive,
       MarkingInductive DEF IInv
  <1>3. QED
    BY <1>1, <1>2, PTL DEF Spec

\* The variables keep their types.
THEOREM TypeCorrect == Spec => []TypeOK
  <1>1. IInv => TypeOK
    BY DEF IInv
  <1>2. QED
    BY <1>1, Invariance, PTL

\* Marking is sound: when mark_unscanned has emptied the gray list nothing that
\* the program can still name is white, whatever its destructors have done in
\* earlier collections (be_gc.c:552-559).
THEOREM MarkingSound == Spec => []MarkSound
  <1>1. IInv => MarkSound
    <2> SUFFICES ASSUME IInv, phase = "mark", Gray = {} PROVE Reachable \cap Condemned = {}
      BY DEF MarkSound
    <2> USE DEF IInv, TypeOK
    <2> DEFINE S == Dark \cup (Obj \ Allocated) \cup (StrTab \cap fixed)
    <2>1. RootsMarked /\ DarkScanned /\ saved = {}
      BY DEF Marking, DeinitFrame
    <2>2. \A o \in Obj : mark[o] # "white" => o \in Dark
      BY DEF Gray, Dark
    <2>3. S \in SUBSET Obj
      BY DEF Dark, StrTab
    <2>4. Roots \subseteq S
      <3> SUFFICES ASSUME NEW o \in Roots, o \in Allocated, o \notin StrTab \cap fixed
                   PROVE  o \in Dark
        BY DEF Roots, Allocated
      <3>1. o \in Premarked
        BY <2>1 DEF Roots, Premarked, GCList
      <3>2. QED
        BY <2>1, <2>2, <3>1 DEF RootsMarked, Allocated
    <2>5. Closed(S)
      <3> SUFFICES ASSUME NEW o \in S, NEW p \in refs[o], p \in Allocated PROVE p \in Dark
        BY <2>3 DEF Closed, Allocated
      <3>1. CASE o \in Dark
        BY <2>1, <2>2, <3>1 DEF DarkScanned, Allocated
      <3>2. CASE o \notin Dark
        BY <3>2 DEF LeavesHaveNoRefs, Scannable, Allocated, StrTab
      <3>3. QED
        BY <3>1, <3>2
    <2>6. Reachable \subseteq S
      BY <2>3, <2>4, <2>5, ReachableSmallest
    <2>7. Condemned \cap S = {}
      BY DEF Condemned, GCList, StrTab, Dark, Allocated
    <2>8. QED
      BY <2>6, <2>7
  <1>2. QED
    BY <1>1, Invariance, PTL

\* Marking is complete: everything else is white then, so one collection finds
\* all garbage, cycles included.
THEOREM MarkingComplete == Spec => []MarkComplete
  <1>1. IInv => MarkComplete
    <2> SUFFICES ASSUME IInv, phase = "mark", NEW o \in Allocated \ Reachable
                 PROVE  o \in Condemned
      BY DEF MarkComplete
    <2>1. o \in Obj /\ mark[o] = "white"
      BY DEF IInv, TypeOK, Marking, MarkedReachable, Allocated
    <2>2. o \notin fixed
      BY ReachableClosed DEF IInv, Roots
    <2>3. QED
      BY <2>1, <2>2 DEF Condemned, GCList
  <1>2. QED
    BY <1>1, Invariance, PTL

-----------------------------------------------------------------------------
(***************************************************************************)
(* The memory account.                                                     *)
(***************************************************************************)

\* Who owns the block of an allocation: the allocation itself, or the deinit
\* whose collection it began.  A forced collection calls no deinit, so it ends
\* in the allocation that forced it.
BlockOwned ==
  /\ phase \in {"run", "delete"} => pending = NONE
  /\ self = NONE => outer = NONE
  /\ phase = "delete" => self = NONE
  /\ forced => phase \in {"mark", "destruct", "sweep"}
  /\ forced /\ phase = "destruct" => todo = {}

UInv == BlockOwned /\ UsageExact /\ UsageBounded

LEMMA BlockOwnedInductive ==
  ASSUME IInv, BlockOwned, [Next]_vars
  PROVE  BlockOwned'
  <1> USE GCAssumption DEF IInv, BlockOwned, DeinitFrame, PendingKnown, ctlVars, flagVars
  <1>1. CASE Mutator
    BY <1>1 DEF Mutator, Load, Pop, Expose, InternHit, SetGlobal, ClearGlobal, be_gc_fix,
                be_gc_unfix, SetField, ClearField, be_gc_setpause
  <1>2. CASE Allocator
    BY <1>2 DEF Allocator, NewObject, MallocOk, MallocFail, MallocThrow, LinkObject,
                StartCollect, Throw
  <1>3. CASE Collector
    <2>1. ASSUME NEW o \in Obj, Scan(o) \/ CallDeinit(o) PROVE BlockOwned'
      BY <2>1 DEF Scan, CallDeinit, TypeOK
    <2>2. CASE MarkDone \/ DestructDone \/ Sweep \/ DeleteAll \/ DeleteDone
      BY <2>2 DEF MarkDone, DestructDone, Sweep, DeleteAll, DeleteDone
    <2>3. CASE DeinitReturn
      BY <2>3 DEF DeinitReturn, Deleting
    <2>4. CASE DeinitThrow
      BY <2>4 DEF DeinitThrow, Throw
    <2>5. QED
      BY <1>3, <2>1, <2>2, <2>3, <2>4 DEF Collector
  <1>4. CASE UNCHANGED vars
    BY <1>4 DEF vars
  <1>5. QED
    BY <1>1, <1>2, <1>3, <1>4 DEF Next

\* Linking adds one object to the heap, the sweep takes the condemned away.
LEMMA LinkCounts ==
  ASSUME TypeOK, PendingKnown, NEW o \in Obj, LinkObject(o)
  PROVE  Cardinality(Allocated') = Cardinality(Allocated) + 1
  <1>1. pending # "free"
    BY GCAssumption DEF LinkObject, PendingKnown, TypeOK, AllKinds
  <1>2. Allocated' = Allocated \cup {o} /\ o \notin Allocated
    BY <1>1 DEF LinkObject, Allocated, TypeOK
  <1>3. IsFiniteSet(Allocated)
    BY GCAssumption, FS_Subset DEF Allocated
  <1>4. QED
    BY <1>2, <1>3, FS_AddElement

LEMMA SweepCounts ==
  ASSUME TypeOK, Sweep
  PROVE  Cardinality(Allocated') = Cardinality(Allocated) - Cardinality(Condemned)
  <1>1. Condemned \subseteq Allocated
    BY DEF Condemned, GCList, StrTab, Allocated
  <1>2. Allocated' = Allocated \ Condemned
    BY DEF Sweep, Allocated
  <1>3. IsFiniteSet(Allocated)
    BY GCAssumption, FS_Subset DEF Allocated
  <1>4. IsFiniteSet(Condemned)
    BY <1>1, <1>3, FS_Subset
  <1>5. Cardinality(Allocated \ Condemned)
          = Cardinality(Allocated) - Cardinality(Allocated \cap Condemned)
    BY <1>3, FS_Difference
  <1>6. Allocated \cap Condemned = Condemned
    BY <1>1
  <1>7. QED
    BY <1>2, <1>5, <1>6

LEMMA UsageInductive ==
  ASSUME IInv, BlockOwned, UsageExact, [Next]_vars
  PROVE  UsageExact'
  <1>0. TypeOK /\ TypeOK' /\ PendingKnown /\ DeinitFrame
    BY TypeInductive DEF IInv
  <1>a. /\ usage \in Int /\ usage' \in Int /\ leaked \in Int /\ leaked' \in Int
        /\ BlocksInHand \in Int /\ BlocksInHand' \in Int
    BY <1>0 DEF TypeOK, BlocksInHand
  <1>b. Cardinality(Allocated) \in Nat /\ BaseUsage \in Nat
    BY <1>0, Arithmetic, GCAssumption
  <1>1. ASSUME phase # "dead", UNCHANGED <<kind, usage, leaked>>, BlocksInHand' = BlocksInHand
        PROVE  UsageExact'
    BY <1>1 DEF UsageExact, Allocated
  <1> USE DEF memVars, cntVars, ctlVars, flagVars
  <1>2. CASE Mutator
    <2>1. phase # "dead" /\ UNCHANGED <<kind, usage, leaked, phase, pending, outer, forced>>
      BY <1>2 DEF Mutator, Load, Pop, Expose, InternHit, SetGlobal, ClearGlobal, be_gc_fix,
                be_gc_unfix, SetField, ClearField, be_gc_setpause
    <2>2. BlocksInHand' = BlocksInHand
      BY <2>1 DEF BlocksInHand
    <2>3. QED
      BY <2>1, <2>2, <1>1
  <1>3. ASSUME NEW k \in Kinds, NewObject(k) PROVE UsageExact'
    <2>1. BlocksInHand' = BlocksInHand
      BY <1>3 DEF NewObject, BlocksInHand, BlockOwned
    <2>2. QED
      BY <2>1, <1>1, <1>3 DEF NewObject
  <1>4. CASE MallocOk
    <2>1. BlocksInHand' = BlocksInHand + 1
      BY <1>0, <1>4 DEF MallocOk, StartCollect, BlocksInHand, BlockOwned, PendingKnown
    <2>2. usage' = usage + 1 /\ leaked' = leaked /\ phase # "dead"
          /\ Cardinality(Allocated') = Cardinality(Allocated)
      BY <1>4 DEF MallocOk, Allocated
    <2>3. QED
      BY <2>1, <2>2, <1>b, <1>a DEF UsageExact
  <1>5. CASE MallocFail
    <2>1. BlocksInHand' = BlocksInHand
      BY <1>5 DEF MallocFail, StartCollect, BlocksInHand, BlockOwned
    <2>2. QED
      BY <2>1, <1>1, <1>5 DEF MallocFail
  <1>6. CASE MallocThrow \/ DeinitThrow
    <2>1. Throw /\ phase # "dead" /\ UNCHANGED <<kind, usage, forced>>
      BY <1>6 DEF MallocThrow, DeinitThrow
    <2>2. BlocksInHand' = 0
      BY <2>1 DEF Throw, BlocksInHand
    <2>3. BlocksInHand = IF outer = NONE THEN 0 ELSE 1
      BY <1>6 DEF MallocThrow, DeinitThrow, BlocksInHand, BlockOwned
    <2>4. leaked' = leaked + BlocksInHand
      BY <2>1, <2>3 DEF Throw
    <2>5. Cardinality(Allocated') = Cardinality(Allocated)
      BY <2>1 DEF Allocated
    <2>6. QED
      BY <2>1, <2>2, <2>4, <2>5, <1>b, <1>a DEF UsageExact
  <1>7. ASSUME NEW o \in Obj, LinkObject(o) PROVE UsageExact'
    <2>1. BlocksInHand = BlocksInHand' + 1
      BY <1>0, <1>7 DEF LinkObject, BlocksInHand, BlockOwned, PendingKnown
    <2>2. Cardinality(Allocated') = Cardinality(Allocated) + 1
      BY <1>0, <1>7, LinkCounts
    <2>3. usage' = usage /\ leaked' = leaked /\ phase # "dead"
      BY <1>7 DEF LinkObject
    <2>4. Cardinality(Allocated) \in Nat /\ BaseUsage \in Nat
      BY <1>0, Arithmetic, GCAssumption
    <2>5. QED
      BY <2>1, <2>2, <2>3, <2>4, <1>a DEF UsageExact
  <1>8. CASE \/ \E o \in Obj : Scan(o)
             \/ MarkDone \/ DestructDone \/ DeleteAll
    <2>1. /\ phase # "dead" /\ UNCHANGED <<kind, usage, leaked, pending, outer, forced>>
          /\ phase # "malloc" /\ phase' # "malloc"
      BY <1>8 DEF Scan, MarkDone, DestructDone, DeleteAll
    <2>2. BlocksInHand' = BlocksInHand
      BY <2>1 DEF BlocksInHand
    <2>3. QED
      BY <2>1, <2>2, <1>1
  <1>9. ASSUME NEW o \in Obj, CallDeinit(o) PROVE UsageExact'
    <2>1. outer = NONE /\ (phase = "destruct" => ~forced)
      BY <1>0, <1>9 DEF CallDeinit, BlockOwned, DeinitFrame
    <2>2. BlocksInHand' = BlocksInHand
      BY <1>9, <2>1 DEF CallDeinit, BlocksInHand, BlockOwned
    <2>3. QED
      BY <2>2, <1>1, <1>9 DEF CallDeinit
  <1>10. CASE DeinitReturn
    <2>1. BlocksInHand' = BlocksInHand
      BY <1>10 DEF DeinitReturn, Deleting, BlocksInHand, BlockOwned
    <2>2. QED
      BY <2>1, <1>1, <1>10 DEF DeinitReturn
  <1>11. CASE Sweep
    <2>1. BlocksInHand' = BlocksInHand
      BY <1>0, <1>11 DEF Sweep, BlocksInHand
    <2>2. Cardinality(Allocated') = Cardinality(Allocated) - Cardinality(Condemned)
      BY <1>0, <1>11, SweepCounts
    <2>3. usage' = usage - Cardinality(Condemned) /\ leaked' = leaked /\ phase # "dead"
      BY <1>11 DEF Sweep
    <2>4. Cardinality(Allocated) \in Nat /\ Cardinality(Condemned) \in Nat /\ BaseUsage \in Nat
      BY <1>0, Arithmetic, GCAssumption
    <2>5. QED
      BY <2>1, <2>2, <2>3, <2>4, <1>a DEF UsageExact
  <1>12. CASE DeleteDone
    BY <1>12 DEF DeleteDone, UsageExact
  <1>13. CASE UNCHANGED vars
    BY <1>13 DEF vars, UsageExact, Allocated, BlocksInHand
  <1>14. QED
    BY <1>2, <1>3, <1>4, <1>5, <1>6, <1>7, <1>8, <1>9, <1>10, <1>11, <1>12, <1>13
       DEF Next, Allocator, Collector

\* The threshold a collection sets is at least what the collection has left.
LEMMA ThresholdCovers ==
  ASSUME NEW u \in Nat
  PROVE  u <= next_threshold(u)
  <1>1. PICK d \in Nat : StepRate = 100 + d
    <2>1. StepRate - 100 \in Nat /\ StepRate = 100 + (StepRate - 100)
      BY GCAssumption
    <2>2. QED
      BY <2>1
  <1>2. u * d \in Nat
    OBVIOUS
  <1>3. u * StepRate = 100 * u + u * d
    BY <1>1
  <1>4. \A x \in Nat : 100 * u + x >= 100 * u => u <= (100 * u + x) \div 100
    OBVIOUS
  <1>5. QED
    BY <1>2, <1>3, <1>4 DEF next_threshold

LEMMA BoundInductive ==
  ASSUME IInv, BlockOwned, UsageExact', UsageBounded, [Next]_vars
  PROVE  UsageBounded'
  <1>0. TypeOK /\ TypeOK' /\ PendingKnown
    BY TypeInductive DEF IInv
  <1> USE DEF UsageBounded, flagVars, cntVars, ctlVars
  <1>1. CASE MallocOk
    BY <1>0, <1>1 DEF MallocOk, StartCollect, TypeOK
  <1>2. CASE Sweep
    <2>1. SUFFICES ASSUME phase' = "link" PROVE usage' <= threshold'
      OBVIOUS
    <2>2. usage' \in Nat
      <3>1. Cardinality(Allocated') \in Nat
        <4>1. IsFiniteSet(Allocated')
          BY GCAssumption, FS_Subset DEF Allocated
        <4>2. QED
          BY <4>1, FS_CardinalityType
      <3>2. BlocksInHand' \in Nat /\ leaked' \in Nat /\ BaseUsage \in Nat
        BY <1>0, GCAssumption DEF BlocksInHand, TypeOK
      <3>3. QED
        BY <2>1, <3>1, <3>2 DEF UsageExact
    <2>3. threshold' = next_threshold(usage')
      BY <1>2 DEF Sweep
    <2>4. QED
      BY <2>2, <2>3, ThresholdCovers
  <1>3. CASE Mutator
    BY <1>3 DEF Mutator, Load, Pop, Expose, InternHit, SetGlobal, ClearGlobal, be_gc_fix,
                be_gc_unfix, SetField, ClearField, be_gc_setpause
  <1>4. CASE \/ \E k \in Kinds : NewObject(k)
             \/ MallocFail \/ MallocThrow
             \/ \E o \in Obj : LinkObject(o)
    BY <1>4 DEF NewObject, MallocFail, StartCollect, MallocThrow, Throw, LinkObject
  <1>5. CASE \/ \E o \in Obj : Scan(o) \/ CallDeinit(o)
             \/ MarkDone \/ DeinitReturn \/ DeinitThrow \/ DestructDone
             \/ DeleteAll \/ DeleteDone
    BY <1>5 DEF Scan, CallDeinit, MarkDone, DeinitReturn, Deleting, DeinitThrow, Throw,
                DestructDone, DeleteAll, DeleteDone
  <1>6. CASE UNCHANGED vars
    BY <1>6 DEF vars
  <1>7. QED
    BY <1>1, <1>2, <1>3, <1>4, <1>5, <1>6 DEF Next, Allocator, Collector

LEMMA UsageInvariant == Spec => []UInv
  <1>1. Init => UInv
    <2> SUFFICES ASSUME Init PROVE UInv
      OBVIOUS
    <2>1. BlockOwned /\ UsageBounded
      BY DEF Init, BlockOwned, UsageBounded
    <2>2. Cardinality(Allocated) = 0
      <3>1. Allocated = {}
        BY DEF Init, Allocated
      <3>2. QED
        BY <3>1, FS_EmptySet
    <2>3. BlocksInHand = 0 /\ usage = BaseUsage /\ leaked = 0
      BY DEF Init, BlocksInHand
    <2>4. QED
      BY <2>1, <2>2, <2>3, GCAssumption DEF UInv, UsageExact
  <1>2. IInv /\ UInv /\ [Next]_vars => UInv'
    BY BlockOwnedInductive, UsageInductive, BoundInductive DEF UInv
  <1>3. QED
    BY <1>1, <1>2, Invariance, PTL DEF Spec

\* vm->gc.usage is exact whatever the program does: no failed allocation, no
\* collection inside an allocation and no deinit that raises ever makes it
\* drift, except by the one block that a raising deinit loses (leaked).
THEOREM UsageIsExact == Spec => []UsageExact
  <1>1. UInv => UsageExact
    BY DEF UInv
  <1>2. QED
    BY <1>1, UsageInvariant, PTL

\* With automatic collection on, an allocation that completes leaves the usage
\* at or below the threshold, for every step rate be_gc_setsteprate accepts.
THEOREM UsageIsBounded == Spec => []UsageBounded
  <1>1. UInv => UsageBounded
    BY DEF UInv
  <1>2. QED
    BY <1>1, UsageInvariant, PTL

\* Both sides of the account: it is exact, and the threshold covers it.
THEOREM UsageIsKept == Spec => []UsageKept
  BY UsageIsExact, UsageIsBounded, PTL DEF UsageKept

-----------------------------------------------------------------------------
(***************************************************************************)
(* The calls of deinit methods.                                            *)
(***************************************************************************)

\* After a deinit has raised the collector stays halted, and the only deinits
\* called are those of be_gc_deleteall.
Stopped ==
  thrown => halt /\ outer = NONE /\ phase \notin {"mark", "destruct", "sweep"}

\* Until then: the collector is halted only while deinits are called, what
\* waits for its deinit is a white instance, and an instance whose deinit was
\* called is white until the sweep of the same collection frees it.
CalledAreFreed ==
  ~thrown =>
    /\ self = NONE /\ phase \notin {"destruct", "delete", "dead"} => ~halt
    /\ todo # {} => halt
    /\ \A o \in todo : kind[o] = "inst" /\ mark[o] = "white"
    /\ \A o \in destructed \cap Allocated :
         /\ halt \/ phase = "sweep"
         /\ kind[o] = "inst" /\ mark[o] = "white"
         /\ o \notin todo

\* An exception ends the collection it leaves.
LEMMA ThrowStops ==
  ASSUME DeinitFrame, Throw, Stopped, UNCHANGED halt
  PROVE  Stopped' /\ (thrown => phase' # "mark")
  BY DEF Throw, Stopped, DeinitFrame

LEMMA StoppedInductive ==
  ASSUME IInv, BlockOwned, Stopped, [Next]_vars
  PROVE  Stopped' /\ (thrown => phase' # "mark")
  <1> USE GCAssumption DEF IInv, BlockOwned, Stopped, ctlVars, flagVars, histVars
  <1>1. CASE Mutator
    BY <1>1 DEF Mutator, Load, Pop, Expose, InternHit, SetGlobal, ClearGlobal, be_gc_fix,
                be_gc_unfix, SetField, ClearField, be_gc_setpause
  <1>2. CASE MallocThrow \/ DeinitThrow
    BY <1>2, ThrowStops DEF MallocThrow, DeinitThrow
  <1>3. CASE \/ \E k \in Kinds : NewObject(k)
             \/ MallocOk \/ MallocFail
             \/ \E o \in Obj : LinkObject(o)
    BY <1>3 DEF NewObject, MallocOk, MallocFail, LinkObject, StartCollect
  <1>4. CASE \/ \E o \in Obj : Scan(o)
             \/ MarkDone \/ DestructDone \/ Sweep \/ DeleteAll \/ DeleteDone
    BY <1>4 DEF Scan, MarkDone, DestructDone, Sweep, DeleteAll, DeleteDone
  <1>5. ASSUME NEW o \in Obj, CallDeinit(o) PROVE Stopped' /\ (thrown => phase' # "mark")
    BY <1>5 DEF CallDeinit
  <1>6. CASE DeinitReturn
    BY <1>6 DEF DeinitReturn, Deleting
  <1>7. CASE UNCHANGED vars
    BY <1>7 DEF vars
  <1>8. QED
    BY <1>1, <1>2, <1>3, <1>4, <1>5, <1>6, <1>7 DEF Next, Allocator, Collector

LEMMA CalledInductive ==
  ASSUME IInv, CalledAreFreed, [Next]_vars
  PROVE  CalledAreFreed'
  <1>0. TypeOK /\ PendingKnown /\ MarksReset /\ DeinitFrame
    BY DEF IInv
  <1> USE GCAssumption DEF CalledAreFreed, Allocated, memVars, ctlVars, flagVars, histVars
  <1>1. CASE Mutator
    BY <1>1 DEF Mutator, Load, Pop, Expose, InternHit, SetGlobal, ClearGlobal, be_gc_fix,
                be_gc_unfix, SetField, ClearField, be_gc_setpause
  <1>2. CASE MallocThrow \/ DeinitThrow
    BY <1>0, <1>2 DEF MallocThrow, DeinitThrow, Throw
  <1>3. ASSUME NEW k \in Kinds, NewObject(k) PROVE CalledAreFreed'
    BY <1>3 DEF NewObject
  <1>4. CASE MallocOk \/ MallocFail
    BY <1>4 DEF MallocOk, MallocFail, StartCollect
  <1>5. ASSUME NEW o \in Obj, LinkObject(o) PROVE CalledAreFreed'
    BY <1>0, <1>5 DEF LinkObject, TypeOK
  <1>6. ASSUME NEW o \in Obj, Scan(o) PROVE CalledAreFreed'
    BY <1>0, <1>6 DEF Scan, DeinitFrame
  <1>7. CASE MarkDone
    BY <1>0, <1>7 DEF MarkDone, DeinitFrame, White
  <1>8. ASSUME NEW o \in Obj, CallDeinit(o) PROVE CalledAreFreed'
    BY <1>0, <1>8 DEF CallDeinit, DeinitFrame
  <1>9. CASE DeinitReturn
    BY <1>0, <1>9 DEF DeinitReturn, Deleting, DeinitFrame
  <1>10. CASE DestructDone
    BY <1>10 DEF DestructDone
  <1>11. CASE Sweep
    BY <1>0, <1>11 DEF Sweep, Condemned, GCList, StrTab, DeinitFrame
  <1>12. CASE DeleteAll
    BY <1>0, <1>12 DEF DeleteAll, MarksReset
  <1>13. CASE DeleteDone
    BY <1>13 DEF DeleteDone
  <1>14. CASE UNCHANGED vars
    BY <1>14 DEF vars
  <1>15. QED
    BY <1>1, <1>2, <1>3, <1>4, <1>5, <1>6, <1>7, <1>8, <1>9, <1>10, <1>11, <1>12, <1>13,
       <1>14 DEF Next, Allocator, Collector

\* A deinit that raises stops the collector for good: nothing marks after it
\* (be_gc.c:468).
THEOREM RaisingStopsGC == Spec => ThrowStopsGC
  <1>1. Init => Stopped
    BY DEF Init, Stopped
  <1>2. IInv /\ UInv /\ Stopped /\ [Next]_vars
          => Stopped' /\ [thrown => phase' # "mark"]_vars
    BY StoppedInductive DEF UInv
  <1>3. QED
    BY <1>1, <1>2, Invariance, UsageInvariant, PTL DEF Spec, ThrowStopsGC

\* What deinit methods do stays within their collection: whatever they store, allocate or
\* raise, whenever the gray list empties the condemned are the garbage, the account is
\* kept, and nothing marks after one has raised (be_gc.c:468, 482-490).  That a deinit may
\* make an object reachable that the sweep then frees is no part of this.
THEOREM DeinitsContained == Spec => DeinitContained
  <1>1. MarkSound' /\ MarkComplete' /\ UsageExact' /\ UsageBounded' => MarkExact' /\ UsageKept'
    BY DEF MarkExact, UsageKept
  <1>2. ASSUME MarkExact' /\ UsageKept', [thrown => phase' # "mark"]_vars
        PROVE  [MarkExact' /\ UsageKept' /\ (thrown => phase' # "mark")]_vars
    BY <1>2
  <1>3. QED
    BY <1>1, <1>2, MarkingSound, MarkingComplete, UsageIsExact, UsageIsBounded, RaisingStopsGC,
       PTL DEF DeinitContained, ThrowStopsGC

\* No deinit is called twice for the same object, whatever it did to keep the
\* object reachable, unless a deinit has raised.
THEOREM DeinitCalledOnce == Spec => DeinitOnce
  <1>1. Init => CalledAreFreed
    BY DEF Init, CalledAreFreed
  <1>2. IInv /\ CalledAreFreed /\ [Next]_vars
          => CalledAreFreed' /\ [\A o \in Obj : o \in todo \ todo' /\ o \in destructed => thrown]_vars
    <2>1. CalledAreFreed => \A o \in Obj : o \in todo /\ o \in destructed => thrown
      BY DEF CalledAreFreed, Allocated
    <2>2. QED
      BY <2>1, CalledInductive
  <1>3. QED
    BY <1>1, <1>2, Invariance, PTL DEF Spec, DeinitOnce

-----------------------------------------------------------------------------
(***************************************************************************)
(* Programs without deinit methods.                                        *)
(***************************************************************************)

\* No instance has a destructor, so none is ever waiting to be called.
NoDeinit ==
  /\ \A o \in Obj : kind[o] # "inst"
  /\ pending # "inst"
  /\ todo = {} /\ self = NONE

\* From the premark on, the slots above the top are nil; from the end of the
\* marking to the sweep, the white objects are the garbage.
Marked ==
  /\ phase \in {"mark", "destruct", "sweep"} => above = {}
  /\ phase \in {"destruct", "sweep"} => RootsMarked /\ DarkScanned /\ Gray = {}

NInv == IInv /\ NoDeinit /\ NoDangling /\ Marked

LEMMA NoDeinitInductive ==
  ASSUME "inst" \notin Kinds, TypeOK, NoDeinit, [Next]_vars
  PROVE  NoDeinit'
  <1> USE GCAssumption DEF NoDeinit, TypeOK, memVars, ctlVars, AllKinds
  <1>1. CASE Mutator
    BY <1>1 DEF Mutator, Load, Pop, Expose, InternHit, SetGlobal, ClearGlobal, be_gc_fix,
                be_gc_unfix, SetField, ClearField, be_gc_setpause
  <1>2. CASE Allocator
    <2>1. ASSUME NEW o \in Obj, LinkObject(o) PROVE NoDeinit'
      BY <2>1 DEF LinkObject
    <2>2. CASE MallocOk
      BY <2>2 DEF MallocOk
    <2>3. CASE MallocFail
      BY <2>3 DEF MallocFail
    <2>4. CASE MallocThrow
      BY <2>4 DEF MallocThrow, Throw
    <2>5. ASSUME NEW k \in Kinds, NewObject(k) PROVE NoDeinit'
      BY <2>5 DEF NewObject
    <2>6. QED
      BY <1>2, <2>1, <2>2, <2>3, <2>4, <2>5 DEF Allocator
  <1>3. CASE Collector
    <2>1. ASSUME NEW o \in Obj, Scan(o) \/ CallDeinit(o) PROVE NoDeinit'
      BY <2>1 DEF Scan, CallDeinit
    <2>2. CASE MarkDone \/ DestructDone
      BY <2>2 DEF MarkDone, DestructDone, White
    <2>3. CASE Sweep
      BY <2>3 DEF Sweep
    <2>4. CASE DeleteAll \/ DeleteDone
      BY <2>4 DEF DeleteAll, DeleteDone
    <2>5. CASE DeinitReturn \/ DeinitThrow
      BY <2>5 DEF DeinitReturn, DeinitThrow
    <2>6. QED
      BY <1>3, <2>1, <2>2, <2>3, <2>4, <2>5 DEF Collector
  <1>4. CASE UNCHANGED vars
    BY <1>4 DEF vars
  <1>5. QED
    BY <1>1, <1>2, <1>3, <1>4 DEF Next

LEMMA MarkedInductive ==
  ASSUME IInv, NoDeinit, Marked, [Next]_vars
  PROVE  Marked'
  <1> USE GCAssumption DEF Marked, NoDeinit, ctlVars, IInv
  <1>1. CASE Mutator
    BY <1>1 DEF Mutator, Load, Pop, Expose, InternHit, SetGlobal, ClearGlobal, be_gc_fix,
                be_gc_unfix, SetField, ClearField, be_gc_setpause, Running
  <1>2. CASE Allocator
    BY <1>2 DEF Allocator, NewObject, MallocOk, MallocFail, MallocThrow, LinkObject,
                StartCollect, Throw
  <1>3. CASE Collector
    <2>1. ASSUME NEW o \in Obj, Scan(o) PROVE Marked'
      BY <2>1 DEF Scan, rootVars
    <2>2. ASSUME NEW o \in Obj, CallDeinit(o) PROVE Marked'
      BY <2>2 DEF CallDeinit
    <2>3. CASE MarkDone
      <3>1. /\ RootsMarked /\ DarkScanned /\ Gray = {} /\ above = {}
            /\ UNCHANGED <<kind, refs, mark, fixed, root, stack, above>>
        BY <2>3 DEF MarkDone, memVars, rootVars, Marking
      <3>2. QED
        BY <3>1 DEF RootsMarked, DarkScanned, Premarked, Allocated, GCList, StrTab, Gray, Dark
    <2>4. CASE DestructDone
      <3>1. /\ RootsMarked /\ DarkScanned /\ Gray = {} /\ above = {}
            /\ UNCHANGED <<kind, refs, mark, fixed, root, stack, above>>
        BY <2>4 DEF DestructDone, memVars, rootVars
      <3>2. QED
        BY <3>1 DEF RootsMarked, DarkScanned, Premarked, Allocated, GCList, StrTab, Gray, Dark
    <2>5. CASE DeinitReturn \/ DeinitThrow
      BY <2>5 DEF DeinitReturn, DeinitThrow
    <2>6. CASE Sweep \/ DeleteAll \/ DeleteDone
      BY <2>6 DEF Sweep, DeleteAll, DeleteDone
    <2>7. QED
      BY <1>3, <2>1, <2>2, <2>3, <2>4, <2>5, <2>6 DEF Collector
  <1>4. CASE UNCHANGED vars
    <2>1. UNCHANGED <<kind, refs, mark, fixed, root, stack, above, phase>>
      BY <1>4 DEF vars, memVars, rootVars
    <2>2. QED
      BY <2>1 DEF RootsMarked, DarkScanned, Premarked, Allocated, GCList, StrTab, Gray, Dark
  <1>5. QED
    BY <1>1, <1>2, <1>3, <1>4 DEF Next

\* The sweep frees nothing that a root or a surviving object refers to.
LEMMA SweepKeepsRefs ==
  ASSUME NInv, Sweep
  PROVE  NoDangling'
  <1> USE DEF NInv, IInv, TypeOK
  <1>1. /\ RootsMarked /\ DarkScanned /\ Gray = {} /\ above = {} /\ saved = {}
        /\ UNCHANGED <<root, stack, above, saved>>
    BY DEF Sweep, Marked, DeinitFrame, rootVars
  <1>2. Allocated' = Allocated \ Condemned
    BY DEF Sweep, Allocated
  <1>3. \A o \in Obj : o \in Condemned => mark[o] = "white"
    BY DEF Condemned
  <1>4. root \cup stack \subseteq Allocated'
    <2>1. root \cup stack \subseteq Premarked \cap Allocated
      BY DEF Premarked, NoDangling, Roots
    <2>2. QED
      BY <1>1, <1>2, <1>3, <2>1 DEF RootsMarked
  <1>5. fixed' \subseteq Allocated'
    BY <1>2 DEF Sweep, NoDangling, Roots
  <1>6. ASSUME NEW o \in Obj, NEW p \in refs'[o] PROVE p \in Allocated'
    <2>1. o \notin Condemned /\ p \in refs[o] /\ p \in Obj
      BY <1>6 DEF Sweep
    <2>2. p \in Allocated
      BY <2>1 DEF NoDangling
    <2>3. o \in Scannable
      BY <2>1 DEF LeavesHaveNoRefs
    <2>4. mark[o] = "dark"
      BY <1>1, <2>1, <2>3 DEF Condemned, GCList, StrTab, Allocated, Scannable, Gray
    <2>5. mark[p] # "white"
      BY <1>1, <2>1, <2>2, <2>4 DEF DarkScanned, Dark
    <2>6. QED
      BY <1>2, <1>3, <2>1, <2>2, <2>5
  <1>7. QED
    BY <1>1, <1>4, <1>5, <1>6 DEF NoDangling, Roots

LEMMA NoDanglingInductive ==
  ASSUME NInv, [Next]_vars
  PROVE  NoDangling'
  <1>0. TypeOK /\ PendingKnown /\ NoDeinit /\ NoDangling /\ saved = {} /\ Marked
    BY DEF NInv, IInv, DeinitFrame, NoDeinit
  <1> USE <1>0, GCAssumption DEF NoDangling, Roots, Allocated, memVars, rootVars, ctlVars, TypeOK
  <1>1. CASE Mutator
    <2>1. ASSUME NEW p \in Obj, Load(p) PROVE NoDangling'
      BY <2>1 DEF Load, Visible
    <2>2. ASSUME NEW p \in Obj, Pop(p) \/ Expose(p) PROVE NoDangling'
      BY <2>2 DEF Pop, Expose
    <2>3. ASSUME NEW p \in Obj, InternHit(p) PROVE NoDangling'
      BY <2>3 DEF InternHit, StrTab
    <2>4. ASSUME NEW p \in Obj, SetGlobal(p) \/ ClearGlobal(p) PROVE NoDangling'
      BY <2>4 DEF SetGlobal, ClearGlobal
    <2>5. ASSUME NEW p \in Obj, be_gc_fix(p) \/ be_gc_unfix(p) PROVE NoDangling'
      BY <2>5 DEF be_gc_fix, be_gc_unfix
    <2>6. ASSUME NEW o \in Obj, NEW p \in Obj, SetField(o, p) \/ ClearField(o, p)
          PROVE  NoDangling'
      BY <2>6 DEF SetField, ClearField
    <2>7. CASE be_gc_setpause
      BY <2>7 DEF be_gc_setpause
    <2>8. QED
      BY <1>1, <2>1, <2>2, <2>3, <2>4, <2>5, <2>6, <2>7 DEF Mutator
  <1>2. CASE Allocator
    <2>1. ASSUME NEW o \in Obj, LinkObject(o) PROVE NoDangling'
      <3>1. pending # "free" /\ pending # NONE
        BY <2>1 DEF LinkObject, PendingKnown, AllKinds
      <3>2. Allocated' = Allocated \cup {o}
        BY <2>1, <3>1 DEF LinkObject
      <3>3. QED
        BY <2>1, <3>2 DEF LinkObject
    <2>2. CASE MallocOk \/ MallocFail
      BY <2>2 DEF MallocOk, MallocFail, StartCollect
    <2>3. CASE MallocThrow
      BY <2>3 DEF MallocThrow, Throw, NoDeinit
    <2>4. ASSUME NEW k \in Kinds, NewObject(k) PROVE NoDangling'
      BY <2>4 DEF NewObject
    <2>5. QED
      BY <1>2, <2>1, <2>2, <2>3, <2>4 DEF Allocator
  <1>3. CASE Collector
    <2>1. ASSUME NEW o \in Obj, Scan(o) \/ CallDeinit(o) PROVE NoDangling'
      BY <2>1 DEF Scan, CallDeinit, NoDeinit
    <2>2. CASE MarkDone \/ DestructDone \/ DeinitReturn \/ DeinitThrow
      BY <2>2 DEF MarkDone, DestructDone, DeinitReturn, DeinitThrow, NoDeinit
    <2>3. CASE Sweep
      BY <2>3, SweepKeepsRefs
    <2>4. CASE DeleteAll
      BY <2>4 DEF DeleteAll
    <2>5. CASE DeleteDone
      BY <2>5 DEF DeleteDone
    <2>6. QED
      BY <1>3, <2>1, <2>2, <2>3, <2>4, <2>5 DEF Collector
  <1>4. CASE UNCHANGED vars
    BY <1>4 DEF vars
  <1>5. QED
    BY <1>1, <1>2, <1>3, <1>4 DEF Next

\* A program without deinit methods never holds a reference to freed memory,
\* neither in a global, a field or a live stack slot nor in a slot above the
\* top of the stack that a later call may expose.
THEOREM NoDanglingReferences ==
  ASSUME "inst" \notin Kinds
  PROVE  Spec => []NoDangling
  <1>1. Init => NoDeinit /\ NoDangling /\ Marked
    BY GCAssumption DEF Init, NoDeinit, NoDangling, Roots, Marked, AllKinds
  <1>2. IInv /\ NoDeinit /\ NoDangling /\ Marked /\ [Next]_vars
          => (NoDeinit /\ NoDangling /\ Marked)'
    BY NoDeinitInductive, NoDanglingInductive, MarkedInductive DEF NInv, IInv
  <1>3. QED
    BY <1>1, <1>2, Invariance, PTL DEF Spec
=============================================================================
