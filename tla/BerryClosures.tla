---------------------------- MODULE BerryClosures ----------------------------
(***************************************************************************)
(* Closures and upvalues (be_func.c), the code that closes them (be_code.c,*)
(* be_parser.c) and the ways out of a block: its end, break, continue,     *)
(* return and raise.                                                       *)
(*                                                                         *)
(* A closure reaches a variable of an enclosing function through an        *)
(* upvalue.  While the variable is on the stack its upvalue is open and    *)
(* points at its slot; OP_CLOSE moves the value into the upvalue.  The     *)
(* compiler emits OP_CLOSE where it knows that a block has variables which *)
(* closures capture.                                                       *)
(*                                                                         *)
(* Abstractions.  A variable is an identity: a fresh one for every         *)
(* execution of a declaration.  A slot and a closed upvalue hold the       *)
(* variable whose value they hold.  The stack begins at an address that    *)
(* changes when it grows.  The program is any sequence of statements; of   *)
(* the text we keep, for each block, whether a capture of its variables    *)
(* has been passed.  Native closures and methods are not modelled.         *)
(***************************************************************************)
EXTENDS Integers, SequencesExt, FiniteSets

CONSTANTS
  Var,        \* identities of variables
  Clo,        \* addresses of closures
  Up,         \* addresses of upvalues
  StackSize,  \* bound: slots
  MaxFrames,  \* bound: active functions
  MaxBlocks,  \* bound: nested blocks of a function
  MaxUpvals,  \* bound: upvalues of a closure
  Addr,       \* where the stack may be: multiples of a large distance
  Programs,   \* kinds of programs: see Plain
  NONE

\* Ways out of a block besides its end; "rewind": the text of a loop captures
\* below a return statement; "grow": the stack outgrows its memory.
Features == {"break", "continue", "raise", "return", "rewind", "grow"}

Position == 0 .. StackSize - 1

\* What an upvalue points at: an address, or the value it has taken along.
Open(value) == value.kind = "open"
At(addr)    == [kind |-> "open", addr |-> addr]
Closed(v)   == [kind |-> "closed", var |-> v]
Value == {At(a + p) : a \in Addr, p \in Position} \cup {Closed(v) : v \in Var \cup {NONE}}

ASSUME ClosuresAssumption ==
  /\ NONE \notin Var \cup Clo \cup Up
  /\ NONE \notin [upvals : Seq(Up), vars : Seq(Var)] \cup [value : Value, refcnt : Nat]
  /\ StackSize \in Nat /\ MaxFrames \in Nat /\ MaxBlocks \in Nat /\ MaxUpvals \in Nat
  /\ IsFiniteSet(Up) /\ IsFiniteSet(Clo) /\ Clo # {}
  /\ Addr \subseteq Nat /\ Addr # {}
  /\ Programs \subseteq [uses : SUBSET Features, ordered : BOOLEAN]

VARIABLES
  program,  \* the features it uses, and whether it captures variables in the
            \* order of the stack only
  stack,    \* address of vm->stack
  slot,     \* slot[p]: the variable that lives at position p, or NONE
  frames,   \* active functions, innermost last
  closure,  \* closure[c]: its upvalues, and the variables they stand for
  upval,    \* upval[u]: [value, refcnt]; value is an address or closed
  upvalist  \* vm->upvalist, head first

vars == <<program, stack, slot, frames, closure, upval, upvalist>>

(***************************************************************************)
(* A frame is the closure it runs and its blocks, outermost first; a block *)
(* begins at position start and has a kind.  hasupval: a variable of it is *)
(* captured by the text so far; later: captured by text that a loop has    *)
(* executed but that follows the present statement.                        *)
(***************************************************************************)
Block(start, kind) == [start |-> start, kind |-> kind, hasupval |-> FALSE, later |-> FALSE]

Frame == Last(frames)
Blocks == Frame.blocks
Top == Cardinality({p \in Position : slot[p] # NONE})
Base == Head(Blocks).start

Cleared(from) == [p \in Position |-> IF p >= from THEN NONE ELSE slot[p]]

InUse(v) ==
  \/ \E p \in Position : slot[p] = v
  \/ \E c \in Clo : closure[c] # NONE /\ v \in Range(closure[c].vars)

-----------------------------------------------------------------------------
\* What becomes of an upvalue that leaves the list: it takes the value along, or
\* is freed when no closure has it.
Detached(u) ==
  IF upval[u].refcnt = 0 THEN NONE
  ELSE [upval[u] EXCEPT !.value = Closed(slot[@.addr - stack])]

\* The upvalues of the list that are below an address, in their order.
Below(level) ==
  LET kept[k \in 0 .. Len(upvalist)] ==
        IF k = 0 THEN <<>>
        ELSE IF upval[upvalist[k]].value.addr < level
             THEN Append(kept[k - 1], upvalist[k]) ELSE kept[k - 1]
  IN kept[Len(upvalist)]

\* Mutant: an upvalue that no closure has is not freed.
be_upvals_close_unfreed(from) ==
  LET kept == Below(stack + from)
  IN /\ upvalist' = kept
     /\ upval' = [u \in Up |->
          IF u \in Range(upvalist) \ Range(kept)
          THEN [upval[u] EXCEPT !.value = Closed(slot[@.addr - stack])] ELSE upval[u]]

\* The upvalues at a position or above it are closed.
be_upvals_close(from) ==
  LET kept == Below(stack + from)
  IN /\ upvalist' = kept
     /\ upval' = [u \in Up |->
          IF u \in Range(upvalist) \ Range(kept) THEN Detached(u) ELSE upval[u]]

\* OP_CLOSE, where the compiler has emitted it.
Close(emitted, from) ==
  IF emitted THEN be_upvals_close(from) ELSE UNCHANGED <<upval, upvalist>>

-----------------------------------------------------------------------------
\* The text of a loop is passed when control leaves it for good.
Passed(blocks) == [i \in DOMAIN blocks |->
  [blocks[i] EXCEPT !.hasupval = @ \/ blocks[i].later, !.later = FALSE]]

Left(block, blocks) == IF block.kind = "loop" THEN Passed(blocks) ELSE blocks

WithBlocks(blocks) == [frames EXCEPT ![Len(frames)].blocks = blocks]

Declare(v) ==
  /\ Top < StackSize
  /\ ~InUse(v)
  /\ slot' = [slot EXCEPT ![Top] = v]
  /\ UNCHANGED <<stack, frames, closure, upval, upvalist>>

\* begin_block: do and if, while and for, try.
EnterBlock(kind) ==
  /\ Len(Blocks) < MaxBlocks
  /\ frames' = WithBlocks(Append(Blocks, Block(Top, kind)))
  /\ UNCHANGED <<stack, slot, closure, upval, upvalist>>

\* end_block: OP_CLOSE for a block with captured variables, on the way out of it
\* or back to the head of a loop.
EndBlock ==
  /\ Len(Blocks) > 1
  /\ Close(Last(Blocks).hasupval \/ Last(Blocks).later, Last(Blocks).start)
  /\ slot' = Cleared(Last(Blocks).start)
  /\ frames' = WithBlocks(Left(Last(Blocks), Front(Blocks)))
  /\ UNCHANGED <<stack, closure>>

\* The blocks when control goes back to the head of the loop at k: a capture in
\* the body of the loop is ahead again.
Rewound(k) ==
  { [i \in 1 .. k |->
       IF i \in ahead THEN [Blocks[i] EXCEPT !.hasupval = FALSE, !.later = TRUE] ELSE Blocks[i]] :
    ahead \in { S \in SUBSET {i \in 1 .. k : Blocks[i].hasupval} : S = {} \/ "rewind" \in program.uses } }

NextIteration ==
  /\ Len(Blocks) > 1 /\ Last(Blocks).kind = "loop"
  /\ Close(Last(Blocks).hasupval \/ Last(Blocks).later, Last(Blocks).start)
  /\ slot' = Cleared(Last(Blocks).start)
  /\ \E blocks \in Rewound(Len(Blocks)) : frames' = WithBlocks(blocks)
  /\ UNCHANGED <<stack, closure>>

\* break and continue jump over the OP_CLOSE at the end of the loop.
Loop(k) ==
  /\ k \in 2 .. Len(Blocks)
  /\ Blocks[k].kind = "loop"
  /\ \A i \in k + 1 .. Len(Blocks) : Blocks[i].kind # "loop"
  /\ slot' = Cleared(Blocks[k].start)

Break(k) ==
  /\ "break" \in program.uses /\ Loop(k)
  /\ frames' = WithBlocks(Passed(SubSeq(Blocks, 1, k - 1)))
  /\ UNCHANGED <<stack, closure, upval, upvalist>>

Continue(k) ==
  /\ "continue" \in program.uses /\ Loop(k)
  /\ \E blocks \in Rewound(k) : frames' = WithBlocks(blocks)
  /\ UNCHANGED <<stack, closure, upval, upvalist>>

\* The end of the function, or with "return" a return statement inside a block:
\* be_code_close looks at the captures in the text before it.
Return ==
  /\ Len(frames) > 1
  /\ Len(Blocks) > 1 => "return" \in program.uses
  /\ Close(\E i \in DOMAIN Blocks : Blocks[i].hasupval, Base)
  /\ slot' = Cleared(Base)
  /\ frames' = Front(frames)
  /\ UNCHANGED <<stack, closure>>

\* An exception goes to the innermost try block and leaves what is inside it.
Raise ==
  /\ "raise" \in program.uses
  /\ \E n \in DOMAIN frames :
       \E k \in DOMAIN frames[n].blocks :
         /\ frames[n].blocks[k].kind = "try"
         /\ \A i \in k + 1 .. Len(frames[n].blocks) : frames[n].blocks[i].kind # "try"
         /\ \A m \in n + 1 .. Len(frames) : \A i \in DOMAIN frames[m].blocks :
              frames[m].blocks[i].kind # "try"
         /\ slot' = Cleared(frames[n].blocks[k].start)
         /\ frames' = [SubSeq(frames, 1, n) EXCEPT ![n].blocks =
              IF \E i \in k + 1 .. Len(@) : @[i].kind = "loop"
              THEN Passed(SubSeq(@, 1, k - 1)) ELSE SubSeq(@, 1, k - 1)]
  /\ UNCHANGED <<stack, closure, upval, upvalist>>

\* A closure that some variable holds is called; or, as the first, the main one.
Call(c) ==
  /\ Len(frames) < MaxFrames /\ Top < StackSize
  /\ closure[c] # NONE
  /\ frames' = Append(frames, [func |-> c, blocks |-> <<Block(Top, "func")>>])
  /\ UNCHANGED <<stack, slot, closure, upval, upvalist>>

-----------------------------------------------------------------------------
\* A captured variable: a local of the function, or an upvalue of its closure.
Local(p)  == [instack |-> TRUE, idx |-> p]
Outer(i)  == [instack |-> FALSE, idx |-> i]

Capturable ==
  {Local(p) : p \in Base .. Top - 1} \cup
  {Outer(i) : i \in DOMAIN closure[Frame.func].upvals}

Captured(d) == IF d.instack THEN slot[d.idx] ELSE closure[Frame.func].vars[d.idx]

\* findupval: the walk stops at the first entry that is not above the level; the
\* index of the entry of that level, or 0.
findupval(list, up, level) ==
  LET k == SelectInSeq(list, LAMBDA u : up[u].value.addr <= level)
  IN IF k > 0 /\ up[list[k]].value.addr = level THEN k ELSE 0

New(s, level) ==
  LET u == CHOOSE x \in Up : s.up[x] = NONE
  IN [made |-> Append(s.made, u),
      up   |-> [s.up EXCEPT ![u] = [value |-> At(level), refcnt |-> 1]],
      list |-> <<u>> \o s.list]

Share(s, u) ==
  [made |-> Append(s.made, u), up |-> [s.up EXCEPT ![u].refcnt = @ + 1], list |-> s.list]

\* Mutant: an open upvalue is not looked for.
InitUpval_fresh(s, d) ==
  IF ~d.instack THEN Share(s, closure[Frame.func].upvals[d.idx]) ELSE New(s, stack + d.idx)

\* be_initupvals: what one descriptor adds.
InitUpval(s, d) ==
  LET level == stack + d.idx
      k == IF d.instack THEN findupval(s.list, s.up, level) ELSE 0
  IN IF ~d.instack THEN Share(s, closure[Frame.func].upvals[d.idx])
     ELSE IF k > 0 THEN Share(s, s.list[k]) ELSE New(s, level)

\* Programs that capture in the order of the stack.
GoesUp(descs) ==
  \A i \in DOMAIN descs : descs[i].instack =>
    /\ \A u \in Range(upvalist) : upval[u].value.addr <= stack + descs[i].idx
    /\ \A j \in 1 .. i - 1 : descs[j].instack => descs[j].idx < descs[i].idx

\* OP_CLOSURE; mark_upval has marked the blocks of the captured locals.
Capture(c, descs) ==
  /\ closure[c] = NONE
  /\ Cardinality({u \in Up : upval[u] = NONE}) >= Len(descs)  \* bound
  /\ program.ordered => GoesUp(descs)
  /\ LET s == FoldLeft(InitUpval, [made |-> <<>>, up |-> upval, list |-> upvalist], descs)
         home(p) == CHOOSE i \in DOMAIN Blocks :
                      Blocks[i].start <= p /\ \A j \in i + 1 .. Len(Blocks) : Blocks[j].start > p
         marked == {home(descs[i].idx) : i \in {j \in DOMAIN descs : descs[j].instack}}
     IN /\ closure' = [closure EXCEPT ![c] =
                         [upvals |-> s.made, vars |-> [i \in DOMAIN descs |-> Captured(descs[i])]]]
        /\ upval' = s.up
        /\ upvalist' = s.list
        /\ frames' = WithBlocks([i \in DOMAIN Blocks |->
             IF i \in marked THEN [Blocks[i] EXCEPT !.hasupval = TRUE] ELSE Blocks[i]])
  /\ UNCHANGED <<stack, slot>>

References(c, u) == Cardinality({i \in DOMAIN closure[c].upvals : closure[c].upvals[i] = u})

\* Mutant: also one that is running.
FreeClosure_running(c) ==
  /\ closure[c] # NONE
  /\ closure' = [closure EXCEPT ![c] = NONE]
  /\ upval' = [u \in Up |->
       IF upval[u] = NONE \/ References(c, u) = 0 THEN upval[u]
       ELSE IF upval[u].refcnt = References(c, u) /\ ~Open(upval[u].value) THEN NONE
       ELSE [upval[u] EXCEPT !.refcnt = @ - References(c, u)]]
  /\ UNCHANGED <<stack, slot, frames, upvalist>>

\* free_closure: the collector frees a closure that is not used any more
\* (be_release_upvalues).
FreeClosure(c) ==
  /\ closure[c] # NONE
  /\ \A n \in DOMAIN frames : frames[n].func # c
  /\ closure' = [closure EXCEPT ![c] = NONE]
  /\ upval' = [u \in Up |->
       IF upval[u] = NONE \/ References(c, u) = 0 THEN upval[u]
       ELSE IF upval[u].refcnt = References(c, u) /\ ~Open(upval[u].value) THEN NONE
       ELSE [upval[u] EXCEPT !.refcnt = @ - References(c, u)]]
  /\ UNCHANGED <<stack, slot, frames, upvalist>>

\* Mutant: the upvalues keep pointing into the old stack.
StackResize_unfixed(new) ==
  /\ "grow" \in program.uses
  /\ stack' = new /\ new # stack
  /\ UNCHANGED <<slot, frames, closure, upval, upvalist>>

\* stack_resize: the stack moves, and update_upvalues the open upvalues.
StackResize(new) ==
  /\ "grow" \in program.uses
  /\ stack' = new /\ new # stack
  /\ upval' = [u \in Up |->
       IF u \in Range(upvalist) THEN [upval[u] EXCEPT !.value.addr = @ - stack + new] ELSE upval[u]]
  /\ UNCHANGED <<slot, frames, closure, upvalist>>

-----------------------------------------------------------------------------
Main == CHOOSE c \in Clo : TRUE

\* The main function runs.
Init ==
  /\ program \in Programs
  /\ stack = CHOOSE a \in Addr : TRUE  \* which one makes no difference
  /\ slot = [p \in Position |-> NONE]
  /\ closure = [c \in Clo |-> IF c = Main THEN [upvals |-> <<>>, vars |-> <<>>] ELSE NONE]
  /\ frames = <<[func |-> Main, blocks |-> <<Block(0, "func")>>]>>
  /\ upval = [u \in Up |-> NONE]
  /\ upvalist = <<>>

Descs == UNION {{s \in [1 .. n -> Capturable] : \A i, j \in 1 .. n : s[i] = s[j] => i = j} : n \in 1 .. MaxUpvals}

Step ==
  \/ \E v \in Var : Declare(v)
  \/ \E kind \in {"plain", "loop", "try"} : EnterBlock(kind)
  \/ EndBlock \/ NextIteration \/ Return \/ Raise
  \/ \E k \in 2 .. MaxBlocks : Break(k) \/ Continue(k)
  \/ \E c \in Clo : Call(c) \/ FreeClosure(c) \/ \E descs \in Descs : Capture(c, descs)
  \/ \E new \in Addr : StackResize(new)

Next == Step /\ UNCHANGED program

Spec == Init /\ [][Next]_vars

-----------------------------------------------------------------------------
TypeOK ==
  /\ program \in Programs
  /\ stack \in Addr
  /\ slot \in [Position -> Var \cup {NONE}]
  /\ upval \in [Up -> [value : Value, refcnt : Nat] \cup {NONE}]
  /\ upvalist \in Seq(Up)
  /\ \A c \in Clo : closure[c] # NONE =>
       closure[c].upvals \in Seq(Up) /\ closure[c].vars \in Seq(Var)
  /\ \A n \in DOMAIN frames : closure[frames[n].func] # NONE

Denotes(c, i) == LET u == closure[c].upvals[i]
                 IN IF upval[u] = NONE THEN NONE
                    ELSE IF ~Open(upval[u].value) THEN upval[u].value.var
                    ELSE IF upval[u].value.addr - stack \in Position
                         THEN slot[upval[u].value.addr - stack] ELSE NONE

\* Programs whose blocks are left at the end or by return only.
Plain == program.uses \subseteq {"return", "grow"}

\* In these, every closure reaches the variables that it has captured, on the
\* stack or off it, through calls, returns, iterations and moves of the stack
\* (be_initupvals, be_upvals_close, update_upvalues, be_code_close).
Lexical ==
  Plain => \A c \in Clo : closure[c] # NONE =>
    \A i \in DOMAIN closure[c].upvals : Denotes(c, i) = closure[c].vars[i]

\* When captures go up the stack as well, two closures that capture one variable
\* go on sharing it when it leaves the stack: its value is in one place
\* (findupval).
Shared ==
  Plain /\ program.ordered => \A c, d \in {x \in Clo : closure[x] # NONE} :
    \A i \in DOMAIN closure[c].vars, j \in DOMAIN closure[d].vars :
      LET u == closure[c].upvals[i]
          w == closure[d].upvals[j]
      IN closure[c].vars[i] = closure[d].vars[j] =>
           u = w \/ (Open(upval[u].value) /\ upval[u].value = upval[w].value)

\* The list holds the open upvalues, each once: what leaves the list is closed
\* or freed, whatever way a block is left.
ListExact ==
  /\ Range(upvalist) = {u \in Up : upval[u] # NONE /\ Open(upval[u].value)}
  /\ Cardinality(Range(upvalist)) = Len(upvalist)

\* The counter of an upvalue counts the closures that have it; a closed upvalue
\* that none has is gone (be_release_upvalues, be_upvals_close).
RefcountExact ==
  \A u \in Up : upval[u] # NONE =>
    /\ upval[u].refcnt = Cardinality({ci \in Clo \X (1 .. MaxUpvals) :
         /\ closure[ci[1]] # NONE
         /\ ci[2] \in DOMAIN closure[ci[1]].upvals
         /\ closure[ci[1]].upvals[ci[2]] = u})
    /\ upval[u].refcnt = 0 => Open(upval[u].value)

\* No closure has an upvalue that is freed.
NoneFreed ==
  \A c \in Clo : closure[c] # NONE =>
    \A i \in DOMAIN closure[c].upvals : upval[closure[c].upvals[i]] # NONE

\* The list, the counters and what is freed fit together, whatever way a block is
\* left: no upvalue is lost, kept for ever, or used after it is freed.  Closures of
\* the same variable share its upvalue, in programs that leave their blocks at the
\* end or by return and capture up the stack (Shared).
UpvaluesKept == Shared /\ ListExact /\ RefcountExact /\ NoneFreed

-----------------------------------------------------------------------------
\* What comments and a test say, and the code does not do.

\* A closure never reaches a variable other than the one it has captured: a loop
\* makes a variable per iteration (tests/closure.be), and leaving a block closes
\* its upvalues (be_parser.c).
NoOther ==
  \A c \in Clo : closure[c] # NONE =>
    \A i \in DOMAIN closure[c].upvals : Denotes(c, i) \in {closure[c].vars[i], NONE}
=============================================================================
