------------------------------- MODULE BerryVM -------------------------------
(***************************************************************************)
(* The virtual machine (be_vm.c, and the exception blocks of be_exec.c) on *)
(* the code that BerryCode and BerryParser make of a function.  One action *)
(* per group of opcodes; one step is one instruction.                      *)
(*                                                                         *)
(* The frame is that of one activation: registers from 0, vm->top at       *)
(* unit.nstack.  The exception in flight is in the two slots from vm->top. *)
(* What a library function leaves in the slots above its result is         *)
(* unknown: Junk.                                                          *)
(***************************************************************************)
EXTENDS BerryMeaning, FiniteSets

CONSTANTS Programs,     \* the function bodies that are compiled and run
          Arguments,    \* the arguments they are called with
          Rare          \* the situations in s.odd that the programs may reach

VARIABLES text,         \* the program and its arguments
          means,        \* what BerryMeaning says they do
          unit,         \* the compiled function
          pc,           \* vm->ip
          reg,          \* the stack from vm->reg on
          glb, heap,    \* the globals and the items of the object
          log,          \* what the library has been called for
          excepts,      \* vm->exceptstack: for each handler the place of its EXBLK
          status        \* "run", "return", "raise"

vars == <<text, means, unit, pc, reg, glb, heap, log, excepts, status>>
rigid == <<text, means, unit>>

Junk == <<"junk">>
Top == unit.nstack
GlobalValues ==
    [name \in {Globals[i] : i \in DOMAIN Globals} |->
        CASE name = "f" -> <<"f">>
          [] name = "o" -> <<"obj">>
          [] name = "l" -> <<"list">>
          [] name = "__iterator__" -> <<"iterator">>
          [] OTHER -> <<"int", 2>>]

\* What can be run: a program with its arguments, what it is expected to do, and its code.
\* Programs that reach a situation outside Rare are left out, and those that do not end.
Cases ==
    {c \in {[text |-> <<body, args>>, unit |-> Compile(body),
             means |-> Outcome(body, args, GlobalValues)] : body \in Programs, args \in Arguments} :
        c.unit.odd \subseteq Rare /\ c.means.ctl # "diverge"}

\* The function is called: be_dofunc, push_closure.
Init ==
    /\ \E c \in Cases : text = c.text /\ unit = c.unit /\ means = c.means
    /\ pc = 1
    /\ reg = [r \in 0 .. unit.nstack + 2 |->
                 IF r < Len(Params) THEN text[2][r + 1] ELSE Junk]
    /\ glb = GlobalValues
    /\ heap = <<>> /\ log = <<>> /\ excepts = <<>>
    /\ status = "run"

ins == unit.code[pc]
RK(v) == IF IsK(v) THEN unit.k[v - 255] ELSE reg[v]

Runs(ops) == status = "run" /\ ins.op \in ops
Goto(to) == pc' = to /\ UNCHANGED <<excepts, status>>
Load(r, v) == reg' = [reg EXCEPT ![r] = v]

\* be_throw with the exception at vm->top: to the latest handler, which is popped
\* (be_except_block_resume), or out of the function.
Throw(regs, v) ==
    /\ reg' = [regs EXCEPT ![Top] = v, ![Top + 1] = Nil]
    /\ UNCHANGED <<glb, heap>>
    /\ \/ /\ excepts # <<>>
          /\ pc' = unit.code[excepts[Len(excepts)]].to
          /\ excepts' = SubSeq(excepts, 1, Len(excepts) - 1)
          /\ UNCHANGED status
       \/ /\ excepts = <<>>
          /\ status' = "raise"
          /\ UNCHANGED <<pc, excepts>>

-----------------------------------------------------------------------------
OpLoad ==
    /\ Runs({"LDNIL", "LDBOOL", "LDINT", "LDCONST", "MOVE", "GETGBL"})
    /\ Load(ins.a, CASE ins.op = "LDNIL"  -> Nil
                     [] ins.op = "LDBOOL" -> Bool(ins.b = 1)
                     [] ins.op = "LDINT"  -> <<"int", ins.b>>
                     [] ins.op = "GETGBL" -> glb[Globals[ins.b + 1]]
                     [] OTHER -> RK(ins.b))
    /\ Goto(IF ins.op = "LDBOOL" /\ ins.c = 1 THEN pc + 2 ELSE pc + 1)
    /\ UNCHANGED <<rigid, glb, heap, log>>

OpSetGlobal ==
    /\ Runs({"SETGBL"})
    /\ glb' = [glb EXCEPT ![Globals[ins.b + 1]] = reg[ins.a]]
    /\ Goto(pc + 1)
    /\ UNCHANGED <<rigid, reg, heap, log>>

\* SUB, NEG and EQ, which stand for the operators of their kind; what is no integer
\* cannot be subtracted.
OpArithmetic ==
    LET x == IF ins.op = "NEG" THEN <<"int", 0>> ELSE RK(ins.b)
        y == IF ins.op = "NEG" THEN RK(ins.b) ELSE RK(ins.c)
    IN /\ Runs({"SUB", "NEG", "EQ"})
       /\ \/ /\ ins.op = "EQ" \/ (IsInt(x) /\ IsInt(y))
             /\ Load(ins.a, IF ins.op = "EQ" THEN Bool(x = y) ELSE <<"int", x[2] - y[2]>>)
             /\ Goto(pc + 1)
             /\ UNCHANGED <<glb, heap>>
          \/ /\ ins.op # "EQ" /\ ~(IsInt(x) /\ IsInt(y))
             /\ Throw(reg, TypeError)
       /\ UNCHANGED <<rigid, log>>

\* GETMBR, GETIDX and GETMET, which puts the object into the next register.
OpGet ==
    LET obj == RK(ins.b)
        key == RK(ins.c)
        got == IF ins.op = "GETMET" THEN [reg EXCEPT ![ins.a] = <<"method", key[2]>>, ![ins.a + 1] = obj]
               ELSE [reg EXCEPT ![ins.a] = Item(heap, key)]
    IN /\ Runs({"GETMBR", "GETIDX", "GETMET"})
       /\ \/ /\ obj = <<"obj">>
             /\ reg' = got
             /\ Goto(pc + 1)
             /\ UNCHANGED <<glb, heap>>
          \/ /\ obj # <<"obj">>
             /\ Throw(reg, IF ins.op = "GETIDX" THEN TypeError ELSE AttributeError)
       /\ UNCHANGED <<rigid, log>>

OpSet ==
    LET key == RK(ins.b)
        v == RK(ins.c)
    IN /\ Runs({"SETMBR", "SETIDX"})
       /\ \/ /\ reg[ins.a] = <<"obj">>
             /\ heap' = (key :> v) @@ heap
             /\ log' = Append(log, <<"set", key, v>>)
             /\ Goto(pc + 1)
             /\ UNCHANGED <<reg, glb>>
          \/ /\ reg[ins.a] # <<"obj">>
             /\ Throw(reg, IF ins.op = "SETIDX" THEN TypeError ELSE AttributeError)
             /\ UNCHANGED log
       /\ UNCHANGED rigid

OpJump ==
    /\ Runs({"JMP", "JMPT", "JMPF"})
    /\ Goto(IF ins.op = "JMP" \/ Truth(reg[ins.a]) = (ins.op = "JMPT") THEN ins.to ELSE pc + 1)
    /\ UNCHANGED <<rigid, reg, glb, heap, log>>

\* A call of the library: the arguments follow the function, the result replaces it.
OpCall ==
    LET r == Apply(reg[ins.a], [i \in 1 .. ins.b |-> reg[ins.a + i]], log)
        regs == [i \in DOMAIN reg |-> IF i > ins.a THEN Junk ELSE reg[i]]
    IN /\ Runs({"CALL"})
       /\ log' = r.log
       /\ \/ /\ ~r.fails
             /\ reg' = [regs EXCEPT ![ins.a] = r.val]
             /\ Goto(pc + 1)
             /\ UNCHANGED <<glb, heap>>
          \/ /\ r.fails
             /\ Throw(regs, r.val)
       /\ UNCHANGED rigid

\* EXBLK: be_except_block_setup, be_except_block_close.
OpExBlk ==
    /\ Runs({"EXBLK"})
    /\ excepts' = IF ins.a = 0 THEN Append(excepts, pc) ELSE SubSeq(excepts, 1, Len(excepts) - ins.b)
    /\ pc' = pc + 1
    /\ UNCHANGED <<rigid, reg, glb, heap, log, status>>

OpCatch ==
    LET caught == ins.b = 0 \/ \E i \in 0 .. ins.b - 1 : reg[ins.a + i] = reg[Top]
    IN /\ Runs({"CATCH"})
       /\ reg' = IF caught /\ ins.c = 1 THEN [reg EXCEPT ![ins.a] = reg[Top]] ELSE reg
       /\ Goto(IF caught THEN pc + 2 ELSE pc + 1)
       /\ UNCHANGED <<rigid, glb, heap, log>>

OpRaise ==
    /\ Runs({"RAISE"})
    /\ Throw(reg, IF ins.a = 2 THEN reg[Top] ELSE RK(ins.b))
    /\ UNCHANGED <<rigid, log>>

\* RET: the value replaces the function, below the frame; here it is left at vm->top.
OpRet ==
    /\ Runs({"RET"})
    /\ Load(Top, IF ins.a = 1 THEN RK(ins.b) ELSE Nil)
    /\ status' = "return"
    /\ UNCHANGED <<rigid, pc, glb, heap, log, excepts>>

Next ==
    \/ OpLoad \/ OpSetGlobal \/ OpArithmetic \/ OpGet \/ OpSet \/ OpJump
    \/ OpCall \/ OpExBlk \/ OpCatch \/ OpRaise \/ OpRet

Spec == Init /\ [][Next]_vars /\ WF_vars(Next)

-----------------------------------------------------------------------------
\* When the function has returned or raised, its value, the globals, the items that were
\* set and the calls that were made, in their order, are those of the program's text
\* (be_code.c, be_parser.c: registers, jumps and constants).
RunsAsWritten ==
    status # "run" =>
        means = [glb |-> glb, heap |-> heap, log |-> log, ctl |-> status, val |-> reg[Top]]

\* Where a statement begins, and where the function returns, there are as many handlers
\* on the exception stack as blocks around it that set one up: no way out of a block
\* (be_parser.c: break_block, for_leave; be_code.c: leave_function) leaves one behind.
HandlersMatch ==
    /\ status = "run" => \A i \in DOMAIN unit.marks :
           unit.marks[i].pc = pc => Len(excepts) = unit.marks[i].depth
    /\ status = "return" => excepts = <<>>

\* A program that ends according to its text ends: every jump has been patched and none
\* leads back but a loop's.
Halts == <>(status # "run")
=============================================================================
