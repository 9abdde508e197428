----------------------------- MODULE BerryParser -----------------------------
(***************************************************************************)
(* The parser of Berry (be_parser.c) from its expressions and statements   *)
(* on.  The code reads tokens; here a program is its syntax tree, with the *)
(* precedence of operators already settled, and each operator makes the    *)
(* calls of the C function that reads this form, in their order.           *)
(*                                                                         *)
(* Expressions: <<"lit", value>>, <<"var", name>>, <<"mem", x, name>>,     *)
(* <<"idx", x, y>>, <<"call", x, args>>, <<"not", x>>, <<"neg", x>>,       *)
(* <<op, x, y>> for op in BinaryOps or "and", "or", <<"cond", x, y, z>>.   *)
(*                                                                         *)
(* Statements: <<"expr", x>>, <<"var", name, x>>, <<"assign", x, y>>,      *)
(* <<"update", x, y>> (x -= y), <<"if", x, block, block>>, <<"do", block>>,*)
(* <<"while", x, block>>, <<"for", name, x, block>>, <<"break">>,          *)
(* <<"continue">>, <<"return", x>>, <<"return">>, <<"raise", x>>,          *)
(* <<"try", block, case, name, block>> with case a literal or <<"any">>.       *)
(* A block is a sequence of statements; an empty else block is no else.    *)
(***************************************************************************)
EXTENDS BerryCode

CONSTANT Params     \* the names of the parameters of the function that is compiled

Index(seq, x) == CHOOSE i \in DOMAIN seq : seq[i] = x
IsIn(seq, x) == \E i \in DOMAIN seq : seq[i] = x
LastIndex(seq, x) ==
    CHOOSE i \in DOMAIN seq : seq[i] = x /\ \A j \in i + 1 .. Len(seq) : seq[j] # x

\* singlevar: a local variable, the innermost one of that name, or a global, or unknown.
SingleVar(s, name) ==
    IF IsIn(s.local, name) THEN Exp("LOCAL", <<"nil">>, LastIndex(s.local, name) - 1)
    ELSE IF IsIn(Globals, name) THEN Exp("GLOBAL", <<"nil">>, Index(Globals, name) - 1)
    ELSE Exp("VOID", <<"nil">>, 0)

LiteralType(v) ==
    CASE v[1] = "nil"  -> "NIL"
      [] v[1] = "bool" -> "BOOL"
      [] v[1] = "int"  -> "INT"
      [] v[1] = "str"  -> "STRING"
Literal(v) == Exp(LiteralType(v), v, 0)

\* new_localvar: the variable takes the next local register, in use already if the value
\* that will be assigned to it has been computed there.
NewLocal(s, name) ==
    LET reg == Len(s.local)
        t == [s EXCEPT !.local = Append(@, name)]
    IN IF reg >= s.freereg THEN AllocRegs(t, 1) ELSE t
LatestLocal(s) == Exp("LOCAL", <<"nil">>, Len(s.local) - 1)

-----------------------------------------------------------------------------
(* Expressions: each leaves one more bexpdesc                              *)

\* What cond_expr does at `:'.
AtColon(s) ==
    After(NextReg(s, Len(s.e)), LAMBDA n :
        [Jump(FreeRegs(n, 1)) EXCEPT !.reg = Pc(n)])
AtEndOfCond(s, jl) ==
    After(NextReg(s, Len(s.e)), LAMBDA n :
        [PatchJump(n, jl) EXCEPT !.e[Len(s.e)].idx = n.reg, !.e[Len(s.e)].type = "REG"])

\* call_expr once the arguments are in their registers.
EndCall(s, base, argc) ==
    LET i == Len(s.e)
        c == Call(s, base, argc)
    IN IF c.e[i].type = "REG" THEN c
       ELSE [c EXCEPT !.e[i].type = "REG", !.e[i].idx = base]

RECURSIVE Expr(_, _), Args(_, _)
\* exprlist: every argument in a register of its own.
Args(s, args) ==
    IF args = <<>> THEN s
    ELSE LET x == Expr(s, Head(args))
         IN Args(Drop(NextReg(x, Len(x.e)), 1), Tail(args))
\* c is what is called: a method takes its object as the first argument.
CallExpr(c, args) ==
    LET method == c.e[Len(c.e)].type = "MEMBER"
    IN After(IF method THEN GetMethod(c) ELSE NextReg(c, Len(c.e)), LAMBDA b :
           EndCall(Args(b, args), b.reg, Len(args) + (IF method THEN 1 ELSE 0)))
MemberExpr(s, name) == PackageSuffix(Push(s, Literal(<<"str", name>>)), "MEMBER")
IndexExpr(s) == PackageSuffix(s, "INDEX")
CondExpr(s, then, else) ==
    After(JumpBool(s, FALSE), LAMBDA c :
        After(AtColon(Expr(Drop(c, 1), then)), LAMBDA a :
            AtEndOfCond(Expr(Drop(PatchJump(a, c.e[Len(c.e)].f), 1), else), a.reg)))
Expr(s, x) ==
    CASE x[1] = "lit"  -> Push(s, Literal(x[2]))
      [] x[1] = "var"  -> Push(s, SingleVar(s, x[2]))
      [] x[1] = "mem"  -> MemberExpr(Expr(s, x[2]), x[3])
      [] x[1] = "idx"  -> IndexExpr(Expr(Expr(s, x[2]), x[3]))
      [] x[1] = "call" -> CallExpr(Expr(s, x[2]), x[3])
      [] x[1] = "not"  -> CodeNot(Expr(s, x[2]))
      [] x[1] = "neg"  -> CodeNeg(Expr(s, x[2]))
      [] x[1] = "cond" -> CondExpr(Expr(s, x[2]), x[3], x[4])
      [] OTHER         -> Binop(Expr(PreBinop(Expr(s, x[2]), x[1]), x[3]), x[1], -1)

-----------------------------------------------------------------------------
(* Blocks                                                                  *)

BeginBlock(s, type) ==
    [s EXCEPT !.blocks = Append(@, [type |-> type, begin |-> Pc(s), nact |-> Len(s.local),
                                    brk |-> NoJump, cont |-> NoJump])]

EndBlock_lost(s) ==     \* Mutant: the continues are not patched.
    LET n == Len(s.blocks)
        b == s.blocks[n]
        j == Jump(s)
        t == IF "loop" \in b.type THEN PatchJump(PatchList(j, Len(j.code), b.begin), b.brk) ELSE s
    IN [t EXCEPT !.local = SubSeq(@, 1, b.nact), !.freereg = b.nact,
                 !.blocks = SubSeq(@, 1, n - 1)]
\* end_block: a loop jumps back, and its breaks and continues are patched.
EndBlock(s) ==
    LET n == Len(s.blocks)
        b == s.blocks[n]
        j == Jump(s)
        loop == PatchList(PatchJump(PatchList(j, Len(j.code), b.begin), b.brk), b.cont, b.begin)
        t == IF "loop" \in b.type THEN loop ELSE s
    IN [t EXCEPT !.local = SubSeq(@, 1, b.nact), !.freereg = b.nact,
                 !.blocks = SubSeq(@, 1, n - 1)]

\* break_block: the innermost loop; the handlers set up inside it are closed.
LoopBlock(s) ==
    CHOOSE n \in DOMAIN s.blocks :
        /\ "loop" \in s.blocks[n].type
        /\ \A m \in n + 1 .. Len(s.blocks) : "loop" \notin s.blocks[m].type
BreakBlock_open(s) == s     \* Mutant: the handlers stay.
BreakBlock(s) ==
    LET depth == CountExcept(s.blocks, Len(s.blocks)) - CountExcept(s.blocks, LoopBlock(s))
    IN IF depth = 0 THEN s ELSE ExBlk(s, depth)
Break(s) ==
    LET n == LoopBlock(s)
        j == Jump(BreakBlock(s))
        c == ConJump(j, j.blocks[n].brk, Len(j.code))
    IN [c EXCEPT !.blocks[n].brk = Joined(@, Len(j.code))]
Continue(s) ==
    LET n == LoopBlock(s)
        j == Jump(BreakBlock(s))
        c == ConJump(j, j.blocks[n].cont, Len(j.code))
    IN [c EXCEPT !.blocks[n].cont = Joined(@, Len(j.code))]

-----------------------------------------------------------------------------
(* for                                                                     *)

\* for_init: .it = __iterator__(expr)
ForCall(s) == NextReg(Push(s, Exp("GLOBAL", <<"nil">>, Index(Globals, "__iterator__") - 1)),
                      Len(s.e) + 1)
ForInit(s, base) ==
    LET a == Drop(NextReg(s, Len(s.e)), 2)
    IN OddIf(NewLocal(FreeRegs(Call(a, base, 1), 1), ".it"), "leaked", base # Len(s.local))

\* for_iter: var = .it(), at the new beginning of the loop
ForIter(s, name) ==
    LET n == Len(s.blocks)
        t == NewLocal([s EXCEPT !.blocks[n].begin = Pc(s)], name)
        var == LatestLocal(t)
        it == Exp("LOCAL", <<"nil">>, Len(t.local) - 2)
    IN Call(SetVar(Push(Push(t, var), it)), var.idx, 0)

\* for_leave: a break closes the handler; the catch takes stop_iteration only.
ForLeave(s, jcatch) ==
    LET jbrk == s.blocks[Len(s.blocks)].brk
        Exhausted(x) ==     \* x ends with the jump of the breaks, if there are any
            LET c == ConJump(x, jcatch, Pc(x))
                n == NextReg(Push(c, Literal(<<"str", "stop_iteration">>)), Len(c.e) + 1)
                Over(k) == FreeRegs(Drop(Reraise(Catch(k, k.reg, 1, 0)), 1), 1)
            IN After(Over(n), LAMBDA r : IF jbrk = NoJump THEN r ELSE ConJump(r, Pc(x) - 1, Pc(r)))
    IN After(EndBlock(s), LAMBDA b : Exhausted(IF jbrk = NoJump THEN b ELSE Jump(ExBlk(b, 1))))

-----------------------------------------------------------------------------
(* Statements                                                              *)

\* compound_assign: a register for the old value before the right side is read.
SuffixAllocReg(s) ==
    LET l == s.e[Len(s.e)]
    IN IF l.type = "GLOBAL" \/ (l.type \in {"MEMBER", "INDEX"} /\ l.tt \in {"REG", "LOCAL", "GLOBAL"})
       THEN AllocRegs(s, 1) ELSE s
CopyLeft(s) ==
    LET n == Len(s.e) IN [s EXCEPT !.e = SubSeq(@, 1, n - 1) \o <<@[n - 1], @[n]>>]

\* An expression that is no assignment gives its registers back; conditions that are
\* still open stay open, and the access of a member or item that comes last is not made.
EndExprStmt(s) ==
    LET e == s.e[Len(s.e)]
        t == OddIf(OddIf(s, "open", e.t # NoJump \/ e.f # NoJump),
                   "unread", e.type \in {"MEMBER", "INDEX"})
    IN Drop(IF e.type \in {"MEMBER", "INDEX", "REG"} THEN [t EXCEPT !.freereg = Len(t.local)]
            ELSE t, 1)

\* check_newvar: a name that is unknown becomes a local variable.
EndAssign(s, name) ==
    LET n == Len(s.e)
        t == NewLocal(s, name)
    IN SetVar(IF s.e[n - 1].type = "VOID" THEN [t EXCEPT !.e[n - 1] = LatestLocal(t)] ELSE s)
EndVar(s, name) ==
    LET t == NewLocal(s, name)
        n == Len(s.e)
    IN SetVar([t EXCEPT !.e = SubSeq(@, 1, n - 1) \o <<LatestLocal(t), @[n]>>])

\* except_case_list: the cases in registers from s.reg on, given back at once.
ExceptCases(s, case) ==
    IF case = <<"any">> THEN [s EXCEPT !.reg = s.freereg]
    ELSE LET n == NextReg(Push(s, Literal(case)), Len(s.e) + 1)
         IN FreeRegs(Drop(n, 1), 1)

\* A ghost: where each statement begins, and how many handlers are set up there.
Marked(s) ==
    [s EXCEPT !.marks = Append(@, [pc |-> Pc(s), depth |-> CountExcept(s.blocks, Len(s.blocks))])]

RECURSIVE Statement(_, _), StmtList(_, _)
\* Between two statements there is no expression.
StmtList(s, stmts) ==
    IF s.e = <<>> /\ stmts # <<>> THEN StmtList(Statement(Marked(s), Head(stmts)), Tail(stmts)) ELSE s
Block(s, type, stmts) == EndBlock(StmtList(BeginBlock(s, type), stmts))
Cond(s, x) == JumpBool(Expr(s, x), FALSE)      \* cond_stmt; the last exp's f leaves

IfStmt(s, x, then, else) ==
    After(Cond(s, x), LAMBDA c :
        LET br == c.e[Len(c.e)].f
        IN After(Block(Drop(c, 1), {}, then), LAMBDA b :
               IF else = <<>> THEN PatchJump(b, br)
               ELSE PatchJump(Block(PatchJump(Jump(b), br), {}, else), Pc(b))))

WhileStmt(s, x, body) ==
    After(Cond(BeginBlock(s, {"loop"}), x), LAMBDA c :
        PatchJump(EndBlock(StmtList(Drop(c, 1), body)), c.e[Len(c.e)].f))

ForStmt(s, name, x, body) ==
    After(ForCall(BeginBlock(s, {"loop", "except"})), LAMBDA b :
        After(ExBlk(ForInit(Expr(b, x), b.reg), 0), LAMBDA j :
            ForLeave(StmtList(ForIter(j, name), body), Len(j.code))))

\* The body's jump past the handlers is jend, the try's exception block jcatch.
ExceptStmt(s, case, name, handler, jend, jcatch) ==
    LET Caught(e) ==
            LET v == IF name = "" THEN e ELSE NewLocal(e, name)
            IN Jump(Catch(v, e.reg, IF case = <<"any">> THEN 0 ELSE 1, IF name = "" THEN 0 ELSE 1))
        Handled(h) == EndBlock(ConJump(h, jend, Len(h.code)))
    IN After(Caught(ExceptCases(ConJump(BeginBlock(s, {}), jcatch, Pc(s)), case)), LAMBDA c :
           PatchJump(Handled(Jump(StmtList(c, handler))), Len(c.code)))

TryStmt(s, body, case, name, handler) ==
    After(Jump(ExBlk(Block(ExBlk(s, 0), {"except"}, body), 1)), LAMBDA l :
        PatchJump(Reraise(ExceptStmt(l, case, name, handler, Len(l.code), Pc(s))), Len(l.code)))

Statement(s, st) ==
    CASE st[1] = "expr"     -> EndExprStmt(Expr(s, st[2]))
      [] st[1] = "var"      -> EndVar(Expr(s, st[3]), st[2])
      [] st[1] = "assign"   -> EndAssign(Expr(Expr(s, st[2]), st[3]), st[2][2])
      [] st[1] = "update"   -> After(Expr(s, st[2]), LAMBDA l :
                                   SetVar(Binop(CopyLeft(Expr(SuffixAllocReg(l), st[3])),
                                                "SUB", l.freereg)))
      [] st[1] = "if"       -> IfStmt(s, st[2], st[3], st[4])
      [] st[1] = "do"       -> Block(s, {}, st[2])
      [] st[1] = "while"    -> WhileStmt(s, st[2], st[3])
      [] st[1] = "for"      -> ForStmt(s, st[2], st[3], st[4])
      [] st[1] = "break"    -> Break(s)
      [] st[1] = "continue" -> Continue(s)
      [] st[1] = "return"   -> Ret(IF Len(st) = 1 THEN Push(s, Exp("VOID", <<"nil">>, 0))
                                   ELSE Expr(s, st[2]))
      [] st[1] = "raise"    -> Raise(Expr(s, st[2]))
      [] st[1] = "try"      -> TryStmt(s, st[2], st[3], st[4], st[5])

\* The function `def f(Params) ... end': funcbody, begin_func, end_func.
Compile(body) ==
    LET n == Len(Params)
        start == [code |-> <<>>, k |-> <<>>, freereg |-> n, nstack |-> n, local |-> Params,
                  blocks |-> <<[type |-> {}, begin |-> 1, nact |-> 0, brk |-> NoJump,
                                cont |-> NoJump]>>,
                  e |-> <<>>, reg |-> 0, returns |-> FALSE, odd |-> {}, marks |-> <<>>]
    IN EndBlock(RetNil(StmtList(start, body)))
=============================================================================
