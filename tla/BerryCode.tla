------------------------------ MODULE BerryCode ------------------------------
(***************************************************************************)
(* The code generator of Berry (be_code.c): what the parser calls while it *)
(* reads a function, in one pass and without a syntax tree.  The unit `s'  *)
(* is the bfuncinfo together with the bexpdescs the parser has on the C    *)
(* stack: s.e[i] is the i-th of them, the last one the latest.  An         *)
(* operator that returns a register in the code leaves it in the exp's     *)
(* idx, or in s.reg.                                                       *)
(*                                                                         *)
(* Jumps carry the place they go to (`to', the code holds a distance); one *)
(* that is not patched goes to itself, and the jumps of a list are         *)
(* threaded through that field, as in the code.                            *)
(*                                                                         *)
(* `s.odd' is a ghost: it names the situations in which this generator is  *)
(* known to produce code that does something else than the text says; the  *)
(* README describes them.                                                  *)
(***************************************************************************)
EXTENDS Integers, Sequences

CONSTANT Globals    \* the global variables, a sequence of names

NoJump == 0

IsK(v) == v >= 256
SetK(i) == i + 256

\* The operations OP_ADD .. OP_CONNECT, and all up to OP_LDNIL, as far as they are
\* modelled; and those whose Bx is a distance.
BinaryOps == {"SUB", "EQ"}
UpToLdnil == BinaryOps \cup {"NEG", "LDNIL"}
JumpOps   == {"JMP", "JMPT", "JMPF", "EXBLK"}

\* A bexpdesc as init_exp leaves it. `val' is a literal, `idx' a register, a constant
\* or a global; an ETMEMBER or ETINDEX is (obj, tt, key).
Exp(type, val, idx) ==
    [type |-> type, val |-> val, idx |-> idx, obj |-> 0, tt |-> "VOID", key |-> 0,
     t |-> NoJump, f |-> NoJump, not |-> {}]

HasJump(e) == e.t # e.f \/ "expr" \in e.not
JumpBoolOp_plain(e, b) == IF b THEN "JMPT" ELSE "JMPF"   \* Mutant: negations are forgotten.
JumpBoolOp(e, b) == IF b # ("mask" \in e.not) THEN "JMPT" ELSE "JMPF"

Pc(s) == Len(s.code) + 1
OddIf(s, what, when) == [s EXCEPT !.odd = IF when THEN @ \cup {what} ELSE @]
\* Step, from the unit that the call before it has left.
After(s, Step(_)) == Step(s)
Push(s, e) == [s EXCEPT !.e = Append(@, e)]
Drop(s, n) == [s EXCEPT !.e = SubSeq(@, 1, Len(@) - n)]

Emit(s, op, a, b, c) ==
    [s EXCEPT !.code = Append(@, [op |-> op, a |-> a, b |-> b, c |-> c, to |-> NoJump])]

AllocRegs(s, n) ==
    [s EXCEPT !.freereg = @ + n, !.nstack = IF s.freereg + n > @ THEN s.freereg + n ELSE @]
FreeRegs(s, n) == [s EXCEPT !.freereg = @ - n]
FreeExpReg(s, i) == IF s.e[i].type = "REG" THEN FreeRegs(s, 1) ELSE s

-----------------------------------------------------------------------------
(* Jumps                                                                   *)

RECURSIVE LastOf(_, _)
LastOf(code, j) == IF code[j].to = j THEN j ELSE LastOf(code, code[j].to)

\* be_code_conjump: append `jmp' to a list; Joined is the list's new head.
ConJump(s, list, jmp) ==
    IF jmp = NoJump \/ list = NoJump THEN s
    ELSE [s EXCEPT !.code[LastOf(s.code, list)].to = jmp]
Joined(list, jmp) == IF list = NoJump THEN jmp ELSE list

\* patchlistaux: jumps that test a register go to `dtarget', others to `vtarget'.
RECURSIVE PatchListAux(_, _, _, _)
PatchListAux(s, list, vtarget, dtarget) ==
    IF list = NoJump THEN s
    ELSE LET j == s.code[list]
             target == IF j.op \in {"JMPT", "JMPF"} THEN dtarget ELSE vtarget
         IN PatchListAux([s EXCEPT !.code[list].to = target],
                         IF j.to = list THEN NoJump ELSE j.to, vtarget, dtarget)

PatchList(s, list, dst) == PatchListAux(s, list, dst, dst)
PatchJump(s, list) == PatchList(s, list, Pc(s))

EmitJump(s, op, reg) ==
    [s EXCEPT !.code = Append(@, [op |-> op, a |-> reg, b |-> 0, c |-> 0, to |-> Pc(s)])]
Jump(s) == EmitJump(s, "JMP", 0)

\* code_move: R(a) <- RK(b). The last instruction is rewritten instead when it computes
\* R(b) from R(a): right when R(b) is a temporary and no jump arrives in between.
JoinsAt(s, pc) == \E j \in 1 .. Len(s.code) : s.code[j].op \in JumpOps /\ s.code[j].to = pc
CodeMove(s, a, b) ==
    LET n == Len(s.code)
        last == s.code[n]
        redundant == /\ n > 0
                     /\ last.op \in UpToLdnil
                     /\ b = last.a
                     /\ a = last.b \/ (last.op \in BinaryOps /\ a = last.c)
        joins == JoinsAt(s, Pc(s))
        seen == OddIf(OddIf(s, "joined", joins), "kept", b < Len(s.local) /\ ~joins)
    IN IF redundant THEN [seen EXCEPT !.code[n].a = a]
       ELSE IF IsK(b) THEN Emit(s, "LDCONST", a, b, 0)
       ELSE Emit(s, "MOVE", a, b, 0)

-----------------------------------------------------------------------------
(* From a bexpdesc to a register or constant                               *)

\* exp2const: find the constant in the table or add it.
Exp2Const(s, i) ==
    LET v == s.e[i].val
        at == {j \in 1 .. Len(s.k) : s.k[j] = v}
        idx == IF at = {} THEN Len(s.k) ELSE (CHOOSE j \in at : TRUE) - 1
    IN [s EXCEPT !.k = IF at = {} THEN Append(@, v) ELSE @,
                 !.e[i].type = "CONST", !.e[i].idx = SetK(idx)]

\* The end of var2reg: the value is in R(dst), which is allocated if it is the next one.
InReg(s, i, dst) ==
    [(IF dst = s.freereg THEN AllocRegs(s, 1) ELSE s)
        EXCEPT !.e[i].type = "REG", !.e[i].idx = dst]

\* code_suffix with suffix_destreg: the object's or the key's register is used again for
\* the result unless `keep' is set. The register of the result is in s.reg.
CodeSuffix(s, i, op, dst, keep) ==
    LET e == s.e[i]
        reg1 == ~keep /\ e.tt = "REG"
        reg2 == ~keep /\ ~IsK(e.key) /\ e.key >= Len(s.local)
        freed == IF reg1 /\ reg2 /\ e.obj # e.key THEN FreeRegs(s, 1) ELSE s
        cand == IF reg1 /\ reg2 THEN (IF e.obj < e.key THEN e.obj ELSE e.key)
                ELSE IF reg1 THEN e.obj
                ELSE IF reg2 THEN e.key
                ELSE dst
        better == IF dst >= freed.freereg THEN cand ELSE dst
        to == IF better > freed.freereg THEN freed.freereg ELSE better
    IN [Emit(freed, op, to, e.obj, e.key) EXCEPT !.reg = to]

Var2Reg(s, i, dst) ==
    LET e == s.e[i]
        d == IF dst < 0 THEN s.freereg ELSE dst
        Loaded(op, b) == InReg(Emit(s, op, d, b, 0), i, d)
    IN CASE e.type = "STRING" \/ (e.type = "INT" /\ e.val[2] \in 0 .. 3) -> Exp2Const(s, i)
         [] e.type = "INT" /\ e.val[2] \notin 0 .. 3 -> Loaded("LDINT", e.val[2])
         [] e.type = "BOOL"   -> Loaded("LDBOOL", IF e.val[2] THEN 1 ELSE 0)
         [] e.type = "NIL"    -> Loaded("LDNIL", 0)
         [] e.type = "GLOBAL" -> Loaded("GETGBL", e.idx)
         [] e.type \in {"MEMBER", "INDEX"} ->
                After(CodeSuffix(s, i, IF e.type = "MEMBER" THEN "GETMBR" ELSE "GETIDX", d, dst >= 0),
                      LAMBDA t : InReg(t, i, t.reg))
         [] e.type = "VOID"   -> [s EXCEPT !.e[i].idx = d]
         [] OTHER -> s

\* appendjump on an expression: the jump is the last instruction.
AppendJump(s, op, i) ==
    After(Var2Reg(s, i, -1), LAMBDA v :
        After(IF ~IsK(v.e[i].idx) THEN v
              ELSE [CodeMove(AllocRegs(v, 1), v.freereg, v.e[i].idx)
                      EXCEPT !.e[i].type = "REG", !.e[i].idx = v.freereg],
              LAMBDA r : EmitJump(r, op, r.e[i].idx)))

\* The value of a condition: both lists end at a load of true or false.
Exp2Reg(s, i, dst) ==
    LET Loads(j) ==
            LET e == j.e[i]
                jpt == Len(j.code)
                b == Emit(Emit(ConJump(j, e.t, jpt), "LDBOOL", e.idx, 0, 1), "LDBOOL", e.idx, 1, 0)
                f == PatchListAux(b, e.f, jpt + 3, jpt + 1)
            IN PatchListAux(f, Joined(e.t, jpt), jpt + 3, jpt + 2)
    IN After(Var2Reg(s, i, dst), LAMBDA v :
           IF ~HasJump(v.e[i]) THEN v
           ELSE [OddIf(Loads(AppendJump(v, JumpBoolOp(v.e[i], TRUE), i)),
                       "overwritten", v.e[i].type = "LOCAL")
                    EXCEPT !.e[i].t = NoJump, !.e[i].f = NoJump, !.e[i].not = {}])

Exp2AnyReg(s, i) == Exp2Reg(s, i, -1)

\* be_code_nextreg: the value in a register of its own, in s.reg.
NextReg(s, i) ==
    After(Exp2AnyReg(s, i), LAMBDA v :
        IF v.e[i].type = "REG" THEN [v EXCEPT !.reg = v.e[i].idx]
        ELSE [AllocRegs(CodeMove(v, v.freereg, v.e[i].idx), 1) EXCEPT !.reg = v.freereg])

\* be_code_jumpbool: leave when the last expression is (jtrue) or is not true.
JumpBool(s, jtrue) ==
    LET i == Len(s.e)
        e == s.e[i]
    IN After(AppendJump(s, JumpBoolOp(e, jtrue), i), LAMBDA j :
           LET pc == Len(j.code)
               c == ConJump(j, IF jtrue THEN e.t ELSE e.f, pc)
           IN [FreeExpReg(PatchJump(c, IF jtrue THEN e.f ELSE e.t), i)
                 EXCEPT !.e[i].t = IF jtrue THEN Joined(e.t, pc) ELSE NoJump,
                        !.e[i].f = IF jtrue THEN NoJump ELSE Joined(e.f, pc),
                        !.e[i].not = {}])

-----------------------------------------------------------------------------
(* Operators                                                               *)

\* codedestreg: where the result of a binary operator goes, in s.reg.
CodeDestReg(s, i, dst0) ==
    LET con1 == s.e[i].type = "REG"
        con2 == s.e[i + 1].type = "REG"
        r1 == s.e[i].idx
        r2 == s.e[i + 1].idx
        dst == IF dst0 < 0 THEN s.freereg ELSE dst0
        To(t, cand) == [t EXCEPT !.reg = IF dst >= t.freereg THEN cand ELSE dst]
    IN CASE con1 /\ con2 -> To(FreeRegs(s, 1), IF r1 < r2 THEN r1 ELSE r2)
         [] con1 /\ ~con2 -> To(s, r1)
         [] ~con1 /\ con2 -> To(s, r2)
         [] ~con1 /\ ~con2 /\ dst >= s.freereg -> [AllocRegs(s, 1) EXCEPT !.reg = s.freereg]
         [] OTHER -> [s EXCEPT !.reg = dst]

\* binaryexp on the last two expressions.
BinaryExp(s, op, dst) ==
    LET i == Len(s.e) - 1
    IN After(Exp2AnyReg(Exp2Reg(s, i, dst), i + 1), LAMBDA v :
           After(CodeDestReg(v, i, dst), LAMBDA d :
               Drop([Emit(d, op, d.reg, v.e[i].idx, v.e[i + 1].idx)
                       EXCEPT !.e[i].type = "REG", !.e[i].idx = d.reg], 1)))

PreBinop(s, op) ==
    CASE op = "and" -> JumpBool(s, FALSE)
      [] op = "or"  -> JumpBool(s, TRUE)
      [] OTHER -> Exp2AnyReg(s, Len(s.e))

Binop(s, op, dst) ==
    LET n == Len(s.e)
        e1 == s.e[n - 1]
    IN IF op \notin {"and", "or"} THEN BinaryExp(s, op, dst)
       ELSE After(Var2Reg(s, n, -1), LAMBDA v :
                LET e2 == v.e[n]
                IN IF op = "and"
                   THEN Push(Drop(ConJump(v, e2.f, e1.f), 2), [e2 EXCEPT !.f = Joined(@, e1.f)])
                   ELSE Push(Drop(ConJump(v, e2.t, e1.t), 2), [e2 EXCEPT !.t = Joined(@, e1.t)]))

UnaryExp(s, op) ==
    LET i == Len(s.e)
    IN After(Exp2AnyReg(s, i), LAMBDA v :
           LET src == v.e[i].idx
               isreg == v.e[i].type = "REG"
               dst == IF isreg THEN src ELSE v.freereg
               a == IF isreg THEN v ELSE AllocRegs(v, 1)
           IN [(IF op = "MOVE" /\ isreg THEN a ELSE Emit(a, op, dst, src, 0))
                  EXCEPT !.e[i].type = "REG", !.e[i].idx = dst])

\* code_not and code_neg: literals are computed, a condition changes its lists.
CodeNot(s) ==
    LET i == Len(s.e)
        e == s.e[i]
        Const(b) == [s EXCEPT !.e[i].type = "BOOL", !.e[i].val = <<"bool", b>>]
        Turned(x) == [x EXCEPT !.t = x.f, !.f = x.t, !.not = {"expr"} \cup ({"mask"} \ x.not)]
    IN CASE e.type = "INT"    -> Const(e.val[2] = 0)
         [] e.type = "NIL"    -> Const(TRUE)
         [] e.type = "BOOL"   -> Const(~e.val[2])
         [] e.type = "STRING" -> Const(FALSE)
         [] OTHER -> [UnaryExp(s, "MOVE") EXCEPT !.e[i] = Turned(@)]

CodeNeg(s) ==
    LET i == Len(s.e)
    IN IF s.e[i].type = "INT" THEN [s EXCEPT !.e[i].val = <<"int", -@[2]>>]
       ELSE UnaryExp(s, "NEG")

-----------------------------------------------------------------------------
(* Variables, suffixes, calls                                              *)

\* free_suffix: the key's register, then the object's if it is the top one.
FreeSuffix(s, e) ==
    LET k == IF ~IsK(e.key) /\ e.key >= Len(s.local) THEN FreeRegs(s, 1) ELSE s
    IN IF e.tt = "REG" /\ e.obj >= Len(s.local) /\ e.obj + 1 >= k.freereg
       THEN FreeRegs(k, 1) ELSE k

\* A constant is put into the next register, which is not allocated.
InAnyReg(s, src) == IF IsK(src) THEN CodeMove(s, s.freereg, src) ELSE s
AnyReg(s, src) == IF IsK(src) THEN s.freereg ELSE src

\* be_code_setvar: the last but one expression takes the value of the last.
SetVar(s) ==
    LET i == Len(s.e) - 1
        e1 == s.e[i]
        local == e1.type = "LOCAL"
        InSuffix(x, src) ==
            Emit(InAnyReg(x, e1.obj), IF e1.type = "MEMBER" THEN "SETMBR" ELSE "SETIDX",
                 AnyReg(x, e1.obj), e1.key, src)
        Stored(f, src) ==
            CASE local -> CodeMove(f, e1.idx, src)
              [] e1.type = "GLOBAL" -> Emit(InAnyReg(f, src), "SETGBL", AnyReg(f, src), e1.idx, 0)
              [] e1.type \in {"MEMBER", "INDEX"} -> InSuffix(FreeSuffix(f, e1), src)
    IN After(Exp2Reg(s, i + 1, IF local THEN e1.idx ELSE -1), LAMBDA v :
           LET src == v.e[i + 1].idx
           IN Drop(IF local /\ e1.idx = src THEN v ELSE Stored(FreeExpReg(v, i + 1), src), 2))

\* package_suffix: the last but one expression, suffixed by the last.
PackageSuffix(s, type) ==
    LET i == Len(s.e) - 1
    IN After(Exp2AnyReg(Exp2AnyReg(s, i + 1), i), LAMBDA v :
           Drop([v EXCEPT !.e[i].obj = v.e[i].idx, !.e[i].tt = v.e[i].type,
                          !.e[i].key = v.e[i + 1].idx, !.e[i].type = type], 1))

\* be_code_getmethod: the method and the object in two registers from s.reg.
GetMethod(s) ==
    After(CodeSuffix(s, Len(s.e), "GETMET", s.freereg, FALSE),
          LAMBDA t : AllocRegs(t, IF t.reg = t.freereg THEN 2 ELSE 1))

Call(s, base, argc) == FreeRegs(Emit(s, "CALL", base, argc, 0), argc)

-----------------------------------------------------------------------------
(* Returns and exceptions                                                  *)

\* be_code_exblk: set up a handler (a jump to its catch), or close `depth' of them.
ExBlk(s, depth) ==
    IF depth = 0 THEN EmitJump(s, "EXBLK", 0) ELSE Emit(s, "EXBLK", 1, depth, 0)

RECURSIVE CountExcept(_, _)
CountExcept(blocks, n) ==
    IF n = 0 THEN 0
    ELSE CountExcept(blocks, n - 1) + (IF "except" \in blocks[n].type THEN 1 ELSE 0)

LeaveFunction(s) ==
    LET depth == CountExcept(s.blocks, Len(s.blocks))
    IN IF depth = 0 THEN s ELSE ExBlk(s, depth)

\* be_code_ret with the last expression; a second return of the outermost block is
\* dropped. be_code_ret(NULL) is RetNil.
Ret(s) ==
    LET i == Len(s.e)
        Returned(v) ==
            LET e == v.e[i]
                r == Emit(LeaveFunction(v), "RET", IF e.type = "VOID" THEN 0 ELSE 1, e.idx, 0)
            IN FreeExpReg(r, i)
    IN Drop(IF Len(s.blocks) = 1 /\ s.returns THEN s
            ELSE Returned(Exp2AnyReg([s EXCEPT !.returns = @ \/ Len(s.blocks) = 1], i)), 1)

RetNil(s) == IF Len(s.blocks) = 1 /\ s.returns THEN s ELSE Emit(s, "RET", 0, 0, 0)

\* be_code_catch: the catch and, when it is not the last one, the jump to the next.
Catch(s, base, ecnt, vcnt) == Emit(s, "CATCH", base, ecnt, vcnt)

Raise(s) ==
    LET i == Len(s.e)
    IN After(Exp2AnyReg(s, i), LAMBDA v : Drop(FreeExpReg(Emit(v, "RAISE", 0, v.e[i].idx, 0), i), 1))
Reraise(s) == Emit(s, "RAISE", 2, 0, 0)
=============================================================================
