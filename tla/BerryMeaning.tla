---------------------------- MODULE BerryMeaning ----------------------------
(***************************************************************************)
(* What a Berry program means: an evaluator of the syntax trees of         *)
(* BerryParser, without registers, jumps or handlers.  It is the reference *)
(* that the compiled code is compared with.                                *)
(*                                                                         *)
(* Values are tuples: <<"nil">>, <<"bool", b>>, <<"int", n>>,              *)
(* <<"str", s>>, and the objects the program is given: the function <<"f">>*)
(* (it records its argument and returns it), the instance <<"obj">> whose  *)
(* members and items are kept in `heap' and whose methods record their     *)
(* argument, and the iterable <<"list">> with the elements 1 and 2.        *)
(*                                                                         *)
(* The machine m is [env, glb, heap, log, ctl, val]: the variables in      *)
(* scope, the globals, the items of the object, what has been recorded,    *)
(* how the last statement ended, and its value.                            *)
(***************************************************************************)
EXTENDS BerryParser, TLC

Nil == <<"nil">>
Bool(b) == <<"bool", b>>
Str(s) == <<"str", s>>
TypeError == Str("type_error")
AttributeError == Str("attribute_error")
StopIteration == Str("stop_iteration")

\* be_value2bool
Truth(v) ==
    CASE v[1] = "nil"  -> FALSE
      [] v[1] = "bool" -> v[2]
      [] v[1] = "int"  -> v[2] # 0
      [] v[1] = "str"  -> v[2] # ""
      [] OTHER         -> TRUE

IsInt(v) == v[1] = "int"
Item(heap, k) == IF k \in DOMAIN heap THEN heap[k] ELSE Nil

\* A call of a value, in the library: [log, val, fails]. Iterators count in the log.
Elements == 2
Taken(log, id) == Len(SelectSeq(log, LAMBDA x : x = <<"next", id>>))
Apply(fn, args, log) ==
    LET Done(x, v) == [log |-> Append(log, x), val |-> v, fails |-> FALSE]
        Fail(v) == [log |-> log, val |-> v, fails |-> TRUE]
        id == Len(log) + 1
    IN CASE fn[1] = "f"      -> Done(<<"f", args[1]>>, args[1])
         [] fn[1] = "method" -> Done(<<"method", fn[2], args[1], args[2]>>, args[2])
         [] fn[1] = "iterator" /\ args[1] = <<"list">> -> Done(<<"iter", id>>, <<"iter", id>>)
         [] fn[1] = "iter" /\ Taken(log, fn[2]) < Elements ->
                Done(<<"next", fn[2]>>, <<"int", Taken(log, fn[2]) + 1>>)
         [] fn[1] = "iter" /\ Taken(log, fn[2]) >= Elements -> Fail(StopIteration)
         [] OTHER -> Fail(TypeError)

-----------------------------------------------------------------------------
\* Go on with m as long as nothing has ended it.
Then(m, Step(_)) == IF m.ctl = "ok" THEN Step(m) ELSE m
Gives(m, v) == [m EXCEPT !.val = v]
Fails(m, v) == [m EXCEPT !.val = v, !.ctl = "raise"]

Lookup(m, name) ==
    LET at == {i \in DOMAIN m.env : m.env[i][1] = name}
    IN IF at = {} THEN m.glb[name]
       ELSE m.env[CHOOSE i \in at : \A j \in at : j <= i][2]
Store(m, name, v) ==
    LET at == {i \in DOMAIN m.env : m.env[i][1] = name}
    IN IF at # {} THEN [m EXCEPT !.env[CHOOSE i \in at : \A j \in at : j <= i][2] = v]
       ELSE IF name \in DOMAIN m.glb THEN [m EXCEPT !.glb[name] = v]
       ELSE [m EXCEPT !.env = Append(@, <<name, v>>)]
Put(m, k, v) == [m EXCEPT !.heap = (k :> v) @@ @, !.log = Append(@, <<"set", k, v>>)]
Calls(m, fn, args) ==
    LET r == Apply(fn, args, m.log)
    IN IF r.fails THEN Fails(m, r.val) ELSE [m EXCEPT !.log = r.log, !.val = r.val]

Subtract(m, x, y) ==
    IF IsInt(x) /\ IsInt(y) THEN Gives(m, <<"int", x[2] - y[2]>>) ELSE Fails(m, TypeError)

RECURSIVE Val(_, _), Vals(_, _, _)
\* The arguments one after the other; val is the tuple of their values.
Vals(m, xs, done) ==
    IF xs = <<>> THEN Gives(m, done)
    ELSE Then(Val(m, Head(xs)), LAMBDA n : Vals(n, Tail(xs), Append(done, n.val)))
Val(m, x) ==
    CASE x[1] = "lit" -> Gives(m, x[2])
      [] x[1] = "var" -> Gives(m, Lookup(m, x[2]))
      [] x[1] = "mem" -> Then(Val(m, x[2]), LAMBDA n :
             IF n.val = <<"obj">> THEN Gives(n, Item(n.heap, Str(x[3]))) ELSE Fails(n, AttributeError))
      [] x[1] = "idx" -> Then(Vals(m, <<x[2], x[3]>>, <<>>), LAMBDA n :
             IF n.val[1] = <<"obj">> THEN Gives(n, Item(n.heap, n.val[2])) ELSE Fails(n, TypeError))
      [] x[1] = "call" /\ x[2][1] = "mem" ->
             Then(Val(m, x[2][2]), LAMBDA n :
                 IF n.val # <<"obj">> THEN Fails(n, AttributeError)
                 ELSE Then(Vals(n, x[3], <<n.val>>), LAMBDA k :
                          Calls(k, <<"method", x[2][3]>>, k.val)))
      [] x[1] = "call" /\ x[2][1] # "mem" ->
             Then(Vals(m, <<x[2]>> \o x[3], <<>>), LAMBDA n : Calls(n, Head(n.val), Tail(n.val)))
      [] x[1] = "not"  -> Then(Val(m, x[2]), LAMBDA n : Gives(n, Bool(~Truth(n.val))))
      [] x[1] = "neg"  -> Then(Val(m, x[2]), LAMBDA n : Subtract(n, <<"int", 0>>, n.val))
      [] x[1] = "and"  -> Then(Val(m, x[2]), LAMBDA n :
             IF ~Truth(n.val) THEN Gives(n, Bool(FALSE))
             ELSE Then(Val(n, x[3]), LAMBDA k : Gives(k, Bool(Truth(k.val)))))
      [] x[1] = "or"   -> Then(Val(m, x[2]), LAMBDA n :
             IF Truth(n.val) THEN Gives(n, Bool(TRUE))
             ELSE Then(Val(n, x[3]), LAMBDA k : Gives(k, Bool(Truth(k.val)))))
      [] x[1] = "cond" -> Then(Val(m, x[2]), LAMBDA n : Val(n, IF Truth(n.val) THEN x[3] ELSE x[4]))
      [] x[1] = "SUB"  -> Then(Vals(m, <<x[2], x[3]>>, <<>>), LAMBDA n : Subtract(n, n.val[1], n.val[2]))
      [] x[1] = "EQ"   -> Then(Vals(m, <<x[2], x[3]>>, <<>>), LAMBDA n :
             Gives(n, Bool(n.val[1] = n.val[2])))

\* The variable, member or item x takes the value that Value computes once the parts of x
\* have been computed.
Assign(m, x, Value(_)) ==
    CASE x[1] = "var" -> Then(Value(m), LAMBDA n : Store(n, x[2], n.val))
      [] x[1] = "mem" -> Then(Val(m, x[2]), LAMBDA o : Then(Value(o), LAMBDA n :
             IF o.val = <<"obj">> THEN Put(n, Str(x[3]), n.val) ELSE Fails(n, AttributeError)))
      [] x[1] = "idx" -> Then(Vals(m, <<x[2], x[3]>>, <<>>), LAMBDA o : Then(Value(o), LAMBDA n :
             IF o.val[1] = <<"obj">> THEN Put(n, o.val[2], n.val) ELSE Fails(n, TypeError)))

\* The old value of x, read after the right side has been computed.
Old(m, x, o) ==
    CASE x[1] = "var" -> Lookup(m, x[2])
      [] x[1] = "mem" -> Item(m.heap, Str(x[3]))
      [] x[1] = "idx" -> Item(m.heap, o.val[2])

RECURSIVE Do(_, _), DoAll(_, _), While(_, _, _, _), For(_, _, _, _)
DoAll(m, stmts) ==
    IF stmts = <<>> THEN m ELSE Then(Do(m, Head(stmts)), LAMBDA n : DoAll(n, Tail(stmts)))
\* A block's variables end with it.
Leave(m, n) == [n EXCEPT !.env = SubSeq(@, 1, Len(m.env))]
Scope(m, stmts) == Leave(m, DoAll(m, stmts))
AfterBody(n) == IF n.ctl = "continue" THEN [n EXCEPT !.ctl = "ok"] ELSE n
AfterLoop(n) == IF n.ctl = "break" THEN [n EXCEPT !.ctl = "ok"] ELSE n

\* A loop is followed for MaxRounds rounds; a program that needs more is "diverging".
MaxRounds == 4
While(m, x, body, k) ==
    IF k = MaxRounds THEN [m EXCEPT !.ctl = "diverge"]
    ELSE Then(Val(m, x), LAMBDA n :
             IF ~Truth(n.val) THEN n
             ELSE Then(AfterBody(Scope(n, body)), LAMBDA j : While(j, x, body, k + 1)))
For(m, name, it, body) ==
    LET n == Calls(m, it, <<>>)
    IN IF n.ctl = "raise" THEN (IF n.val = StopIteration THEN [n EXCEPT !.ctl = "ok"] ELSE n)
       ELSE LET b == DoAll([n EXCEPT !.env = Append(@, <<name, n.val>>)], body)
                a == AfterBody(Leave(m, b))
            IN \* an iteration's own stop_iteration also ends the loop
               IF a.ctl = "raise" /\ a.val = StopIteration THEN [a EXCEPT !.ctl = "ok"]
               ELSE Then(a, LAMBDA j : For(j, name, it, body))

Do(m, st) ==
    CASE st[1] = "expr"     -> Val(m, st[2])
      [] st[1] = "var"      -> Then(Val(m, st[3]), LAMBDA n :
                                   [n EXCEPT !.env = Append(@, <<st[2], n.val>>)])
      [] st[1] = "assign"   -> Assign(m, st[2], LAMBDA n : Val(n, st[3]))
      [] st[1] = "update"   -> Assign(m, st[2], LAMBDA n : Then(Val(n, st[3]), LAMBDA k :
                                   Subtract(k, Old(k, st[2], n), k.val)))
      [] st[1] = "if"       -> Then(Val(m, st[2]), LAMBDA n :
                                   Scope(n, IF Truth(n.val) THEN st[3] ELSE st[4]))
      [] st[1] = "do"       -> Scope(m, st[2])
      [] st[1] = "while"    -> AfterLoop(While(m, st[2], st[3], 0))
      [] st[1] = "for"      -> Then(Val(m, st[3]), LAMBDA n :
                                   Then(Calls(n, <<"iterator">>, <<n.val>>), LAMBDA k :
                                       AfterLoop(For(k, st[2], k.val, st[4]))))
      [] st[1] = "break"    -> [m EXCEPT !.ctl = "break"]
      [] st[1] = "continue" -> [m EXCEPT !.ctl = "continue"]
      [] st[1] = "return"   -> IF Len(st) = 1 THEN [m EXCEPT !.ctl = "return", !.val = Nil]
                               ELSE Then(Val(m, st[2]), LAMBDA n : [n EXCEPT !.ctl = "return"])
      [] st[1] = "raise"    -> Then(Val(m, st[2]), LAMBDA n : [n EXCEPT !.ctl = "raise"])
      [] st[1] = "try"      ->
             LET n == Scope(m, st[2])
                 h == [n EXCEPT !.ctl = "ok",
                                !.env = IF st[4] = "" THEN @ ELSE Append(@, <<st[4], n.val>>)]
             IN IF n.ctl = "raise" /\ (st[3] = <<"any">> \/ st[3] = n.val)
                THEN Leave(m, DoAll(h, st[5])) ELSE n

\* What the caller of f(args) sees in the end.
Outcome(body, args, glb) ==
    LET m == DoAll([env |-> [i \in DOMAIN Params |-> <<Params[i], args[i]>>], glb |-> glb,
                    heap |-> <<>>, log |-> <<>>, ctl |-> "ok", val |-> Nil], body)
    IN [glb |-> m.glb, heap |-> m.heap, log |-> m.log,
        ctl |-> IF m.ctl = "ok" THEN "return" ELSE m.ctl,
        val |-> IF m.ctl = "ok" THEN Nil ELSE m.val]
=============================================================================
