------------------------------ MODULE MCBerryVM ------------------------------
(***************************************************************************)
(* Programs for BerryVM: every expression of a small grammar in every      *)
(* place where an expression can stand, and every nest of blocks three     *)
(* deep around every way out of it.                                        *)
(***************************************************************************)
EXTENDS BerryVM

MCParams == <<"a", "b">>
MCGlobals == <<"f", "o", "l", "__iterator__", "g">>
MCArguments == {<<<<"int", 0>>, <<"int", 1>>>>, <<<<"int", 2>>, <<"int", 1>>>>}

V(name) == <<"var", name>>
Num(n) == <<"lit", <<"int", n>>>>
F(x) == <<"call", V("f"), <<x>>>>
Member == <<"mem", V("o"), "m">>
Do1(x) == <<"expr", x>>

-----------------------------------------------------------------------------
(* Expressions                                                             *)

Leaves == {V("a"), V("b"), V("g"), Num(1), Num(9), <<"lit", <<"bool", TRUE>>>>, F(Num(0)), Member}
Unary(S)  == {<<op, x>> : op \in {"not", "neg"}, x \in S}
Binary(S, T) == {<<op, x, y>> : op \in {"SUB", "EQ", "and", "or"}, x \in S, y \in T}
Access(S) == {<<"idx", V("o"), x>> : x \in S} \cup {F(x) : x \in S}
                \cup {<<"call", Member, <<x>>>> : x \in S}
Conds(S, T) == {<<"cond", x, y, z>> : x \in S, y \in T, z \in T}

\* A literal that is no number cannot be negated at all: the parser refuses it.
Flat == {x \in Unary(Leaves) \cup Binary(Leaves, Leaves) \cup Access(Leaves)
               \cup Conds({V("a"), F(Num(0))}, {V("a"), V("b"), Num(1)}) :
            ~(x[1] = "neg" /\ x[2] = <<"lit", <<"bool", TRUE>>>>)}
Few == {V("a"), F(Num(1))}
Inner == Unary(Few) \cup Binary(Few, Few) \cup Access(Few) \cup Conds(Few, Few)
Nested == Unary(Inner) \cup Binary(Inner, Few) \cup Binary(Few, Inner) \cup Access(Inner)
          \cup Conds(Inner, Few) \cup Conds(Few, Inner)
Expressions == Leaves \cup Flat

Places(x) ==
    { <<Do1(x)>>, <<Do1(F(x))>>, <<<<"return", x>>>>, <<<<"raise", x>>>>,
      <<<<"assign", V("a"), x>>, <<"for", "i", V("l"), <<Do1(F(V("i")))>>>>>>, <<<<"var", "c", x>>, Do1(F(V("c")))>>,
      <<<<"assign", V("c"), x>>, <<"assign", V("b"), V("c")>>, Do1(F(V("c")))>>,
      <<<<"assign", V("g"), x>>>>, <<<<"assign", Member, x>>>>,
      <<<<"assign", <<"idx", V("o"), V("a")>>, x>>>>,
      <<<<"assign", <<"idx", V("o"), x>>, V("a")>>>>,
      <<<<"update", V("a"), x>>>>, <<<<"update", V("g"), x>>>>, <<<<"update", Member, x>>>>,
      <<<<"if", x, <<Do1(F(Num(1)))>>, <<Do1(F(Num(2)))>>>>>> }
FewPlaces(x) == { <<<<"assign", V("a"), x>>>>, <<Do1(F(x))>>, <<<<"if", x, <<Do1(F(Num(1)))>>, <<>>>>>> }
Epilogue == <<Do1(F(V("a"))), Do1(F(V("b"))), <<"return", V("g")>>>>
ExpressionPrograms == {p \o Epilogue : p \in UNION {Places(x) : x \in Expressions}
                                            \cup UNION {FewPlaces(x) : x \in Nested}}

-----------------------------------------------------------------------------
(* Blocks                                                                  *)

Exits == { <<Do1(F(V("a")))>>, <<<<"return", V("a")>>>>, <<<<"return">>>>,
           <<<<"raise", <<"lit", <<"str", "x">>>>>>>>,
           <<Do1(<<"idx", V("a"), V("b")>>)>> }
LoopExits == { <<<<"break">>>>, <<<<"continue">>>> }
Around(block) ==
    { <<<<"do", block>>>>,
      <<<<"if", V("a"), block, <<>>>>>>, <<<<"if", V("a"), <<Do1(F(Num(3)))>>, block>>>>,
      <<<<"try", block, <<"any">>, "", <<Do1(F(V("b")))>>>>>>,
      <<<<"try", block, <<"str", "x">>, "c", <<Do1(F(V("c")))>>>>>>,
      <<<<"try", <<Do1(<<"neg", Member>>)>>, <<"any">>, "c", block>>>>,
      <<<<"var", "d", V("b")>>>> \o block }
Loops(block) ==
    { <<<<"for", "i", V("l"), <<Do1(F(V("i")))>> \o block>>>>,
      <<<<"while", V("a"), <<<<"assign", V("a"), <<"SUB", V("a"), Num(1)>>>>>> \o block>>>> }

\* Nests of n blocks: complete ones, and ones that can only stand in a loop.
Nests[n \in 0 .. 3] ==
    IF n = 0 THEN [plain |-> Exits, inLoop |-> LoopExits]
    ELSE LET less == Nests[n - 1]
         IN [plain |-> UNION {Around(b) \cup Loops(b) : b \in less.plain}
                       \cup UNION {Loops(b) : b \in less.inLoop},
             inLoop |-> UNION {Around(b) : b \in less.inLoop}]
BlockPrograms == {p \o <<Do1(F(V("a"))), Do1(F(V("b")))>> : p \in Nests[3].plain}

MCPrograms == ExpressionPrograms \cup BlockPrograms
=============================================================================
