--------------------------- MODULE MCBerryObjects ---------------------------
(***************************************************************************)
(* Berry programs for TLC; a behaviour runs one of three parts: closures   *)
(* and the blocks that end, classes and objects, or imports.               *)
(***************************************************************************)
EXTENDS BerryClosures, BerryClass, BerryModule

VARIABLE part

\* Well-behaved programs, and programs that do everything on a stack that
\* does not move.
MCPrograms ==
  { [uses |-> {"return", "grow"}, ordered |-> TRUE],
    [uses |-> Features \ {"grow"}, ordered |-> FALSE] }

Symmetry == Permutations(Var) \cup Permutations(Up)

\* Three classes, in a line or with two that have one parent.
Declares(x, m, init, member, set, tobool) ==
  [n \in MemberName |-> CASE n = "x" -> x [] n = "m" -> m [] n = "init" -> init
                          [] n = "member" -> member [] n = "setmember" -> set [] n = "tobool" -> tobool]
Ordinary == Declares("var", "method", "method", "none", "none", "none")
Virtual == Declares("none", "none", "none", "method", "none", "none")
Tops == {Ordinary, Declares("value", "static", "none", "method", "method", "none")}
Middles == {Declares("var", "method", "method", "none", "none", "method"),
            Declares("none", "var", "none", "method", "var", "none")}
Bottoms == {Declares("none", "none", "method", "none", "method", "none"),
            Declares("var", "static", "none", "none", "none", "var")}
Programs_(u, n, as, bs, cs) ==
  { [uses |-> u, declare |-> <<a, b, c>>, parents |-> p, deeds |-> n] :
      a \in as, b \in bs, c \in cs, p \in {<<0, 1, 2>>, <<0, 1, 1>>} }
MCObjects ==
  Programs_({"new", "call", "super", "free"}, 5, {Ordinary}, {Ordinary, Virtual}, {Ordinary})
  \cup Programs_({"new", "get", "set", "super", "truth"}, 4, Tops, Middles, Bottoms)
  \cup Programs_({"new", "static", "name", "get", "call"}, 3, Tops, Middles, Bottoms)

\* Modules a and b in files, c in the firmware.
File(n, p, s, b) == [name |-> n, place |-> p, suffix |-> s, broken |-> b]
MCFiles ==
  { {File("a", "here", "", FALSE), File("b", "here", ".bec", FALSE), File("b", "here", ".be", FALSE)},
    {File("a", "lib", ".be", FALSE), File("b", "lib", "", FALSE), File("b", "flash", ".be", FALSE),
     File("a", "flash", "", TRUE)},
    {File("a", "here", "", FALSE), File("b", "lib", ".bec", TRUE), File("b", "flash", "", FALSE)} }

\* One start of a part that does not run is enough.
Only(p) == CHOOSE x \in p : TRUE

MCInit ==
  /\ part \in {"scopes", "objects", "modules"}
  /\ Init /\ (part = "scopes" \/ program = Only(Programs))
  /\ ClassInit /\ (part = "objects" \/ LET p == Only(ObjectPrograms)
                                       IN <<uses, meant.declare, meant.parents>> = <<p.uses, p.declare, p.parents>>)
  /\ ModuleInit /\ (part = "modules" \/ (files = Only(FileSystems) /\ paths = <<>>))
MCNext ==
  \/ part = "scopes" /\ Next /\ UNCHANGED <<classVars, moduleVars, part>>
  \/ part = "objects" /\ ClassNext /\ UNCHANGED <<vars, moduleVars, part>>
  \/ part = "modules" /\ ModuleNext /\ UNCHANGED <<vars, classVars, part>>
MCSpec == MCInit /\ [][MCNext]_<<vars, classVars, moduleVars, part>>
=============================================================================
