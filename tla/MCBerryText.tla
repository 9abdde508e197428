----------------------------- MODULE MCBerryText -----------------------------
(***************************************************************************)
(* The string table, bytes objects and bytecode files for TLC: a behaviour *)
(* runs one of them.                                                       *)
(*                                                                         *)
(* The addresses of strings are interchangeable; the hashes of two texts   *)
(* are equal, or equal in small tables only.  The contents of bytes objects *)
(* fill, exceed and leave room in buffers of every size there is.  The     *)
(* scripts make and use globals in functions, inner functions and methods, *)
(* one of them with the name of a builtin, in VMs that differ in each      *)
(* option a file depends on.                                               *)
(***************************************************************************)
EXTENDS BerryStrtab, BerryBytes, BerryBytecode, TLC

MCText == {0, 1, 4}
MCHash == [t \in MCText |-> t % 4]
MCInts == {<<200, 7, 0, 129>>}
MCContents == {<<>>, <<7>>, <<200, 0, 7>>, <<7, 200, 200, 0, 7>>}

MCGlobals == {"b"}
MCBuilds ==
  {[wide |-> FALSE, named |-> n, builtins |-> <<"print", "size">>] : n \in BOOLEAN}
  \cup {[wide |-> w, named |-> FALSE, builtins |-> <<"print", "size", "type">>] : w \in BOOLEAN}

Set(n) == [op |-> "SETGBL", name |-> n]
Get(n) == [op |-> "GETGBL", name |-> n]
Ret    == [op |-> "RET"]

Proto(name, code, ktab, ptab, upvals) ==
  [name |-> name, source |-> "string", argc |-> Len(code), nstack |-> 3, varg |-> Len(upvals),
   code |-> code, ktab |-> ktab, ptab |-> ptab, upvals |-> upvals]

Class(members) == [type |-> "class", name |-> "C", members |-> members]
Method(p)      == [kind |-> "method", proto |-> p]
Integer(n)     == [type |-> "int", v |-> n]
Inner(n)       == Proto("f", <<Get(n), Ret>>, <<>>, <<>>, <<[instack |-> 1, idx |-> 0]>>)

MCScripts == {
  [makes |-> <<"a">>, uses |-> {"a", "print"},
   main |-> Proto("main", <<Set("a"), Get("print"), Ret>>, <<Integer(1)>>, <<Inner("a")>>, <<>>)],
  [makes |-> <<"b", "print">>, uses |-> {"a", "b", "print"},
   main |-> Proto("main", <<Set("b"), Get("a"), Set("print")>>,
                  <<Class([x |-> [kind |-> "var", idx |-> 1], y |-> [kind |-> "var", idx |-> 0],
                           s |-> [kind |-> "static"],
                           m |-> Method(Proto("m", <<Get("b"), Ret>>, <<Integer(2)>>, <<Inner("b")>>, <<>>))]),
                    [type |-> "string", v |-> ""]>>,
                  <<>>, <<>>)],
  [makes |-> <<>>, uses |-> {"b", "size"},
   main |-> Proto("main", <<Get("b"), Get("size")>>, <<>>, <<Inner("b"), Inner("size")>>, <<>>)]}

VARIABLE part

MCInit ==
  /\ Init /\ BytesInit /\ BytecodeInit
  /\ part \in {"table", "bytes", "bytecode"}
  /\ part = "bytecode" \/ build = CHOOSE b \in Builds : TRUE
MCNext ==
  \/ part = "table" /\ Next /\ UNCHANGED <<bytesVars, bytecodeVars, part>>
  \/ part = "bytes" /\ BytesNext /\ UNCHANGED <<vars, bytecodeVars, part>>
  \/ part = "bytecode" /\ BytecodeNext /\ UNCHANGED <<vars, bytesVars, part>>
MCSpec == MCInit /\ [][MCNext]_<<vars, bytesVars, bytecodeVars, part>>

\* The last call of a bytes object and its result decide nothing.
MCView == <<vars, object, dangling, bytesCalls, bytecodeVars, part>>
Symmetry == Permutations(Addr)
=============================================================================
