---------------------------- MODULE BerryBytecode ----------------------------
(***************************************************************************)
(* Bytecode files (be_bytecode.c) and the table of globals (be_var.c):     *)
(* a function is compiled in one VM, saved, and loaded in another, where   *)
(* other scripts have made globals of their own.                           *)
(*                                                                         *)
(* The code of a function accesses a global by its index: the builtins     *)
(* first, then the globals in the order they were made.  The loader makes  *)
(* the globals of the file and replaces the indices.                       *)
(*                                                                         *)
(* Abstractions.  A file is a sequence of fields, each a number, an        *)
(* integer with its width, or a string; past its end a read gives 0 or the *)
(* empty string.  Instructions other than those on globals are of one      *)
(* kind.  Debug information is not saved.  Allocation succeeds.            *)
(*                                                                         *)
(* FileRare names the events the code does not survive; a model leaves     *)
(* out those that are not in it:                                           *)
(*   "cut"        a file is shorter than what was written to it            *)
(*   "collected"  a collection runs where a function has been allocated    *)
(*                whose name nothing refers to yet (load_proto)            *)
(*   "builtins"   a file comes from a build with fewer builtins            *)
(*   "mixed"      with named globals, code that has indices is saved       *)
(*   "bare"       a class without members is saved                         *)
(*   "nested"     a class in a method of a class is saved                  *)
(*   "long"       a string of 65536 characters or more is saved            *)
(***************************************************************************)
EXTENDS Integers, SequencesExt, FiniteSets

CONSTANTS
  Scripts,   \* [makes, uses, main]: the globals a script makes and those it uses,
             \* and its function before it is compiled, with names for indices
  Globals,   \* names that scripts make globals of
  Builds,    \* [wide, builtins, named]: the width of integers, the names of
             \* the builtins, and the compiler's option for named globals
  Long,      \* strings too long for their length field
  MaxGlobals,
  FileRare, GARBLED

EMPTY == ""

ASSUME BytecodeAssumption ==
  /\ EMPTY \notin Globals
  /\ \A b \in Builds : b.wide \in BOOLEAN /\ b.named \in BOOLEAN /\ b.builtins \in Seq(STRING)
  /\ MaxGlobals \in Nat

VARIABLES
  build,    \* what the VM that runs was built with
  globals,  \* its globals in the order of vm->gbldesc.global.vlist
  memory,   \* its functions: [proto, means, indexed], the code, what was written, and
            \* whether it was compiled without named globals
  file      \* the last file: its fields, and what was saved

bytecodeVars == <<build, globals, memory, file>>

-----------------------------------------------------------------------------
(***************************************************************************)
(* Globals.                                                                *)
(***************************************************************************)

IndexIn(names, name) == SelectInSeq(names, LAMBDA n : n = name) - 1

be_builtin_count == Len(build.builtins)

\* The index of a global, -1 when there is none of the name.
global_find(gs, name) ==
  IF IndexIn(gs, name) >= 0 THEN IndexIn(gs, name) + be_builtin_count ELSE -1

be_builtin_find(name) == IndexIn(build.builtins, name)

be_global_find(gs, name) ==
  IF global_find(gs, name) >= 0 THEN global_find(gs, name) ELSE be_builtin_find(name)

\* A new global has the next index.
be_global_new(gs, name) ==
  IF global_find(gs, name) >= 0 THEN gs ELSE Append(gs, name)

\* What an index means to the instructions.
be_global_var(gs, i) ==
  CASE i < be_builtin_count -> <<"builtin", build.builtins[i + 1]>>
    [] i \in be_builtin_count .. be_builtin_count + Len(gs) - 1 ->
         <<"global", gs[i - be_builtin_count + 1]>>
    [] OTHER -> <<GARBLED>>

-----------------------------------------------------------------------------
(***************************************************************************)
(* A function is a record of its name, source, header, code, constants,    *)
(* inner functions and upvalues; a class among the constants is a record   *)
(* of its name and members, each a variable with its index, a method or a  *)
(* static variable.                                                        *)
(***************************************************************************)
OnGlobal(ins) == ins.op \in {"GETGBL", "SETGBL"}

\* What the compiler makes of an instruction: it has the index of its global, or
\* with named globals its name unless it is a builtin.
Compiled(ins, gs) ==
  LET i == be_global_find(gs, ins.name)
  IN CASE ~OnGlobal(ins) -> ins
       [] OnGlobal(ins) /\ build.named /\ i >= be_builtin_count -> [op |-> "NGBL", name |-> ins.name]
       [] OTHER -> [op |-> ins.op, idx |-> i]

\* What a compiled instruction accesses.
Accessed(ins, gs) ==
  CASE ins = GARBLED -> GARBLED
    [] OnGlobal(ins) -> [op |-> "access", var |-> be_global_var(gs, ins.idx)]
    [] ins.op = "NGBL" -> [op |-> "access", var |-> <<"global", ins.name>>]
    [] OTHER -> ins

\* A function with every instruction of it, of its inner functions and of its
\* methods compiled, or replaced by what it accesses.
RECURSIVE Function(_, _, _)
Function(p, gs, as) ==
  LET ins(i)    == IF as = "compiled" THEN Compiled(i, gs) ELSE Accessed(i, gs)
      member(m) == IF m.kind = "method" THEN [m EXCEPT !.proto = Function(@, gs, as)] ELSE m
      const(v)  == IF v.type # "class" THEN v
                   ELSE [v EXCEPT !.members = [n \in DOMAIN @ |-> member(@[n])]]
  IN [p EXCEPT !.code = [i \in DOMAIN @ |-> ins(@[i])],
               !.ktab = [i \in DOMAIN @ |-> const(@[i])],
               !.ptab = [i \in DOMAIN @ |-> Function(@[i], gs, as)]]

Means(p, gs) == Function(p, gs, "access")

-----------------------------------------------------------------------------
(***************************************************************************)
(* Saving.                                                                 *)
(***************************************************************************)

Number(n) == <<[kind |-> "number", v |-> n]>>
save_int(n) == <<[kind |-> IF build.wide THEN "int64" ELSE "int32", v |-> n]>>
save_string(s) == <<[kind |-> "string", v |-> IF s \in Long THEN GARBLED ELSE s]>>
save_header == <<[kind |-> "header", v |-> build.wide]>>

Concat(parts) == FoldLeft(LAMBDA all, s : all \o s, <<>>, parts)

RECURSIVE save_proto(_)

\* The methods and static variables in the order of the map, the name of a static
\* variable with an empty string after it; then the variables by their indices.
save_class(c) ==
  LET vars == {n \in DOMAIN c.members : c.members[n].kind = "var"}
      rest == SetToSeq(DOMAIN c.members \ vars)
      method(n) == save_string(n) \o (IF c.members[n].kind = "method"
                                      THEN save_proto(c.members[n].proto) ELSE save_string(EMPTY))
      var(i) == CHOOSE n \in vars : c.members[n].idx = i - 1
  IN save_string(c.name) \o Number(Cardinality(vars)) \o Number(Len(rest))
     \o Concat([i \in DOMAIN rest |-> method(rest[i])])
     \o Concat([i \in 1 .. Cardinality(vars) |-> save_string(var(i))])

save_value(v) ==
  Number(v.type) \o CASE v.type = "int" -> save_int(v.v)
                      [] v.type \in {"real", "string"} -> save_string(v.v)
                      [] v.type = "class" -> save_class(v)

save_bytecode(p) == Number(Len(p.code)) \o [i \in DOMAIN p.code |-> [kind |-> "ins", v |-> p.code[i]]]
save_constants(p) == Number(Len(p.ktab)) \o Concat([i \in DOMAIN p.ktab |-> save_value(p.ktab[i])])
save_proto_table(p) == Number(Len(p.ptab)) \o Concat([i \in DOMAIN p.ptab |-> save_proto(p.ptab[i])])
save_upvals(p) ==
  Number(Len(p.upvals))
  \o Concat([i \in DOMAIN p.upvals |-> Number(p.upvals[i].instack) \o Number(p.upvals[i].idx)])

save_proto(p) ==
  save_string(p.name) \o save_string(p.source)
  \o Number(p.argc) \o Number(p.nstack) \o Number(p.varg) \o Number(0)
  \o save_bytecode(p) \o save_constants(p) \o save_proto_table(p) \o save_upvals(p)

save_globals == Concat([i \in DOMAIN globals |-> save_string(globals[i])])

save_global_info ==
  Number(be_builtin_count)
  \o (IF build.named THEN Number(0) ELSE Number(Len(globals)) \o save_globals)

be_bytecode_save(p) == save_header \o save_global_info \o save_proto(p)

-----------------------------------------------------------------------------
(***************************************************************************)
(* Loading.  x is what reading needs: the fields of the file, the names of *)
(* its globals, the globals of the VM, whether names are collected, and    *)
(* whether this is in a method.  A read takes the fields from a position   *)
(* on and gives what it has made of them and the next position.            *)
(***************************************************************************)

Got(v, at) == [v |-> v, at |-> at]

Field(x, at, kind, none) ==
  CASE at > Len(x.fields) -> Got(none, at)
    [] at <= Len(x.fields) /\ x.fields[at].kind = kind -> Got(x.fields[at].v, at + 1)
    [] OTHER -> Got(GARBLED, at + 1)

load_long(x, at)   == Field(x, at, "number", 0)
load_string(x, at) == Field(x, at, "string", EMPTY)
load_int(x, at)    == Field(x, at, IF build.wide THEN "int64" ELSE "int32", 0)

load_upval(x, at) ==
  LET instack == load_long(x, at)
      idx     == load_long(x, instack.at)
  IN Got([instack |-> instack.v, idx |-> idx.v], idx.at)

\* Mutant: the index stays what it was in the VM that saved the file.
load_instruction_raw(x, at) == Field(x, at, "ins", GARBLED)

\* An index above those of the builtins is replaced.  The list of names is where
\* the loader takes it to be unless this is a class in a method (load_class).
load_instruction(x, at) ==
  LET ins == Field(x, at, "ins", GARBLED)
  IN IF ins.v = GARBLED \/ ~OnGlobal(ins.v) \/ ins.v.idx < be_builtin_count THEN ins
     ELSE Got(IF x.astray THEN GARBLED
              ELSE [ins.v EXCEPT !.idx = be_global_find(x.globals, x.names[@ - be_builtin_count + 1])],
              ins.at)

\* n things that Read reads, one after the other.
Several(Read(_, _), x, n, at) ==
  FoldLeft(LAMBDA got, i : LET one == Read(x, got.at) IN Got(Append(got.v, one.v), one.at),
           Got(<<>>, at), [i \in 1 .. n |-> i])

\* A count, and as many things.
Listed(Read(_, _), x, at) == LET n == load_long(x, at) IN Several(Read, x, n.v, n.at)

RECURSIVE load_proto(_, _)

\* A member with a function is a method, one without a static variable.
load_member(x, at) ==
  LET name  == load_string(x, at)
      proto == load_proto([x EXCEPT !.astray = x.method, !.method = TRUE], name.at)
  IN Got([name |-> name.v, is |-> IF proto.v = GARBLED THEN [kind |-> "static"]
                                  ELSE [kind |-> "method", proto |-> proto.v]], proto.at)

\* Methods and static variables are bound first, then the variables, which get
\* their indices in this order.
load_class(x, at) ==
  LET name  == load_string(x, at)
      nvar  == load_long(x, name.at)
      count == load_long(x, nvar.at)
      rest  == Several(load_member, x, count.v, count.at)
      vars  == Several(load_string, x, nvar.v, rest.at)
      named(n) == {i \in DOMAIN rest.v : rest.v[i].name = n}
  IN Got([type |-> "class", name |-> name.v,
          members |-> [n \in {rest.v[i].name : i \in DOMAIN rest.v} \cup ToSet(vars.v) |->
                         IF named(n) = {} THEN [kind |-> "var", idx |-> IndexIn(vars.v, n)]
                         ELSE rest.v[CHOOSE i \in named(n) : TRUE].is]],
         vars.at)

load_value(x, at) ==
  LET type == load_long(x, at)
      v    == CASE type.v = "int" -> load_int(x, type.at)
                [] type.v \in {"real", "string"} -> load_string(x, type.at)
                [] type.v = "class" -> load_class(x, type.at)
                [] OTHER -> Got(0, type.at)
  IN IF type.v = "class" THEN v ELSE Got([type |-> type.v, v |-> v.v], v.at)

load_bytecode(x, at)    == Listed(load_instruction, x, at)
load_constant(x, at)    == Listed(load_value, x, at)
load_proto_table(x, at) == Listed(load_proto, x, at)
load_upvals(x, at)      == Listed(load_upval, x, at)

\* An empty name stands for a static variable: there is no function.
load_proto(x, at) ==
  LET name   == load_string(x, at)
      source == load_string(x, name.at)
      argc   == load_long(x, source.at)
      nstack == load_long(x, argc.at)
      varg   == load_long(x, nstack.at)
      code   == load_bytecode(x, varg.at + 1)
      ktab   == load_constant(x, code.at)
      ptab   == load_proto_table(x, ktab.at)
      upvals == load_upvals(x, ptab.at)
  IN IF name.v = EMPTY THEN Got(GARBLED, name.at)
     ELSE Got([name |-> IF x.collected THEN GARBLED ELSE name.v, source |-> source.v,
               argc |-> argc.v, nstack |-> nstack.v, varg |-> varg.v, code |-> code.v,
               ktab |-> ktab.v, ptab |-> ptab.v, upvals |-> upvals.v], upvals.at)

\* The globals of the file, and where the function begins in it.
load_global_info(x, at) ==
  LET bcnt == load_long(x, at)
      gcnt == load_long(x, bcnt.at)
  IN [builtins |-> bcnt.v, names |-> Several(load_string, x, gcnt.v, gcnt.at)]

-----------------------------------------------------------------------------
\* A script is compiled: the globals it makes, and its function.  A name that is
\* no global is an error.
Compile(p) ==
  LET gs   == FoldLeft(be_global_new, globals, p.makes)
      main == Function(p.main, gs, "compiled")
  IN /\ Len(gs) <= MaxGlobals  \* bound
     /\ \A name \in p.uses : be_global_find(gs, name) >= 0
     /\ globals' = gs
     /\ memory' = {[proto |-> main, means |-> Means(main, gs), indexed |-> ~build.named]}
     /\ UNCHANGED <<build, file>>

\* Another script makes a global.
Declare(name) ==
  /\ Len(globals) < MaxGlobals  \* bound
  /\ globals' = be_global_new(globals, name)
  /\ UNCHANGED <<build, memory, file>>

\* The classes in a function, those in its methods left out.
RECURSIVE Classes(_)
Classes(p) ==
  {p.ktab[i] : i \in {j \in DOMAIN p.ktab : p.ktab[j].type = "class"}}
  \cup UNION {Classes(p.ptab[i]) : i \in DOMAIN p.ptab}

Methods(c) == {c.members[n].proto : n \in {m \in DOMAIN c.members : c.members[m].kind = "method"}}

\* be_savecode.
Save(f) ==
  /\ \A c \in Classes(f.proto) :
       /\ DOMAIN c.members = {} => "bare" \in FileRare
       /\ \A p \in Methods(c) : Classes(p) # {} => "nested" \in FileRare
  /\ build.named /\ f.indexed => "mixed" \in FileRare
  /\ \E n \in {Len(be_bytecode_save(f.proto))} \cup (IF "cut" \in FileRare THEN {4} ELSE {}) :
       file' = [fields |-> SubSeq(be_bytecode_save(f.proto), 1, n), means |-> f.means,
                indexed |-> f.indexed]
  /\ UNCHANGED <<build, globals, memory>>

\* Another VM, perhaps of another build: be_globalvar_init.
Restart(b) ==
  /\ build' = b
  /\ globals' = <<>> /\ memory' = {}
  /\ UNCHANGED file

\* The version, and the size of integers and reals.
load_head(fields) == fields # <<>> /\ fields[1].kind = "header" /\ fields[1].v = build.wide

\* be_bytecode_load; a file of another version or with more builtins raises.
be_bytecode_load(collected) ==
  LET x    == [fields |-> file.fields, names |-> <<>>, globals |-> globals,
               collected |-> collected, method |-> FALSE, astray |-> FALSE]
      info == load_global_info(x, 2)
      gs   == FoldLeft(be_global_new, globals, info.names.v)
      p    == load_proto([x EXCEPT !.names = info.names.v, !.globals = gs], info.names.at)
  IN /\ file.fields # <<>>
     /\ collected => "collected" \in FileRare
     /\ load_head(file.fields)
     /\ info.builtins <= be_builtin_count
     /\ info.builtins < be_builtin_count => "builtins" \in FileRare
     /\ Len(gs) <= MaxGlobals  \* bound
     /\ globals' = gs
     /\ memory' = memory \cup {[proto |-> p.v, means |-> file.means, indexed |-> file.indexed]}
     /\ UNCHANGED <<build, file>>

BytecodeInit ==
  /\ build \in Builds
  /\ globals = <<>> /\ memory = {}
  /\ file = [fields |-> <<>>, means |-> GARBLED, indexed |-> FALSE]

BytecodeNext ==
  \/ \E p \in Scripts : Compile(p)
  \/ \E name \in Globals : Declare(name)
  \/ \E f \in memory : Save(f)
  \/ \E b \in Builds : Restart(b)
  \/ \E collected \in BOOLEAN : be_bytecode_load(collected)

-----------------------------------------------------------------------------
\* Every function in memory, compiled or loaded, is what was written: the same
\* names, constants, classes, inner functions and upvalues, and each access goes
\* to the global or builtin of the same name, whatever globals the VM had before
\* and gets later (be_bytecode_save, be_bytecode_load, be_global_new).
LoadsWhatWasSaved == \A f \in memory : Means(f.proto, globals) = f.means
=============================================================================
