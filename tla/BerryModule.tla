----------------------------- MODULE BerryModule -----------------------------
(***************************************************************************)
(* Imports (be_module.c): the cache of modules, the search for a file, the *)
(* module's own code and its init function.                                *)
(*                                                                         *)
(* A module's code is a program that may import others, fail, or end with  *)
(* a value; what it imports is looked for next to its own file first.      *)
(*                                                                         *)
(* Abstractions.  A file system is a set of files that do not change       *)
(* while the program runs.  A module is named by the execution that made   *)
(* it.  Of the registers we keep how many values lie above those of the    *)
(* function that runs (`extra').                                           *)
(***************************************************************************)
EXTENDS Integers, SequencesExt, FiniteSets, TLC

CONSTANTS
    ModuleNames,
    Absent,             \* a model value
    FileSystems,        \* each a set of [name, place, suffix, broken]
    Natives,            \* names in be_module_table
    MaxImports, MaxWrites       \* bounds

ASSUME ModuleAssumption ==
    /\ Absent \notin ModuleNames /\ MaxImports \in Nat /\ MaxWrites \in Nat
    /\ \A fs \in FileSystems : \A f \in fs : f # Absent /\ f.suffix \in {"", ".bec", ".be"}

VARIABLES
    files,      \* the file system
    paths,       \* vm->module.path: places
    loaded,     \* vm->module.loaded
    importing,  \* the main program and the modules whose code runs, innermost last:
                \* [name, place, phase, value, buffer, extra]
    buffers,    \* path buffers that are allocated
    executions, \* history: how many modules were made
    first,      \* history: what the program means each name to be
    got,        \* history: what the last import gave for `module', or found: [module, is, means]
    cycled,     \* history: the names that were imported or set while their code ran
    lost,       \* history: how many paths imports that failed had when they were left
    missed,     \* history: a search has missed a file
    left        \* bounds that are left: [imports, writes]

moduleVars == <<files, paths, loaded, importing, buffers, executions, first, got, cycled, lost, missed, left>>

sfxs == <<"", ".bec", ".be">>
Outermost == [name |-> Absent, place |-> "here", phase |-> "body", value |-> Absent, buffer |-> FALSE, extra |-> 0]
Running == Last(importing)

\* Values: a native module, a module that some execution made, or a number.
Native(m) == <<"native", m>>
Made(k) == <<"made", k>>
Number == <<"number">>
IsModule(v) == v[1] # "number"

ModuleInit ==
    /\ files \in FileSystems
    /\ paths \in {<<>>, <<"lib">>, <<"lib", "flash">>}
    /\ loaded = [m \in ModuleNames |-> Absent]
    /\ importing = <<Outermost>> /\ buffers = 0 /\ executions = 0
    /\ first = loaded
    /\ got = [module |-> Absent, is |-> Absent, means |-> Absent]
    /\ cycled = {} /\ lost = 0 /\ missed = FALSE
    /\ left = [imports |-> MaxImports, writes |-> MaxWrites]

----------------------------------------------------------------------------
(* The search. *)

Exists(m, p, s) == \E f \in files : f.name = m /\ f.place = p /\ f.suffix = sfxs[s]

\* Mutant: the suffixes are tried on when one was found.
Tried_on(t, m, p, s) ==
    CASE Exists(m, p, s) -> [t EXCEPT !.found = s, !.place = p]
      [] ~Exists(m, p, s) /\ t.found = 0 -> [t EXCEPT !.missed = @ + 1]
      [] OTHER -> t

\* open_script for module m in place p with suffix s, unless a file was found before;
\* of one that is not there a message stays on the stack.
Tried(t, m, p, s) ==
    CASE t.found # 0 -> t
      [] t.found = 0 /\ Exists(m, p, s) -> [found |-> s, place |-> p, missed |-> t.missed]
      [] OTHER -> [t EXCEPT !.missed = @ + 1]

open_libfile(t, m, p) == Tried(Tried(Tried(t, m, p, 1), m, p, 2), m, p, 3)

NotFound == [found |-> 0, place |-> "", missed |-> 0]

\* The place of the importing file, then the path from its end: the number of the suffix
\* that was found, or 0, where that was, and how many files were not there.
Places(from) == <<from>> \o Reverse(paths)
load_package(m, from) == FoldLeft(LAMBDA t, p : open_libfile(t, m, p), NotFound, Places(from))

\* The file that is meant: the nearest place first, in a place the plain name first.
PlaceNumber(places, p) == CHOOSE i \in DOMAIN places : places[i] = p /\ \A j \in 1 .. i - 1 : places[j] # p
SuffixNumber(suffix) == CHOOSE s \in DOMAIN sfxs : sfxs[s] = suffix
AsNear(places, f, g) ==
    LET i == PlaceNumber(places, f.place)
        j == PlaceNumber(places, g.place)
    IN  i < j \/ (i = j /\ SuffixNumber(f.suffix) <= SuffixNumber(g.suffix))
Nearest(m, from) ==
    LET places == Places(from)
        fs == {f \in files : f.name = m /\ f.place \in Range(places)}
    IN  IF fs = {} THEN Absent ELSE CHOOSE f \in fs : \A g \in fs : AsNear(places, f, g)

----------------------------------------------------------------------------
(* Importing. *)

Set(frame) == importing' = [importing EXCEPT ![Len(importing)] = frame]

\* The importing program gets v.
Gives(v, m) == got' = [module |-> m, is |-> v, means |-> IF first[m] = Absent THEN v ELSE first[m]]
Keeps(m, v) == first' = [first EXCEPT ![m] = IF @ = Absent THEN v ELSE @]

\* be_cache_module.
Cached(m, v) == loaded' = [loaded EXCEPT ![m] = v]

\* Exception, which the k-th program that runs catches: the code that is left neither
\* frees its path nor caches its module.
Unwind(k) ==
    /\ importing' = SubSeq(importing, 1, k)
    /\ lost' = lost + Cardinality({j \in k + 1 .. Len(importing) : importing[j].buffer})

\* A module's code begins, which may be that of an init function.
Enter(m, place, phase, v, buffer, extra) ==
    importing' = Append([importing EXCEPT ![Len(importing)].extra = extra],
                        [name |-> m, place |-> place, phase |-> phase, value |-> v, buffer |-> buffer, extra |-> 0])

InProgress(m) == \E k \in DOMAIN importing : importing[k].name = m
Noted(m) == cycled' = IF InProgress(m) THEN cycled \cup {m} ELSE cycled

\* The instruction IMPORT: be_module_load, for a module in the cache (load_cached),
\* a native one (load_native), and one in a file (load_package).
ImportCached(m) ==
    /\ loaded[m] # Absent
    /\ Gives(loaded[m], m)
    /\ UNCHANGED <<importing, loaded, buffers, executions, first, cycled, lost, missed>>

ImportNative(m) ==
    /\ loaded[m] = Absent /\ m \in Natives
    /\ Gives(Native(m), m) /\ Keeps(m, Native(m)) /\ Cached(m, Native(m))
    /\ UNCHANGED <<importing, buffers, executions, cycled, lost, missed>>

\* There is a file and it compiles.
Loads(t, f) == t.found # 0 /\ f # Absent /\ ~f.broken

ImportFile(m) ==
    /\ loaded[m] = Absent /\ m \notin Natives
    /\ \E t \in {load_package(m, Running.place)}, f \in {Nearest(m, Running.place)} :
          /\ got' = [module |-> Absent,
                     is |-> <<t.place, IF t.found = 0 THEN "" ELSE sfxs[t.found]>>,
                     means |-> IF f = Absent THEN <<"", "">> ELSE <<f.place, f.suffix>>]
          /\ \/ /\ Loads(t, f)
                /\ Enter(m, t.place, "body", Absent, TRUE, Running.extra + t.missed)
                /\ buffers' = buffers + 1
                /\ Noted(m) /\ missed' = (missed \/ t.missed > 0)
                /\ UNCHANGED lost
             \/ /\ ~Loads(t, f)
                /\ \E k \in DOMAIN importing : Unwind(k)
                /\ UNCHANGED <<buffers, cycled, missed>>
    /\ UNCHANGED <<loaded, executions, first>>

Import(m) ==
    /\ left.imports > 0 /\ left' = [left EXCEPT !.imports = @ - 1]
    /\ ImportCached(m) \/ ImportNative(m) \/ ImportFile(m)
    /\ UNCHANGED <<files, paths>>

Fresh == Made(executions + 1)

\* The code of a module ends with a value: open_libfile frees the path, and
\* module_init calls the init of a module that has one.
Ends(v, init) ==
    /\ Running.phase = "body" /\ Running.name # Absent
    /\ executions' = IF v = Fresh THEN executions + 1 ELSE executions
    /\ buffers' = buffers - 1
    /\ IF init THEN /\ Set([Running EXCEPT !.phase = "init", !.value = v, !.buffer = FALSE])
                    /\ UNCHANGED <<loaded, first, got>>
       ELSE /\ importing' = Front(importing)
            /\ Cached(Running.name, v) /\ Keeps(Running.name, v) /\ Gives(v, Running.name)
    /\ UNCHANGED <<files, paths, cycled, lost, missed, left>>

\* Its init function ends; what it returns is the module.
InitEnds(v) ==
    /\ Running.phase = "init"
    /\ importing' = Front(importing)
    /\ Cached(Running.name, v) /\ Keeps(Running.name, v) /\ Gives(v, Running.name)
    /\ UNCHANGED <<files, paths, buffers, executions, cycled, lost, missed, left>>

\* The code or the init function fails.
Fail ==
    /\ Len(importing) > 1
    /\ \E k \in 1 .. Len(importing) - 1 : Unwind(k)
    /\ UNCHANGED <<files, paths, loaded, buffers, executions, first, got, cycled, missed, left>>

----------------------------------------------------------------------------
(* What programs do with modules. *)

Write == left.writes > 0 /\ left' = [left EXCEPT !.writes = @ - 1]

\* introspect.setmodule: be_cache_module.
setmodule(m, v) ==
    /\ Write /\ Cached(m, v) /\ first' = [first EXCEPT ![m] = v]
    /\ Noted(m)
    /\ UNCHANGED <<files, paths, importing, buffers, executions, got, lost, missed>>

\* be_module_path and be_module_path_set.
pathSet(p) ==
    /\ Write /\ paths' = Append(paths, p)
    /\ UNCHANGED <<files, loaded, importing, buffers, executions, first, got, cycled, lost, missed>>

ModuleNext ==
    \/ \E m \in ModuleNames :
          \/ Import(m)
          \/ \E v \in ({Number} \cup Range(loaded)) \ {Absent} : setmodule(m, v)
    \/ \E v \in {Number, Fresh} : Ends(v, FALSE) \/ (IsModule(v) /\ Ends(v, TRUE))
    \/ \E v \in {Number, Running.value} : v # Absent /\ InitEnds(v)
    \/ Fail
    \/ pathSet("flash")

ModuleSpec == ModuleInit /\ [][ModuleNext]_moduleVars

----------------------------------------------------------------------------
(* Properties. *)

\* A name stands for one module however often and from wherever it is imported, and a
\* module comes from the nearest file.  Of the names a name is only excepted for good
\* when it was itself imported, or set by a program, while its module's code ran.
OneModule == got.module \notin cycled => got.is = got.means

\* Of the paths the imports allocated there remain those of the imports that go on and
\* one for each import whose code failed, never another.  No import leaves values behind
\* as long as no search has missed a file on its way.
NothingLeft ==
    /\ buffers = Cardinality({k \in DOMAIN importing : importing[k].buffer}) + lost
    /\ ~missed => \A k \in DOMAIN importing : importing[k].extra = 0

ImportsMeant == OneModule /\ NothingLeft
==============================================================================
