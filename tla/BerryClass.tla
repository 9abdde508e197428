------------------------------ MODULE BerryClass ------------------------------
(***************************************************************************)
(* Classes and instances (be_class.c), the instructions that read, write   *)
(* and call members (be_vm.c), and super() (be_baselib.c).                 *)
(*                                                                         *)
(* An instance of a class is a chain of instances, one for each class of   *)
(* its line, each with the variables which that class declares; a value    *)
(* that refers to an instance refers to one of the chain.  A call prepares *)
(* registers that hold a function, the instance and the arguments, and     *)
(* moves them when the thing called turns out to be a class.               *)
(*                                                                         *)
(* Abstractions.  A function is named by the class and the member it is    *)
(* defined as; what it does is chosen as it runs, but for functions that   *)
(* the virtual machine calls by itself (member, setmember, tobool), of     *)
(* which only the answer is chosen.  Members are a map (BerryMap); what    *)
(* methods capture is BerryClosures'.  Native classes, the "()" method and *)
(* constructors that are static or are assigned are left out.              *)
(***************************************************************************)
EXTENDS Integers, SequencesExt, FiniteSetsExt, TLC

CONSTANTS
    Undeclared,         \* a model value: no member
    ObjectPrograms,     \* kinds of programs: [uses, declare, parents, deeds]
    ClassRare,          \* what programs may do beyond: see Odd
    MaxInstances, MaxCalls      \* bounds

VARIABLES
    uses,       \* what the program does
    classes,    \* bclass: [super, members]
    heap,       \* binstance: [class, super, sub, members]
    calls,      \* active functions: [func, args, area, at, meant]
    answer,     \* of the last operation: [is, means]
    meant,      \* declarations, statics and objects as the program means them
    deeds       \* bound: operations the program may still do

classVars == <<uses, classes, heap, calls, answer, meant, deeds>>

MemberNames == <<"x", "m", "init", "member", "setmember", "tobool">>
MemberName == Range(MemberNames)
Classes == DOMAIN classes

Nil_ == <<"nil">>
One == <<"int">>
Bool(b) == <<"bool", b>>
Undefined == <<"module", "undefined">>
Fun(c, n) == <<"function", c, n>>
Free_ == Fun(0, "free")
Default == Fun(0, "init")       \* be_default_init_native_function
Class(c) == <<"class", c>>
Ins(i) == <<"instance", i>>
NotMethod == <<"not_method">>
Fails == <<"error">>
Is(v, type) == v[1] = type

\* A value as it is stored: a function may be marked as static.
Plain_(v) == [v |-> v, static |-> FALSE]
Marked(v) == [v |-> v, static |-> Is(v, "function")]

----------------------------------------------------------------------------
(* Declarations. *)

VarsOf(d) == SelectSeq(MemberNames, LAMBDA n : d[n] = "var")

\* classvar_stmt, classstatic_stmt and classdef_stmt.
Members(c, d) ==
    [n \in MemberName |->
        CASE d[n] = "var"    -> Plain_(<<"index", CHOOSE k \in DOMAIN VarsOf(d) : VarsOf(d)[k] = n>>)
          [] d[n] = "value"  -> Plain_(Nil_)
          [] d[n] = "method" -> Plain_(Fun(c, n))
          [] d[n] = "static" -> Marked(Fun(c, n))
          [] OTHER           -> Undeclared]

----------------------------------------------------------------------------
(* Lookup. *)

\* instance_member: the instance of the chain whose class has the member, and that.
RECURSIVE InstanceMember(_, _)
InstanceMember(i, n) ==
    IF i = 0 THEN [at |-> 0, m |-> Plain_(Nil_)]
    ELSE LET At_(m) == IF m = Undeclared THEN InstanceMember(heap[i].super, n) ELSE [at |-> i, m |-> m]
         IN  At_(classes[heap[i].class].members[n])

\* class_member.
RECURSIVE ClassMember(_, _)
ClassMember(c, n) ==
    IF c = 0 THEN [at |-> 0, m |-> Plain_(Nil_)]
    ELSE LET At_(m) == IF m = Undeclared THEN ClassMember(classes[c].super, n) ELSE [at |-> c, m |-> m]
         IN  At_(classes[c].members[n])

IsIndex(f) == f.at # 0 /\ Is(f.m.v, "index")
Contents(f) == IF IsIndex(f) THEN heap[f.at].members[f.m.v[2]] ELSE f.m

\* A function that the virtual machine calls: be_dofunc does not know static ones.
Answers(m, r) == IF m.static THEN Fails ELSE r

\* be_instance_member; r is what the object's `member' would say.
Attribute(i, n, r) ==
    LET Virtual(f) ==
            IF f.at = 0 \/ ~Is(f.m.v, "function") \/ Answers(f.m, r) = Undefined THEN Plain_(Fails)
            ELSE Plain_(Answers(f.m, r))
        Known(f) ==
            IF f.at # 0 THEN Contents(f)
            ELSE IF n = "init" THEN Plain_(Default)
            ELSE Virtual(InstanceMember(i, "member"))
    IN  Known(InstanceMember(i, n))

\* class_attribute: be_class_member.
ClassAttribute(c, n) ==
    LET Known(f) == IF f.at = 0 \/ Is(f.m.v, "index") THEN Plain_(Fails) ELSE f.m
    IN  Known(ClassMember(c, n))

RECURSIVE LowestSub(_)
LowestSub(i) == IF heap[i].sub = 0 THEN i ELSE LowestSub(heap[i].sub)

RECURSIVE Above(_, _)
Above(i, c) == IF i = 0 \/ heap[i].class = c THEN i ELSE Above(heap[i].super, c)

----------------------------------------------------------------------------
(* What is meant.  An object is one thing, of a class, with a field for each
   variable of each class of its line; a view is an object and a class of its
   line from which on members are looked up. *)

RECURSIVE Line(_)
Line(c) == IF c = 0 THEN <<>> ELSE <<c>> \o Line(meant.parents[c])

\* The first class of the line of c that declares n, or 0.
Owner(c, n) ==
    LET having == SelectSeq(Line(c), LAMBDA k : meant.declare[k][n] # "none")
    IN  IF having = <<>> THEN 0 ELSE having[1]
Kind(k, n) == IF k = 0 THEN "none" ELSE meant.declare[k][n]

View(v) ==
    IF ~Is(v, "instance") THEN v
    ELSE LET bottom == LowestSub(v[2])
         IN  <<"view", Cardinality({j \in 1 .. bottom : heap[j].sub = 0}), heap[v[2]].class>>
Whole(w) == <<"view", w[2], meant.objects[w[2]].class>>

\* What member n of a view is, and whether it is a function that takes the object.
Means(w, n, r) ==
    LET k == Owner(w[3], n)
        Value(kind) ==
            CASE kind = "var"    -> meant.objects[w[2]].fields[k][n]
              [] kind = "method" -> Fun(k, n)
              [] kind \in {"static", "value"} -> meant.statics[k][n]
              [] kind = "none"   ->
                    IF n = "init" THEN Default
                    ELSE IF Kind(Owner(w[3], "member"), "member") # "method" \/ r = Undefined THEN Fails
                    ELSE r
    IN  [v |-> Value(Kind(k, n)), method |-> Kind(k, n) \in {"method", "none"}]

ClassMeans(c, n) ==
    LET k == Owner(c, n)
    IN  CASE Kind(k, n) = "method" -> Fun(k, n)
          [] Kind(k, n) \in {"static", "value"} -> meant.statics[k][n]
          [] OTHER -> Fails

\* What the parent of a view or class is, for a function of class k, from class c if
\* that is given.
SuperMeans(w, c, k) ==
    LET line == IF Is(w, "class") THEN Line(w[2]) ELSE Line(w[3])
        to   == CASE Is(w, "view") /\ c # 0 -> c
                  [] Is(w, "view") /\ c = 0 /\ Contains(line, k) -> meant.parents[k]
                  [] OTHER -> meant.parents[line[1]]
    IN  CASE ~Contains(Tail(line), to) -> Nil_
          [] Contains(Tail(line), to) /\ Is(w, "class") -> Class(to)
          [] OTHER -> <<"view", w[2], to>>

----------------------------------------------------------------------------
(* Instances. *)

\* newobject: the chain for a class, whose instances get the numbers from i on.
RECURSIVE Chain(_, _, _)
Chain(c, i, sub) ==
    LET above == classes[c].super
        Nils == [k \in {classes[c].members[n].v[2] : n \in {n \in MemberName :
                    classes[c].members[n] # Undeclared /\ Is(classes[c].members[n].v, "index")}} |-> Plain_(Nil_)]
    IN  <<[class |-> c, super |-> IF above = 0 THEN 0 ELSE i + 1, sub |-> sub, members |-> Nils]>>
        \o (IF above = 0 THEN <<>> ELSE Chain(above, i + 1, i))

Blank(c) == [class |-> c, fields |-> [k \in Classes |-> [n \in MemberName |-> Nil_]]]

\* Mutant: the arguments stay where they are.
Room_(area, r, argc, init) == [area EXCEPT ![r] = init, ![r + 1] = area[r - 1]]

\* be_class_newobj: the constructor, the instance and the arguments from register r on,
\* behind the result.
Room(area, r, argc, init) ==
    [j \in DOMAIN area |-> CASE j = r -> init
                             [] j \in r + 1 .. r + argc -> area[j - 2]
                             [] OTHER -> area[j]]

\* The instruction CALL for what is in register p; i is the instance that is made when
\* that is a class, and init its constructor.
RECURSIVE Recall(_, _, _, _, _, _)
Recall(area, p, argc, mode, i, init) ==
    LET v == area[p]
        made == [area EXCEPT ![p] = Ins(i), ![p - mode] = Ins(i)]
    IN  CASE v = NotMethod -> Recall([area EXCEPT ![p] = area[p + 1]], p + 1, argc - 1, 1, i, init)
          [] Is(v, "class") /\ init = Undeclared -> [area |-> made, func |-> Undeclared]
          [] Is(v, "class") /\ init # Undeclared ->
                 Recall(Room(made, p + 1, argc + 1, init), p + 1, argc + 1, 0, i, init)
          [] Is(v, "function") ->
                 [area |-> area, func |-> v, args |-> SubSeq(area, p + 1, p + argc), at |-> p - mode]
          [] OTHER -> [area |-> area, func |-> Fails]

Registers == 1 .. 7
Area(it) == [j \in Registers |-> IF j = 1 THEN it ELSE Nil_]
Caller(func, args, ws, at) ==
    [func |-> func, args |-> args, area |-> Area(IF args = <<>> THEN Nil_ ELSE args[1]), at |-> at, meant |-> ws]

Here == Last(calls)
It == Here.area[1]
Means_ == View(It)

\* The registers of the running function change.
Set_(area) == calls' = [calls EXCEPT ![Len(calls)].area = area]

\* An exception, which nobody catches before the program's outermost level.
Uncaught == calls' = <<[calls[1] EXCEPT !.area = Area(Nil_)]>>

\* The call of what register p holds; ws is what the callee is meant to get.
CallFunction(area, p, argc, ws) ==
    \E i \in {Len(heap) + 1}, c \in {IF Is(area[p], "class") THEN area[p][2]
                                     ELSE IF area[p] = NotMethod /\ Is(area[p + 1], "class") THEN area[p + 1][2]
                                     ELSE 0} :
    \E f \in {IF c = 0 THEN [at |-> 0] ELSE ClassMember(c, "init")} :
    \E r \in {Recall(area, p, argc, 0, i, IF f.at = 0 \/ Is(f.m.v, "index") THEN Undeclared ELSE f.m.v)} :
        /\ heap' = IF c = 0 THEN heap ELSE heap \o Chain(c, i, 0)
        /\ meant' = IF c = 0 THEN meant ELSE [meant EXCEPT !.objects = Append(@, Blank(c))]
        /\ Len(heap') <= MaxInstances
        /\ CASE r.func = Fails -> Uncaught
             [] r.func \in {Undeclared, Default} -> Set_(r.area)
             [] OTHER ->
                  /\ Len(calls) < MaxCalls
                  /\ calls' = Append([calls EXCEPT ![Len(calls)].area = r.area],
                                     Caller(r.func, r.args, IF c = 0 THEN ws ELSE <<<<"view", Len(meant'.objects), c>>>> \o ws, r.at))

Answer(is, means) == answer' = [is |-> is, means |-> means]
NoAnswer == Answer(Nil_, Nil_)

----------------------------------------------------------------------------
(* Operations of a program on the value in its register 1. *)

\* A value a `member' may answer.
Replies == {Nil_, One, Free_, Undefined}

Construct(c) ==
    /\ CallFunction([Area(It) EXCEPT ![1] = Class(c), ![2] = One], 1, 1, <<One>>)
    /\ NoAnswer

\* GETMBR.
GetMember(n, r) ==
    \E got \in {IF Is(It, "instance") THEN Attribute(It[2], n, r).v ELSE ClassAttribute(It[2], n).v},
       means \in {IF Is(It, "instance") THEN Means(Means_, n, r).v ELSE ClassMeans(It[2], n)} :
        /\ Answer(View(got), means)
        /\ CASE got = Fails -> Uncaught
             [] Is(got, "instance") -> Set_([Here.area EXCEPT ![1] = got])
             [] OTHER -> UNCHANGED calls
        /\ UNCHANGED <<heap, meant>>

\* be_instance_setmember; r is what `setmember' would say.
SetOf(i, n, v, r) ==
    LET Virtual(f) ==
            IF f.at # 0 /\ Is(Contents(f).v, "function") /\ Answers(Contents(f), r) \notin {Bool(FALSE), Undefined, Fails}
            THEN heap ELSE <<>>
        Known(f) ==
            IF IsIndex(f) THEN [heap EXCEPT ![f.at].members[f.m.v[2]] = Marked(v)]
            ELSE Virtual(InstanceMember(i, "setmember"))
    IN  Known(InstanceMember(i, n))

SetMeans(w, n, v, r) ==
    LET k == Owner(w[3], n)
        j == Owner(w[3], "setmember")
    IN  CASE Kind(k, n) = "var" -> [meant EXCEPT !.objects[w[2]].fields[k][n] = v]
          [] Kind(k, n) # "var" /\ Kind(j, "setmember") # "none" /\ r \notin {Bool(FALSE), Undefined}
                /\ Is(Means(w, "setmember", Nil_).v, "function") -> meant
          [] OTHER -> <<>>

\* SETMBR on an instance.
SetMember(n, v, r) ==
    \E set \in {SetOf(It[2], n, v, r)}, means \in {SetMeans(Means_, n, View(v), r)} :
        /\ Answer(Bool(set = <<>>), Bool(means = <<>>))
        /\ heap' = IF set = <<>> THEN heap ELSE set
        /\ meant' = IF means = <<>> THEN meant ELSE means
        /\ IF set = <<>> THEN Uncaught ELSE UNCHANGED calls
        /\ UNCHANGED classes

\* SETMBR on a class: be_class_setmember.
SetStatic(c, n, v) ==
    \E f \in {ClassMember(c, n)} : \E fails \in {f.at = 0 \/ IsIndex(f)}, k \in {Owner(c, n)} :
        /\ Answer(Bool(fails), Bool(Kind(k, n) \in {"none", "var"}))
        /\ classes' = IF fails THEN classes ELSE [classes EXCEPT ![f.at].members[n] = Marked(v)]
        /\ meant' = IF fails THEN meant ELSE [meant EXCEPT !.statics[k][n] = View(v), !.declare[k][n] = "value"]
        /\ IF fails THEN Uncaught ELSE UNCHANGED calls
        /\ UNCHANGED heap

Callable(v) == v[1] \in {"function", "class"}

\* GETMET: a function and the object it is called for, or no object.
Method(n, r) ==
    LET Of(got) ==
            IF Is(got.v, "function") /\ Is(It, "instance") /\ ~got.static
            THEN <<got.v, Ins(LowestSub(It[2]))>>
            ELSE IF Is(It, "class") \/ Is(got.v, "function") \/ Is(got.v, "class") THEN <<NotMethod, got.v>>
            ELSE <<Fails>>
    IN  Of(IF Is(It, "instance") THEN Attribute(It[2], n, r) ELSE ClassAttribute(It[2], n))

\* GETMET and CALL, of a member with one argument.
CallMember(n, r, arg) ==
    \E met \in {Method(n, r)},
       means \in {IF Is(It, "instance") THEN Means(Means_, n, r)
                  ELSE [v |-> ClassMeans(It[2], n), method |-> FALSE]} :
        /\ Answer(Bool(\E v \in Range(met) : Callable(v)), Bool(Callable(means.v)))
        /\ IF Fails \in Range(met) THEN Uncaught /\ UNCHANGED <<heap, meant>>
           ELSE CallFunction([Here.area EXCEPT ![2] = met[1], ![3] = met[2], ![4] = arg], 2, 2,
                     (IF means.method /\ Is(means.v, "function") THEN <<Whole(Means_)>> ELSE <<>>) \o <<View(arg)>>)

\* CALL of a function that is no member, with what is in the register.
CallFree ==
    /\ CallFunction([Here.area EXCEPT ![2] = Free_, ![3] = It], 2, 1, <<Means_>>)
    /\ NoAnswer

\* RET.
ReturnValue(v) ==
    /\ Len(calls) > 1
    /\ LET back == Front(calls)
       IN  calls' = [back EXCEPT ![Len(back)].area[Here.at] = v]
    /\ NoAnswer /\ UNCHANGED <<heap, meant>>

\* find_class_closure.
RECURSIVE ClassOfClosure(_, _)
ClassOfClosure(c, func) ==
    IF c = 0 \/ \E n \in MemberName : classes[c].members[n] # Undeclared /\ classes[c].members[n].v = func
    THEN c ELSE ClassOfClosure(classes[c].super, func)

\* l_super and be_getsuper: of class c, or of the class whose method is running.
Super(c) ==
    \E base \in {IF Is(It, "instance") /\ c = 0 THEN ClassOfClosure(heap[It[2]].class, Here.func) ELSE 0} :
    \E to \in {CASE Is(It, "class") -> classes[It[2]].super
                 [] Is(It, "instance") /\ base # 0 -> IF classes[base].super = 0 THEN 0
                                                      ELSE Above(heap[It[2]].super, classes[base].super)
                 [] Is(It, "instance") /\ base = 0 /\ c # 0 -> Above(heap[It[2]].super, c)
                 [] OTHER -> heap[It[2]].super} :
    \E v \in {IF to = 0 THEN Nil_ ELSE IF Is(It, "class") THEN Class(to) ELSE Ins(to)} :
        /\ Answer(View(v), SuperMeans(Means_, c, Here.func[2]))
        /\ Set_([Here.area EXCEPT ![1] = v])
        /\ UNCHANGED <<heap, meant>>

\* obj2bool: the truth of an instance; b is what its `tobool' would say.
Truth(b, r) ==
    \E got \in {Attribute(It[2], "tobool", r).v}, means \in {Means(Means_, "tobool", r).v} :
    \E is \in {CASE got \in {Fails, Nil_} -> Bool(TRUE) [] Is(got, "function") -> b [] OTHER -> Fails} :
        /\ Answer(is, CASE Is(means, "function") -> b
                        [] ~Is(means, "function") /\ Owner(heap[It[2]].class, "tobool") # 0 /\ means # Nil_ -> Fails
                        [] OTHER -> Bool(TRUE))
        /\ IF is = Fails THEN Uncaught ELSE UNCHANGED calls
        /\ UNCHANGED <<heap, meant>>

\* be_isderived.
RECURSIVE Derived(_, _)
Derived(c, sup) == c # 0 /\ (c = sup \/ Derived(classes[c].super, sup))

IsDerived(c) ==
    /\ Answer(Bool(Derived(IF Is(It, "class") THEN It[2] ELSE heap[It[2]].class, c)),
              Bool(Contains(Line(IF Is(It, "class") THEN It[2] ELSE Means_[3]), c)))
    /\ UNCHANGED <<heap, calls, meant>>

----------------------------------------------------------------------------
(* The program. *)

\* What a run leaves out unless ClassRare has it: a `setmember' that is kept in a
\* variable ("kept"); a method that is replaced, or that is a static of another class
\* too ("moved"); the truth of an object whose `member' answers anything ("truth").
ClassInit ==
    /\ \E p \in ObjectPrograms :
          /\ uses = p.uses /\ deeds = p.deeds
          /\ classes = [c \in DOMAIN p.declare |->
                           [super |-> p.parents[c], members |-> Members(c, p.declare[c])]]
          /\ meant = [declare |-> p.declare, parents |-> p.parents, objects |-> <<>>,
                      statics |-> [c \in DOMAIN p.declare |-> [n \in MemberName |->
                          IF p.declare[c][n] = "static" THEN Fun(c, n) ELSE Nil_]]]
    /\ heap = <<>>
    /\ calls = <<Caller(Free_, <<>>, <<>>, 0)>>
    /\ answer = [is |-> Nil_, means |-> Nil_]

Sources == {One, Free_} \cup (IF Is(It, "instance") THEN {It} ELSE {})
Moved == IF "moved" \in ClassRare THEN {Fun(c, "m") : c \in Classes} ELSE {}
IsMethod(c, n) == Is(ClassMember(c, n).m.v, "function") /\ ~ClassMember(c, n).m.static

OnClass ==
    \E c \in Classes :
       \/ "new" \in uses /\ Construct(c) /\ UNCHANGED classes
       \/ /\ "static" \in uses
          /\ \E n \in {"x", "m"}, v \in {One, Free_, Class(1)} \cup Moved :
                /\ "moved" \in ClassRare \/ ~IsMethod(c, n)
                /\ SetStatic(c, n, v)
       \/ "name" \in uses /\ Set_([Here.area EXCEPT ![1] = Class(c)]) /\ NoAnswer /\ UNCHANGED <<heap, classes, meant>>

OnInstance ==
    /\ Is(It, "instance")
    /\ \/ /\ "set" \in uses
          /\ \E n \in {"x", "m", "tobool"} \cup ({"setmember"} \cap ClassRare), v \in Sources, r \in {Nil_, Bool(FALSE), Undefined} :
                SetMember(n, v, r)
       \/ /\ "truth" \in uses
          /\ \E b \in {Bool(TRUE), Bool(FALSE)}, r \in IF "truth" \in ClassRare THEN Replies ELSE Replies \ {One} : Truth(b, r)
          /\ UNCHANGED classes

OnEither ==
    /\ It[1] \in {"instance", "class"}
    /\ \/ \E n \in MemberName, r \in Replies :
             \/ "get" \in uses /\ GetMember(n, r)
             \/ "call" \in uses /\ CallMember(n, r, One)
       \/ "super" \in uses /\ \E c \in Classes \cup {0} : Super(c)
       \/ "super" \in uses /\ \E c \in Classes : IsDerived(c)
       \/ "free" \in uses /\ CallFree
    /\ UNCHANGED classes

ClassNext ==
    /\ deeds > 0 /\ deeds' = deeds - 1 /\ UNCHANGED uses
    /\ \/ OnClass \/ OnInstance \/ OnEither
       \/ \E v \in {Nil_, One} : ReturnValue(v) /\ UNCHANGED classes

ClassSpec == ClassInit /\ [][ClassNext]_classVars

----------------------------------------------------------------------------
(* Properties. *)

\* Each operation comes out as it is meant: reading, writing, calling, super(), truth.
AnswersMeant == answer.is = answer.means

\* Each function gets the object and the arguments it is meant to get.
ArgumentsMeant == \A k \in DOMAIN calls : [j \in DOMAIN calls[k].args |-> View(calls[k].args[j])] = calls[k].meant

\* The variables of all objects have the values that are meant, and the chains are the
\* lines of their classes, linked both ways.
FieldsMeant ==
    \A i \in DOMAIN heap : \A w \in {View(Ins(i))} :
        /\ heap[i].sub # 0 => heap[heap[i].sub].super = i
        /\ Contains(Line(Whole(w)[3]), heap[i].class)
        /\ \A n \in MemberName :
              Kind(heap[i].class, n) = "var" =>
                  View(heap[i].members[classes[heap[i].class].members[n].v[2]].v) =
                      meant.objects[w[2]].fields[heap[i].class][n]

\* Objects behave as single things with fields, methods and parents, whatever
\* chain of instances and registers stands for them.
ObjectsMeant == AnswersMeant /\ ArgumentsMeant /\ FieldsMeant
==============================================================================
