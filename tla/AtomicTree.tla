------------------------------ MODULE AtomicTree ------------------------------
(***************************************************************************)
(* What littlefs promises of its directories: a tree that each operation   *)
(* changes at once.  The tree is a set of edges <<directory, name, what>>, *)
(* where `what' is File or a directory.  An operation takes effect at most *)
(* once, between the call and the return; when it returns success it has,  *)
(* and when it fails for want of space, or power is lost, it has or has    *)
(* not.                                                                    *)
(***************************************************************************)
EXTENDS Naturals, FiniteSets

CONSTANTS Names, Dirs, Root, File

VARIABLES
    tree,
    goal,   \* the tree the operation in progress leads to
    busy

DirsOf(t) == {Root} \cup ({e[3] : e \in t} \ {File})
At(t, d, n) == {e \in t : e[1] = d /\ e[2] = n}
Empty(t, d) == \A e \in t : e[1] # d

\* The directories above d, d included.
RECURSIVE Above(_, _)
Above(t, d) == {d} \cup UNION {Above(t, e[1]) : e \in {x \in t : x[3] = d}}

Created(t, d, n, what) == t \cup {<<d, n, what>>}
Removed(t, d, n) == t \ At(t, d, n)
Moved(t, d, n, d2, n2) ==
    (t \ (At(t, d, n) \cup At(t, d2, n2))) \cup {<<d2, n2, e[3]>> : e \in At(t, d, n)}

CanCreate(t, d, n) == d \in DirsOf(t) /\ At(t, d, n) = {}
Removable(t, what) == what = File \/ Empty(t, what)
CanRemove(t, d, n) == \E e \in At(t, d, n) : Removable(t, e[3])
\* What is at <<d2, n2>> may be replaced by what is at <<d, n>>.
Fits(t, d, n, d2, n2) ==
    /\ d2 \in DirsOf(t) /\ <<d, n>> # <<d2, n2>>
    /\ \E e \in At(t, d, n) :
          \A p \in At(t, d2, n2) : (p[3] = File) = (e[3] = File) /\ Removable(t, p[3])
CanMove(t, d, n, d2, n2) ==
    /\ Fits(t, d, n, d2, n2)
    /\ \A e \in At(t, d, n) : e[3] = File \/ e[3] \notin Above(t, d2)

Outcomes(t) ==
    {Created(t, d, n, w) : <<d, n, w>> \in
        {x \in DirsOf(t) \X Names \X ({File} \cup Dirs) :
            CanCreate(t, x[1], x[2]) /\ x[3] \notin DirsOf(t)}}
    \cup {Removed(t, x[1], x[2]) : x \in {y \in DirsOf(t) \X Names : CanRemove(t, y[1], y[2])}}
    \cup {Moved(t, x[1], x[2], x[3], x[4]) :
            x \in {y \in DirsOf(t) \X Names \X DirsOf(t) \X Names :
                      CanMove(t, y[1], y[2], y[3], y[4])}}

Init == tree = {} /\ goal = {} /\ busy = FALSE

Begin == ~busy /\ busy' = TRUE /\ goal' \in Outcomes(tree) /\ tree' = tree

Effect == busy /\ tree' = goal /\ UNCHANGED <<goal, busy>>

Return == busy /\ busy' = FALSE /\ tree' = goal /\ goal' = goal

Stop == busy' = FALSE /\ tree' \in {tree, goal} /\ goal' = tree'

Next == Begin \/ Effect \/ Return \/ Stop

Spec == Init /\ [][Next]_<<tree, goal, busy>>
===============================================================================
