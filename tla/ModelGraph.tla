----------------------------- MODULE ModelGraph -----------------------------
(***************************************************************************)
(* The server's model objects, as the operations on them leave them.  An   *)
(* object holds others by its value property "child" and its collection    *)
(* "items", and knows who holds it: its parent relationships are pairs of  *)
(* the uuid of an owner and the name of a property.  The owner keeps both  *)
(* sides in step.                                                          *)
(*                                                                         *)
(* An object is a number, in the order of creation.  Two objects may have  *)
(* one uuid: a change set may name a uuid again that an earlier one failed *)
(* to add.                                                                 *)
(***************************************************************************)
EXTENDS Naturals, Sequences, Functions

CONSTANTS
    Uuids,          \* the names clients give to objects
    MaxInstances,   \* bound: objects ever created
    Null            \* no object

ASSUME GraphAssumption ==
    /\ MaxInstances \in Nat
    /\ Null \notin Nat
    /\ Null \notin Uuids

VARIABLES
    uuid,       \* the uuid of each object, Null for one not yet created
    graph,      \* the value, the collection and the parents of each
    scoped,     \* the objects the scope persists and listens to
    orphaned    \* those of them that lost their last parent

graphVars == <<uuid, graph, scoped, orphaned>>

Instances == 1..MaxInstances
Created == {i \in Instances : uuid[i] # Null}
Keys == {"child", "items"}

Graphs == [child   : [Instances -> Instances \cup {Null}],
           items   : [Instances -> Seq(Instances)],
           parents : [Instances -> SUBSET (Uuids \X Keys)]]

GraphInit ==
    /\ uuid = [i \in Instances |-> Null]
    /\ graph = [child   |-> [i \in Instances |-> Null],
                items   |-> [i \in Instances |-> <<>>],
                parents |-> [i \in Instances |-> {}]]
    /\ scoped = {}
    /\ orphaned = {}

Relation(p, key) == <<uuid[p], key>>

AddParent(parents, i, r) == [parents EXCEPT ![i] = @ \cup {r}]
RemoveParent(parents, i, r) == [parents EXCEPT ![i] = @ \ {r}]

\* The setter of a value property.  It throws, and nothing is changed, if
\* what it has to let go does not know p as its parent.
AssignChild(g, p, new) ==
    LET old    == g.child[p]
        r      == Relation(p, "child")
        throws == old # Null /\ r \notin g.parents[old]
        left   == IF old = Null THEN g.parents ELSE RemoveParent(g.parents, old, r)
        joined == IF new = Null THEN left ELSE AddParent(left, new, r)
    IN  IF new = old \/ throws THEN g
        ELSE [g EXCEPT !.child[p] = new, !.parents = joined]

\* _removeParent on what old has at the places of cut, in order.  It throws
\* at one whose relationship is missing, and the rest keep theirs.
HasRelation(g, old, cut, r, k) ==
    r \in g.parents[old[k]] /\ \A j \in cut : old[j] = old[k] => j >= k
Detachable(g, old, cut, r) ==
    {k \in cut : \A j \in cut : j <= k => HasRelation(g, old, cut, r, j)}
Detach(g, old, cut, r) ==
    LET gone == {old[k] : k \in Detachable(g, old, cut, r)}
    IN  [i \in Instances |-> g.parents[i] \ (IF i \in gone THEN {r} ELSE {})]

Attach(parents, added, r) ==
    [i \in Instances |-> parents[i] \cup (IF i \in added THEN {r} ELSE {})]

\* Where old has what new has not.
Removed(old, new) == {k \in DOMAIN old : old[k] \notin Range(new)}

\* Mutant: what was added is looked for in the array already assigned.
AssignItemsUntold(g, p, new) ==
    LET r   == Relation(p, "items")
        cut == Removed(g.items[p], new)
    IN  [g EXCEPT !.items[p] = new, !.parents = Detach(g, g.items[p], cut, r)]

\* setAsArray, with the setter of a collection around it: what throws in
\* _removeParent is caught there, the array is assigned and nobody added
\* learns of it.
AssignItems(g, p, new) ==
    LET r     == Relation(p, "items")
        old   == g.items[p]
        cut   == Removed(old, new)
        left  == Detach(g, old, cut, r)
        whole == Detachable(g, old, cut, r) = cut
        added == Range(new) \ Range(old)
    IN  [g EXCEPT !.items[p] = new,
                  !.parents = IF whole THEN Attach(left, added, r) ELSE left]

\* push and unshift tell the object first, splice those it adds before
\* those it removes; pop and shift are a splice of one.
SpliceItems(g, p, start, count, new) ==
    LET r      == Relation(p, "items")
        old    == g.items[p]
        cut    == (start + 1)..(start + count)
        joined == [g EXCEPT !.parents = Attach(@, Range(new), r)]
    IN  [joined EXCEPT
            !.items[p] = SubSeq(old, 1, start) \o new
                         \o SubSeq(old, start + count + 1, Len(old)),
            !.parents = Detach(joined, old, cut, r)]

PushItem(g, p, i) == SpliceItems(g, p, Len(g.items[p]), 0, <<i>>)
UnshiftItem(g, p, i) == SpliceItems(g, p, 0, 0, <<i>>)
PopItem(g, p) ==
    IF g.items[p] = <<>> THEN g ELSE SpliceItems(g, p, Len(g.items[p]) - 1, 1, <<>>)
ShiftItem(g, p) ==
    IF g.items[p] = <<>> THEN g ELSE SpliceItems(g, p, 0, 1, <<>>)

Holds(g, p, key, i) ==
    IF key = "child" THEN g.child[p] = i ELSE i \in Range(g.items[p])
Children(g, p) == Range(g.items[p]) \cup ({g.child[p]} \ {Null})

\* What can be reached from p through objects of within: the walk of
\* setScope and of getTreeModelObjects, which do not enter one twice.
TreeOf(g, p, within) ==
    {i \in Instances : \A S \in SUBSET Instances :
        p \in S /\ (\A k \in S : Children(g, k) \cap within \subseteq S) => i \in S}

\* Mutant: the scope does not listen to "parent".
OrphansForGood(after) ==
    {i \in scoped : \/ i \in orphaned
                    \/ after.parents[i] = {} /\ graph.parents[i] # {}}

\* The scope listens to "parent" and "parentDetach" of its objects.
OrphansAfter(after) ==
    {i \in scoped : /\ after.parents[i] = {}
                    /\ i \in orphaned \/ graph.parents[i] # {}}
=============================================================================
