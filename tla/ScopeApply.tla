----------------------------- MODULE ScopeApply -----------------------------
(***************************************************************************)
(* A scope of the server and the application of change sets to it.  The    *)
(* fragments of a change set are chosen as they are read: each may be any  *)
(* that a client or a query can have sent.  One change set is applied at a *)
(* time, under the scope's write lock, in these stages:                    *)
(*                                                                         *)
(* procedure   the procedure it names and the storage accept or refuse     *)
(* create      an object for each add fragment                             *)
(* add         the properties of the add fragments                         *)
(* change      those of the change fragments                               *)
(* orphan      what has lost its parents is removed, round by round        *)
(*                                                                         *)
(* The application builds the first objects by hand, and goes on to make   *)
(* and edit objects by hand at any time: before an apply, after one, and   *)
(* whenever one waits for a turn of the event loop.                        *)
(***************************************************************************)
EXTENDS ModelGraph

CONSTANTS
    RootUuid,       \* the name of the object the application makes the root
    Unset,          \* a property the fragment does not name
    Collections,    \* the uuid sequences that are assigned to items
    Fragments,      \* what a fragment sets: its values for child and items
    MaxEdits,       \* bound: edits by hand
    MaxChanges      \* bound: change fragments applied

ASSUME ApplyAssumption ==
    /\ RootUuid \in Uuids
    /\ Collections \subseteq Seq(Uuids)
    /\ Unset \notin Uuids \cup Collections \cup {Null}
    /\ Fragments \subseteq [child : Uuids \cup {Null, Unset}, items : Collections \cup {Unset}]
    /\ MaxEdits \in Nat /\ MaxChanges \in Nat

VARIABLES
    root,       \* the root of the scope, Null before there is one
    stage,      \* "building", "free", or the stage of the apply in progress
    toAdd,      \* the uuids of the add fragments still to be applied
    temporals,  \* objects created for this change set
    round,      \* orphans of this round still to be removed
    edits,      \* edits by hand, counted for the bound
    changes     \* change fragments applied, counted for the bound

\* History, which no step depends on.
VARIABLES
    doubled,    \* owners of a collection that has ever held an object twice
    strays      \* what came into the scope with the root and without a parent

applyVars == <<root, stage, toAdd, temporals, round, edits, changes>>
counts == <<edits, changes>>
history == <<doubled, strays>>
vars == <<uuid, graph, scoped, orphaned, root, stage, toAdd, temporals,
          round, edits, changes, doubled, strays>>

Stages == {"building", "free", "procedure", "create", "add", "change", "orphan"}

TypeOK ==
    /\ uuid \in [Instances -> Uuids \cup {Null}]
    /\ graph \in Graphs
    /\ scoped \subseteq Instances /\ orphaned \subseteq Instances
    /\ root \in Instances \cup {Null}
    /\ stage \in Stages
    /\ toAdd \in Seq(Uuids)
    /\ temporals \subseteq Instances /\ round \subseteq Instances
    /\ edits \in Nat /\ changes \in Nat
    /\ doubled \subseteq Instances /\ strays \subseteq Instances

Init ==
    /\ GraphInit
    /\ root = Null
    /\ stage = "building"
    /\ toAdd = <<>>
    /\ temporals = {} /\ round = {}
    /\ edits = 0 /\ changes = 0
    /\ doubled = {} /\ strays = {}

Fresh == Instances \ Created
NextFresh == CHOOSE i \in Fresh : \A j \in Fresh : i <= j

Known == temporals \cup scoped

\* Who goes by its uuid: the objects of the scope, those about to be in it,
\* and those whose uuid no other was ever given.
Owners == Known \cup {p \in Created : \A j \in Created : uuid[j] = uuid[p] => j = p}

\* A collection that holds an object twice, or that is given once more what
\* it holds, has but one relationship for both.
DoubledAfter(after) == doubled \cup {p \in Instances : ~IsInjective(after.items[p])}
-----------------------------------------------------------------------------
\* By hand.

NewObject(u) ==
    /\ Fresh # {}
    /\ \A i \in Created : uuid[i] # u
    /\ uuid' = [uuid EXCEPT ![NextFresh] = u]
    /\ UNCHANGED <<graph, scoped, orphaned, applyVars, history>>

\* p is edited, and given again what it holds already.  A round of orphans
\* is one turn of the event loop, and nothing comes in between: the persist
\* middleware calls back at once.
Edit(p, after, again) ==
    /\ round = {} /\ edits < MaxEdits
    /\ edits' = edits + 1
    /\ graph' = after
    /\ orphaned' = OrphansAfter(after) \cup {i \in scoped \cap again : after.parents[i] = {}}
    /\ doubled' = DoubledAfter(after) \cup (IF again = {} THEN {} ELSE {p})
    /\ UNCHANGED <<uuid, scoped, root, stage, toAdd, temporals, round,
                   changes, strays>>

\* Any objects that have the names of c.
Called(c) == {s \in [DOMAIN c -> Created] : \A k \in DOMAIN c : uuid[s[k]] = c[k]}

\* Where the operation throws, the exception is the application's.
EditByHand(p) ==
    LET held == graph.items[p]
    IN  \/ \E i \in Created \cup {Null} : Edit(p, AssignChild(graph, p, i), {})
        \/ \E c \in Collections : \E s \in Called(c) : Edit(p, AssignItems(graph, p, s), {})
        \/ \E i \in Created :
              LET again == {i} \cap Range(held)
              IN  \/ Edit(p, PushItem(graph, p, i), again)
                  \/ Edit(p, UnshiftItem(graph, p, i), again)
                  \/ \E k, n \in 0..Len(held) :
                        /\ k + n <= Len(held)
                        /\ Edit(p, SpliceItems(graph, p, k, n, <<i>>), again)
        \/ Edit(p, PopItem(graph, p), {})
        \/ Edit(p, ShiftItem(graph, p), {})

SetRoot(r) ==
    /\ stage = "building" /\ uuid[r] = RootUuid
    /\ root' = r
    /\ scoped' = TreeOf(graph, r, Created)
    /\ strays' = {i \in scoped' \ {r} : graph.parents[i] = {}}
    /\ stage' = "free"
    /\ UNCHANGED <<uuid, graph, orphaned, toAdd, temporals, round, edits,
                   changes, doubled>>

\* removeRoot waits for no lock: it can come between two stages of an apply.
\* The root stays set: there never is another.
RemoveRoot ==
    /\ root \in scoped /\ round = {}
    /\ scoped' = scoped \ TreeOf(graph, root, scoped)
    /\ orphaned' = orphaned \cap scoped'
    /\ UNCHANGED <<uuid, graph, applyVars, history>>
-----------------------------------------------------------------------------
\* Fragments.  A uuid stands for the object of this change set with that
\* name, or else for the one in the scope.

Found(u) == {i \in Known : uuid[i] = u}
Resolve(u) ==
    IF \E i \in temporals : uuid[i] = u
    THEN CHOOSE i \in temporals : uuid[i] = u
    ELSE CHOOSE i \in scoped : uuid[i] = u

Refs(f) ==
    (IF f.child = Unset THEN {} ELSE {f.child} \ {Null})
    \cup (IF f.items = Unset THEN {} ELSE Range(f.items))
Verified(f) == \A u \in Refs(f) : Found(u) # {}

\* Mutant: the value is set to the uuid and not to the object.
WithChildUuid(g, p, f) ==
    IF f.child = Unset THEN g ELSE AssignChild(g, p, f.child)

WithChild(g, p, f) ==
    IF f.child = Unset THEN g
    ELSE AssignChild(g, p, IF f.child = Null THEN Null ELSE Resolve(f.child))
WithItems(g, p, f) ==
    IF f.items = Unset THEN g
    ELSE AssignItems(g, p, [k \in DOMAIN f.items |-> Resolve(f.items[k])])
WithProperties(g, p, f) == WithItems(WithChild(g, p, f), p, f)

SetProperties(p, f) ==
    /\ graph' = WithProperties(graph, p, f)
    /\ orphaned' = OrphansAfter(graph')
    /\ doubled' = DoubledAfter(graph')
-----------------------------------------------------------------------------
Goto(from, to) == stage = from /\ stage' = to

Begin ==
    /\ Goto("free", "procedure")
    /\ UNCHANGED <<graphVars, root, toAdd, temporals, round, counts, history>>

Refuse ==
    /\ Goto("procedure", "free")
    /\ UNCHANGED <<graphVars, root, toAdd, temporals, round, counts, history>>

\* Storage may have denied some of the fragments: all are applied.
Accept ==
    /\ Goto("procedure", "create")
    /\ UNCHANGED <<graphVars, root, toAdd, temporals, round, counts, history>>

\* Mutant: what the scope already has is created once more.
CreateTemporalAgain(u) ==
    /\ stage = "create"
    /\ Fresh # {}
    /\ uuid' = [uuid EXCEPT ![NextFresh] = u]
    /\ temporals' = {i \in temporals : uuid[i] # u} \cup {NextFresh}
    /\ toAdd' = Append(toAdd, u)
    /\ UNCHANGED <<graph, scoped, orphaned, root, stage, round, counts, history>>

\* A fragment whose uuid the scope has gets an error and no object; the
\* second one of a uuid takes the place of the first.
CreateTemporal(u) ==
    /\ stage = "create"
    /\ Fresh # {}
    /\ \A i \in scoped : uuid[i] # u
    /\ uuid' = [uuid EXCEPT ![NextFresh] = u]
    /\ temporals' = {i \in temporals : uuid[i] # u} \cup {NextFresh}
    /\ toAdd' = Append(toAdd, u)
    /\ UNCHANGED <<graph, scoped, orphaned, root, stage, round, counts, history>>

CreateDone ==
    /\ Goto("create", "add")
    /\ UNCHANGED <<graphVars, root, toAdd, temporals, round, counts, history>>

\* One that fails is no temporal any more: what names it later fails too,
\* what was given it before keeps it.
ApplyAdd(f) ==
    /\ stage = "add" /\ toAdd # <<>>
    /\ toAdd' = Tail(toAdd)
    /\ LET mine == {i \in temporals : uuid[i] = Head(toAdd)}
       IN  \/ /\ mine = {}
              /\ UNCHANGED <<graph, orphaned, temporals, doubled>>
           \/ /\ mine # {} /\ Verified(f)
              /\ \E i \in mine : SetProperties(i, f)
              /\ UNCHANGED <<temporals>>
           \/ /\ mine # {} /\ ~Verified(f)
              /\ temporals' = temporals \ mine
              /\ UNCHANGED <<graph, orphaned, doubled>>
    /\ UNCHANGED <<uuid, scoped, root, stage, round, counts, strays>>

AddsDone ==
    /\ toAdd = <<>> /\ Goto("add", "change")
    /\ UNCHANGED <<graphVars, root, toAdd, temporals, round, counts, history>>

\* Only what is in the scope already can be changed; a change of anything
\* else, and one that fails verification, gets an error and does nothing.
ApplyChange(p, f) ==
    /\ stage = "change" /\ changes < MaxChanges
    /\ p \in scoped
    /\ Verified(f)
    /\ SetProperties(p, f)
    /\ changes' = changes + 1
    /\ UNCHANGED <<uuid, scoped, root, stage, toAdd, temporals, round, edits, strays>>

Commit ==
    /\ Goto("change", "orphan")
    /\ scoped' = scoped \cup {i \in temporals : graph.parents[i] # {}}
    /\ temporals' = {}
    /\ UNCHANGED <<uuid, graph, orphaned, root, toAdd, round, counts, history>>

\* Mutant: an orphan is removed with all below it.
RemoveOrphanTree(i) ==
    /\ stage = "orphan"
    /\ i \in round
    /\ graph' = AssignItems(AssignChild(graph, i, Null), i, <<>>)
    /\ scoped' = scoped \ TreeOf(graph, i, scoped)
    /\ orphaned' = OrphansAfter(graph') \ {i}
    /\ round' = round \ {i}
    /\ UNCHANGED <<uuid, root, stage, toAdd, temporals, counts, history>>

\* Mutant: the scope misses that the orphan has left, as its listeners do.
RemoveOrphanUnnoticed(i) ==
    /\ stage = "orphan"
    /\ i \in round
    /\ graph' = AssignItems(AssignChild(graph, i, Null), i, <<>>)
    /\ scoped' = scoped \ {i}
    /\ orphaned' = orphaned \cup OrphansAfter(graph')
    /\ round' = round \ {i}
    /\ UNCHANGED <<uuid, root, stage, toAdd, temporals, counts, history>>

\* An orphan lets go of what it holds, then leaves the scope.
RemoveOrphan(i) ==
    /\ stage = "orphan"
    /\ i \in round
    /\ graph' = AssignItems(AssignChild(graph, i, Null), i, <<>>)
    /\ scoped' = scoped \ {i}
    /\ orphaned' = OrphansAfter(graph') \ {i}
    /\ round' = round \ {i}
    /\ UNCHANGED <<uuid, root, stage, toAdd, temporals, counts, history>>

NextRound ==
    /\ stage = "orphan" /\ round = {} /\ orphaned # {}
    /\ round' = orphaned
    /\ UNCHANGED <<graphVars, root, stage, toAdd, temporals, counts, history>>

\* Mutant: what the removal of orphans orphans is left for the next time.
FinishAfterOneRound ==
    /\ Goto("orphan", "free")
    /\ round = {}
    /\ UNCHANGED <<graphVars, root, toAdd, temporals, round, counts, history>>

\* The results are complete, the changes announced, the lock released.
Finish ==
    /\ Goto("orphan", "free")
    /\ round = {} /\ orphaned = {}
    /\ UNCHANGED <<graphVars, root, toAdd, temporals, round, counts, history>>
-----------------------------------------------------------------------------
Applying ==
    \/ Refuse \/ Accept
    \/ CreateDone
    \/ \E f \in Fragments : ApplyAdd(f)
    \/ AddsDone
    \/ Commit
    \/ \E i \in Instances : RemoveOrphan(i)
    \/ NextRound
    \/ Finish

Next ==
    \/ \E u \in Uuids : NewObject(u)
    \/ \E p \in Owners : EditByHand(p)
    \/ \E p \in Created : SetRoot(p)
    \/ RemoveRoot
    \/ Begin
    \/ \E u \in Uuids : CreateTemporal(u)
    \/ \E p \in scoped, f \in Fragments : ApplyChange(p, f)
    \/ Applying

Spec == Init /\ [][Next]_vars
FairSpec == Spec /\ WF_vars(Applying)
-----------------------------------------------------------------------------
\* Properties.

\* Who goes by its name is known as a parent to the value it holds, and to
\* all its collection holds if it never held an object twice: what has no
\* parents is held by nobody.
HeldIsKnown ==
    \A p \in Owners, key \in Keys, i \in Instances :
        Holds(graph, p, key, i) /\ (key = "items" => p \notin doubled)
            => Relation(p, key) \in graph.parents[i]

\* A parent relationship is of an object that does hold it, or of one whose
\* collection has held an object twice: nobody stays in the scope for a
\* parent that has let go.
KnownIsHeld ==
    \A i \in Instances : \A r \in graph.parents[i] :
        \E p \in Created : /\ uuid[p] = r[1]
                           /\ Holds(graph, p, r[2], i) \/ (r[2] = "items" /\ p \in doubled)

\* The two sides of each relationship agree, between any two stages of an
\* apply and whatever is edited by hand in between.  A collection that has
\* held an object twice loses count: removing one of the two, or setting the
\* collection without them, leaves others told too much or too little.  That
\* stays with this one collection; and no setter of a value ever throws,
\* which in an apply nobody would catch.
ParentsMirror == HeldIsKnown /\ KnownIsHeld

\* Two objects of a scope never share a uuid, however often fragments add
\* it, fail and add it again.
ScopedDistinct ==
    \A i, j \in scoped : uuid[i] = uuid[j] => i = j

\* When a change set is done, all that is left in the scope but the root has
\* a parent: whatever order the fragments, and edits by hand meanwhile,
\* detach, move and attach in, and however many rounds the removal takes.
OrphansRemoved ==
    [][stage = "orphan" /\ stage' = "free"
           => \A i \in scoped' \ (strays \cup {root}) : graph'.parents[i] # {}]_vars

LeavesUnheld(i) ==
    \A p \in Owners : /\ graph.child[p] # i
                      /\ p \in doubled \/ i \notin Range(graph.items[p])
KeepsHeld ==
    stage \in {"change", "orphan"} /\ (root \in scoped => root \in scoped')
        => \A i \in Known : i \in scoped' \cup temporals' \/ LeavesUnheld(i)

\* Nothing that another object holds is removed as an orphan, or refused
\* when the new objects join the scope, but for what only collections hold
\* that have held an object twice (removeRoot takes all).
HeldIsKept == [][KeepsHeld]_vars

\* What a change set removes from the scope has no parents when it leaves,
\* though it was picked when the round began (removeRoot takes all).
OnlyOrphansLeave ==
    [][stage = "orphan" /\ (root \in scoped => root \in scoped')
           => \A i \in scoped \ scoped' : graph.parents[i] = {}]_vars

\* The lock is released again: the rounds of orphans end, whatever circles
\* the objects form.
LockReleased == (stage = "procedure") ~> (stage = "free")
=============================================================================
