------------------------------ MODULE ClientGraph ------------------------------
(***************************************************************************)
(* The model objects of a client, the scope they are attached to and the   *)
(* fragments it gathers of what the application does to them, sent as a    *)
(* change set when the timer fires.  The server applies the change sets;   *)
(* what others make of its scope arrives as syncs.  Values of properties   *)
(* other than objects, replies and reverting are left to Replicas.         *)
(*                                                                         *)
(* An object holds others by its property "child" and its collection       *)
(* "items" and knows by its parent relationships who holds it.  Objects    *)
(* form no circles (setScope would go round them for ever), are in one     *)
(* collection once, and nothing holds the root.  Others write only while   *)
(* nothing is on its way: the meeting of two writers is in Replicas.       *)
(***************************************************************************)
EXTENDS Lists, SequencesExt

CONSTANTS
    Root,       \* the root of the scope
    Mine,       \* objects the application makes
    Theirs,     \* objects others add
    Null,       \* no object
    Unset,      \* a property that a fragment does not name
    MaxEdits,   \* bound: edits of the application
    MaxWrites   \* bound: changes by others

Objects == {Root} \cup Mine \cup Theirs
Keys == {"child", "items"}

ASSUME ClientGraphAssumption ==
    /\ Root \notin Mine \cup Theirs /\ Mine \cap Theirs = {}
    /\ IsFiniteSet(Mine) /\ IsFiniteSet(Theirs)
    /\ Null \notin Objects /\ Unset \notin Objects \cup {Null} \cup Seq(Objects)
    /\ MaxEdits \in Nat /\ MaxWrites \in Nat

VARIABLES
    model,      \* the client: its objects, scope, fragments and timer
    stated,     \* whether the state of the scope has arrived
    toServer,   \* change sets on their way
    server,     \* the server's objects
    arrived,    \* the objects others have made so far
    edits,      \* counted for the bounds
    writes

vars == <<model, stated, toServer, server, arrived, edits, writes>>

Links == [child : [Objects -> Objects \cup {Null}], items : [Objects -> Seq(Objects)]]
Fragments == [type  : {"none", "add", "change"},
              child : Objects \cup {Null, Unset},
              items : Seq(Objects) \cup {Unset}]
NoFragment == [type |-> "none", child |-> Unset, items |-> Unset]
NoFragments == [i \in Objects |-> NoFragment]

\* The client's objects, what is on its way and the server's objects.
TypeOK ==
    /\ model.child \in [Objects -> Objects \cup {Null}]
    /\ model.items \in [Objects -> Seq(Objects)]
    /\ model.parents \in [Objects -> SUBSET (Objects \X Keys)]
    /\ model.scope \in [Objects -> {"none", "left", "scope"}]
    /\ model.fragments \in [Objects -> Fragments]
    /\ model.removed \subseteq Objects
    /\ model.changesQueued \in BOOLEAN
    /\ stated \in BOOLEAN
    /\ toServer \in Seq([Objects -> Fragments])
    /\ server.has \subseteq Objects
    /\ [child |-> server.child, items |-> server.items] \in Links
    /\ arrived \subseteq Theirs
    /\ edits \in 0..MaxEdits /\ writes \in 0..MaxWrites
-----------------------------------------------------------------------------
\* What is below an object.

Children(g, i) == ToSet(g.items[i]) \cup ({g.child[i]} \ {Null})

\* The walk from i that goes on through objects of within only: what is in
\* every set that nothing below it leads out of.
Walk(g, i, within) ==
    LET links  == UNION {{k} \X (Children(g, k) \cap within) : k \in within}
        closed == {S \in SUBSET within : /\ i \in within => i \in S
                                        /\ \A l \in links : l[1] \in S => l[2] \in S}
    IN  {j \in within : \A S \in closed : j \in S}

Below(g, i) == Walk(g, i, Objects)
-----------------------------------------------------------------------------
\* The client's scope.

Attached(m) == {i \in Objects : m.scope[i] = "scope"}

\* Mutant: an add fragment is made though an object was only moved.
AddModelAlways(m, added, remote) ==
    LET new == {i \in added : ~remote}
    IN  [m EXCEPT
            !.removed = @ \ added,
            !.fragments = [i \in Objects |->
                IF i \in new
                THEN [type |-> "add", child |-> m.child[i], items |-> m.items[i]] ELSE @[i]],
            !.changesQueued = @ \/ new # {}]

\* An object that was removed since the last change set gets no fragment.
AddModel(m, added, remote) ==
    LET new == {i \in added \ m.removed : m.parents[i] # {} /\ ~remote}
    IN  [m EXCEPT
            !.removed = @ \ added,
            !.fragments = [i \in Objects |->
                IF i \in new
                THEN [type |-> "add", child |-> m.child[i], items |-> m.items[i]] ELSE @[i]],
            !.changesQueued = @ \/ new # {}]

RemoveModel(m, gone) ==
    [m EXCEPT
        !.removed = @ \cup gone,
        !.fragments = [i \in Objects |-> IF i \in gone THEN NoFragment ELSE @[i]]]

\* Mutant: the children stay where they are.
SetScopeAlone(m, i, scope, remote) ==
    LET changed == {i} \ {j \in Objects : m.scope[j] = scope}
        left    == RemoveModel(m, {j \in changed : m.scope[j] = "scope"})
        joined  == IF scope = "scope" THEN AddModel(left, changed, remote) ELSE left
    IN  [joined EXCEPT !.scope = [j \in Objects |-> IF j \in changed THEN scope ELSE @[j]]]

\* setScope, with all below that is not in that scope yet.  An object that
\* was in no scope ("none") is still told to leave ("left").
SetScope(m, i, scope, remote) ==
    LET changed == Walk(m, i, {j \in Objects : m.scope[j] # scope})
        left    == RemoveModel(m, {j \in changed : m.scope[j] = "scope"})
        joined  == IF scope = "scope" THEN AddModel(left, changed, remote) ELSE left
    IN  [joined EXCEPT !.scope = [j \in Objects |-> IF j \in changed THEN scope ELSE @[j]]]

\* The scope listens to its objects: what is changed goes into the fragment
\* of the object, be it an add or a change fragment.
KeyChanged(m, p, key, remote) ==
    IF m.scope[p] # "scope" \/ remote THEN m
    ELSE [m EXCEPT
            !.fragments[p] =
                [type  |-> IF @.type = "none" THEN "change" ELSE @.type,
                 child |-> IF key = "child" THEN m.child[p] ELSE @.child,
                 items |-> IF key = "items" THEN m.items[p] ELSE @.items],
            !.changesQueued = TRUE]
-----------------------------------------------------------------------------
\* Parents.

AddParent(m, i, p, key, remote) ==
    LET known == [m EXCEPT !.parents[i] = @ \cup {<<p, key>>}]
    IN  IF m.parents[i] = {} THEN SetScope(known, i, m.scope[p], remote) ELSE known

\* Mutant: the property is left undefined.
RemoveChildUnset(m, p, key, i, remote) ==
    CASE key = "child" /\ m.child[p] = i
           -> KeyChanged([m EXCEPT !.child[p] = Unset], p, key, remote)
      [] key = "items" /\ Contains(m.items[p], i)
           -> KeyChanged([m EXCEPT !.items[p] = Without(@, {i})], p, key, remote)
      [] OTHER -> m

\* Mutant: a collection goes on holding what was detached.
RemoveChildOnly(m, p, key, i, remote) ==
    IF key = "child" /\ m.child[p] = i
    THEN KeyChanged([m EXCEPT !.child[p] = Null], p, key, remote) ELSE m

RemoveChildAtKey(m, p, key, i, remote) ==
    CASE key = "child" /\ m.child[p] = i
           -> KeyChanged([m EXCEPT !.child[p] = Null], p, key, remote)
      [] key = "items" /\ Contains(m.items[p], i)
           -> KeyChanged([m EXCEPT !.items[p] = Without(@, {i})], p, key, remote)
      [] OTHER -> m

\* The parent is told to let go of what it still holds.
RemoveParent(m, i, p, key, remote) ==
    LET gone == RemoveChildAtKey([m EXCEPT !.parents[i] = @ \ {<<p, key>>}], p, key, i, remote)
    IN  CASE <<p, key>> \notin m.parents[i] -> m
          [] <<p, key>> \in m.parents[i] /\ gone.parents[i] = {}
               -> SetScope(gone, i, "left", remote)
          [] OTHER -> gone

Detach(m, i) ==
    LET known == SetToSeq(m.parents[i])
        after[n \in 0..Len(known)] ==
            IF n = 0 THEN m
            ELSE RemoveParent(after[n - 1], i, known[n][1], known[n][2], FALSE)
    IN  after[Len(known)]
-----------------------------------------------------------------------------
\* Setters.

\* The new value is in place before the old one is told: told to let go of
\* what it was just given, a parent that is set what it has ends with null.
SetChild(m, p, new, remote) ==
    LET old    == m.child[p]
        given  == [m EXCEPT !.child[p] = new]
        left   == IF old = Null THEN given ELSE RemoveParent(given, old, p, "child", remote)
        joined == IF new = Null THEN left ELSE AddParent(left, new, p, "child", remote)
    IN  IF old = new THEN joined ELSE KeyChanged(joined, p, "child", remote)

OnCollectionAdd(m, p, added, remote) ==
    LET after[n \in 0..Len(added)] ==
            IF n = 0 THEN m
            ELSE KeyChanged(AddParent(after[n - 1], added[n], p, "items", remote),
                            p, "items", remote)
    IN  after[Len(added)]

OnCollectionRemove(m, p, removed, remote) ==
    LET after[n \in 0..Len(removed)] ==
            IF n = 0 THEN m
            ELSE KeyChanged(RemoveParent(after[n - 1], removed[n], p, "items", remote),
                            p, "items", remote)
    IN  after[Len(removed)]

\* push and unshift add one here; pop and shift, of an empty collection too,
\* announce a change; splice and reset add before they remove.
SpliceItems(m, p, start, count, new, remote) ==
    LET old     == m.items[p]
        removed == SubSeq(old, start + 1, start + count)
        spliced == SubSeq(old, 1, start) \o new \o SubSeq(old, start + count + 1, Len(old))
    IN  OnCollectionRemove(
            OnCollectionAdd([m EXCEPT !.items[p] = spliced], p, new, remote),
            p, removed, remote)

PushItem(m, p, i) == SpliceItems(m, p, Len(m.items[p]), 0, <<i>>, FALSE)
UnshiftItem(m, p, i) == SpliceItems(m, p, 0, 0, <<i>>, FALSE)
PopItem(m, p) ==
    IF m.items[p] = <<>> THEN KeyChanged(m, p, "items", FALSE)
    ELSE SpliceItems(m, p, Len(m.items[p]) - 1, 1, <<>>, FALSE)
ShiftItem(m, p) ==
    IF m.items[p] = <<>> THEN KeyChanged(m, p, "items", FALSE)
    ELSE SpliceItems(m, p, 0, 1, <<>>, FALSE)

\* Only what is added or removed is announced, a new order is not.
ResetItems(m, p, new, remote) ==
    LET added   == Without(new, ToSet(m.items[p]))
        removed == Without(m.items[p], ToSet(new))
    IN  OnCollectionRemove(
            OnCollectionAdd([m EXCEPT !.items[p] = new], p, added, remote),
            p, removed, remote)
-----------------------------------------------------------------------------
\* Fragments applied, by the client and by the server.

SetProperties(m, i, f) ==
    LET child == IF f.child = Unset THEN m ELSE SetChild(m, i, f.child, TRUE)
    IN  IF f.items = Unset THEN child ELSE ResetItems(child, i, f.items, TRUE)

ApplyRemote(m, fragments) ==
    LET named == SetToSeq({i \in Objects :
                    \/ fragments[i].type = "add"
                    \/ fragments[i].type = "change" /\ i \in Attached(m)})
        after[n \in 0..Len(named)] ==
            IF n = 0 THEN m ELSE SetProperties(after[n - 1], named[n], fragments[named[n]])
    IN  after[Len(named)]

Refs(f) ==
    (IF f.child = Unset THEN {} ELSE {f.child} \ {Null})
    \cup (IF f.items = Unset THEN {} ELSE ToSet(f.items))

\* What the server's scope is after a change set: fragments that name what
\* it does not have do nothing, and what nobody holds leaves (ScopeApply).
Applied(s, fragments) ==
    LET adds   == {i \in Objects : fragments[i].type = "add"} \ s.has
        known  == s.has \cup adds
        valid  == {i \in Objects : /\ Refs(fragments[i]) \subseteq known
                                   /\ \/ i \in adds
                                      \/ fragments[i].type = "change" /\ i \in s.has}
        child  == [i \in Objects |-> IF i \in valid /\ fragments[i].child # Unset
                                     THEN fragments[i].child ELSE s.child[i]]
        items  == [i \in Objects |-> IF i \in valid /\ fragments[i].items # Unset
                                     THEN fragments[i].items ELSE s.items[i]]
        has    == Walk([child |-> child, items |-> items], Root, known)
    IN  [has   |-> has,
         child |-> [i \in Objects |-> IF i \in has THEN child[i] ELSE Null],
         items |-> [i \in Objects |-> IF i \in has THEN items[i] ELSE <<>>]]

\* The server once it has taken what is on its way.
Coming ==
    LET after[n \in 0..Len(toServer)] ==
            IF n = 0 THEN server ELSE Applied(after[n - 1], toServer[n])
    IN  after[Len(toServer)]
-----------------------------------------------------------------------------
ServerInits ==
    {[has |-> {Root}, child |-> [i \in Objects |-> Null],
      items |-> [i \in Objects |-> <<>>]]}
    \cup {[has |-> {Root, x}, child |-> [i \in Objects |-> Null],
           items |-> [i \in Objects |-> IF i = Root THEN <<x>> ELSE <<>>]] : x \in Theirs}

Init ==
    /\ model = [child         |-> [i \in Objects |-> Null],
                items         |-> [i \in Objects |-> <<>>],
                parents       |-> [i \in Objects |-> {}],
                scope         |-> [i \in Objects |-> IF i = Root THEN "scope" ELSE "none"],
                fragments     |-> NoFragments,
                removed       |-> {},
                changesQueued |-> FALSE]
    /\ stated = FALSE
    /\ toServer = <<>>
    /\ server \in ServerInits
    /\ arrived = server.has \ {Root}
    /\ edits = 0 /\ writes = 0

\* The state of the scope: an add fragment for each of the server's objects.
OnScopeState ==
    /\ ~stated
    /\ stated' = TRUE
    /\ model' = ApplyRemote(model,
            [i \in Objects |-> IF i \in server.has
                THEN [type |-> "add", child |-> server.child[i], items |-> server.items[i]]
                ELSE NoFragment])
    /\ UNCHANGED <<toServer, server, arrived, edits, writes>>

\* What is taken from its place shares nothing below it with the rest.
MayTake(i) ==
    \A j \in Below(model, i) \ {i} : \A r \in model.parents[j] : r[1] \in Below(model, i)

\* What holds an object is all in the scope or all outside, and what is put
\* back before the next change set is as the server will have it anyway.
Unchanged(i) ==
    i \in model.removed => /\ i \in Coming.has
                           /\ Coming.child[i] = model.child[i]
                           /\ Coming.items[i] = model.items[i]
Inside(i) == model.scope[i] = "scope"
MayPut(p, i) ==
    /\ \A j \in Below(model, i) : \A r \in model.parents[j] :
          r[1] \in Below(model, i) \/ Inside(r[1]) = Inside(p)
    /\ Inside(p) => \A j \in Below(model, i) : Inside(j) \/ Unchanged(j)

\* A careful application; it sets no object where it is already, nor below.
Discipline(p, puts, takes) ==
    /\ \A i \in takes : MayTake(i) /\ puts \cap Below(model, i) = {}
    /\ \A i \in puts : MayPut(p, i)

Edit(p, puts, takes, after) ==
    /\ stated
    /\ edits < MaxEdits /\ edits' = edits + 1
    /\ Discipline(p, puts, takes)
    /\ model' = after
    /\ UNCHANGED <<stated, toServer, server, arrived, writes>>

\* What the application has a reference to, and what of it p may hold.
Seen == {Root} \cup Mine \cup arrived
Holdable(p) == {i \in Seen \ {Root} : p \notin Below(model, i)}

EditChild(p) ==
    \E i \in Holdable(p) \cup {Null} :
        Edit(p, {i} \ {Null}, {model.child[p]} \ {Null}, SetChild(model, p, i, FALSE))

\* A careful application does not reset a collection to only reorder it.
EditItems(p) ==
    LET items == model.items[p] IN
    \/ \E i \in Holdable(p) \ ToSet(items) :
          \/ Edit(p, {i}, {}, PushItem(model, p, i))
          \/ Edit(p, {i}, {}, UnshiftItem(model, p, i))
          \/ \E k \in DOMAIN items :
                Edit(p, {i}, {items[k]}, SpliceItems(model, p, k - 1, 1, <<i>>, FALSE))
    \/ Edit(p, {}, IF items = <<>> THEN {} ELSE {Last(items)}, PopItem(model, p))
    \/ Edit(p, {}, IF items = <<>> THEN {} ELSE {Head(items)}, ShiftItem(model, p))
    \/ \E new \in UNION {[1..n -> Holdable(p)] : n \in 0..2} :
          /\ IsInjective(new)
          /\ ToSet(new) # ToSet(items)
          /\ Edit(p, ToSet(new) \ ToSet(items), ToSet(items) \ ToSet(new),
                  ResetItems(model, p, new, FALSE))

EditDetach(i) == Edit(i, {}, {i} \ {Root}, Detach(model, i))

\* The change timer fires.
SendChanges ==
    /\ model.changesQueued
    /\ model' = [model EXCEPT !.changesQueued = FALSE, !.fragments = NoFragments,
                              !.removed = {}]
    /\ toServer' = IF model.fragments = NoFragments THEN toServer
                   ELSE Append(toServer, model.fragments)
    /\ UNCHANGED <<stated, server, arrived, edits, writes>>

ServerApplies ==
    /\ toServer # <<>>
    /\ server' = Applied(server, Head(toServer))
    /\ toServer' = Tail(toServer)
    /\ UNCHANGED <<model, stated, arrived, edits, writes>>

\* Another client's change set, and the sync it makes.
OnScopeSync(p, fragments) ==
    /\ stated
    /\ writes < MaxWrites /\ writes' = writes + 1
    /\ toServer = <<>> /\ ~model.changesQueued
    /\ server' = Applied(server, fragments)
    /\ arrived' = arrived \cup (server'.has \ ({Root} \cup Mine))
    /\ model' = ApplyRemote(model, fragments)
    /\ \A i \in Children(server, p) : MayTake(i)
    /\ UNCHANGED <<stated, toServer, edits>>

Writes(p) ==
    {[NoFragments EXCEPT ![p] = [NoFragment EXCEPT !.type = "change", !.child = Null]]}
    \cup {[NoFragments EXCEPT ![p] = [NoFragment EXCEPT !.type = "change", !.items = Tail(server.items[p])]]
            : n \in {1} \cap DOMAIN server.items[p]}
    \cup {[NoFragments EXCEPT ![p] = [NoFragment EXCEPT !.type = "change",
                                                        !.items = Append(server.items[p], x)],
                              ![x] = [type |-> "add", child |-> Null, items |-> <<>>]]
            : x \in Theirs \ arrived}

Next ==
    \/ OnScopeState
    \/ \E p \in Seen : EditChild(p) \/ EditItems(p) \/ EditDetach(p)
    \/ SendChanges
    \/ ServerApplies
    \/ \E p \in server.has : \E fragments \in Writes(p) : OnScopeSync(p, fragments)

Spec == Init /\ [][Next]_vars
-----------------------------------------------------------------------------
\* Properties.

\* An object knows as its parents exactly those that hold it.
ParentsMirror ==
    \A p, i \in Objects :
        /\ <<p, "child">> \in model.parents[i] <=> model.child[p] = i
        /\ <<p, "items">> \in model.parents[i] <=> Contains(model.items[p], i)

\* The scope has, and listens to, what can be reached from its root.
ScopeIsReached == Attached(model) = Below(model, Root)

\* With what is on its way and what is gathered so far the server will have
\* what the client has: nothing the application did is forgotten, whatever
\* it adds, moves, changes and removes before the timer fires.
ServerCatchesUp ==
    LET s == Applied(Coming, model.fragments)
    IN  stated => /\ s.has = Below(model, Root)
                  /\ \A i \in s.has : /\ s.child[i] = model.child[i]
                                      /\ s.items[i] = model.items[i]
=============================================================================
