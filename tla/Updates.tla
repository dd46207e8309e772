------------------------------ MODULE Updates ------------------------------
(***************************************************************************)
(* What writes to a scope of the server at the same time: queries of the   *)
(* application (scope.update) and change sets of clients that name a       *)
(* procedure.  Both wait for the scope's write lock, in order.  A query    *)
(* finds its object before and reads its collections once it has the lock; *)
(* a change set is verified against the procedure's constraints and sent   *)
(* to its remote end while it has the lock, and the updates the remote     *)
(* answers with are queries of their own after its release.                *)
(*                                                                         *)
(* The scope has a root object with a collection and one child, a group,   *)
(* with another.  An operation writes one collection, or detaches the      *)
(* group.                                                                  *)
(***************************************************************************)
EXTENDS Lists, Functions

CONSTANTS
    Requests,       \* queries and change sets
    Items,          \* model objects for the collections
    Arrays,         \* the sequences of them that requests name
    Constraints,    \* of the procedure that change sets name
    Unset,          \* a collection the change set does not name
    MaxOperations   \* bound: operators of a query, updates of a procedure

Owners == {"root", "group"}
Kinds == {"insert", "remove", "newValue", "any"}

ASSUME UpdatesAssumption ==
    /\ Arrays \subseteq Seq(Items)
    /\ Constraints \subseteq [cls : Owners, items : Kinds, additional : BOOLEAN]
    /\ Unset \notin Arrays
    /\ MaxOperations \in Nat

VARIABLES
    attached,   \* whether the group is still the root's child
    items,      \* the collection of each owner
    stage,      \* how far each request has got
    found,      \* the object a query works on
    updating,   \* change sets applied, whose updates are made
    todo,       \* the operations it still has to do
    changes,    \* the fragments of a change set, by owner
    bound,      \* what the operation at hand will set, by owner
    waiting,    \* who waits for the write lock: the first one has it
    failed,     \* requests that had an error
    due         \* what updates made one at a time leave in each collection

scopeVars == <<attached, items, due>>
vars == <<scopeVars, stage, found, updating, todo, changes, bound, waiting, failed>>

Operations ==
    [op : {"$push", "$addToSet", "$pull", "$set"}, path : {"", "child"}, array : Arrays]
    \cup {[op |-> "detach", path |-> "", array |-> <<>>]}

Stages == {"idle", "ready", "waiting", "bound", "done"}
Change == [Owners -> Seq(Items) \cup {Unset}]
Nothing == [o \in Owners |-> Unset]
Named(change) == {o \in Owners : change[o] # Unset}

TypeOK ==
    /\ attached \in BOOLEAN
    /\ items \in [Owners -> Seq(Items)]
    /\ stage \in [Requests -> Stages]
    /\ found \in [Requests -> Owners] /\ updating \subseteq Requests
    /\ todo \in [Requests -> Seq(Operations)]
    /\ changes \in [Requests -> Change] /\ bound \in [Requests -> Change]
    /\ waiting \in Seq(Requests)
    /\ failed \subseteq Requests
    /\ due \in [Owners -> SUBSET Items]

Init ==
    /\ attached = TRUE
    /\ items = [o \in Owners |-> <<>>]
    /\ stage = [r \in Requests |-> "idle"]
    /\ found = [r \in Requests |-> "root"] /\ updating = {}
    /\ todo = [r \in Requests |-> <<>>]
    /\ changes = [r \in Requests |-> Nothing]
    /\ bound = [r \in Requests |-> Nothing]
    /\ waiting = <<>>
    /\ failed = {}
    /\ due = [o \in Owners |-> {}]

InScope(o) == o = "root" \/ attached
IsSync(r) == Named(changes[r]) # {}

Goto(r, from, to) == stage[r] = from /\ stage' = [stage EXCEPT ![r] = to]
HasLock(r) == waiting # <<>> /\ Head(waiting) = r
Release == waiting' = Tail(waiting)
-----------------------------------------------------------------------------
\* A request begins.

\* The object is found by its uuid and type, or is the root; the operators
\* are prepared against its type.
StartQuery(r, o, operations) ==
    /\ Goto(r, "idle", "ready")
    /\ InScope(o)
    /\ \A i \in DOMAIN operations : o = "group" => operations[i].path = ""
                                                   /\ operations[i].op # "detach"
    /\ found' = [found EXCEPT ![r] = o]
    /\ todo' = [todo EXCEPT ![r] = operations]
    /\ UNCHANGED <<scopeVars, updating, changes, bound, waiting, failed>>

StartSync(r, change) ==
    /\ Goto(r, "idle", "ready")
    /\ Named(change) # {}
    /\ changes' = [changes EXCEPT ![r] = change]
    /\ UNCHANGED <<scopeVars, found, updating, todo, bound, waiting, failed>>

\* scope.lock.writeLock
AskForLock(r) ==
    /\ Goto(r, "ready", "waiting")
    /\ IsSync(r) \/ todo[r] # <<>>
    /\ waiting' = Append(waiting, r)
    /\ UNCHANGED <<scopeVars, found, updating, todo, changes, bound, failed>>
-----------------------------------------------------------------------------
\* Operations of a query.

\* The owner of the collection the operation names.
Owner(r) == IF Head(todo[r]).path = "child" THEN "group" ELSE found[r]
Resolves(r) == Head(todo[r]).path = "child" => attached

\* Mutant: what is pushed is pushed as one element.
PushAsOne(old, array) == Append(old, array)

Push(old, array) == old \o array
AddToSet(old, array) == old \o Without(array, Range(old))
Pull(old, array) == Without(old, Range(array))

\* The final value of the collection, from the one it has.
Final(operation, old) ==
    CASE operation.op = "$push" -> Push(old, operation.array)
      [] operation.op = "$addToSet" -> AddToSet(old, operation.array)
      [] operation.op = "$pull" -> Pull(old, operation.array)
      [] operation.op = "$set" -> operation.array
      [] OTHER -> old

\* A pull that takes nothing away is no fragment.
Fragment(r) ==
    LET final == Final(Head(todo[r]), items[Owner(r)])
    IN  IF Head(todo[r]).op = "$pull" /\ final = items[Owner(r)] THEN Nothing
        ELSE [Nothing EXCEPT ![Owner(r)] = final]

\* Mutant: the fragments are bound before the lock is had.
BindUnlocked(r) ==
    /\ Goto(r, "waiting", "bound")
    /\ ~IsSync(r) /\ Resolves(r)
    /\ bound' = [bound EXCEPT ![r] = Fragment(r)]
    /\ UNCHANGED <<scopeVars, found, updating, todo, changes, waiting, failed>>

BindFragments(r) ==
    /\ Goto(r, "waiting", "bound")
    /\ HasLock(r)
    /\ ~IsSync(r) /\ Resolves(r)
    /\ bound' = [bound EXCEPT ![r] = Fragment(r)]
    /\ UNCHANGED <<scopeVars, found, updating, todo, changes, waiting, failed>>

\* There is nothing at the key path: the query ends with an error, what its
\* earlier operators did stays.  Of the updates of a procedure, a query of
\* one operator each, the others are still made.
BindFails(r) ==
    /\ Goto(r, "waiting", "ready")
    /\ HasLock(r)
    /\ ~IsSync(r) /\ ~Resolves(r)
    /\ todo' = [todo EXCEPT ![r] = IF r \in updating THEN Tail(@) ELSE <<>>]
    /\ failed' = failed \cup {r}
    /\ Release
    /\ UNCHANGED <<scopeVars, found, updating, changes, bound>>
-----------------------------------------------------------------------------
\* The procedure of a change set.

\* Both insert and remove ask for a longer array.
Matches(constraint, o, array) ==
    /\ constraint.cls = o
    /\ \/ constraint.items = "any" /\ constraint.additional
       \/ constraint.items = "newValue"
       \/ /\ constraint.items \in {"insert", "remove"}
          /\ InScope(o) /\ Len(array) > Len(items[o])

MatchesAllConstraints(change) ==
    \A o \in Named(change) : \E k \in Constraints : Matches(k, o, change[o])

\* Mutant: the constraints are checked before the lock is had.
VerifyUnlocked(r) ==
    /\ Goto(r, "waiting", "bound")
    /\ IsSync(r) /\ MatchesAllConstraints(changes[r])
    /\ bound' = [bound EXCEPT ![r] = changes[r]]
    /\ UNCHANGED <<scopeVars, found, updating, todo, changes, waiting, failed>>

\* verifyAndExecute: the constraints are met, the remote end is asked,
Verify(r) ==
    /\ Goto(r, "waiting", "bound")
    /\ HasLock(r)
    /\ IsSync(r) /\ MatchesAllConstraints(changes[r])
    /\ bound' = [bound EXCEPT ![r] = changes[r]]
    /\ UNCHANGED <<scopeVars, found, updating, todo, changes, waiting, failed>>

\* or they are not, and all is refused.
Refuse(r) ==
    /\ Goto(r, "waiting", "done")
    /\ HasLock(r)
    /\ IsSync(r) /\ ~MatchesAllConstraints(changes[r])
    /\ failed' = failed \cup {r}
    /\ Release
    /\ UNCHANGED <<scopeVars, found, updating, todo, changes, bound>>

\* Mutant: an error of the remote end leaves the lock with the change set.
RemoteFailsLocked(r) ==
    /\ Goto(r, "bound", "done")
    /\ IsSync(r)
    /\ failed' = failed \cup {r}
    /\ UNCHANGED <<scopeVars, found, updating, todo, changes, bound, waiting>>

\* The remote end fails, answers with another status, or too late.
RemoteFails(r) ==
    /\ Goto(r, "bound", "done")
    /\ IsSync(r)
    /\ failed' = failed \cup {r}
    /\ Release
    /\ UNCHANGED <<scopeVars, found, updating, todo, changes, bound>>
-----------------------------------------------------------------------------
\* The fragments are applied and the lock is released.

\* What the operation at hand makes of what is due, on its own.
Effect(r, o) ==
    CASE IsSync(r) -> Range(changes[r][o])
      [] ~IsSync(r) /\ Head(todo[r]).op \in {"$push", "$addToSet"}
           -> due[o] \cup Range(Head(todo[r]).array)
      [] ~IsSync(r) /\ Head(todo[r]).op = "$pull" -> due[o] \ Range(Head(todo[r]).array)
      [] OTHER -> IF Head(todo[r]).op = "$set" THEN Range(Head(todo[r]).array) ELSE due[o]

Detaches(r) == ~IsSync(r) /\ Head(todo[r]).op = "detach"
Written(r) == {o \in Named(bound[r]) : InScope(o)}

\* A fragment for an object that is in the scope no more gets an error.  A
\* group that is detached is an orphan and lets go of its items.
ApplyBound(r) ==
    /\ attached' = (attached /\ ~Detaches(r))
    /\ items' = [o \in Owners |-> IF ~attached' /\ o = "group" THEN <<>>
                                  ELSE IF o \in Written(r) THEN bound[r][o] ELSE items[o]]
    /\ due' = [o \in Owners |-> IF ~attached' /\ o = "group" THEN {}
                                ELSE IF o \in Written(r) THEN Effect(r, o) ELSE due[o]]
    /\ failed' = IF Written(r) = Named(bound[r]) THEN failed ELSE failed \cup {r}

ApplyOperation(r) ==
    /\ Goto(r, "bound", "ready")
    /\ ~IsSync(r)
    /\ ApplyBound(r)
    /\ todo' = [todo EXCEPT ![r] = Tail(@)]
    /\ bound' = [bound EXCEPT ![r] = Nothing]
    /\ Release
    /\ UNCHANGED <<found, updating, changes>>

\* From here on the request is a query that makes the updates of the
\* procedure's result.
ApplySync(r, updates) ==
    /\ Goto(r, "bound", "ready")
    /\ IsSync(r)
    /\ ApplyBound(r)
    /\ todo' = [todo EXCEPT ![r] = updates]
    /\ changes' = [changes EXCEPT ![r] = Nothing]
    /\ bound' = [bound EXCEPT ![r] = Nothing]
    /\ Release
    /\ updating' = updating \cup {r}
    /\ UNCHANGED found

Answer(r) ==
    /\ Goto(r, "ready", "done")
    /\ ~IsSync(r) /\ todo[r] = <<>>
    /\ UNCHANGED <<scopeVars, found, updating, todo, changes, bound, waiting, failed>>

OperationLists == UNION {[1..n -> Operations] : n \in 0..MaxOperations}

Proceed(r) ==
    \/ AskForLock(r)
    \/ BindFragments(r) \/ BindFails(r) \/ ApplyOperation(r)
    \/ Verify(r) \/ Refuse(r) \/ RemoteFails(r)
    \/ \E updates \in OperationLists : ApplySync(r, updates)
    \/ Answer(r)

Next ==
    \E r \in Requests :
        \/ \E o \in Owners, operations \in OperationLists : StartQuery(r, o, operations)
        \/ \E change \in [Owners -> Arrays \cup {Unset}] : StartSync(r, change)
        \/ Proceed(r)

Spec == Init /\ [][Next]_vars
FairSpec == Spec /\ \A r \in Requests : WF_vars(Proceed(r))
-----------------------------------------------------------------------------
\* Properties.

\* Each collection holds what the operations, one at a time, leave in it: no
\* push is lost and nothing pulled comes back, whoever else writes between
\* the time a query is made and the time it is applied.
Serial == \A o \in Owners : Range(items[o]) = due[o]

Inserted == {o \in Owners : \A k \in Constraints : k.cls = o => k.items = "insert"}

\* What the procedure allows only as an insert makes the collection longer
\* when it is applied, the remote call in between notwithstanding.
GrowsAsVerified ==
    [][\A r \in Requests : IsSync(r) /\ stage[r] = "bound" /\ stage'[r] = "ready" =>
          \A o \in Inserted \cap Named(changes[r]) : Len(items'[o]) > Len(items[o])]_vars

\* Every request is answered: no error leaves the lock behind.
Answered == \A r \in Requests : stage[r] # "idle" ~> stage[r] = "done"
=============================================================================
