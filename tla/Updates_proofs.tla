---------------------------- MODULE Updates_proofs ----------------------------
(***************************************************************************)
(* For any number of queries and change sets: what a change set was        *)
(* verified against is what it is applied to, and the collections hold     *)
(* what the operations leave in them one at a time.  A request between the *)
(* binding of its fragments and their application is the first of those    *)
(* who wait for the lock, so that nobody else writes meanwhile, and what   *)
(* it has bound is still the fragment that it would bind now.              *)
(***************************************************************************)
EXTENDS Updates, ListFacts

\* Steps change functions of the requests.
Domains ==
    /\ DOMAIN stage = Requests
    /\ DOMAIN changes = Requests
    /\ DOMAIN bound = Requests

\* Who has bound its fragments has the lock.
LockInv == \A r \in Requests : stage[r] = "bound" => HasLock(r)

\* A change set whose remote end has been asked would pass once more.
VerifiedInv ==
    \A r \in Requests : stage[r] = "bound" /\ IsSync(r) =>
        bound[r] = changes[r] /\ MatchesAllConstraints(changes[r])

IInv == Domains /\ waiting \in Seq(Requests) /\ LockInv /\ VerifiedInv
-----------------------------------------------------------------------------
\* At first nobody has bound anything.
LEMMA InitIInv == Init => IInv
  <1> SUFFICES ASSUME Init PROVE IInv
    OBVIOUS
  <1>1. Domains /\ waiting \in Seq(Requests)
    BY DEF Init, Domains
  <1>2. \A r \in Requests : stage[r] # "bound"
    BY DEF Init
  <1> QED  BY <1>1, <1>2 DEF IInv, LockInv, VerifiedInv

\* One who has asked for the lock before keeps its place.
LEMMA Queued ==
    ASSUME NEW q \in Seq(Requests), NEW r \in Requests
    PROVE  /\ Append(q, r) \in Seq(Requests)
           /\ Append(q, r) # <<>>
           /\ q # <<>> => Head(Append(q, r)) = Head(q)
  <1>1. /\ Append(q, r) \in Seq(Requests) /\ Len(q) \in Nat
        /\ Len(Append(q, r)) = Len(q) + 1
        /\ \A i \in 1..Len(q) : Append(q, r)[i] = q[i]
    OBVIOUS
  <1>2. Append(q, r) # <<>>
    <2>1. Len(Append(q, r)) > 0
      BY <1>1
    <2>2. Len(<<>>) = 0
      OBVIOUS
    <2> QED  BY <2>1, <2>2
  <1>3. ASSUME q # <<>> PROVE Head(Append(q, r)) = Head(q)
    <2>1. 1 \in 1..Len(q) /\ Head(q) = q[1]
      BY <1>3
    <2>2. Head(Append(q, r)) = Append(q, r)[1]
      BY <1>1, <1>2
    <2> QED  BY <1>1, <2>1, <2>2
  <1> QED  BY <1>1, <1>2, <1>3

\* A step that neither binds nor writes anything.
LEMMA OtherStep ==
    ASSUME IInv, NEW r \in Requests, NEW from, NEW to,
           Goto(r, from, to), to # "bound",
           UNCHANGED <<attached, items, bound>>,
           \A p \in Requests \ {r} : changes'[p] = changes[p], DOMAIN changes' = Requests,
           waiting' \in Seq(Requests),
           \A p \in Requests \ {r} : HasLock(p) => HasLock(p)'
    PROVE  IInv'
  <1>1. /\ DOMAIN stage' = Requests /\ stage'[r] = to
        /\ \A p \in Requests \ {r} : stage'[p] = stage[p]
    BY DEF IInv, Domains, Goto
  <1>2. Domains'
    BY <1>1 DEF IInv, Domains
  <1>3. LockInv'
    BY <1>1 DEF IInv, LockInv
  <1>4. VerifiedInv'
    <2> SUFFICES ASSUME NEW p \in Requests, stage'[p] = "bound", IsSync(p)'
                 PROVE  bound'[p] = changes'[p] /\ MatchesAllConstraints(changes[p])'
      BY DEF VerifiedInv
    <2>1. p # r /\ stage[p] = "bound" /\ changes'[p] = changes[p]
      BY <1>1
    <2>2. bound[p] = changes[p] /\ MatchesAllConstraints(changes[p])
      BY <2>1 DEF IInv, VerifiedInv, IsSync
    <2> QED  BY <2>1, <2>2 DEF MatchesAllConstraints, Matches, InScope
  <1> QED  BY <1>2, <1>3, <1>4 DEF IInv

\* A step of one who has the lock, that binds.
LEMMA BindStep ==
    ASSUME IInv, NEW r \in Requests, Goto(r, "waiting", "bound"), HasLock(r),
           DOMAIN bound' = Requests, \A p \in Requests \ {r} : bound'[p] = bound[p],
           IsSync(r) => bound'[r] = changes[r] /\ MatchesAllConstraints(changes[r]),
           UNCHANGED <<scopeVars, changes, waiting>>
    PROVE  IInv'
  <1>1. /\ DOMAIN stage' = Requests
        /\ \A p \in Requests \ {r} : stage'[p] = stage[p]
    BY DEF IInv, Domains, Goto
  <1>2. Domains'
    BY <1>1 DEF IInv, Domains
  <1>3. LockInv'
    BY <1>1 DEF IInv, LockInv, HasLock
  <1>4. VerifiedInv'
    <2> SUFFICES ASSUME NEW p \in Requests, stage'[p] = "bound", IsSync(p)'
                 PROVE  bound'[p] = changes[p] /\ MatchesAllConstraints(changes[p])'
      BY DEF VerifiedInv
    <2>1. bound'[p] = changes[p] /\ MatchesAllConstraints(changes[p])
      BY <1>1 DEF IInv, VerifiedInv, IsSync
    <2> QED  BY <2>1 DEF MatchesAllConstraints, Matches, InScope, scopeVars
  <1> QED  BY <1>2, <1>3, <1>4 DEF IInv

\* A step of the one who has the lock that gives it back: nobody else is
\* between binding and writing.
LEMMA ReleaseStep ==
    ASSUME IInv, NEW r \in Requests, NEW from, NEW to,
           Goto(r, from, to), to # "bound", HasLock(r), Release,
           DOMAIN changes' = Requests, DOMAIN bound' = Requests
    PROVE  IInv'
  <1>1. /\ DOMAIN stage' = Requests /\ stage'[r] = to
        /\ \A p \in Requests \ {r} : stage'[p] = stage[p]
    BY DEF IInv, Domains, Goto
  <1>2. \A p \in Requests : stage'[p] # "bound"
    BY <1>1 DEF IInv, LockInv, HasLock
  <1>3. waiting' \in Seq(Requests)
    BY DEF IInv, Release, HasLock
  <1> QED  BY <1>1, <1>2, <1>3 DEF IInv, Domains, LockInv, VerifiedInv
-----------------------------------------------------------------------------
\* Each step keeps the invariant.
LEMMA NextIInv == IInv /\ [Next]_vars => IInv'
  <1> SUFFICES ASSUME IInv, [Next]_vars PROVE IInv'
    OBVIOUS
  <1>0. Domains /\ \A r \in Requests : stage[r] = "bound" => HasLock(r)
    BY DEF IInv, LockInv
  <1>1. CASE UNCHANGED vars
    BY <1>1 DEF vars, scopeVars, IInv, Domains, LockInv, HasLock, VerifiedInv, IsSync,
                MatchesAllConstraints, Matches, InScope
  <1>2. ASSUME NEW r \in Requests, NEW o \in Owners, NEW operations \in OperationLists,
               StartQuery(r, o, operations)
        PROVE  IInv'
    <2>1. /\ Goto(r, "idle", "ready")
          /\ UNCHANGED <<scopeVars, changes, bound, waiting>>
      BY <1>2 DEF StartQuery
    <2> QED  BY <1>0, <2>1, OtherStep DEF IInv, Domains, HasLock, scopeVars
  <1>3. ASSUME NEW r \in Requests, NEW change, StartSync(r, change)
        PROVE  IInv'
    <2>1. /\ Goto(r, "idle", "ready")
          /\ changes' = [changes EXCEPT ![r] = change]
          /\ UNCHANGED <<scopeVars, bound, waiting>>
      BY <1>3 DEF StartSync
    <2>2. DOMAIN changes' = Requests /\ \A p \in Requests \ {r} : changes'[p] = changes[p]
      BY <1>0, <2>1 DEF Domains
    <2> QED  BY <2>1, <2>2, OtherStep DEF IInv, HasLock, scopeVars
  <1>4. ASSUME NEW r \in Requests, AskForLock(r)
        PROVE  IInv'
    <2>1. /\ Goto(r, "ready", "waiting")
          /\ waiting' = Append(waiting, r)
          /\ UNCHANGED <<scopeVars, changes, bound>>
      BY <1>4 DEF AskForLock
    <2>2. waiting' \in Seq(Requests) /\ \A p \in Requests : HasLock(p) => HasLock(p)'
      BY <2>1, Queued DEF IInv, HasLock
    <2> QED  BY <1>0, <2>1, <2>2, OtherStep DEF Domains, scopeVars
  <1>5. ASSUME NEW r \in Requests, BindFragments(r)
        PROVE  IInv'
    <2>1. /\ Goto(r, "waiting", "bound") /\ HasLock(r) /\ ~IsSync(r)
          /\ bound' = [bound EXCEPT ![r] = Fragment(r)]
          /\ UNCHANGED <<scopeVars, changes, waiting>>
      BY <1>5 DEF BindFragments
    <2> QED  BY <1>0, <2>1, BindStep DEF Domains
  <1>6. ASSUME NEW r \in Requests, Verify(r)
        PROVE  IInv'
    <2>1. /\ Goto(r, "waiting", "bound") /\ HasLock(r)
          /\ MatchesAllConstraints(changes[r])
          /\ bound' = [bound EXCEPT ![r] = changes[r]]
          /\ UNCHANGED <<scopeVars, changes, waiting>>
      BY <1>6 DEF Verify
    <2> QED  BY <1>0, <2>1, BindStep DEF Domains
  <1>7. ASSUME NEW r \in Requests, BindFails(r) \/ Refuse(r)
        PROVE  IInv'
    <2>1. CASE BindFails(r)
      BY <1>0, <2>1, ReleaseStep DEF BindFails, Domains
    <2>2. CASE Refuse(r)
      BY <1>0, <2>2, ReleaseStep DEF Refuse, Domains
    <2> QED  BY <1>7, <2>1, <2>2
  <1>8. ASSUME NEW r \in Requests, RemoteFails(r)
        PROVE  IInv'
    BY <1>0, <1>8, ReleaseStep DEF RemoteFails, Goto, Domains
  <1>9. ASSUME NEW r \in Requests, ApplyOperation(r)
        PROVE  IInv'
    <2>1. /\ Goto(r, "bound", "ready") /\ Release
          /\ bound' = [bound EXCEPT ![r] = Nothing] /\ changes' = changes
      BY <1>9 DEF ApplyOperation
    <2> QED  BY <1>0, <2>1, ReleaseStep DEF Goto, Domains
  <1>10. ASSUME NEW r \in Requests, NEW updates, ApplySync(r, updates)
         PROVE  IInv'
    <2>1. /\ Goto(r, "bound", "ready") /\ Release
          /\ bound' = [bound EXCEPT ![r] = Nothing]
          /\ changes' = [changes EXCEPT ![r] = Nothing]
      BY <1>10 DEF ApplySync
    <2> QED  BY <1>0, <2>1, ReleaseStep DEF Goto, Domains
  <1>11. ASSUME NEW r \in Requests, Answer(r)
         PROVE  IInv'
    <2>1. Goto(r, "ready", "done") /\ UNCHANGED <<scopeVars, changes, bound, waiting>>
      BY <1>11 DEF Answer
    <2> QED  BY <1>0, <2>1, OtherStep DEF IInv, Domains, HasLock, scopeVars
  <1> QED
    BY <1>1, <1>2, <1>3, <1>4, <1>5, <1>6, <1>7, <1>8, <1>9, <1>10, <1>11
       DEF Next, Proceed

\* So it holds for ever.
LEMMA Inductive == Spec => []IInv
  <1> QED  BY InitIInv, NextIInv, PTL DEF Spec
-----------------------------------------------------------------------------
\* A change set that is applied makes what it may only insert into longer.
LEMMA AppliedGrows ==
    ASSUME IInv, NEW r \in Requests, NEW updates, ApplySync(r, updates),
           NEW o \in Inserted \cap Named(changes[r])
    PROVE  Len(items'[o]) > Len(items[o])
  <1>1. /\ stage[r] = "bound" /\ IsSync(r) /\ ApplyBound(r)
    BY DEF ApplySync, Goto
  <1>2. bound[r] = changes[r] /\ MatchesAllConstraints(changes[r])
    BY <1>1 DEF IInv, VerifiedInv
  <1>3. o \in Owners
    BY DEF Inserted
  <1>4. PICK k \in Constraints : Matches(k, o, changes[r][o])
    BY <1>2 DEF MatchesAllConstraints
  <1>5. k.items = "insert"
    BY <1>4 DEF Inserted, Matches
  <1>6. InScope(o) /\ Len(changes[r][o]) > Len(items[o])
    BY <1>4, <1>5 DEF Matches
  <1>7. InScope(o)' /\ o \in Written(r)
    BY <1>1, <1>2, <1>6 DEF ApplyBound, Detaches, Written, InScope
  <1>8. items'[o] = bound[r][o]
    BY <1>1, <1>3, <1>7 DEF ApplyBound, InScope
  <1> QED  BY <1>2, <1>6, <1>8

\* What the procedure allows only as an insert makes the collection longer
\* when it is applied, however long the remote end takes to answer and
\* whoever else wants to write.
THEOREM AppliedAsVerified == Spec => GrowsAsVerified
  <1> DEFINE Grows == \A r \in Requests : IsSync(r) /\ stage[r] = "bound" /\ stage'[r] = "ready" =>
                 \A o \in Inserted \cap Named(changes[r]) : Len(items'[o]) > Len(items[o])
  <1>1. IInv /\ [Next]_vars => [Grows]_vars
    <2> SUFFICES ASSUME IInv, Next, NEW r \in Requests, IsSync(r),
                        stage[r] = "bound", stage'[r] = "ready",
                        NEW o \in Inserted \cap Named(changes[r])
                 PROVE  Len(items'[o]) > Len(items[o])
      OBVIOUS
    <2>1. \A p \in Requests : \A from, to : Goto(p, from, to) => p = r \/ stage'[r] = stage[r]
      BY DEF IInv, Domains, Goto
    <2>2. \A from, to : Goto(r, from, to) => from = "bound" /\ to = "ready"
      BY DEF IInv, Domains, Goto
    <2>3. PICK p \in Requests :
             \/ \E q \in Owners, operations \in OperationLists : StartQuery(p, q, operations)
             \/ \E change \in [Owners -> Arrays \cup {Unset}] : StartSync(p, change)
             \/ Proceed(p)
      BY DEF Next
    <2>4. \E from, to : Goto(p, from, to)
      <3>1. ASSUME Proceed(p) PROVE \E from, to : Goto(p, from, to)
        BY <3>1 DEF Proceed, AskForLock, BindFragments, BindFails, ApplyOperation, Verify,
                    Refuse, RemoteFails, ApplySync, Answer
      <3> QED  BY <2>3, <3>1 DEF StartQuery, StartSync
    <2>5. p = r
      BY <2>1, <2>4
    <2>6. Proceed(r)
      <3>1. ASSUME NEW q, NEW operations, StartQuery(r, q, operations) PROVE FALSE
        <4>1. Goto(r, "idle", "ready")
          BY <3>1, Zenon DEF StartQuery
        <4> QED  BY <2>2, <4>1
      <3>2. ASSUME NEW change, StartSync(r, change) PROVE FALSE
        BY <2>2, <3>2 DEF StartSync
      <3> QED  BY <2>3, <2>5, <3>1, <3>2
    <2>7. \E updates \in OperationLists : ApplySync(r, updates)
      <3>1. ~AskForLock(r) /\ ~BindFragments(r) /\ ~BindFails(r) /\ ~Answer(r)
        BY <2>2 DEF AskForLock, BindFragments, BindFails, Answer
      <3>2. ~Verify(r) /\ ~Refuse(r) /\ ~RemoteFails(r) /\ ~ApplyOperation(r)
        BY <2>2 DEF Verify, Refuse, RemoteFails, ApplyOperation
      <3> QED  BY <2>6, <3>1, <3>2 DEF Proceed
    <2> QED  BY <2>7, AppliedGrows
  <1> QED  BY <1>1, Inductive, PTL DEF Spec, GrowsAsVerified
-----------------------------------------------------------------------------
\* Types.

\* Who waits for the lock, or has it, has something to do with it.
TodoInv ==
    \A r \in Requests :
        stage[r] \in {"waiting", "bound"} /\ ~IsSync(r) => todo[r] # <<>>

\* A list of operations is a sequence of them.
LEMMA ListsTyped == OperationLists \subseteq Seq(Operations)
  <1> SUFFICES ASSUME NEW n \in 0..MaxOperations, NEW l \in [1..n -> Operations]
               PROVE  l \in Seq(Operations)
    BY DEF OperationLists
  <1>1. n \in Nat
    BY UpdatesAssumption
  <1> QED  BY <1>1

\* What an operation is and the array it has.
LEMMA OperationTyped ==
    ASSUME NEW operation \in Operations
    PROVE  /\ operation.op \in {"$push", "$addToSet", "$pull", "$set", "detach"}
           /\ operation.array \in Seq(Items)
  <1>1. CASE operation \in [op : {"$push", "$addToSet", "$pull", "$set"},
                            path : {"", "child"}, array : Arrays]
    <2>1. operation.op \in {"$push", "$addToSet", "$pull", "$set"} /\ operation.array \in Arrays
      BY <1>1
    <2> QED  BY <2>1, UpdatesAssumption
  <1>2. CASE operation = [op |-> "detach", path |-> "", array |-> <<>>]
    <2>1. operation.op = "detach" /\ operation.array = <<>>
      BY <1>2
    <2>2. <<>> \in Seq(Items)
      OBVIOUS
    <2> QED  BY <2>1, <2>2
  <1> QED  BY <1>1, <1>2 DEF Operations

\* What the operators make of a collection is one.
LEMMA FinalTyped ==
    ASSUME NEW operation \in Operations, NEW old \in Seq(Items)
    PROVE  operation.array \in Seq(Items) /\ Final(operation, old) \in Seq(Items)
  <1>1. operation.array \in Seq(Items)
    BY OperationTyped
  <1>2. Push(old, operation.array) \in Seq(Items)
    BY <1>1 DEF Push
  <1>3. AddToSet(old, operation.array) \in Seq(Items)
    BY <1>1, WithoutType DEF AddToSet
  <1>4. Pull(old, operation.array) \in Seq(Items)
    BY WithoutType DEF Pull
  <1> QED  BY <1>1, <1>2, <1>3, <1>4 DEF Final

\* What is bound is an array, or nothing.
LEMMA FragmentTyped ==
    ASSUME TypeOK, NEW r \in Requests, todo[r] # <<>>
    PROVE  /\ Head(todo[r]) \in Operations /\ Owner(r) \in Owners
           /\ items[Owner(r)] \in Seq(Items)
           /\ Fragment(r) \in Change
  <1>1. Head(todo[r]) \in Operations /\ Owner(r) \in Owners
    BY DEF TypeOK, Owner, Owners
  <1>2. items[Owner(r)] \in Seq(Items)
    BY <1>1 DEF TypeOK
  <1>3. Final(Head(todo[r]), items[Owner(r)]) \in Seq(Items)
    BY <1>1, <1>2, FinalTyped
  <1>4. Nothing \in Change
    BY DEF Nothing, Change
  <1> QED  BY <1>1, <1>2, <1>3, <1>4 DEF Fragment, Change

\* What a request has bound is what it will write: for a query, its fragment.
BoundInv ==
    \A r \in Requests : stage[r] = "bound" /\ ~IsSync(r) => bound[r] = Fragment(r)

\* What an operator makes of a collection has the items that are due.
LEMMA FinalDue ==
    ASSUME TypeOK, Serial, NEW r \in Requests, ~IsSync(r), todo[r] # <<>>,
           bound[r] = Fragment(r), NEW o \in Named(bound[r])
    PROVE  Range(bound[r][o]) = Effect(r, o)
  <1> DEFINE operation == Head(todo[r])
             old == items[o]
             array == operation.array
  <1>1. operation \in Operations /\ array \in Seq(Items)
    BY FragmentTyped, FinalTyped
  <1>2. o = Owner(r) /\ bound[r][o] = Final(operation, old)
    BY FragmentTyped DEF Named, Fragment, Nothing
  <1>3. o \in Owners /\ old \in Seq(Items) /\ Range(old) = due[o]
    BY DEF Named, TypeOK, Serial
  <1>4. operation.op \in {"$push", "$addToSet", "$pull", "$set", "detach"}
    BY <1>1, OperationTyped
  <1> HIDE DEF operation, old, array
  <1>5. \A s, u \in Seq(Items) : Range(s \o u) = Range(s) \cup Range(u)
    <2> SUFFICES ASSUME NEW s \in Seq(Items), NEW u \in Seq(Items)
                 PROVE  Range(s \o u) = Range(s) \cup Range(u)
      OBVIOUS
    <2>1. /\ DOMAIN s = 1..Len(s) /\ DOMAIN u = 1..Len(u)
          /\ DOMAIN (s \o u) = 1..(Len(s) + Len(u)) /\ Len(s) \in Nat /\ Len(u) \in Nat
          /\ \A i \in 1..Len(s) : (s \o u)[i] = s[i]
          /\ \A i \in 1..Len(u) : (s \o u)[Len(s) + i] = u[i]
      OBVIOUS
    <2>2. \A i \in DOMAIN (s \o u) : i \in DOMAIN s \/ i - Len(s) \in DOMAIN u
      BY <2>1
    <2>3. Range(s \o u) \subseteq Range(s) \cup Range(u)
      BY <2>1, <2>2 DEF Range
    <2>4. Range(s) \subseteq Range(s \o u)
      BY <2>1 DEF Range
    <2>5. Range(u) \subseteq Range(s \o u)
      <3>1. \A i \in DOMAIN u : Len(s) + i \in DOMAIN (s \o u)
        BY <2>1
      <3> QED  BY <2>1, <3>1 DEF Range
    <2> QED  BY <2>3, <2>4, <2>5
  <1>6. CASE operation.op = "$push"
    <2>1. Range(bound[r][o]) = Range(old \o array)
      BY <1>2, <1>6 DEF Final, Push, array
    <2>2. Effect(r, o) = due[o] \cup Range(array)
      BY <1>6 DEF Effect, operation, array
    <2> QED  BY <1>1, <1>3, <1>5, <2>1, <2>2
  <1>7. CASE operation.op = "$addToSet"
    <2>1. Range(bound[r][o]) = Range(old \o Without(array, Range(old)))
      BY <1>2, <1>7 DEF Final, AddToSet, array
    <2>2. Effect(r, o) = due[o] \cup Range(array)
      BY <1>7 DEF Effect, operation, array
    <2>3. /\ Without(array, Range(old)) \in Seq(Items)
          /\ Range(Without(array, Range(old))) = Range(array) \ Range(old)
      BY <1>1, WithoutType, WithoutRange
    <2> QED  BY <1>3, <1>5, <2>1, <2>2, <2>3
  <1>8. CASE operation.op = "$pull"
    <2>1. Range(bound[r][o]) = Range(Without(old, Range(array)))
      BY <1>2, <1>8 DEF Final, Pull, array
    <2>2. Effect(r, o) = due[o] \ Range(array)
      BY <1>8 DEF Effect, operation, array
    <2> QED  BY <1>3, <2>1, <2>2, WithoutRange
  <1>9. CASE operation.op = "$set"
    <2>1. Range(bound[r][o]) = Range(array)
      BY <1>2, <1>9 DEF Final, array
    <2>2. Effect(r, o) = Range(array)
      BY <1>9 DEF Effect, operation, array
    <2> QED  BY <2>1, <2>2
  <1>10. CASE operation.op = "detach"
    <2>1. Range(bound[r][o]) = Range(old)
      BY <1>2, <1>10 DEF Final
    <2>2. Effect(r, o) = due[o]
      BY <1>10 DEF Effect, operation
    <2> QED  BY <1>3, <2>1, <2>2
  <1> QED  BY <1>4, <1>6, <1>7, <1>8, <1>9, <1>10

\* What is applied is what is due, and keeps the types of the scope.
LEMMA ApplyDue ==
    ASSUME IInv, TypeOK, TodoInv, BoundInv, Serial,
           NEW r \in Requests, stage[r] = "bound", ApplyBound(r)
    PROVE  /\ Serial'
           /\ attached' \in BOOLEAN /\ items' \in [Owners -> Seq(Items)]
           /\ failed' \subseteq Requests /\ due' \in [Owners -> SUBSET Items]
  <1>1. attached' \in BOOLEAN
    BY DEF ApplyBound
  <1>2. failed' \subseteq Requests
    BY DEF ApplyBound, TypeOK
  <1>3. items' \in [Owners -> Seq(Items)]
    <2>1. \A o \in Written(r) : bound[r][o] \in Seq(Items)
      BY DEF TypeOK, Written, Named, Change
    <2>2. \A o \in Owners : items[o] \in Seq(Items) /\ <<>> \in Seq(Items)
      BY DEF TypeOK
    <2> QED  BY <2>1, <2>2, Zenon DEF ApplyBound
  <1>4. Serial'
    <2>1. \A o \in Written(r) : Range(bound[r][o]) = Effect(r, o)
      <3> SUFFICES ASSUME NEW o \in Written(r) PROVE Range(bound[r][o]) = Effect(r, o)
        OBVIOUS
      <3>1. o \in Named(bound[r])
        BY DEF Written
      <3>2. CASE IsSync(r)
        BY <3>2 DEF IInv, VerifiedInv, Effect
      <3>3. CASE ~IsSync(r)
        BY <3>1, <3>3, FinalDue DEF BoundInv, TodoInv
      <3> QED  BY <3>2, <3>3
    <2>2. Range(<<>>) = {}
      BY DEF Range
    <2>3. \A o \in Owners : Range(items[o]) = due[o]
      BY DEF Serial
    <2> SUFFICES ASSUME NEW o \in Owners PROVE Range(items'[o]) = due'[o]
      BY DEF Serial
    <2>4. CASE ~attached' /\ o = "group"
      <3>1. items'[o] = <<>> /\ due'[o] = {}
        BY <2>4, Zenon DEF ApplyBound
      <3> QED  BY <2>2, <3>1
    <2>5. CASE ~(~attached' /\ o = "group") /\ o \in Written(r)
      BY <2>1, <2>5, Zenon DEF ApplyBound
    <2>6. CASE ~(~attached' /\ o = "group") /\ o \notin Written(r)
      BY <2>3, <2>6, Zenon DEF ApplyBound
    <2> QED  BY <2>4, <2>5, <2>6
  <1>5. due' \in [Owners -> SUBSET Items]
    <2>1. DOMAIN due' = Owners /\ due' = [o \in Owners |-> due'[o]]
      BY DEF ApplyBound
    <2>2. ASSUME NEW o \in Owners PROVE due'[o] \in SUBSET Items
      <3>1. items'[o] \in Seq(Items) /\ due'[o] = Range(items'[o])
        BY <1>3, <1>4 DEF Serial
      <3> QED  BY <3>1 DEF Range
    <2> QED  BY <2>1, <2>2
  <1> QED  BY <1>1, <1>2, <1>3, <1>4, <1>5
-----------------------------------------------------------------------------
\* The inductive invariant of Serial.
FullInv == IInv /\ TypeOK /\ TodoInv /\ BoundInv /\ Serial

\* What the step of r leaves of the other requests, and of the scope.
OthersKept(r) ==
    \A p \in Requests \ {r} :
        changes'[p] = changes[p] /\ todo'[p] = todo[p] /\ found'[p] = found[p]
        /\ bound'[p] = bound[p]

\* The stage of one request changes, the others keep theirs.
LEMMA Moved ==
    ASSUME TypeOK, NEW r \in Requests, NEW from, NEW to \in Stages, Goto(r, from, to)
    PROVE  /\ stage' \in [Requests -> Stages] /\ stage[r] = from /\ stage'[r] = to
           /\ \A p \in Requests \ {r} : stage'[p] = stage[p]
  BY DEF TypeOK, Goto

\* A step that writes nothing and binds nothing.
LEMMA OtherKeeps ==
    ASSUME FullInv, NEW r \in Requests, NEW from, NEW to \in Stages, Goto(r, from, to),
           to # "bound", OthersKept(r), UNCHANGED scopeVars,
           to = "waiting" /\ ~IsSync(r)' => todo'[r] # <<>>
    PROVE  TodoInv' /\ BoundInv' /\ Serial'
  <1>1. /\ stage'[r] = to
        /\ \A p \in Requests \ {r} : stage'[p] = stage[p]
    BY Moved DEF FullInv
  <1>2. TodoInv'
    <2> SUFFICES ASSUME NEW p \in Requests, stage'[p] \in {"waiting", "bound"}, ~IsSync(p)'
                 PROVE  todo'[p] # <<>>
      BY DEF TodoInv
    <2>1. CASE p = r
      BY <1>1, <2>1
    <2>2. CASE p # r
      BY <1>1, <2>2 DEF FullInv, TodoInv, OthersKept, IsSync
    <2> QED  BY <2>1, <2>2
  <1>3. BoundInv'
    <2> SUFFICES ASSUME NEW p \in Requests, stage'[p] = "bound", ~IsSync(p)'
                 PROVE  bound'[p] = Fragment(p)'
      BY DEF BoundInv
    <2>1. p # r /\ stage[p] = "bound" /\ ~IsSync(p)
      BY <1>1 DEF OthersKept, IsSync
    <2>2. bound[p] = Fragment(p)
      BY <2>1 DEF FullInv, BoundInv
    <2>3. todo'[p] = todo[p] /\ found'[p] = found[p] /\ items' = items /\ bound'[p] = bound[p]
      BY <2>1 DEF OthersKept, scopeVars
    <2>4. Fragment(p)' = Fragment(p)
      BY <2>3 DEF Fragment, Owner
    <2> QED  BY <2>2, <2>3, <2>4
  <1>4. Serial'
    BY DEF FullInv, Serial, scopeVars
  <1> QED  BY <1>2, <1>3, <1>4

\* A step that binds what it will write.
LEMMA BindKeeps ==
    ASSUME FullInv, NEW r \in Requests, Goto(r, "waiting", "bound"),
           ~IsSync(r) => bound'[r] = Fragment(r),
           \A p \in Requests \ {r} : bound'[p] = bound[p],
           UNCHANGED <<scopeVars, found, updating, todo, changes>>
    PROVE  TodoInv' /\ BoundInv' /\ Serial'
  <1>1. /\ stage'[r] = "bound" /\ stage[r] = "waiting"
        /\ \A p \in Requests \ {r} : stage'[p] = stage[p]
    BY Moved DEF FullInv, Stages
  <1>2. TodoInv'
    BY <1>1 DEF FullInv, TodoInv, IsSync
  <1>3. BoundInv'
    <2> SUFFICES ASSUME NEW p \in Requests, stage'[p] = "bound", ~IsSync(p)'
                 PROVE  bound'[p] = Fragment(p)'
      BY DEF BoundInv
    <2>1. ~IsSync(p) /\ Fragment(p)' = Fragment(p)
      BY DEF IsSync, Fragment, Owner, scopeVars
    <2> QED  BY <1>1, <2>1 DEF FullInv, BoundInv
  <1>4. Serial'
    BY DEF FullInv, Serial, scopeVars
  <1> QED  BY <1>2, <1>3, <1>4

\* A step that writes: nobody else has bound anything.
LEMMA WriteKeeps ==
    ASSUME FullInv, NEW r \in Requests, Goto(r, "bound", "ready"), ApplyBound(r),
           OthersKept(r)
    PROVE  TodoInv' /\ BoundInv' /\ Serial'
  <1>1. /\ stage[r] = "bound" /\ stage'[r] = "ready"
        /\ \A p \in Requests \ {r} : stage'[p] = stage[p]
    BY Moved DEF FullInv, Stages
  <1>2. \A p \in Requests : stage'[p] # "bound"
    BY <1>1 DEF FullInv, IInv, LockInv, HasLock
  <1>3. TodoInv'
    BY <1>1 DEF FullInv, TodoInv, IsSync, OthersKept
  <1>4. BoundInv'
    BY <1>2 DEF BoundInv
  <1>5. Serial'
    BY <1>1, ApplyDue DEF FullInv
  <1> QED  BY <1>3, <1>4, <1>5
-----------------------------------------------------------------------------
\* Each step keeps the whole invariant.
LEMMA NextFull == FullInv /\ [Next]_vars => FullInv'
  <1> SUFFICES ASSUME FullInv, [Next]_vars PROVE FullInv'
    OBVIOUS
  <1>0. IInv'
    BY NextIInv DEF FullInv
  <1>t. TypeOK
    BY DEF FullInv
  <1>1. CASE UNCHANGED vars
    <2>1. TypeOK'
      BY <1>1 DEF FullInv, TypeOK, vars, scopeVars
    <2>2. TodoInv' /\ Serial'
      BY <1>1 DEF FullInv, TodoInv, Serial, IsSync, vars, scopeVars
    <2>3. BoundInv'
      BY <1>1 DEF FullInv, BoundInv, IsSync, Fragment, Owner, vars, scopeVars
    <2> QED  BY <1>0, <2>1, <2>2, <2>3 DEF FullInv
  <1>2. ASSUME NEW r \in Requests, NEW o \in Owners, NEW operations \in OperationLists,
               StartQuery(r, o, operations)
        PROVE  FullInv'
    <2>1. /\ Goto(r, "idle", "ready")
          /\ found' = [found EXCEPT ![r] = o] /\ todo' = [todo EXCEPT ![r] = operations]
          /\ UNCHANGED <<scopeVars, updating, changes, bound, waiting, failed>>
      BY <1>2, Zenon DEF StartQuery
    <2>2. operations \in Seq(Operations)
      BY ListsTyped
    <2>3. OthersKept(r) /\ found' \in [Requests -> Owners] /\ todo' \in [Requests -> Seq(Operations)]
      BY <1>t, <2>1, <2>2 DEF TypeOK, OthersKept
    <2>4. TypeOK'
      BY <1>t, <2>1, <2>3, Moved DEF TypeOK, Stages, scopeVars
    <2>5. TodoInv' /\ BoundInv' /\ Serial'
      BY <2>1, <2>3, OtherKeeps DEF Stages
    <2> QED  BY <1>0, <2>4, <2>5 DEF FullInv
  <1>3. ASSUME NEW r \in Requests, NEW change \in [Owners -> Arrays \cup {Unset}],
               StartSync(r, change)
        PROVE  FullInv'
    <2>1. /\ Goto(r, "idle", "ready")
          /\ changes' = [changes EXCEPT ![r] = change]
          /\ UNCHANGED <<scopeVars, found, updating, todo, bound, waiting, failed>>
      BY <1>3 DEF StartSync
    <2>2. change \in Change
      BY UpdatesAssumption DEF Change
    <2>3. OthersKept(r) /\ changes' \in [Requests -> Change]
      BY <1>t, <2>1, <2>2 DEF TypeOK, OthersKept
    <2>4. TypeOK'
      BY <1>t, <2>1, <2>3, Moved DEF TypeOK, Stages, scopeVars
    <2>5. TodoInv' /\ BoundInv' /\ Serial'
      BY <2>1, <2>3, OtherKeeps DEF Stages
    <2> QED  BY <1>0, <2>4, <2>5 DEF FullInv
  <1>4. ASSUME NEW r \in Requests, AskForLock(r)
        PROVE  FullInv'
    <2>1. /\ Goto(r, "ready", "waiting") /\ (IsSync(r) \/ todo[r] # <<>>)
          /\ waiting' = Append(waiting, r)
          /\ UNCHANGED <<scopeVars, found, updating, todo, changes, bound, failed>>
      BY <1>4 DEF AskForLock
    <2>2. waiting' \in Seq(Requests)
      BY <1>t, <2>1 DEF TypeOK
    <2>3. OthersKept(r) /\ IsSync(r)' = IsSync(r) /\ todo'[r] = todo[r]
      BY <2>1 DEF OthersKept, IsSync
    <2>4. TypeOK'
      BY <1>t, <2>1, <2>2, Moved DEF TypeOK, Stages, scopeVars
    <2>5. TodoInv' /\ BoundInv' /\ Serial'
      BY <2>1, <2>3, OtherKeeps DEF Stages
    <2> QED  BY <1>0, <2>4, <2>5 DEF FullInv
  <1>5. ASSUME NEW r \in Requests, BindFragments(r)
        PROVE  FullInv'
    <2>1. /\ Goto(r, "waiting", "bound") /\ ~IsSync(r)
          /\ bound' = [bound EXCEPT ![r] = Fragment(r)]
          /\ UNCHANGED <<scopeVars, found, updating, todo, changes, waiting, failed>>
      BY <1>5 DEF BindFragments
    <2>2. stage[r] = "waiting"
      BY <2>1 DEF Goto
    <2>3. Fragment(r) \in Change
      BY <1>t, <2>1, <2>2, FragmentTyped DEF FullInv, TodoInv
    <2>4. /\ bound' \in [Requests -> Change] /\ bound'[r] = Fragment(r)
          /\ \A p \in Requests \ {r} : bound'[p] = bound[p]
      BY <1>t, <2>1, <2>3 DEF TypeOK
    <2>5. TypeOK'
      BY <1>t, <2>1, <2>4, Moved DEF TypeOK, Stages, scopeVars
    <2>6. TodoInv' /\ BoundInv' /\ Serial'
      BY <2>1, <2>4, BindKeeps
    <2> QED  BY <1>0, <2>5, <2>6 DEF FullInv
  <1>6. ASSUME NEW r \in Requests, Verify(r)
        PROVE  FullInv'
    <2>1. /\ Goto(r, "waiting", "bound") /\ IsSync(r)
          /\ bound' = [bound EXCEPT ![r] = changes[r]]
          /\ UNCHANGED <<scopeVars, found, updating, todo, changes, waiting, failed>>
      BY <1>6 DEF Verify
    <2>2. /\ bound' \in [Requests -> Change]
          /\ \A p \in Requests \ {r} : bound'[p] = bound[p]
      BY <1>t, <2>1 DEF TypeOK
    <2>3. TypeOK'
      BY <1>t, <2>1, <2>2, Moved DEF TypeOK, Stages, scopeVars
    <2>4. TodoInv' /\ BoundInv' /\ Serial'
      BY <2>1, <2>2, BindKeeps
    <2> QED  BY <1>0, <2>3, <2>4 DEF FullInv
  <1>7. ASSUME NEW r \in Requests, HasLock(r), Release PROVE waiting' \in Seq(Requests)
    BY <1>7, <1>t DEF TypeOK, HasLock, Release
  <1>8. ASSUME NEW r \in Requests, BindFails(r)
        PROVE  FullInv'
    <2> DEFINE left == IF r \in updating THEN Tail(todo[r]) ELSE <<>>
    <2>1. /\ Goto(r, "waiting", "ready") /\ HasLock(r) /\ Release /\ ~IsSync(r)
          /\ todo' = [todo EXCEPT ![r] = left] /\ failed' = failed \cup {r}
          /\ UNCHANGED <<scopeVars, found, updating, changes, bound>>
      BY <1>8 DEF BindFails
    <2>2. left \in Seq(Operations)
      <3>1. todo[r] # <<>> /\ todo[r] \in Seq(Operations)
        BY <2>1 DEF FullInv, TodoInv, TypeOK, Goto
      <3>2. Tail(todo[r]) \in Seq(Operations) /\ <<>> \in Seq(Operations)
        BY <3>1
      <3> QED  BY <3>2
    <2> HIDE DEF left
    <2>3. OthersKept(r) /\ todo' \in [Requests -> Seq(Operations)]
      BY <1>t, <2>1, <2>2 DEF TypeOK, OthersKept
    <2>4. TypeOK'
      BY <1>t, <1>7, <2>1, <2>3, Moved DEF TypeOK, Stages, scopeVars
    <2>5. TodoInv' /\ BoundInv' /\ Serial'
      BY <2>1, <2>3, OtherKeeps DEF Stages
    <2> QED  BY <1>0, <2>4, <2>5 DEF FullInv
  <1>9. ASSUME NEW r \in Requests, NEW from, Goto(r, from, "done"), HasLock(r), Release,
               failed' = failed \cup {r},
               UNCHANGED <<scopeVars, found, updating, todo, changes, bound>>
        PROVE  FullInv'
    <2>1. OthersKept(r)
      BY <1>9 DEF OthersKept
    <2>2. TypeOK'
      BY <1>t, <1>7, <1>9, Moved DEF TypeOK, Stages, scopeVars
    <2>3. TodoInv' /\ BoundInv' /\ Serial'
      BY <1>9, <2>1, OtherKeeps DEF Stages
    <2> QED  BY <1>0, <2>2, <2>3 DEF FullInv
  <1>10. ASSUME NEW r \in Requests, Refuse(r) \/ RemoteFails(r)
         PROVE  FullInv'
    <2>1. CASE Refuse(r)
      BY <1>9, <2>1 DEF Refuse
    <2>2. CASE RemoteFails(r)
      <3>1. /\ Goto(r, "bound", "done") /\ Release /\ failed' = failed \cup {r}
            /\ UNCHANGED <<scopeVars, found, updating, todo, changes, bound>>
        BY <2>2 DEF RemoteFails
      <3>2. HasLock(r)
        BY <3>1 DEF FullInv, IInv, LockInv, Goto
      <3> QED  BY <1>9, <3>1, <3>2
    <2> QED  BY <1>10, <2>1, <2>2
  <1>11. ASSUME NEW r \in Requests, Goto(r, "bound", "ready"), ApplyBound(r),
                NEW list \in Seq(Operations), todo' = [todo EXCEPT ![r] = list],
                changes' = changes \/ changes' = [changes EXCEPT ![r] = Nothing],
                bound' = [bound EXCEPT ![r] = Nothing], Release, UNCHANGED found,
                updating' \subseteq Requests
         PROVE  FullInv'
    <2>1. stage[r] = "bound" /\ HasLock(r)
      BY <1>11 DEF FullInv, IInv, LockInv, Goto
    <2>2. Nothing \in Change
      BY DEF Nothing, Change
    <2>3. /\ OthersKept(r) /\ todo' \in [Requests -> Seq(Operations)]
          /\ changes' \in [Requests -> Change] /\ bound' \in [Requests -> Change]
      BY <1>t, <1>11, <2>2 DEF TypeOK, OthersKept
    <2>4. /\ attached' \in BOOLEAN /\ items' \in [Owners -> Seq(Items)]
          /\ failed' \subseteq Requests /\ due' \in [Owners -> SUBSET Items]
      BY <1>11, <2>1, ApplyDue DEF FullInv
    <2>5. stage' \in [Requests -> Stages] /\ waiting' \in Seq(Requests) /\ found' \in [Requests -> Owners]
      BY <1>t, <1>7, <1>11, <2>1, Moved DEF TypeOK, Stages
    <2>6. TypeOK'
      BY <1>11, <2>3, <2>4, <2>5 DEF TypeOK
    <2>7. TodoInv' /\ BoundInv' /\ Serial'
      BY <1>11, <2>3, WriteKeeps
    <2> QED  BY <1>0, <2>6, <2>7 DEF FullInv
  <1>12. ASSUME NEW r \in Requests, ApplyOperation(r)
         PROVE  FullInv'
    <2>1. /\ Goto(r, "bound", "ready") /\ ~IsSync(r) /\ ApplyBound(r) /\ Release
          /\ todo' = [todo EXCEPT ![r] = Tail(todo[r])]
          /\ bound' = [bound EXCEPT ![r] = Nothing] /\ UNCHANGED <<found, updating, changes>>
      BY <1>12, Zenon DEF ApplyOperation
    <2>2. todo[r] # <<>> /\ todo[r] \in Seq(Operations)
      BY <2>1 DEF FullInv, TodoInv, TypeOK, Goto
    <2>3. Tail(todo[r]) \in Seq(Operations)
      BY <2>2
    <2>4. updating' \subseteq Requests
      BY <1>t, <2>1 DEF TypeOK
    <2> QED  BY <1>11, <2>1, <2>3, <2>4, Zenon
  <1>13. ASSUME NEW r \in Requests, NEW updates \in OperationLists, ApplySync(r, updates)
         PROVE  FullInv'
    <2>1. updates \in Seq(Operations)
      BY ListsTyped
    <2>2. /\ Goto(r, "bound", "ready") /\ ApplyBound(r) /\ Release
          /\ todo' = [todo EXCEPT ![r] = updates]
          /\ changes' = [changes EXCEPT ![r] = Nothing]
          /\ bound' = [bound EXCEPT ![r] = Nothing] /\ UNCHANGED found
          /\ updating' = updating \cup {r}
      BY <1>13, Zenon DEF ApplySync
    <2>3. updating' \subseteq Requests
      BY <1>t, <2>2 DEF TypeOK
    <2> QED  BY <1>11, <2>1, <2>2, <2>3, Zenon
  <1>14. ASSUME NEW r \in Requests, Answer(r)
         PROVE  FullInv'
    <2>1. /\ Goto(r, "ready", "done")
          /\ UNCHANGED <<scopeVars, found, updating, todo, changes, bound, waiting, failed>>
      BY <1>14 DEF Answer
    <2>2. OthersKept(r)
      BY <2>1 DEF OthersKept
    <2>3. TypeOK'
      BY <1>t, <2>1, Moved DEF TypeOK, Stages, scopeVars
    <2>4. TodoInv' /\ BoundInv' /\ Serial'
      BY <2>1, <2>2, OtherKeeps DEF Stages
    <2> QED  BY <1>0, <2>3, <2>4 DEF FullInv
  <1> QED
    BY <1>1, <1>2, <1>3, <1>4, <1>5, <1>6, <1>8, <1>10, <1>12, <1>13, <1>14
       DEF Next, Proceed

\* It holds at first.
LEMMA InitFull == Init => FullInv
  <1> SUFFICES ASSUME Init PROVE FullInv
    OBVIOUS
  <1>1. Nothing \in Change /\ Range(<<>>) = {}
    BY DEF Nothing, Change, Range
  <1>2. TypeOK
    BY <1>1 DEF Init, TypeOK, Stages, Owners
  <1>3. TodoInv /\ BoundInv
    BY DEF Init, TodoInv, BoundInv
  <1>4. Serial
    BY <1>1 DEF Init, Serial
  <1> QED  BY <1>2, <1>3, <1>4, InitIInv DEF FullInv

\* So it holds for ever.
LEMMA FullInductive == Spec => []FullInv
  <1> QED  BY InitFull, NextFull, PTL DEF Spec

\* Whatever is asked for, what requests bind and write are collections of
\* items, and who waits for the lock is a request.
THEOREM TypeCorrect == Spec => []TypeOK
  <1>1. FullInv => TypeOK
    BY DEF FullInv
  <1> QED  BY <1>1, FullInductive, PTL

\* Each collection holds what the operations, one at a time, leave in it,
\* however many queries and change sets come at the same time.
THEOREM UpdatesAreSerial == Spec => []Serial
  <1>1. FullInv => Serial
    BY DEF FullInv
  <1> QED  BY <1>1, FullInductive, PTL
=============================================================================
